----------------------------- MODULE MCAccounts -----------------------------
(***************************************************************************)
(* Instances of Accounts small enough for TLC.                             *)
(***************************************************************************)
EXTENDS Accounts, TLC

\* Ids, tokens, codes and handlers are alike, each among its own.
Alike ==
  Permutations(UserIds) \cup Permutations(Tokens) \cup Permutations(Codes)
    \cup Permutations(Handlers)
=============================================================================
