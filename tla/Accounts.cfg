SPECIFICATION Spec
CONSTANTS
  UserIds = {u1, u2, u3}
  Tokens = {t1, t2}
  Codes = {c1, c2, c3}
  TheBootstrapCode = TheBootstrapCode
  Handlers = {h1, h2}
  MaxWrites = 4
SYMMETRY Alike
INVARIANTS
  NoSignInOutlivesItsCredential
  OneCodeEnrolsOnce
  NothingOutlivesItsUser
PROPERTIES
  AnAdministratorRemains
  TheCodeMakesTheFirst
