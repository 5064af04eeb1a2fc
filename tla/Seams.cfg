SPECIFICATION Spec
CONSTANTS
  Names = {n1, n2}
  Audiences <- SomeOrNobody
  Nobody <- None
  MaxReports = 2
ACTION_CONSTRAINT EitherWay
CHECK_DEADLOCK FALSE
INVARIANTS
  AGoneSocketIsOffTheAir
  TheServersEndIsKnown
PROPERTY NothingIsServedUncarried
