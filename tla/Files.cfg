SPECIFICATION Spec
CONSTANTS
  Thread = {t1, t2}
  Name = {1, 2, 3}
  Wild = star
  WildMatches = {1, 2}
  Wide = {1}
  NoText = none
  Lib = {self, other}
  Self = self
  null = null
  MaxFd = 4
  MaxIno = 8
  MinInt <- MCMinInt
  MaxInt = 3
  Rand = {0}
  Uses <- MCUses
SYMMETRY Threads
INVARIANTS TypeOK DescriptorsHaveOneHolder UndisturbedCallsWork LibrariesMatchHandles
PROPERTIES SearchesAreExact
CHECK_DEADLOCK FALSE
