CONSTANTS
  ann = ann
  bob = bob
  plus = plus
  bare = bare
  Users = {ann, bob}
  Numbers = {plus, bare}
  Codes = {c1}
  Bare <- MCBare
  Requests = {r1, r2}
  Registered <- MCRegistered
  Window = 1
  MaxEntries = 1
  MaxTime = 2
  None = None

SPECIFICATION Spec
PROPERTY SendsOnlyToNewNumbers
CHECK_DEADLOCK FALSE
