SPECIFICATION Spec
CONSTANTS
  w1 = w1
  w2 = w2
  Windows <- MCWindows
  Calls = {1, 2, 3}
  CallsOf <- MCCallsOf
  OldKeys = {}
  Codes = {"OK", "ERROR"}
  Null = Null
  Blank = Blank
  MaxTrouble = 1
  MaxSkew = 1
INVARIANTS
  TypeOK
  OfferedIsNewest
  RefusedOnlyWhenDisturbed
PROPERTIES
  OnlyOfferedIsRemoved
  ForgottenOnlyWhen
  AwaitingEnds
CHECK_DEADLOCK FALSE
