CONSTANTS
  Firings = 3
  Default = credmanager
  otp = otp
  Null = Null
  Answers <- MCAnswers

SPECIFICATION Spec
INVARIANT MissingAcrIsMissing
CHECK_DEADLOCK FALSE
