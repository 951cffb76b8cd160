CONSTANTS
  Firings = 3
  Default = credmanager
  otp = otp
  Null = Null
  Answers <- MCAnswers

SPECIFICATION Spec
INVARIANTS
  TypeOK
  NoScanWhileOperating
  MissingAcrIsMissingUnlessSlow
  AttemptsAreUsed
PROPERTIES
  OutcomeIsFinal
  StartupDecides
  SweeperIsScheduled
\* The timer stops after its last firing.
CHECK_DEADLOCK FALSE
