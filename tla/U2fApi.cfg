SPECIFICATION Spec
CONSTANTS
  r1 = r1
  r2 = r2
  s1 = s1
  Calls <- MCCalls
  SignCalls <- MCSignCalls
  Codes <- MCCodes
  NoCall = NoCall
  MaxStray = 1
INVARIANTS
  TypeOK
  OnePlace
  AnswersFindTheirCall
  WaitingIsServed
PROPERTIES
  ImplementsCalls
  AskedIsAnswered
CHECK_DEADLOCK FALSE
