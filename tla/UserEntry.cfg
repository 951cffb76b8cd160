SPECIFICATION Spec
CONSTANTS
  Sessions = {s1, s2}
  Admin = admin
  Methods = {sms, otp}
  Placeholder = sms
  Policies = {everyLogin, newDevice}
  EveryLogin = everyLogin
  Devices = {d1, d2}
  Null = null
  MaxWrites = 2
  MaxFaults = 1
SYMMETRY Symmetry
INVARIANTS TypeOK PagesAgree
PROPERTIES DevicesChangeOnlyBy
