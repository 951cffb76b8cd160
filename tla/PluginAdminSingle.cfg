CONSTANTS
  p1 = p1
  p2 = p2
  j1 = j1
  j2 = j2
  k1 = k1
  otp = otp
  sms = sms
  Plugins = {p1, p2}
  Jars = {j1, j2, k1}
  Acrs = {otp, sms}
  Admins = {a1}
  JarId <- MCJarId
  JarAcrs <- MCJarAcrs
  SystemAcrs = {sms}
  ServerAcrs = {otp, sms}
  System = System
  Unmapped = Unmapped
  None = None
  DuplicateIdsLoad = TRUE
  InitialConfigs <- MCInitialConfigs

SPECIFICATION Spec
PROPERTIES
  StopsAreRecorded
  StartupEnds
