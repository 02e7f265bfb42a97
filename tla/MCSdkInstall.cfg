CONSTANTS
  Installer <- Jobs
  Sdk = {"cgx", "sdi"}
  sdkOf <- CgxAndSdi
  Script <- MCScript
  File <- MCFile
  CanFail = {"fetch", "unpack", "convert", "ar"}
  CanKill = TRUE
  None = None
SPECIFICATION RetrySpec
INVARIANTS
  TypeOK
  SuccessMeansInstalled
PROPERTIES
  RetryInstalls
