CONSTANTS
  Installer <- Jobs
  Sdk = {"camd", "mmu"}
  sdkOf <- CamdAndMmu
  Script <- MCScript
  File <- MCFile
  CanFail = {}
  CanKill = FALSE
  None = None
SPECIFICATION Spec
PROPERTIES
  ObjectsStay
