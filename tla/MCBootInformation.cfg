SPECIFICATION Spec
CONSTANTS
  Maps <- MCMaps
  SectionLists <- MCSectionLists
  ModuleLists <- MCModuleLists
  TextSizes <- MCTextSizes
  BOOT_CMD_MAX_CHARS = 4
  BOOTLOADER_NAME_MAX_CHARS = 3
  MAX_LOADABLE_MODULES = 1
  MAX_MEM_REGIONS = 5
INVARIANTS
  TypeOK
  CopiesFit
  RegionIsFree
CHECK_DEADLOCK FALSE
