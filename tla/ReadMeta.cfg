SPECIFICATION Spec
CONSTANTS
  None = None
  MIB = 4
  UINT32 = 64
  KDF_M_KIB_MAX = 32
  KDF_T_MAX = 2
  KDF_P_MAX = 2
  Available = {"SHA_256", "Streebog_256"}
  Profiles <- MCProfiles
  Args <- MCArgs
  GuiParams <- MCGuiParams
  Sizes = {8, 12}
  MINIMAL_CONTAINER_SIZE = 10
  MEMORY = 16
  Damages <- MCDamages
INVARIANTS FirstWholeSlotOpens RefusalExplained OptionsHonoured
CHECK_DEADLOCK FALSE
