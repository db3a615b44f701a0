CONSTANTS
  Vms = {v1, v2}
  Profiles <- MCProfiles
  PowerStates = {"running", "stopped"}
  MaxInventory = 1
  None = None
SPECIFICATION FairSpec
INVARIANTS
  PerVmSeriesAgree
PROPERTIES
  UpdateIsExact
  InventoryConverges
