CONSTANTS
  NumConventional = 3
  Inventories <- MCInventories
  MaxRegions = 2
  MaxPages = 5
  MinGeneral = 3
  MaxCount = 3
  Constraints <- MCConstraints
SPECIFICATION Spec
INVARIANTS CountsPagesOut FrontierIsHighWater LastIsOut
PROPERTIES TestFailsForRoomOnly ImplementsPageAllocator
