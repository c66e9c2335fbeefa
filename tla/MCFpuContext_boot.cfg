CONSTANTS
  NumCPUs = 2
  NumFpuSlots = 4
  NumDynamic = 2
  MaxId = 4
SPECIFICATION Spec
INVARIANT
  BootKeepsRegisters
