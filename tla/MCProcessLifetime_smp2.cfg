SPECIFICATION Spec
CONSTANTS
  r1 = r1
  r2 = r2
  f1 = f1
  f2 = f2
  t1 = t1
  t2 = t2
  k1 = k1
  k2 = k2
  a1 = a1
  KernelRoot = KernelRoot
  None = None
  NumCPUs = 2
  Threads = {t1, t2}
  Callers = {k1, k2}
  Roots = {r1, r2}
  Frames = {f1, f2}
  Addresses = {a1}
  ProcessSlots = 2
  MaxPid = 2
SYMMETRY Symmetry
INVARIANTS LoadedRootsLive HoldersAreCounted ChangesKeepTheirSpace ThreadsRunInTheirSpace FreeFramesAreUnused
