SPECIFICATION FairSpec
CONSTANTS
  k = k
  r = r
  p1 = p1
  s1 = s1
  t1 = t1
  t2 = t2
  None = None
  NoRoot = NoRoot
  KernelRoot = r
  Roots = {r}
  CPUs = {0, 1}
  Tasks = {t1, t2}
  Pages = {p1, s1}
  RootOf <- MixedPages
  PagesOf <- OneEach
  GenMax = 1
  MayTimeOut = TRUE
PROPERTY RequestsEnd
