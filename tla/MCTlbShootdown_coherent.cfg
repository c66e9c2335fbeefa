SPECIFICATION Spec
CONSTANTS
  k = k
  r = r
  p1 = p1
  s1 = s1
  t1 = t1
  t2 = t2
  None = None
  NoRoot = NoRoot
  KernelRoot = k
  Roots = {k, r}
  CPUs = {0, 1, 2}
  Tasks = {t1}
  Pages = {p1, s1}
  RootOf <- MixedPages
  PagesOf <- AnyPage
  GenMax = 2
  MayTimeOut = FALSE
INVARIANTS IpisBelongToTheRequest
PROPERTY CompletesCoherent
