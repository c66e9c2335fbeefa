SPECIFICATION CacheSpec
CONSTANTS
  s1 = s1
  s2 = s2
  s3 = s3
  NoStack = NoStack
  Stacks = {s1, s2, s3}
  Capacity = 2
  PagesOf <- TwoSizes
INVARIANTS OneHolder
