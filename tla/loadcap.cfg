SPECIFICATION FairSpec
CONSTANTS
  n1 = n1
  n2 = n2
  n3 = n3
  n4 = n4
  n5 = n5
  Name = {n1, n2, n3, n4, n5}
  LIMIT = 9
  SLOTS = 2
  Regular = {n1}
INVARIANTS LoadsBounded IdleAdmits
PROPERTY DeferredServed
