SPECIFICATION Spec
CONSTANTS
  n1 = n1
  Call = {c1, c2}
  Name = {n1}
  Limit = {1, 2}
  NoCap = NoCap
  Plans <- SomePlans
INVARIANTS
  CountIsHonest
