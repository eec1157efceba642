SPECIFICATION FreshSpec
CONSTANTS
  Append1 = {a1, a2, a3}
  Accept = {c1, c2}
  Package = {k1, k2}
SYMMETRY Symmetry
INVARIANTS
  ActsOnce
  ActedInWitnessOrder
  WitnessedStays
  NeverCutOff
PROPERTIES
  NeverBackwards
CHECK_DEADLOCK FALSE
