SPECIFICATION Spec
CONSTANTS
  Capacities = {3145728, 4194552, 4194560, 4194680, 4194688, 6291456, 33554432, 67108864}
INVARIANTS
  PassTells
  DrainedBetween
