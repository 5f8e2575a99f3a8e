\* A shrink and a refusal leave their charge on the counter.
CONSTANTS
  Blocks = {b1, b2, b3}
  Sizes = {1, 2, 4, 7}
  Tags = {0, 5}
  Limit = 9
  HeapMayFail = FALSE
  SizeModulus = 32
SPECIFICATION Spec
SYMMETRY BlockSymmetry
INVARIANTS FittingRequestIsAllowed
