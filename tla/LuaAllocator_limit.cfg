\* Three blocks that together can exceed the limit; the counter can overflow.
CONSTANTS
  Blocks = {b1, b2, b3}
  Sizes = {1, 2, 4, 7}
  Tags = {0, 5}
  Limit = 9
  HeapMayFail = TRUE
  SizeModulus = 32
SPECIFICATION Spec
SYMMETRY BlockSymmetry
INVARIANTS TypeOK LimitHolds AccountedExactly
