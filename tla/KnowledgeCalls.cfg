\* KnowledgeCalls
SPECIFICATION Spec
CONSTANTS
  Keys = {k1, k2, k3}
  MaxCalls = 6
  MaxForgets = 1
  MaxCuts = 2
SYMMETRY KeySymmetry
INVARIANTS
  PromiseKept
  OneLinePerKey
