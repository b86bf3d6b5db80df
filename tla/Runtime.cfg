SPECIFICATION Spec
CONSTANTS
  Handles = {h1, h2}
  Kernels = {k1}
  Sets = {s1, s2, s3}
  PoolSize = 2
  MaxPools = 2
  MaxGen = 2
  MaxBatch = 2
  None = None
INVARIANTS TransfersCurrent BindsWhatWasAsked SetsAccountedFor
SYMMETRY MCSymmetry
