\* Every Vulkan call may fail, the device may be lost; two fences, one batch.
\* One instance for safety, refinement and liveness: no symmetry.
SPECIFICATION FairSpec
CONSTANTS
  CommandBuffers = {c1, c2}
  Sets = {s1, s2}
  Handles = {h1, h2}
  Fences = {f1, f2}
  Batches = {b1}
  k1 = k1
  k2 = k2
  Keys = {k1, k2}
  Dispatches <- MCDispatches
  Faults = {"begin", "record", "submit", "lost"}
  Null = Null
INVARIANTS InFlightIntact SoleOwner RecordedIntact SetsAccounted
PROPERTIES LeaksOnlyOnThrow HookOnCompletion RecyclesSafely CallsReturn
