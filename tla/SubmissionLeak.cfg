\* vkQueueSubmit may fail; batches only.
SPECIFICATION Spec
CONSTANTS
  CommandBuffers = {c1, c2}
  Sets = {s1}
  Handles = {h1, h2}
  Fences = {f1}
  Batches = {b1}
  k1 = k1
  k2 = k2
  Keys = {k1}
  Dispatches = {}
  Faults = {"submit"}
  Null = Null
INVARIANTS BatchReleases
