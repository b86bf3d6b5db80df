\* vkWaitForFences may fail before the fence is signaled.
SPECIFICATION Spec
CONSTANTS
  CommandBuffers = {c1}
  Sets = {s1}
  Handles = {h1, h2}
  Fences = {f1}
  Batches = {b1}
  k1 = k1
  k2 = k2
  Keys = {k1}
  Dispatches = {}
  Faults = {"drain"}
  Null = Null
PROPERTIES HookOnCompletion
