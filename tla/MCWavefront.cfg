\* Three threads, so that one has both neighbours; three iterations, so that
\* a flag is raised, lowered and raised again; four rows, so that a step of 2
\* or 3 leaves rows for the last call.
CONSTANTS
  Kernels = {"alt_bit", "counter", "static_step", "array_of_promises", "promise_of_array", "lu"}
  N = 3
  ITERATIONS = 4
  DIM = 4
  Steps = {1, 2, 3}
SPECIFICATION FairSpec
INVARIANT SignalsMeanWork
PROPERTIES ComputesInOrder ImplementsStencil
\* The parallel region ends.
CHECK_DEADLOCK FALSE
