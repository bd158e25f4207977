\* max_rows 3 with batch_size 2: one full-batch flush at step 2 and a
\* remainder of one row; the command may end before, between or after.
CONSTANTS
  MaxRows = 3
  BatchSizes = {2}
  MaxSignals = 0
SPECIFICATION Spec
INVARIANT SamplesFromLiveChild
\* The process exits: no step follows pc = "exit".
CHECK_DEADLOCK FALSE
