\* Up to two signals: the second may interrupt the handler itself.
\* max_rows 3 with batch_size 1 (a flush every sample), 2 (one flush at
\* step 2 and a remainder of one row) and 4 (above max_rows, like the
\* default 1000: only the remainder write); the command may end at any time.
CONSTANTS
  MaxRows = 3
  BatchSizes = {1, 2, 4}
  MaxSignals = 2
SPECIFICATION Spec
PROPERTY SamplerRefined
INVARIANT SupervisedChildNeverOutlivesMonitor
PROPERTY MonitorTerminates
\* The process exits: no step follows pc = "exit".
CHECK_DEADLOCK FALSE
