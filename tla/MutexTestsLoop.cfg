SPECIFICATION Spec
INVARIANT LoopWaitsForWorker
CHECK_DEADLOCK FALSE
