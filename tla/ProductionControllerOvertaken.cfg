SPECIFICATION Spec
INVARIANT UndisturbedRunPasses
