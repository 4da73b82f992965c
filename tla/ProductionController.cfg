SPECIFICATION FairSpec
INVARIANT TypeOK
INVARIANT LockCoversWork
INVARIANT PhaseIsLedgered
INVARIANT UndisturbedRunEndsClean
PROPERTY GivenBackDormant
PROPERTY SweepSucceedsWhenFit
PROPERTY RunEnds
