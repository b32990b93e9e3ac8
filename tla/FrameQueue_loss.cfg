\* The video queue, up to and after the teardown of its transport.
SPECIFICATION FairSpec
CONSTANTS
    QueueSize = 3
    IdrBound = 4
INVARIANTS
    TypeOK
    QueueShape
    GapsRepaired
PROPERTIES
    NoFrameStranded
    SilentLossRepaired
\* After a teardown the sample_sender task may wait for ever.
CHECK_DEADLOCK FALSE
