\* Transports that are replaced and fail, streams and stops; jams excepted.
SPECIFICATION FairSpec
CONSTANTS
    Capacity = 1
    MaxMessages = 3
INVARIANTS
    TypeOK
PROPERTIES
    StopReported
    TimeoutEnds
    ReplacedLoopsEnd
    KeepsProcess
\* The session ends when the process exits.
CHECK_DEADLOCK FALSE
