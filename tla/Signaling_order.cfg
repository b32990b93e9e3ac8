\* Two attempts, both tracks, one ICE restart, failing calls.
SPECIFICATION FairSpec
CONSTANTS
    Attempts = 2
    MaxTracks = 2
    MaxRestarts = 1
INVARIANTS
    TypeOK
    FlagReleased
    NoHalfOpen
PROPERTIES
    ComesToRest
\* When the exchange is over, both sides wait for the network.
CHECK_DEADLOCK FALSE
