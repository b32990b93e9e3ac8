\* Two streams: one restart. Every setting of the transport.
SPECIFICATION FairSpec
CONSTANTS
    MaxStreams = 2
    Settings = {"auto", "webrtc", "websocket"}
INVARIANTS
    EveryEndIsHeard
PROPERTIES
    LoadingEnds
\* The page is left alone.
CHECK_DEADLOCK FALSE
