\* An ICE restart after the connection was up.
SPECIFICATION Spec
CONSTANTS
    Attempts = 1
    MaxTracks = 0
    MaxRestarts = 1
PROPERTIES
    RestartNegotiates
\* When the exchange is over, both sides wait for the network.
CHECK_DEADLOCK FALSE
