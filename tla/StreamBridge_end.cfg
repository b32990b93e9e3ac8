\* Queues of two messages, four messages of the browser after Init.
SPECIFICATION FairSpec
CONSTANTS
    Room = 2
    MaxMessages = 4
PROPERTIES
    KeepsLifecycle
    NoOrphanedStreamer
\* The session ends.
CHECK_DEADLOCK FALSE
