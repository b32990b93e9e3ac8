\* The two codes of one modifier and the paste key.
SPECIFICATION FairSpec
CONSTANTS
    Left = Left
    Right = Right
    V = V
    Keys <- MCKeys
    Modifiers <- MCModifiers
    Chord <- MCModifiers
    Paste = V
    Buttons <- MCButtons
    StickKeys <- MCStickKeys
    MaxEvents = 4
    MaxPackets = 1
INVARIANTS
    TypeOK
    HostKeysAreTracked
    EveryReleaseIsUnderWay
PROPERTIES
    NoGhostKeys
\* When the user is done and the channel is full or closed, nothing may go on.
CHECK_DEADLOCK FALSE
