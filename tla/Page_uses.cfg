\* A mouse; three fingers, and a second tap while the first one waits; a pad beside the
\* virtual one; or one of the other parts of the page.
SPECIFICATION Spec
CONSTANTS
    Fingers = {f1, f2, f3}
    MaxTaps = 2
    Pads = {p1}
    FirstPad = p1
    MaxSlots = 2
    MaxQueue = 2
    Uses = {{"mouse"}, {"touch"}, {"pads"}, {"buttons"}, {"keys"}, {"escape"}, {"modals"}, {"hosts"},
            {"bitrate"}, {"canvas"}, {"video"}}
    Pointers = {"mouse", "finger"}
    MaxTimers = 2
    MaxFlickers = 2
    MaxModals = 3
    Rates = {1, 2, 3}
    Tiers = {2, 3}
    Frames = {v1, v2, v3}
    Sizes = {1, 2}
    Tracks = {t1, t2}
INVARIANTS
    TypeOK
    LockAgrees
    DragHolds
    ControllersAgree
    PressesToggleOnce
    WidgetsAgree
    ModalsAgree
    BitrateAgrees
    RenderersAgree
\* MaxModals ends the behaviours of the modals.
CHECK_DEADLOCK FALSE
