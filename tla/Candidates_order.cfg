\* A candidate of each end that is relayed and one that is not, two descriptions, a
\* buffer of two, and one suppression.
SPECIFICATION CandidatesSpec
CONSTANTS
    h1 = h1
    r1 = r1
    fs = fs
    fr = fr
    d1 = d1
    d2 = d2
    Hosts = {h1}
    Srflxs = {}
    Relays = {r1}
    FarHosts = {}
    FarSrflxs = {fs}
    FarRelays = {fr}
    Descriptions = {d1, d2}
    NoCandidate = NoCandidate
    MaxHostCandidatesBeforeSrflx = 1
    MaxLocalIceCandidates = 2
    MaxDelayedRelayCandidates = 1
    MaxBufferedRemoteCandidates = 2
    PoorRelaySamplesRequired = 1
    MaxSuppressions = 1
    MaxTroubles = 1
INVARIANTS
    Conserved
PROPERTIES
    WaitingEnds
CHECK_DEADLOCK FALSE
