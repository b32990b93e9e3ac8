\* Every decoder; it falls behind at three units, and a media source gives up at the third drop.
SPECIFICATION PlayerSpec
CONSTANTS
    Browsers = {{"VideoDecoder", "2d", "avc3"}, {"VideoDecoder", "2d"}, 
        {"VideoDecoder", "Worker", "VideoTrackGenerator", "avc3"}, {"MediaSource"}, {"WebAssembly", "2d"}}
    MaxBacklog = 2
    MaxDrops = 2
    MaxUnits = 5
    Stamps = 3
INVARIANTS
    Decodable
PROPERTIES
    PictureReturns
