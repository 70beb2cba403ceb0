CONSTANTS
    o1 = o1  o2 = o2  mic = mic  spk = spk  hs = hs  usb = usb
    a1 = a1  a2 = a2  system = system  fm = fm
    NONE = NONE
    Outputs = {o1, o2}
    OutputSeq <- MCOutputSeq
    Bridges = {mic}
    Devices = {spk, hs, usb}
    Supported <- MCSupported
    InitDevice <- MCInitDevice
    RouteChoices <- MCRouteChoices
    Apps = {a1}
    SystemUid = system
    MaxHandles = 4
    TransportOutcomes = {TRUE}
    SourceDevices = {fm}
    MaxSources = 2
    MaxActiveCount = 1
SPECIFICATION Spec
INVARIANTS TypeOK OnePatchPerOutput ClearReleasesAll SourcePlaybackAccounted
PROPERTY AppPatchHonored
