CONSTANTS
    primary = primary
    deep = deep
    usbOut = usbOut
    spk = spk
    hs = hs
    usb = usb
    modPrimary = modPrimary
    modUsb = modUsb
    ring = ring
    tts = tts
    music = music
    music2 = music2
    Outputs = {primary, deep, usbOut}
    OutputOrder <- MCOutputOrder
    PrimaryOutputs = {primary, deep}
    PrimaryOutput = primary
    Duplicated = {usbOut}
    Devices = {spk, hs, usb}
    FixedDevices = {spk}
    Supported <- MCSupported
    InitDevice <- MCInitDevice
    OutputModule <- MCOutputModule
    Clients = {ring, tts, music, music2}
    ClientOutput <- MCClientOutput
    ClientStream <- MCClientStream
    EnginePriority <- MCEnginePriority
    ForceChoices <- MCForceChoices
    TtsOutputAvailable = FALSE
    MaxCount = 3
SPECIFICATION Spec
INVARIANT
    BeaconAudibleWhenAlone
