CONSTANTS
    p1 = p1  p2 = p2  mR1 = mR1  mP1 = mP1  mR2 = mR2  mC2 = mC2
    a1 = a1  a2 = a2  btAddr = btAddr  spkAddr = spkAddr  bt = bt  spk = spk
    o1 = o1  o2 = o2
    NoSink = NoSink  NoMix = NoMix  NoOutput = NoOutput  SubmixOutput = SubmixOutput
    Policies = {p1, p2}
    Mixes = {mR1, mP1, mR2, mC2}
    Addresses = {a1, a2, btAddr, spkAddr}
    Devices = {bt, spk}
    Outputs = {o1, o2}
    MixesOf <- MCMixesOf
    Route <- MCRoute
    MixType <- MCMixType
    Address <- MCAddress
    RenderDevice <- MCRenderDevice
    OutputOrder <- MCOutputOrder
    PatchSink <- MCPatchSink
    HasSubmixModule = TRUE
SPECIFICATION Spec
INVARIANT RegisteredMixesKept
