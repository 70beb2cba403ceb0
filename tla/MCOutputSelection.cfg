CONSTANTS
    spk = spk  hdmi = hdmi  s1 = s1  s2 = s2  NoSession = NoSession
    Profiles <- MCProfiles
    InitOpen <- MCInitOpen
    Sessions = {s1, s2}
    Devices = {spk, hdmi}
    Requests <- MCRequests
    MaxOutputs = 4
    MaxPorts = 3
    OpenOutcomes = {TRUE, FALSE}
SPECIFICATION Spec
INVARIANTS TypeOK DirectCountMatchesClients
PROPERTIES ClosedOnlyWhenUnused DirectStreamsRefined
