CONSTANTS
    MaxPorts = 3
    NumSessions = 3
    STSessions = {1, 2, 3}
    u1 = u1
    u2 = u2
    Uids <- MCUids
    primary = primary
    usb = usb
    PrimaryModule = primary
    NoModule = NoModule
    micProfile = micProfile
    st1Profile = st1Profile
    st2Profile = st2Profile
    st3Profile = st3Profile
    Modules <- MCModules
    Profiles <- MCProfiles
    ProfileModule <- MCProfileModule
    MaxOpenCount <- MCMaxOpenCount
    MaxActiveCount <- MCMaxActiveCount
    CaptureProfile = micProfile
    HotwordProfile = micProfile
    STProfile <- MCSTProfile
    STConcurrentCapture = TRUE
    AllocOutcomes = {TRUE, FALSE}
    MicSessions = {1}

SPECIFICATION Spec

PROPERTY SoundTriggerCapturesCoexist
