CONSTANTS
    tv = tv  avr = avr  arc = arc
    SurroundConfig <- MCSurroundConfig
    Edid <- MCEdid
    Formats <- MCFormats
    HdmiOuts = {tv, avr}
    HdmiIns = {arc}
    Outcomes = {"ok", "openFail", "queryFail", "reopenFail"}
SPECIFICATION Spec
INVARIANT HdmiKeepsPcm
