-------------------------- MODULE SurroundFormats --------------------------
(***************************************************************************)
(* The encoded-surround format state of AudioPolicyManager.                *)
(*                                                                         *)
(* mSurroundFormats is the set of surround formats the policy treats as    *)
(* enabled.  HDMI output devices carry the formats their dynamic profile   *)
(* reported when they were connected, after filterSurroundFormats has      *)
(* rewritten that list according to the ENCODED_SURROUND force use; in     *)
(* the non-MANUAL modes the filter also rewrites mSurroundFormats.         *)
(* setSurroundFormatEnabled changes mSurroundFormats in MANUAL mode and    *)
(* applies it by disconnecting and reconnecting every HDMI device, and     *)
(* undoes the change when no reconnection succeeded.                       *)
(***************************************************************************)
EXTENDS FiniteSets, TLC

CONSTANTS
    SurroundConfig,  \* mConfig.getSurroundFormats(): surround format -> its sub-formats
    HdmiOuts,        \* AUDIO_DEVICE_OUT_HDMI devices (by address)
    HdmiIns,         \* AUDIO_DEVICE_IN_HDMI devices (by address)
    Edid,            \* HdmiOuts -> formats the HAL reports for the device
    Formats,         \* formats a caller passes to setSurroundFormatEnabled
    Outcomes         \* how the HAL answers a connection (see ConnectHdmiOut)

(* Formats the filter names in its code.                                   *)
AC3 == "AC3"
EAC3 == "E_AC3"
DTS == "DTS"
DTSHD == "DTS_HD"
IEC61937 == "IEC61937"
RawSurround == {EAC3, DTS, DTSHD}
SurroundRelated == {AC3, IEC61937} \cup RawSurround

ForceModes == {"NONE", "NEVER", "ALWAYS", "MANUAL"}  \* ENCODED_SURROUND force use
Statuses == {"NO_ERROR", "BAD_VALUE", "INVALID_OPERATION"}

VARIABLES
    forceUse,          \* mEngine->getForceUse(AUDIO_POLICY_FORCE_FOR_ENCODED_SURROUND)
    surroundFormats,   \* mSurroundFormats
    outDevs,           \* available HDMI output devices -> formats of their profiles
    inDevs,            \* available HDMI input devices
    lastCall           \* history: the last setSurroundFormatEnabled call and its result

vars == <<forceUse, surroundFormats, outDevs, inDevs, lastCall>>

Keys == DOMAIN SurroundConfig

-----------------------------------------------------------------------------
(* Mutant of FilterSurroundFormats: every reported format is added to     *)
(* mSurroundFormats, without the check against the surround configuration. *)
FilterSurroundFormatsAddsAll(formats, mode, sf) ==
    IF mode = "MANUAL" THEN [formats |-> sf \cup {IEC61937}, sf |-> sf]
    ELSE IF mode = "NEVER" THEN [formats |-> formats \ SurroundRelated, sf |-> {}]
    ELSE LET out == formats \cup {AC3, IEC61937} \cup
                    (IF mode = "ALWAYS" THEN RawSurround ELSE {})
         IN  [formats |-> out, sf |-> out]

(* filterSurroundFormats(formats): the formats an HDMI profile keeps and   *)
(* the new mSurroundFormats.  alwaysForceAC3 is the constant true, so the  *)
(* AUTO and ALWAYS branches always add AC3 and, with it, IEC61937.         *)
FilterSurroundFormats(formats, mode, sf) ==
    IF mode = "MANUAL"
    THEN [formats |-> sf \cup {IEC61937}, sf |-> sf]
    ELSE IF mode = "NEVER"
    THEN [formats |-> formats \ SurroundRelated, sf |-> {}]
    ELSE LET kept  == IF mode = "ALWAYS" THEN formats \ RawSurround ELSE formats
             added == IF mode = "ALWAYS" THEN RawSurround ELSE {}
             out   == kept \cup {AC3} \cup added \cup {IEC61937}
         IN  [formats |-> out, sf |-> out \cap Keys]

(* updateAudioProfiles for an HDMI output: the HAL's format list, when the *)
(* query answers, goes through filterSurroundFormats into the profile.     *)
UpdateAudioProfiles(W, d) ==
    LET r == FilterSurroundFormats(Edid[d], W.forceUse, W.sf)
    IN  [W EXCEPT !.sf = r.sf, !.profile = r.formats]

(* setDeviceConnectionStateInt(OUT_HDMI, AVAILABLE) with checkOutputsFor- *)
(* Device: the direct HDMI profile is opened to query its formats, and the *)
(* device imports them.  "openFail": the first open fails; "queryFail":    *)
(* the format query fails before the filter; "reopenFail": the filter ran  *)
(* but reopening with the picked config fails.  Every failure removes the  *)
(* device again and returns INVALID_OPERATION.                             *)
ConnectHdmiOut(W, d, outcome) ==
    LET W1 == IF outcome \in {"ok", "reopenFail"} THEN UpdateAudioProfiles(W, d) ELSE W
    IN  IF outcome = "ok"
        THEN [W1 EXCEPT !.outs = W1.outs @@ (d :> W1.profile), !.ok = TRUE]
        ELSE [W1 EXCEPT !.ok = FALSE]

(* setDeviceConnectionStateInt(OUT_HDMI, UNAVAILABLE): the device leaves   *)
(* the available devices; its profiles are cleared.                        *)
DisconnectHdmiOut(W, d) ==
    [W EXCEPT !.outs = [x \in DOMAIN W.outs \ {d} |-> W.outs[x]]]

(* The input side: checkInputsForDevice either opens the HDMI input        *)
(* profile or fails, and the device is added only on success.              *)
ConnectHdmiIn(W, d, outcome) ==
    IF outcome = "ok" THEN [W EXCEPT !.ins = W.ins \cup {d}, !.ok = TRUE]
    ELSE [W EXCEPT !.ok = FALSE]

DisconnectHdmiIn(W, d) == [W EXCEPT !.ins = W.ins \ {d}]

Cur == [forceUse |-> forceUse, sf |-> surroundFormats, outs |-> outDevs, ins |-> inDevs,
        profile |-> {}, ok |-> FALSE, updated |-> FALSE]

(* The reconnection loops of setSurroundFormatEnabled: each device in turn *)
(* is disconnected, which succeeds as it is available, and reconnected;    *)
(* profileUpdated records whether any reconnection succeeded.  The order   *)
(* does not matter: in MANUAL mode a connection leaves mSurroundFormats.   *)
RECURSIVE ReconnectOuts(_, _, _)
ReconnectOuts(W, ds, oc) ==
    IF ds = {} THEN W
    ELSE LET d  == CHOOSE x \in ds : TRUE
             W1 == ConnectHdmiOut(DisconnectHdmiOut(W, d), d, oc[d])
         IN  ReconnectOuts([W1 EXCEPT !.updated = W.updated \/ W1.ok], ds \ {d}, oc)

RECURSIVE ReconnectIns(_, _, _)
ReconnectIns(W, ds, oc) ==
    IF ds = {} THEN W
    ELSE LET d  == CHOOSE x \in ds : TRUE
             W1 == ConnectHdmiIn(DisconnectHdmiIn(W, d), d, oc[d])
         IN  ReconnectIns([W1 EXCEPT !.updated = W.updated \/ W1.ok], ds \ {d}, oc)

(* Mutant of ApplySurroundChange: the change is kept when no device was    *)
(* reconnected.                                                            *)
ApplySurroundChangeNoRollback(W, f, enabled, oc, ic) ==
    LET group == {f} \cup SurroundConfig[f]
        W1 == [W EXCEPT !.sf = IF enabled THEN W.sf \cup group ELSE W.sf \ group,
                        !.updated = FALSE]
        W2 == ReconnectIns(ReconnectOuts(W1, DOMAIN W1.outs, oc), W1.ins, ic)
    IN  [W2 EXCEPT !.ok = W2.updated]

(* The body of setSurroundFormatEnabled past its early returns: the format *)
(* and its sub-formats are inserted or erased, every HDMI output and then  *)
(* every HDMI input is reconnected, and the backup is restored when no     *)
(* reconnection succeeded (INVALID_OPERATION).                             *)
ApplySurroundChange(W, f, enabled, oc, ic) ==
    LET group == {f} \cup SurroundConfig[f]
        W1 == [W EXCEPT !.sf = IF enabled THEN W.sf \cup group ELSE W.sf \ group,
                        !.updated = FALSE]
        W2 == ReconnectIns(ReconnectOuts(W1, DOMAIN W1.outs, oc), W1.ins, ic)
    IN  IF W2.updated THEN [W2 EXCEPT !.ok = TRUE]
        ELSE [W2 EXCEPT !.sf = W.sf, !.ok = FALSE]

NoCall == [op |-> "none", fmt |-> "none", enabled |-> FALSE, status |-> "NO_ERROR"]

Apply(W) == /\ surroundFormats' = W.sf
            /\ outDevs' = W.outs
            /\ inDevs' = W.ins

-----------------------------------------------------------------------------
(* No HDMI device is connected at start and the force use is NONE (AUTO). *)
Init ==
    /\ forceUse = "NONE"
    /\ surroundFormats = {}
    /\ outDevs = <<>>
    /\ inDevs = {}
    /\ lastCall = NoCall

(* setForceUse(FOR_ENCODED_SURROUND, mode): an unchanged value returns at  *)
(* once; the re-routing it then does leaves the surround state alone.     *)
SetForceUse(mode) ==
    /\ mode # forceUse
    /\ forceUse' = mode
    /\ lastCall' = NoCall
    /\ UNCHANGED <<surroundFormats, outDevs, inDevs>>

ConnectOut(d, outcome) ==
    /\ d \notin DOMAIN outDevs
    /\ Apply(ConnectHdmiOut(Cur, d, outcome))
    /\ lastCall' = NoCall
    /\ UNCHANGED forceUse

DisconnectOut(d) ==
    /\ d \in DOMAIN outDevs
    /\ Apply(DisconnectHdmiOut(Cur, d))
    /\ lastCall' = NoCall
    /\ UNCHANGED forceUse

ConnectIn(d, outcome) ==
    /\ d \notin inDevs
    /\ Apply(ConnectHdmiIn(Cur, d, outcome))
    /\ lastCall' = NoCall
    /\ UNCHANGED forceUse

DisconnectIn(d) ==
    /\ d \in inDevs
    /\ Apply(DisconnectHdmiIn(Cur, d))
    /\ lastCall' = NoCall
    /\ UNCHANGED forceUse

(* setSurroundFormatEnabled(f, enabled): BAD_VALUE for a format that is    *)
(* not a configured surround format; INVALID_OPERATION outside MANUAL;     *)
(* NO_ERROR at once when the format is already in the requested state; *)
(* INVALID_OPERATION with no HDMI output; otherwise ApplySurroundChange.   *)
(* oc and ic are the HAL's answers to the reconnection of each device.     *)
SetSurroundFormatEnabled(f, enabled, oc, ic) ==
    LET Call(s) == lastCall' = [op |-> "setSurroundFormatEnabled", fmt |-> f,
                                enabled |-> enabled, status |-> s]
    IN
    \/ /\ f \notin Keys
       /\ Call("BAD_VALUE") /\ UNCHANGED <<forceUse, surroundFormats, outDevs, inDevs>>
    \/ /\ f \in Keys
       /\ forceUse # "MANUAL"
       /\ Call("INVALID_OPERATION") /\ UNCHANGED <<forceUse, surroundFormats, outDevs, inDevs>>
    \/ /\ f \in Keys /\ forceUse = "MANUAL"
       /\ (f \in surroundFormats) = enabled
       /\ Call("NO_ERROR") /\ UNCHANGED <<forceUse, surroundFormats, outDevs, inDevs>>
    \/ /\ f \in Keys /\ forceUse = "MANUAL"
       /\ (f \in surroundFormats) # enabled
       /\ DOMAIN outDevs = {}
       /\ Call("INVALID_OPERATION") /\ UNCHANGED <<forceUse, surroundFormats, outDevs, inDevs>>
    \/ /\ f \in Keys /\ forceUse = "MANUAL"
       /\ (f \in surroundFormats) # enabled
       /\ DOMAIN outDevs # {}
       /\ LET W == ApplySurroundChange(Cur, f, enabled, oc, ic)
          IN  /\ Apply(W)
              /\ Call(IF W.ok THEN "NO_ERROR" ELSE "INVALID_OPERATION")
              /\ UNCHANGED forceUse

Next ==
    \/ \E m \in ForceModes : SetForceUse(m)
    \/ \E d \in HdmiOuts, o \in Outcomes : ConnectOut(d, o)
    \/ \E d \in HdmiOuts : DisconnectOut(d)
    \/ \E d \in HdmiIns, o \in {"ok", "openFail"} : ConnectIn(d, o)
    \/ \E d \in HdmiIns : DisconnectIn(d)
    \/ \E f \in Formats, e \in BOOLEAN, oc \in [HdmiOuts -> Outcomes],
          ic \in [HdmiIns -> {"ok", "openFail"}] : SetSurroundFormatEnabled(f, e, oc, ic)

Spec == Init /\ [][Next]_vars

-----------------------------------------------------------------------------
AllFormats == Formats \cup Keys \cup UNION {SurroundConfig[k] : k \in Keys}
              \cup SurroundRelated \cup UNION {Edid[d] : d \in HdmiOuts}

TypeOK ==
    /\ forceUse \in ForceModes
    /\ surroundFormats \subseteq Keys \cup UNION {SurroundConfig[k] : k \in Keys}
    /\ DOMAIN outDevs \subseteq HdmiOuts
    /\ \A d \in DOMAIN outDevs : outDevs[d] \subseteq AllFormats
    /\ inDevs \subseteq HdmiIns
    /\ lastCall.status \in Statuses

ToggleStep == lastCall'.op = "setSurroundFormatEnabled"

(* setSurroundFormatEnabled is all or nothing for the formats: when it    *)
(* changes the state of a format and returns NO_ERROR, the format has the  *)
(* requested state and every HDMI output still connected advertises        *)
(* exactly the enabled surround formats and IEC61937; when it returns an   *)
(* error, mSurroundFormats is as before (the backup at line 3659).         *)
ToggleAllOrNothing ==
    [][ToggleStep =>
         IF lastCall'.status = "NO_ERROR"
         THEN (lastCall'.fmt \in surroundFormats) # lastCall'.enabled =>
                 /\ (lastCall'.fmt \in surroundFormats') = lastCall'.enabled
                 /\ \A d \in DOMAIN outDevs' : outDevs'[d] = surroundFormats' \cup {IEC61937}
         ELSE surroundFormats' = surroundFormats]_vars

(* An HDMI sink that reports linear PCM keeps PCM in its profile whatever  *)
(* the surround setting: filterSurroundFormats is about encoded surround   *)
(* formats ("keep the supported surround sound formats", line 5802).       *)
LinearPcm == "PCM"
HdmiKeepsPcm ==
    \A d \in DOMAIN outDevs : LinearPcm \in Edid[d] => LinearPcm \in outDevs[d]
=============================================================================
