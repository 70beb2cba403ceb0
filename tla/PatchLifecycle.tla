--------------------------- MODULE PatchLifecycle ---------------------------
(***************************************************************************)
(* The audio patch registry of AudioPolicyManager: mAudioPatches (keyed by *)
(* the policy's own patch handle), the patch handle each output holds, and *)
(* the device each output records (mDevice).  Modelled operations are the  *)
(* public createAudioPatch / releaseAudioPatch / clearAudioPatches entry   *)
(* points and the system's own re-routing of an output through            *)
(* setOutputDevice(getNewOutputDevice(..)), with installPatch and          *)
(* resetOutputDevice as the helpers they share.                           *)
(*                                                                         *)
(* Data abstraction: a patch is its source (an output for a mix patch, an  *)
(* input device for a device-to-device bridge), its owning uid and the set *)
(* of sink devices it installs.  The transport (AudioFlinger's patch       *)
(* panel) is a status: createAudioPatch succeeds or fails, taken from      *)
(* TransportOutcomes.  The engine's device for an output routed by the     *)
(* system is an input from RouteChoices.                                   *)
(***************************************************************************)
EXTENDS Naturals, FiniteSets, Sequences

CONSTANTS
    Outputs,            \* open, non-duplicated outputs (static here)
    OutputSeq,          \* the order the outputs were opened in
    Bridges,            \* input devices used as the source of a device patch
    Devices,            \* output device types (bits of audio_devices_t)
    Supported,          \* Supported[o]: outputDesc->supportedDevices()
    InitDevice,         \* device each output was opened on
    RouteChoices,       \* RouteChoices[o]: devices the engine may select
    Apps,               \* uids of applications calling the patch API
    SystemUid,          \* mUidCached, the audio server's own uid
    NONE,               \* AUDIO_PATCH_HANDLE_NONE
    MaxHandles,         \* bound on patch handles ever allocated
    TransportOutcomes,  \* statuses AF::createAudioPatch may return
    SourceDevices,      \* input devices played by startAudioSource
    MaxSources,         \* bound on source port ids ever allocated
    MaxActiveCount      \* each output profile's maxActiveCount (0: no limit)

Handles == 1..MaxHandles
Uids == Apps \cup {SystemUid}

ASSUME /\ NONE \notin Handles
       /\ \A o \in Outputs : InitDevice[o] # {} /\ InitDevice[o] \subseteq Supported[o]
       /\ \A o \in Outputs : RouteChoices[o] \subseteq SUBSET Supported[o]
       /\ TransportOutcomes \subseteq BOOLEAN /\ TransportOutcomes # {}
       /\ SourceDevices \cap Outputs = {}

VARIABLES
    reg,         \* mAudioPatches: handle -> [src, uid, devs]
    nextHandle,  \* next handle AudioPatch's constructor hands out
    outPatch,    \* outputDesc->getPatchHandle()
    outDevice,   \* outputDesc->mDevice
    sources,     \* mAudioSources: port id -> [uid, dev, handle, out, active]
    nextPort,    \* next port id AudioPort::getNextUniqueId hands out
    profActive,  \* curActiveCount of each output's profile
    lastCall     \* history: caller and operation of the last step

vars == <<reg, nextHandle, outPatch, outDevice, sources, nextPort, profActive,
          lastCall>>

Ops == {"create", "release", "clear", "route", "startSource", "stopSource"}

(* The working record a handler threads through the helpers it calls;     *)
(* hOut is the in/out patch handle argument, *patchHandle.                 *)
Cur == [reg |-> reg, next |-> nextHandle, outPatch |-> outPatch,
        outDevice |-> outDevice, hOut |-> NONE, src |-> sources,
        port |-> nextPort, pact |-> profActive, ok |-> TRUE]

Apply(W) == /\ reg' = W.reg
            /\ nextHandle' = W.next
            /\ outPatch' = W.outPatch
            /\ outDevice' = W.outDevice
            /\ sources' = W.src
            /\ nextPort' = W.port
            /\ profActive' = W.pact

WithinBounds(W) == W.next <= MaxHandles + 1 /\ W.port <= MaxSources + 1

Live(W, h) == h \in DOMAIN W.reg

RemovePatch(W, h) == [W EXCEPT !.reg = [k \in DOMAIN W.reg \ {h} |-> W.reg[k]]]

(* Mutant: a new patch takes a handle without advancing the allocator.   *)
InstallPatchAtReusesHandle(W, idx, src, devs, uid, ok) ==
    IF ~ok THEN W
    ELSE IF idx = NONE
         THEN [W EXCEPT !.reg = [k \in DOMAIN W.reg \cup {W.next} |->
                                  IF k = W.next
                                  THEN [src |-> src, uid |-> uid, devs |-> devs]
                                  ELSE W.reg[k]],
                        !.hOut = W.next]
         ELSE [W EXCEPT !.reg[idx] = [@ EXCEPT !.src = src, !.devs = devs],
                        !.hOut = idx]

(* installPatch(caller, index, patchHandle, patch, delayMs, uid, ..): on a *)
(* successful transport call, a new AudioPatch owned by uid is added when  *)
(* there is no patch at index, else the existing one is updated in place   *)
(* (its uid untouched); *patchHandle receives the patch's handle.  On      *)
(* failure nothing is recorded.                                            *)
InstallPatchAt(W, idx, src, devs, uid, ok) ==
    IF ~ok THEN W
    ELSE IF idx = NONE
         THEN [W EXCEPT !.reg = [k \in DOMAIN W.reg \cup {W.next} |->
                                  IF k = W.next
                                  THEN [src |-> src, uid |-> uid, devs |-> devs]
                                  ELSE W.reg[k]],
                        !.next = W.next + 1,
                        !.hOut = W.next]
         ELSE [W EXCEPT !.reg[idx] = [@ EXCEPT !.src = src, !.devs = devs],
                        !.hOut = idx]

(* installPatch(caller, patchHandle, ioDescriptor, patch, delayMs): look   *)
(* the patch up by *patchHandle when one is given, else by the output's    *)
(* own patch handle; install it as mUidCached; on success the output       *)
(* records the patch's handle.                                             *)
InstallIoPatch(W, hIn, o, devs, ok) ==
    LET key == IF hIn # NONE THEN hIn ELSE W.outPatch[o]
        idx == IF Live(W, key) THEN key ELSE NONE
        W1  == InstallPatchAt([W EXCEPT !.hOut = hIn], idx, o, devs, SystemUid, ok)
    IN  IF ok THEN [W1 EXCEPT !.outPatch[o] = W1.hOut] ELSE W1

(* Mutant: the patch is removed but the output keeps its handle.         *)
ResetOutputDeviceKeepsHandle(W, o) ==
    IF ~Live(W, W.outPatch[o]) THEN W ELSE RemovePatch(W, W.outPatch[o])

(* resetOutputDevice(outputDesc, delayMs, NULL): release the output's     *)
(* patch in the transport, clear its handle and drop the local record.    *)
ResetOutputDevice(W, o) ==
    IF ~Live(W, W.outPatch[o]) THEN W
    ELSE [RemovePatch(W, W.outPatch[o]) EXCEPT !.outPatch[o] = NONE]

(* setOutputDevice(outputDesc, device, force, 0, patchHandle): the device  *)
(* is filtered by the output's profile and recorded in mDevice before any *)
(* routing; the call returns early for an unchanged or empty device unless *)
(* forced or unpatched; an empty device tears the patch down, another      *)
(* device installs one.                                                    *)
SetOutputDevice(W, o, device, force, hIn, ok) ==
    IF device # {} /\ device \cap Supported[o] = {} THEN W
    ELSE
    LET dev  == device \cap Supported[o]
        prev == W.outDevice[o]
        W1   == IF dev # {} THEN [W EXCEPT !.outDevice[o] = dev] ELSE W
    IN  IF (dev = {} \/ dev = prev) /\ ~force /\ W.outPatch[o] # NONE THEN W1
        ELSE IF dev = {} THEN ResetOutputDevice(W1, o)
        ELSE InstallIoPatch(W1, hIn, o, dev, ok)

(* Mutant: the engine's device wins over an app's patch.                  *)
GetNewOutputDeviceIgnoresPatchOwner(W, o, engine) == engine

(* getNewOutputDevice: a patch installed by another uid than mUidCached    *)
(* fixes the output's device; otherwise the engine decides.               *)
GetNewOutputDevice(W, o, engine) ==
    IF Live(W, W.outPatch[o]) /\ W.reg[W.outPatch[o]].uid # SystemUid
    THEN W.outDevice[o]
    ELSE engine

(* The caller may act on the patch at h: it is not owned by another app.   *)
MayModify(W, u, h) == W.reg[h].uid = SystemUid \/ W.reg[h].uid = u

(* releaseAudioPatch(handle, uid) after its lookup and owner check: the    *)
(* patch returns to mUidCached; a mix patch re-routes its output from the *)
(* engine (forced), a device-to-device patch is released and removed.  An *)
(* audio source's patch has a device source and no sink: the call returns  *)
(* BAD_VALUE after it has already handed the patch to mUidCached.         *)
Release(W, h, engine, ok) ==
    LET W1 == [W EXCEPT !.reg[h].uid = SystemUid]
        src == W.reg[h].src
    IN  IF src \in Outputs
        THEN SetOutputDevice(W1, src, GetNewOutputDevice(W1, src, engine), TRUE, NONE, ok)
        ELSE IF W.reg[h].devs # {} THEN RemovePatch(W1, h)
        ELSE W1

(* clearAudioPatches(uid): walk mAudioPatches from the highest index down, *)
(* releasing each patch the uid owns; keys are sorted, so index order is   *)
(* handle order, and a release never shifts a lower index.                 *)
RECURSIVE ClearFrom(_, _, _, _, _)
ClearFrom(W, u, k, engine, ok) ==
    IF k < 1 THEN W
    ELSE LET W1 == IF Live(W, k) /\ W.reg[k].uid = u
                   THEN Release(W, k, engine[k], ok[k]) ELSE W
         IN  ClearFrom(W1, u, k - 1, engine, ok)

(* Mutant: the walk starts one index below the last.                    *)
ClearAudioPatchesSkipsLast(W, u, engine, ok) == ClearFrom(W, u, MaxHandles - 1, engine, ok)

ClearAudioPatches(W, u, engine, ok) == ClearFrom(W, u, MaxHandles, engine, ok)

(* Audio sources.  Each output is taken to be on a HW module of its own,   *)
(* so the loops of startSource() and stopSource() over other outputs that *)
(* share the module do nothing, and a source device is never on the sink's *)
(* module, so connectAudioSource() takes its mix path (the HAL 3.0 branch  *)
(* is a stub that only records the patch).                                 *)

(* AudioOutputDescriptor::isActive() as far as source clients go.         *)
SourceClientsOn(W, o) == {p \in DOMAIN W.src : W.src[p].out = o /\ W.src[p].active}
IsActive(W, o) == SourceClientsOn(W, o) # {}

(* SwAudioOutputDescriptor::start(): an idle output takes an active slot  *)
(* of its profile, refused when none is left.                             *)
OutputStart(W, o) ==
    IF IsActive(W, o) THEN W
    ELSE IF MaxActiveCount = 0 \/ W.pact[o] < MaxActiveCount
         THEN [W EXCEPT !.pact[o] = @ + 1]
         ELSE [W EXCEPT !.ok = FALSE]

(* SwAudioOutputDescriptor::stop(): an output left without an active      *)
(* client gives its slot back.                                             *)
OutputStop(W, o) == IF IsActive(W, o) THEN W ELSE [W EXCEPT !.pact[o] = @ - 1]

(* startSource() for a source client (stream MUSIC, no preferred device): *)
(* the client becomes active, and the first active client re-routes the    *)
(* output, forced when the output was idle and had no patch.               *)
StartSource(W, p, o, engine, ok) ==
    LET force == ~IsActive(W, o) /\ W.outPatch[o] = NONE
        W1 == [W EXCEPT !.src[p].active = TRUE]
    IN  IF SourceClientsOn(W1, o) = {p}
        THEN SetOutputDevice(W1, o, GetNewOutputDevice(W1, o, engine), force, NONE, ok)
        ELSE W1

(* stopSource(): with no active client on the output the refcount is      *)
(* already 0 (INVALID_OPERATION); otherwise the client is made inactive    *)
(* and the last one re-routes the output, not forced.                      *)
StopSource(W, p, o, engine, ok) ==
    IF ~IsActive(W, o) THEN [W EXCEPT !.ok = FALSE]
    ELSE LET W1 == [W EXCEPT !.src[p].active = FALSE]
         IN  IF SourceClientsOn(W1, o) = {}
             THEN SetOutputDevice(W1, o, GetNewOutputDevice(W1, o, engine), FALSE, NONE, ok)
             ELSE W1

(* Mutant: the output's stop() is not called after stopSource().          *)
DisconnectAudioSourceNoStop(W, p, eng, ok) ==
    LET s == W.src[p]
    IN  IF ~Live(W, s.handle) THEN W
        ELSE LET W1 == RemovePatch(W, s.handle)
             IN  IF s.out = NONE THEN W1
                 ELSE [StopSource(W1, p, s.out, eng[s.out], ok) EXCEPT !.ok = TRUE]

(* disconnectAudioSource(): a source whose patch is not in mAudioPatches  *)
(* is left alone (BAD_VALUE); otherwise the patch is removed, and a source *)
(* played through an output is stopped with stopSource() and, when that   *)
(* succeeds, the output's stop().  The source keeps its output.           *)
DisconnectAudioSource(W, p, eng, ok) ==
    LET s == W.src[p]
    IN  IF ~Live(W, s.handle) THEN W
        ELSE LET W1 == RemovePatch(W, s.handle)
             IN  IF s.out = NONE THEN W1
                 ELSE LET W2 == StopSource(W1, p, s.out, eng[s.out], ok)
                      IN  IF W2.ok THEN OutputStop(W2, s.out)
                          ELSE [W2 EXCEPT !.ok = TRUE]

(* The outputs getOutputsForDevice() lists for the sink; selectOutput()    *)
(* picks one of them (OutputSelection models that choice).                *)
SourceOutputs(sink) == {o \in Outputs : sink \subseteq Supported[o]}

AddPatch(W, h, rec) ==
    [W EXCEPT !.reg = [k \in DOMAIN W.reg \cup {h} |-> IF k = h THEN rec ELSE W.reg[k]]]

(* connectAudioSource(): disconnect the source first, then play it on the *)
(* output o chosen for the sink (NONE when no output supports it:          *)
(* INVALID_OPERATION): start() the output, create the transport patch,     *)
(* startSource(), and record the source's patch under its own handle.      *)
(* A failing start() or transport patch returns at once.                   *)
ConnectAudioSource(W, p, o, eng, okPatch, okRoute) ==
    LET W0 == DisconnectAudioSource(W, p, eng, okRoute)
        W1 == OutputStart(W0, o)
        s  == W.src[p]
    IN  IF o = NONE THEN [W0 EXCEPT !.ok = FALSE]
        ELSE IF ~W1.ok THEN W1
        ELSE IF ~okPatch THEN [W1 EXCEPT !.ok = FALSE]
        ELSE AddPatch([StartSource(W1, p, o, eng[o], okRoute) EXCEPT !.src[p].out = o],
                      s.handle, [src |-> s.dev, uid |-> s.uid, devs |-> {}])

(* stopAudioSource(portId): disconnect, then drop the source whatever the *)
(* disconnect returned.                                                    *)
StopAudioSourceAt(W, p, eng, ok) ==
    LET W1 == DisconnectAudioSource(W, p, eng, ok)
    IN  [W1 EXCEPT !.src = [q \in DOMAIN W1.src \ {p} |-> W1.src[q]]]

(* clearAudioSources(uid): stop every source of the uid, walking          *)
(* mAudioSources (sorted by port id) from the highest index down.         *)
RECURSIVE ClearSourcesFrom(_, _, _, _, _)
ClearSourcesFrom(W, u, k, eng, ok) ==
    IF k < 1 THEN W
    ELSE LET W1 == IF k \in DOMAIN W.src /\ W.src[k].uid = u
                   THEN StopAudioSourceAt(W, k, eng, ok) ELSE W
         IN  ClearSourcesFrom(W1, u, k - 1, eng, ok)

-----------------------------------------------------------------------------
(* After initialize(): every output was opened and routed to its initial   *)
(* device by the system, so it holds a patch owned by mUidCached.          *)
Init ==
    /\ reg = [k \in 1..Len(OutputSeq) |->
                [src |-> OutputSeq[k], uid |-> SystemUid, devs |-> InitDevice[OutputSeq[k]]]]
    /\ nextHandle = Len(OutputSeq) + 1
    /\ outPatch = [o \in Outputs |-> CHOOSE k \in 1..Len(OutputSeq) : OutputSeq[k] = o]
    /\ outDevice = InitDevice
    /\ sources = [p \in {} |-> NONE]
    /\ nextPort = 1
    /\ profActive = [o \in Outputs |-> 0]
    /\ lastCall = [who |-> SystemUid, op |-> "route"]

EngineFor(p) == IF p \in Outputs THEN RouteChoices[p] \cup {{}} ELSE {{}}

Owned(W, u) == {k \in DOMAIN W.reg : W.reg[k].uid = u}

(* createAudioPatch with a mix source (an output) and device sinks: a     *)
(* given handle that names a live patch must be modifiable by the caller  *)
(* and have the same source, otherwise *handle becomes NONE; the output is *)
(* then routed with setOutputDevice(.., force, handle), and the patch that *)
(* *handle names afterwards, if any, is given to the caller.               *)
CreateMixPatch(u, h, o, devs, ok) ==
    LET W     == Cur
        found == Live(W, h)
        hh    == IF found THEN h ELSE NONE
        W1    == SetOutputDevice([W EXCEPT !.hOut = hh], o, devs, TRUE, hh, ok)
        W2    == IF Live(W1, W1.hOut) THEN [W1 EXCEPT !.reg[W1.hOut].uid = u] ELSE W1
    IN  /\ found => MayModify(W, u, h) /\ W.reg[h].src = o
        /\ WithinBounds(W2)
        /\ Apply(W2)
        /\ lastCall' = [who |-> u, op |-> "create"]

(* createAudioPatch with a device source and a device sink: the same      *)
(* handle checks, then installPatch at the given patch's index with the   *)
(* caller as the owner of a newly created patch.                          *)
CreateDevicePatch(u, h, b, d, ok) ==
    LET W     == Cur
        found == Live(W, h)
        W1    == InstallPatchAt([W EXCEPT !.hOut = IF found THEN h ELSE NONE],
                                IF found THEN h ELSE NONE, b, {d}, u, ok)
    IN  /\ found => MayModify(W, u, h) /\ W.reg[h].src = b
        /\ WithinBounds(W1)
        /\ Apply(W1)
        /\ lastCall' = [who |-> u, op |-> "create"]

(* releaseAudioPatch(handle, uid): unknown handles and patches owned by   *)
(* another app are refused without a change.                              *)
ReleaseAudioPatch(u, h, engine, ok) ==
    /\ Live(Cur, h)
    /\ MayModify(Cur, u, h)
    /\ engine \in EngineFor(reg[h].src)
    /\ LET W1 == Release(Cur, h, engine, ok)
       IN  WithinBounds(W1) /\ Apply(W1)
    /\ lastCall' = [who |-> u, op |-> "release"]

(* The engine's device for each output (getNewOutputDevice's fallback).   *)
Engines == {e \in [Outputs -> UNION {EngineFor(o) : o \in Outputs}] :
                \A o \in Outputs : e[o] \in EngineFor(o)}

(* The outputs a source may be played on, for some device the engine      *)
(* selects for its strategy, and NONE when no output supports that device. *)
SourceTargets ==
    UNION {IF SourceOutputs(sink) = {} THEN {NONE} ELSE SourceOutputs(sink) :
           sink \in UNION {RouteChoices[o] : o \in Outputs}}

Sources(u) == {p \in DOMAIN sources : sources[p].uid = u}

(* releaseResourcesForUid(uid), run when the uid's process dies:          *)
(* clearAudioSources(uid), then clearAudioPatches(uid).  The engine's      *)
(* device for an output does not change within the call; each transport    *)
(* call has its own status.                                                *)
ReleaseResourcesForUid(u) ==
    LET own == Owned(Cur, u) IN
    /\ own # {} \/ Sources(u) # {}
    /\ \E eng \in Engines, okSrc \in TransportOutcomes,
          ok \in [own -> TransportOutcomes] :
          LET engine == [k \in own |-> IF reg[k].src \in Outputs THEN eng[reg[k].src] ELSE {}]
              W1 == ClearSourcesFrom(Cur, u, MaxSources, eng, okSrc)
              W2 == ClearAudioPatches(W1, u, engine, ok)
          IN  WithinBounds(W2) /\ Apply(W2)
    /\ lastCall' = [who |-> u, op |-> "clear"]

(* startAudioSource(): a new port id and a new AudioPatch (its handle is   *)
(* allocated by the constructor), then connectAudioSource(); the source   *)
(* joins mAudioSources only when the connection succeeds.                 *)
StartAudioSource(u, dev, o, eng, okPatch, okRoute) ==
    LET p  == nextPort
        W0 == [Cur EXCEPT !.src = [q \in DOMAIN sources \cup {p} |->
                                     IF q = p
                                     THEN [uid |-> u, dev |-> dev, handle |-> nextHandle,
                                           out |-> NONE, active |-> FALSE]
                                     ELSE sources[q]],
                          !.port = p + 1, !.next = nextHandle + 1]
        W1 == ConnectAudioSource(W0, p, o, eng, okPatch, okRoute)
        W2 == IF W1.ok THEN W1
              ELSE [W1 EXCEPT !.src = [q \in DOMAIN W1.src \ {p} |-> W1.src[q]]]
    IN  /\ WithinBounds(W2)
        /\ Apply(W2)
        /\ lastCall' = [who |-> u, op |-> "startSource"]

(* stopAudioSource(portId): an unknown port id is refused (BAD_VALUE).    *)
StopAudioSource(p, eng, ok) ==
    /\ p \in DOMAIN sources
    /\ LET W1 == StopAudioSourceAt(Cur, p, eng, ok)
       IN  WithinBounds(W1) /\ Apply(W1)
    /\ lastCall' = [who |-> sources[p].uid, op |-> "stopSource"]

(* checkOutputForStrategy(): when the source's strategy moves away from    *)
(* the output it plays on, getSourceForStrategyOnOutput() finds it and      *)
(* connectAudioSource() reconnects it on the new output; a failure leaves  *)
(* it in mAudioSources.                                                    *)
MoveSource(p, o, eng, okPatch, okRoute) ==
    /\ p \in DOMAIN sources
    /\ sources[p].out # NONE
    /\ LET W1 == ConnectAudioSource(Cur, p, o, eng, okPatch, okRoute)
       IN  WithinBounds(W1) /\ Apply(W1)
    /\ lastCall' = [who |-> SystemUid, op |-> "route"]

(* The system re-routes an output: setOutputDevice(outputDesc,            *)
(* getNewOutputDevice(outputDesc, ..), force, ..) as every routing update  *)
(* does after a device, force-use or client change.                        *)
SystemRoute(o, engine, force, ok) ==
    /\ engine \in EngineFor(o)
    /\ LET W1 == SetOutputDevice(Cur, o, GetNewOutputDevice(Cur, o, engine), force, NONE, ok)
       IN  WithinBounds(W1) /\ Apply(W1)
    /\ lastCall' = [who |-> SystemUid, op |-> "route"]

Next ==
    \/ \E u \in Apps, h \in DOMAIN reg \cup {NONE}, ok \in TransportOutcomes :
          \/ \E o \in Outputs : \E devs \in SUBSET Supported[o] \ {{}} :
                CreateMixPatch(u, h, o, devs, ok)
          \/ \E b \in Bridges, d \in Devices : CreateDevicePatch(u, h, b, d, ok)
          \/ \E engine \in UNION {EngineFor(o) : o \in Outputs} :
                ReleaseAudioPatch(u, h, engine, ok)
    \/ \E u \in Apps : ReleaseResourcesForUid(u)
    \/ \E eng \in Engines, okPatch, okRoute \in TransportOutcomes, o \in SourceTargets :
          \/ /\ \A x \in Outputs \ {o} : eng[x] = {}
             /\ \E u \in Apps, dev \in SourceDevices :
                   StartAudioSource(u, dev, o, eng, okPatch, okRoute)
          \/ \E p \in DOMAIN sources : MoveSource(p, o, eng, okPatch, okRoute)
    \/ \E p \in DOMAIN sources, eng \in Engines, ok \in TransportOutcomes :
          /\ \A x \in Outputs \ {sources[p].out} : eng[x] = {}
          /\ StopAudioSource(p, eng, ok)
    \/ \E o \in Outputs : \E engine \in EngineFor(o), force \in BOOLEAN,
          ok \in TransportOutcomes : SystemRoute(o, engine, force, ok)

Spec == Init /\ [][Next]_vars

-----------------------------------------------------------------------------
PatchRec == [src : Outputs \cup Bridges \cup SourceDevices, uid : Uids, devs : SUBSET Devices]
SourceRec == [uid : Apps, dev : SourceDevices, handle : Handles,
              out : Outputs \cup {NONE}, active : BOOLEAN]

TypeOK ==
    /\ DOMAIN reg \subseteq Handles
    /\ \A k \in DOMAIN reg : reg[k] \in PatchRec /\ k < nextHandle
    /\ nextHandle \in 1..MaxHandles + 1
    /\ outPatch \in [Outputs -> Handles \cup {NONE}]
    /\ \A o \in Outputs : outDevice[o] # {} /\ outDevice[o] \subseteq Supported[o]
    /\ DOMAIN sources \subseteq 1..MaxSources
    /\ \A p \in DOMAIN sources : sources[p] \in SourceRec /\ p < nextPort
    /\ nextPort \in 1..MaxSources + 1
    /\ profActive \in [Outputs -> Nat]
    /\ lastCall \in [who : Uids, op : Ops]

(* spec 4.1/4.3: an output never has more than one patch attached, and    *)
(* the handle it records (getPatchHandle) is the one patch in             *)
(* mAudioPatches whose source it is.  installPatch finds the patch to     *)
(* update through that handle, and resetOutputDevice, release and create  *)
(* by another app's handle all go through it.                             *)
OnePatchPerOutput ==
    \A o \in Outputs :
        LET mine == {k \in DOMAIN reg : reg[k].src = o} IN
        /\ Cardinality(mine) <= 1
        /\ outPatch[o] # NONE => outPatch[o] \in mine
        /\ mine # {} => outPatch[o] \in mine

(* spec 4.1 rule 1: a patch installed by an app fixes its output's device. *)
(* No re-routing by the system (getNewOutputDevice then setOutputDevice)   *)
(* detaches, re-owns or re-targets an output patch an app owns.            *)
AppPatchHonored ==
    [][lastCall'.who = SystemUid =>
        \A o \in Outputs :
            LET k == outPatch[o] IN
            (k \in DOMAIN reg /\ reg[k].uid \in Apps) =>
                /\ outPatch'[o] = k
                /\ k \in DOMAIN reg'
                /\ reg'[k] = reg[k]]_vars

(* spec 7: a failed or undone operation leaves no partial state behind.    *)
(* For audio sources: a source in mAudioSources plays exactly while its     *)
(* patch is in mAudioPatches, and each output's profile holds an active     *)
(* slot exactly while a source plays on it.  start() and stop() of the      *)
(* output must pair up across startAudioSource, the system's reconnect in   *)
(* checkOutputForStrategy, stopAudioSource and releaseResourcesForUid, with *)
(* apps releasing the source's patch by its handle in between.             *)
SourcePlaybackAccounted ==
    /\ \A p \in DOMAIN sources : sources[p].active <=> sources[p].handle \in DOMAIN reg
    /\ \A o \in Outputs : profActive[o] = IF IsActive(Cur, o) THEN 1 ELSE 0

(* clearAudioPatches(uid) leaves no patch owned by the uid behind: device *)
(* patches are removed and mix patches return to the system, whatever the *)
(* order the walk over mAudioPatches meets them in.                        *)
ClearReleasesAll ==
    lastCall.op = "clear" => Owned(Cur, lastCall.who) = {}

(* spec 4.3: when the transport refuses a patch, the previous state is    *)
(* left untouched, so the device an output records is the device its      *)
(* patch installs.  setOutputDevice writes mDevice before installPatch.    *)
PatchMatchesDevice ==
    \A o \in Outputs :
        outPatch[o] \in DOMAIN reg => reg[outPatch[o]].devs = outDevice[o]

(* createAudioPatch refuses a given handle whose patch another app owns   *)
(* (mUid != mUidCached && uid != mUid).  An app-owned patch therefore     *)
(* passes only to the system, never directly to another app.               *)
OwnerChangesOnlyViaSystem ==
    [][\A k \in DOMAIN reg \cap DOMAIN reg' :
          (reg[k].uid \in Apps /\ reg'[k].uid \in Apps) => reg'[k].uid = reg[k].uid]_vars
=============================================================================
