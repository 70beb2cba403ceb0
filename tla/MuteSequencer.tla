--------------------------- MODULE MuteSequencer ---------------------------
(***************************************************************************)
(* The playback side of AudioPolicyManager (AudioPolicyManager.cpp) as far *)
(* as muting and volume go: startOutput()/startSource() and               *)
(* stopOutput()/stopSource() of track clients, the beacon (TTS) mute       *)
(* reference counts (handleEventForBeacon(), setBeaconMute()), the output  *)
(* routing step setOutputDevice() with checkDeviceMuteStrategies(), the    *)
(* per-output stream mute counts (setStrategyMute(), setStreamMute()) and  *)
(* the volume they guard (checkAndSetVolume(), applyStreamVolumes()), and  *)
(* the public calls that re-route every output: setForceUse() and output   *)
(* device connection and disconnection, which open and close outputs.      *)
(*                                                                         *)
(* Data is abstracted: three stream types stand for their strategies       *)
(* (MUSIC: media, RING: sonification, TTS: beacon); a volume is "applied"  *)
(* (TRUE) or "zero" (FALSE); a device is a model value and a device        *)
(* bitmask a set of them.  The engine's device for a strategy is chosen,   *)
(* among the choices the configuration allows for the available devices,  *)
(* whenever a public call makes the engine re-evaluate it.                 *)
(***************************************************************************)
EXTENDS Integers, FiniteSets, Sequences, SequencesExt

CONSTANTS
    Outputs,            \* output descriptors (model values)
    OutputOrder,        \* mOutputs in handle order: a sequence of Outputs
    PrimaryOutputs,     \* outputs opened at initialisation, never closed here
    Devices,            \* output device types (model values)
    FixedDevices,       \* devices always available (e.g. the speaker)
    Supported,          \* [Outputs -> SUBSET Devices]: supportedDevices()
    InitDevice,         \* [Outputs -> SUBSET Devices]: device set at open
    OutputModule,       \* [Outputs -> HW modules]: sharesHwModuleWith()
    PrimaryOutput,      \* mPrimaryOutput
    Duplicated,         \* closable outputs that get a duplicating output
    Clients,            \* track clients (port ids)
    ClientOutput,       \* [Clients -> Outputs]
    ClientStream,       \* [Clients -> Streams]
    EnginePriority,     \* [Strategies -> Seq(SUBSET Devices)]: the engine's
                        \* devices for a strategy, by priority
    ForceChoices,       \* [Strategies -> SUBSET SUBSET Devices]: devices a
                        \* force use configuration can select
    TtsOutputAvailable, \* mTtsOutputAvailable
    MaxCount            \* bound on mute and reference counts

Streams == {"MUSIC", "RING", "TTS"}
Strategies == {"MEDIA", "SONIFICATION", "BEACON"}

(* getStrategy(stream).                                                     *)
StrategyOf == [s \in Streams |->
                 CASE s = "MUSIC" -> "MEDIA"
                   [] s = "RING"  -> "SONIFICATION"
                   [] s = "TTS"   -> "BEACON"]
StreamsOf == [i \in Strategies |-> {s \in Streams : StrategyOf[s] = i}]

ASSUME /\ Range(OutputOrder) = Outputs
       /\ PrimaryOutputs \subseteq Outputs
       /\ FixedDevices \subseteq Devices
       /\ Supported \in [Outputs -> SUBSET Devices]
       /\ InitDevice \in [Outputs -> SUBSET Devices]
       /\ PrimaryOutput \in PrimaryOutputs
       /\ Duplicated \subseteq Outputs \ PrimaryOutputs
       \* closable outputs are opened last, so their handles come last
       /\ \A i, j \in DOMAIN OutputOrder :
             OutputOrder[i] \notin PrimaryOutputs /\ OutputOrder[j] \in PrimaryOutputs
             => j < i
       /\ ClientOutput \in [Clients -> Outputs]
       /\ ClientStream \in [Clients -> Streams]
       /\ \A i \in Strategies : EnginePriority[i] \in Seq(SUBSET Devices)
       /\ ForceChoices \in [Strategies -> SUBSET SUBSET Devices]
       /\ TtsOutputAvailable \in BOOLEAN
       /\ MaxCount \in Nat

VARIABLES
    available,      \* mAvailableOutputDevices
    forceCfg,       \* the engine's force use per strategy ({} for none)
    outOpen,        \* output is in mOutputs
    device,         \* mDevice of each output
    patched,        \* the output has an audio patch (getPatchHandle() != 0)
    active,         \* client is active on its output
    recent,         \* output stopped less than 2 x latency ago
    muteCount,      \* mMuteCount[stream] of each output
    volume,         \* volume of each stream of each output is applied
    mutedByDevice,  \* mStrategyMutedByDevice[strategy] of each output
    beaconMuteRef,  \* mBeaconMuteRefCount
    beaconPlayRef,  \* mBeaconPlayingRefCount
    beaconMuted     \* mBeaconMuted

vars == <<available, forceCfg, outOpen, device, patched, active, recent,
          muteCount, volume, mutedByDevice, beaconMuteRef, beaconPlayRef,
          beaconMuted>>

-----------------------------------------------------------------------------
(* State of one handler in progress: a working record W.                   *)

Cur == [avail |-> available, force |-> forceCfg, open |-> outOpen,
        dev |-> device, patch |-> patched, act |-> active, recent |-> recent,
        mute |-> muteCount, vol |-> volume, byDev |-> mutedByDevice,
        mref |-> beaconMuteRef, pref |-> beaconPlayRef, bmuted |-> beaconMuted]

Apply(W) ==
    /\ available' = W.avail /\ forceCfg' = W.force /\ outOpen' = W.open
    /\ device' = W.dev /\ patched' = W.patch /\ active' = W.act
    /\ recent' = W.recent /\ muteCount' = W.mute /\ volume' = W.vol
    /\ mutedByDevice' = W.byDev /\ beaconMuteRef' = W.mref
    /\ beaconPlayRef' = W.pref /\ beaconMuted' = W.bmuted

(* Counters stay within the bound the model is checked up to.              *)
WithinBounds(W) ==
    /\ \A o \in Outputs, s \in Streams : W.mute[o][s] <= MaxCount
    /\ W.mref <= MaxCount /\ W.pref <= MaxCount

(* The loops of the code over mOutputs, in handle order, and over the      *)
(* strategies, in enum order: FoldLeft of SequencesExt, written out         *)
(* because its definition over SUBSET of the domain is slow under TLC.      *)
RECURSIVE ForEach(_, _, _)
ForEach(op(_, _), W, seq) ==
    IF seq = <<>> THEN W ELSE ForEach(op, op(W, Head(seq)), Tail(seq))

OpenOutputsSeq(W) == SelectSeq(OutputOrder, LAMBDA o : W.open[o])
StrategyOrder == <<"MEDIA", "SONIFICATION", "BEACON">>

(* mEngine->getDeviceForStrategy(): the forced device when it is           *)
(* available, else the first available device of the strategy's priority.  *)
EngineDevice(W, i) ==
    LET usable == SelectSeq(EnginePriority[i], LAMBDA d : d \subseteq W.avail)
    IN IF W.force[i] # {} /\ W.force[i] \subseteq W.avail THEN W.force[i]
       ELSE IF usable = <<>> THEN {} ELSE Head(usable)

(* AudioOutputDescriptor::streamActiveCount(), isActive(), isStreamActive(). *)
(* The clients of each output and stream (constant).                       *)
ClientsOf == [o \in Outputs |-> [s \in Streams |->
                {c \in Clients : ClientOutput[c] = o /\ ClientStream[c] = s}]]
StreamActiveCount(W, o, s) == Cardinality({c \in ClientsOf[o][s] : W.act[c]})
IsActive(W, o) == \E s \in Streams : \E c \in ClientsOf[o][s] : W.act[c]
(* isActive(latency * 2): active now or stopped less than 2 x latency ago. *)
IsRecentlyActive(W, o) == IsActive(W, o) \/ W.recent[o]

(* isStrategyActive(desc, strategy) (inPastMs = 0).                        *)
IsStrategyActive(W, o, i) ==
    \E s \in StreamsOf[i] : \E c \in ClientsOf[o][s] : W.act[c]

(* isStrategyActiveOnSameModule(): an open output of the same HW module.   *)
IsStrategyActiveOnSameModule(W, o, i) ==
    \E o2 \in Outputs : /\ W.open[o2] /\ OutputModule[o2] = OutputModule[o]
                        /\ IsStrategyActive(W, o2, i)

(* Outputs that share a device with o (same HW module, common device).     *)
Shares(o, o2) == Supported[o] \cap Supported[o2] # {}

-----------------------------------------------------------------------------
(* Volume and mute, one operator per function of the code.                 *)

(* checkAndSetVolume(): a muted stream keeps its volume.                   *)
CheckAndSetVolume(W, s, o) ==
    IF W.mute[o][s] # 0 THEN W
    ELSE [W EXCEPT !.vol[o][s] = TRUE]

(* applyStreamVolumes(): checkAndSetVolume() for every stream.             *)
ApplyStreamVolumes(W, o) ==
    CheckAndSetVolume(CheckAndSetVolume(CheckAndSetVolume(W, "RING", o),
                                        "MUSIC", o), "TTS", o)

(* setStreamMute(): the first mute zeroes the volume before counting; an   *)
(* unmute of a stream that is not muted is ignored; the last unmute        *)
(* restores the volume.                                                    *)
SetStreamMute(W, s, on, o) ==
    IF on
    THEN [W EXCEPT !.vol[o][s] = IF W.mute[o][s] = 0 THEN FALSE ELSE @,
                   !.mute[o][s] = @ + 1]
    ELSE IF W.mute[o][s] = 0 THEN W
    ELSE [W EXCEPT !.mute[o][s] = @ - 1,
                   !.vol[o][s] = IF W.mute[o][s] = 1 THEN TRUE ELSE @]

(* setStrategyMute(): setStreamMute() for every stream of the strategy.    *)
SetStrategyMute(W, i, on, o) ==
    SetStreamMute(W, CHOOSE s \in StreamsOf[i] : TRUE, on, o)

(* setBeaconMute(): mute or unmute TTS on every open output, once per      *)
(* change of mBeaconMuted.                                                 *)
SetBeaconMute(W, mute) ==
    IF W.bmuted = mute THEN W
    ELSE LET W2 == ForEach(LAMBDA acc, o : SetStreamMute(acc, "TTS", mute, o),
                           W, OpenOutputsSeq(W))
         IN [W2 EXCEPT !.bmuted = mute]

(* Mutant: the beacon follows only the beacon playback count.              *)
HandleEventForBeaconIgnoresPlayback(W, event) ==
    IF TtsOutputAvailable THEN W
    ELSE LET W2 ==
             CASE event = "STARTING_OUTPUT" -> [W EXCEPT !.mref = @ + 1]
               [] event = "STOPPING_OUTPUT" ->
                    [W EXCEPT !.mref = IF @ > 0 THEN @ - 1 ELSE @]
               [] event = "STARTING_BEACON" -> [W EXCEPT !.pref = @ + 1]
               [] event = "STOPPING_BEACON" ->
                    [W EXCEPT !.pref = IF @ > 0 THEN @ - 1 ELSE @]
         IN SetBeaconMute(W2, W2.pref = 0)

(* handleEventForBeacon(): the reference counts, then the mute decision:   *)
(* any playback mutes the beacon; otherwise it is muted when not playing.  *)
HandleEventForBeacon(W, event) ==
    IF TtsOutputAvailable THEN W
    ELSE LET W2 ==
             CASE event = "STARTING_OUTPUT" -> [W EXCEPT !.mref = @ + 1]
               [] event = "STOPPING_OUTPUT" ->
                    [W EXCEPT !.mref = IF @ > 0 THEN @ - 1 ELSE @]
               [] event = "STARTING_BEACON" -> [W EXCEPT !.pref = @ + 1]
               [] event = "STOPPING_BEACON" ->
                    [W EXCEPT !.pref = IF @ > 0 THEN @ - 1 ELSE @]
         IN SetBeaconMute(W2, IF W2.mref > 0 THEN TRUE ELSE W2.pref = 0)

(* Mutant: a strategy muted by device is never unmuted.                    *)
DeviceMuteStrategyNoUnmute(W, o, i) ==
    LET dev == W.dev[o]
        shouldMute == IsActive(W, o) /\ Cardinality(dev) >= 2
        cur == EngineDevice(W, i) \cap Supported[o]
        mute == shouldMute /\ cur \cap dev # {} /\ cur # dev
        others == SelectSeq(OutputOrder, LAMBDA d : W.open[d] /\ Shares(d, o))
    IN IF mute = W.byDev[o][i] \/ ~mute THEN W
       ELSE ForEach(LAMBDA acc, d : SetStrategyMute(acc, i, mute, d),
                    [W EXCEPT !.byDev[o][i] = mute], others)

(* checkDeviceMuteStrategies(), first loop: a strategy whose device is     *)
(* strictly inside the combined device of an active output is muted on     *)
(* every output sharing a device with it, and unmuted when that stops.      *)
DeviceMuteStrategy(W, o, i) ==
    LET dev == W.dev[o]
        shouldMute == IsActive(W, o) /\ Cardinality(dev) >= 2
        cur == EngineDevice(W, i) \cap Supported[o]
        mute == shouldMute /\ cur \cap dev # {} /\ cur # dev
        others == SelectSeq(OutputOrder, LAMBDA d : W.open[d] /\ Shares(d, o))
    IN IF mute = W.byDev[o][i] THEN W
       ELSE ForEach(LAMBDA acc, d : SetStrategyMute(acc, i, mute, d),
                    [W EXCEPT !.byDev[o][i] = mute], others)

(* Mutant: the delayed unmute of a temporary mute is lost.                 *)
MutePairNoUnmute(W, i, o) == SetStrategyMute(W, i, TRUE, o)

(* A mute of a strategy on an output followed by its delayed unmute: the   *)
(* counts change at once, only the volume command is delayed.             *)
MutePair(W, i, o) == SetStrategyMute(SetStrategyMute(W, i, TRUE, o), i, FALSE, o)

(* checkDeviceMuteStrategies(), second loop: a temporary mute of the       *)
(* active strategies of an active output whose device changes.            *)
TemporaryMute(W, o, prevDevice) ==
    IF IsActive(W, o) /\ W.dev[o] # prevDevice
    THEN ForEach(LAMBDA acc, i :
                   IF IsStrategyActive(acc, o, i) THEN MutePair(acc, i, o) ELSE acc,
                 W, StrategyOrder)
    ELSE W

CheckDeviceMuteStrategies(W, o, prevDevice) ==
    TemporaryMute(ForEach(LAMBDA acc, i : DeviceMuteStrategy(acc, o, i), W, StrategyOrder),
                  o, prevDevice)

(* setOutputDevice(): ignore a device the output cannot reach; record the  *)
(* device; check mutes; unless nothing changes on a patched output, route   *)
(* (installPatch(), or resetOutputDevice() for no device) and apply the     *)
(* stream volumes for the new device.                                      *)
SetOutputDevice(W, o, newDevice, force, requiresMuteCheck) ==
    LET dev == newDevice \cap Supported[o]
        prev == W.dev[o]
        W1 == IF dev # {} THEN [W EXCEPT !.dev[o] = dev] ELSE W
        W2 == IF requiresMuteCheck THEN CheckDeviceMuteStrategies(W1, o, prev) ELSE W1
    IN IF newDevice # {} /\ dev = {} THEN W
       ELSE IF (dev = {} \/ dev = prev) /\ ~force /\ W.patch[o] THEN W2
       ELSE ApplyStreamVolumes([W2 EXCEPT !.patch[o] = dev # {}], o)

-----------------------------------------------------------------------------
(* Device selection and the re-routing loops of the public calls.          *)

(* getNewOutputDevice(): sonification active on the module, then media,    *)
(* then beacon active on the output (no call, no preferred device).        *)
GetNewOutputDevice(W, o) ==
    IF IsStrategyActiveOnSameModule(W, o, "SONIFICATION")
    THEN EngineDevice(W, "SONIFICATION")
    ELSE IF IsStrategyActive(W, o, "MEDIA") THEN EngineDevice(W, "MEDIA")
    ELSE IF IsStrategyActive(W, o, "BEACON") THEN EngineDevice(W, "BEACON")
    ELSE {}

(* getNewOutputDevice() of the duplicating output of o and the primary     *)
(* output: it has no clients of its own and shares both modules.           *)
DupNewDevice(W, o) ==
    IF \/ IsStrategyActiveOnSameModule(W, PrimaryOutput, "SONIFICATION")
       \/ IsStrategyActiveOnSameModule(W, o, "SONIFICATION")
    THEN EngineDevice(W, "SONIFICATION") ELSE {}

(* setOutputDevice() of a duplicating output: both sub-outputs, unforced.  *)
DupSetOutputDevice(W, o) ==
    LET nd == DupNewDevice(W, o)
    IN SetOutputDevice(SetOutputDevice(W, PrimaryOutput, nd, FALSE, TRUE),
                       o, nd, FALSE, TRUE)

(* getOutputsForDevice(), in handle order.                                 *)
OutputsForDevice(open, d) ==
    SelectSeq(OutputOrder, LAMBDA o : open[o] /\ d \subseteq Supported[o])

(* checkOutputForStrategy(): when the strategy moves to another set of     *)
(* outputs than mPreviousOutputs had for the cached device (the state W0   *)
(* at the start of the call), mute and later unmute it on every previous   *)
(* output where it is active.  checkOutputForAllStrategies() does not      *)
(* visit the beacon strategy.                                              *)
CheckOutputForStrategy(W, i, W0) ==
    LET src == OutputsForDevice(W0.open, EngineDevice(W0, i))
    IN IF src = OutputsForDevice(W.open, EngineDevice(W, i)) THEN W
       ELSE ForEach(LAMBDA acc, o :
                      IF IsStrategyActive(acc, o, i) THEN MutePair(acc, i, o) ELSE acc,
                    W, src)

CheckOutputForAllStrategies(W, W0) ==
    CheckOutputForStrategy(CheckOutputForStrategy(W, "SONIFICATION", W0), "MEDIA", W0)

(* The loop closing setForceUse() and setDeviceConnectionStateInt(): every *)
(* output in mOutputs order gets getNewOutputDevice(); a connection change *)
(* forces the routing, setForceUse() forces it for a device, and may       *)
(* re-apply the volumes; the duplicating output follows its output.       *)
RerouteOutput(W, o, connection, reeval) ==
    LET nd == GetNewOutputDevice(W, o)
        W1 == SetOutputDevice(W, o, nd, connection \/ nd # {}, TRUE)
        W2 == IF ~connection /\ reeval /\ nd # {} THEN ApplyStreamVolumes(W1, o) ELSE W1
    IN IF o \in Duplicated THEN DupSetOutputDevice(W2, o) ELSE W2

RerouteAll(W, connection, reeval) ==
    ForEach(LAMBDA acc, o : RerouteOutput(acc, o, connection, reeval),
            W, OpenOutputsSeq(W))

(* checkOutputsForDevice() opening an output for the new device: a fresh   *)
(* descriptor, routed to the device, with no patch yet.                    *)
OpenOutput(W, o, dv) ==
    [W EXCEPT !.open[o] = TRUE, !.dev[o] = {dv}, !.patch[o] = FALSE,
              !.recent[o] = FALSE, !.mute[o] = [s \in Streams |-> 0],
              !.vol[o] = [s \in Streams |-> TRUE],
              !.byDev[o] = [i \in Strategies |-> FALSE]]

(* Mutant: closing an output leaves its clients active.                    *)
CloseOutputKeepsClients(W, o) == [W EXCEPT !.open[o] = FALSE, !.patch[o] = FALSE]

(* closeOutput(): the patch is released and the descriptor, with its      *)
(* clients, removed; no stopSource() runs for clients still active.        *)
CloseOutput(W, o) ==
    [W EXCEPT !.open[o] = FALSE, !.patch[o] = FALSE,
              !.act = [c \in Clients |-> IF ClientOutput[c] = o THEN FALSE ELSE @[c]]]

-----------------------------------------------------------------------------
(* The public calls.                                                       *)

Init ==
    /\ available = FixedDevices
    /\ forceCfg = [i \in Strategies |-> {}]
    /\ outOpen = [o \in Outputs |-> o \in PrimaryOutputs]
    /\ device = InitDevice
    /\ patched = [o \in Outputs |-> o \in PrimaryOutputs /\ InitDevice[o] # {}]
    /\ active = [c \in Clients |-> FALSE]
    /\ recent = [o \in Outputs |-> FALSE]
    /\ muteCount = [o \in Outputs |-> [s \in Streams |-> 0]]
    /\ volume = [o \in Outputs |-> [s \in Streams |-> TRUE]]
    /\ mutedByDevice = [o \in Outputs |-> [i \in Strategies |-> FALSE]]
    /\ beaconMuteRef = 0 /\ beaconPlayRef = 0 /\ beaconMuted = FALSE

(* mOutputs.isAnyOutputActive(AUDIO_STREAM_TTS).                           *)
AnyOutputActiveButTts(W) ==
    \E o \in Outputs, s \in Streams \ {"TTS"} :
        W.open[o] /\ StreamActiveCount(W, o, s) > 0

(* startOutput() with startSource(): the beacon event, setClientActive(),  *)
(* and on the first client of the stream the routing of the output (forced *)
(* when it is idle and unpatched, or when another output of the module on  *)
(* the device is patched elsewhere) followed by checkAndSetVolume().       *)
(* AudioFlinger starts a client once and only on its open output.  A TTS   *)
(* start while another stream plays is refused and changes nothing.        *)
StartOutput(c) ==
    LET o == ClientOutput[c]
        s == ClientStream[c]
        W1 == HandleEventForBeacon(Cur, IF s = "TTS" THEN "STARTING_BEACON"
                                                      ELSE "STARTING_OUTPUT")
        force == ~IsActive(W1, o) /\ ~W1.patch[o]
        W2 == [W1 EXCEPT !.act[c] = TRUE]
        dev == GetNewOutputDevice(W2, o)
        shared == {d \in Outputs \ {o} : /\ W2.open[d]
                                         /\ OutputModule[d] = OutputModule[o]
                                         /\ Supported[d] \cap dev # {}}
        force2 == force \/ \E d \in shared : W2.dev[d] # dev /\ W2.patch[d]
        muteCheck == IsRecentlyActive(W1, o) \/ \E d \in shared : IsRecentlyActive(W2, d)
        W3 == IF StreamActiveCount(W2, o, s) = 1
              THEN CheckAndSetVolume(SetOutputDevice(W2, o, dev, force2, muteCheck), s, o)
              ELSE W2
    IN /\ outOpen[o] /\ ~active[c]
       /\ ~(s = "TTS" /\ ~TtsOutputAvailable /\ AnyOutputActiveButTts(Cur))
       /\ WithinBounds(W3)
       /\ Apply(W3)

(* stopSource(), re-routing of another active output of the module whose   *)
(* device differs from the one chosen for the stopping output.             *)
RestoreOutputDevice(W, d) ==
    LET nd == GetNewOutputDevice(W, d)
        force == W.dev[d] # nd
        W1 == SetOutputDevice(W, d, nd, force, TRUE)
    IN IF force THEN W1 ELSE ApplyStreamVolumes(W1, d)

(* stopOutput() with stopSource(): the beacon event, setClientActive(),    *)
(* and when the stream's last client stops: the stop time, the unforced    *)
(* routing of the output, and the restore loop over the other outputs.     *)
StopOutput(c) ==
    LET o == ClientOutput[c]
        s == ClientStream[c]
        W1 == HandleEventForBeacon(Cur, IF s = "TTS" THEN "STOPPING_BEACON"
                                                      ELSE "STOPPING_OUTPUT")
        W2 == [W1 EXCEPT !.act[c] = FALSE]
        Wr == [W2 EXCEPT !.recent[o] = TRUE]
        nd == GetNewOutputDevice(Wr, o)
        W3 == ForEach(LAMBDA acc, d :
                        IF /\ d # o /\ acc.open[d] /\ IsActive(acc, d)
                           /\ OutputModule[d] = OutputModule[o] /\ nd # acc.dev[d]
                        THEN RestoreOutputDevice(acc, d) ELSE acc,
                      SetOutputDevice(Wr, o, nd, FALSE, TRUE), OutputOrder)
        W4 == IF StreamActiveCount(W2, o, s) = 0 THEN W3 ELSE W2
    IN /\ outOpen[o] /\ active[c]
       /\ WithinBounds(W4)
       /\ Apply(W4)

(* Twice the output latency passes after a stop: isActive(latency * 2)     *)
(* turns false.                                                            *)
DrainElapsed(o) ==
    /\ outOpen[o] /\ recent[o] /\ ~IsActive(Cur, o)
    /\ recent' = [recent EXCEPT ![o] = FALSE]
    /\ UNCHANGED <<available, forceCfg, outOpen, device, patched, active,
                   muteCount, volume, mutedByDevice, beaconMuteRef, beaconPlayRef,
                   beaconMuted>>

(* setForceUse(): a new configuration (ignored when unchanged) may move a  *)
(* strategy's device; checkForDeviceAndOutputChanges(), then every output  *)
(* is re-routed; usages for communication, dock and system re-apply the    *)
(* volumes (reeval).                                                       *)
SetForceUse(i, d, reeval) ==
    LET W1 == [Cur EXCEPT !.force[i] = d]
        W2 == RerouteAll(CheckOutputForAllStrategies(W1, Cur), FALSE, reeval)
    IN /\ d # forceCfg[i]
       /\ WithinBounds(W2)
       /\ Apply(W2)

(* setDeviceConnectionStateInt() for an output device becoming available:  *)
(* checkOutputsForDevice() opens an output for each profile of the device  *)
(* that has none open; the outputs are checked against the engine's new    *)
(* devices and all re-routed with force.                                   *)
ConnectDevice(dv) ==
    LET W1 == ForEach(LAMBDA acc, o : OpenOutput(acc, o, dv),
                      [Cur EXCEPT !.avail = @ \cup {dv}],
                      SelectSeq(OutputOrder, LAMBDA o : ~outOpen[o] /\ dv \in Supported[o]))
        W2 == RerouteAll(CheckOutputForAllStrategies(W1, Cur), TRUE, FALSE)
    IN /\ dv \notin available
       /\ WithinBounds(W2)
       /\ Apply(W2)

(* The same call for a device becoming unavailable: outputs left with no   *)
(* available device are closed after checkOutputForAllStrategies().        *)
DisconnectDevice(dv) ==
    LET W1 == CheckOutputForAllStrategies([Cur EXCEPT !.avail = @ \ {dv}], Cur)
        closing == SelectSeq(OutputOrder, LAMBDA o : outOpen[o] /\ Supported[o] \cap W1.avail = {})
        W2 == RerouteAll(ForEach(LAMBDA acc, o : CloseOutput(acc, o), W1, closing),
                         TRUE, FALSE)
    IN /\ dv \in available \ FixedDevices
       /\ WithinBounds(W2)
       /\ Apply(W2)

Next ==
    \/ \E c \in Clients : StartOutput(c) \/ StopOutput(c)
    \/ \E o \in Outputs : DrainElapsed(o)
    \/ \E i \in Strategies, reeval \in BOOLEAN :
          \E d \in ForceChoices[i] \cup {{}} : SetForceUse(i, d, reeval)
    \/ \E dv \in Devices : ConnectDevice(dv) \/ DisconnectDevice(dv)

Spec == Init /\ [][Next]_vars

-----------------------------------------------------------------------------
(* Properties.                                                             *)

TypeOK ==
    /\ available \in SUBSET Devices /\ FixedDevices \subseteq available
    /\ forceCfg \in [Strategies -> SUBSET Devices]
    /\ outOpen \in [Outputs -> BOOLEAN] /\ patched \in [Outputs -> BOOLEAN]
    /\ device \in [Outputs -> SUBSET Devices]
    /\ active \in [Clients -> BOOLEAN] /\ recent \in [Outputs -> BOOLEAN]
    /\ muteCount \in [Outputs -> [Streams -> 0..MaxCount]]
    /\ volume \in [Outputs -> [Streams -> BOOLEAN]]
    /\ mutedByDevice \in [Outputs -> [Strategies -> BOOLEAN]]
    /\ beaconMuteRef \in 0..MaxCount /\ beaconPlayRef \in 0..MaxCount
    /\ beaconMuted \in BOOLEAN
    /\ \A c \in Clients : active[c] => outOpen[ClientOutput[c]]

(* The mutes an output holds from checkDeviceMuteStrategies() on a stream: *)
(* one for each open output sharing a device with it that has the stream's *)
(* strategy muted by device.                                               *)
DeviceMutes(o, s) ==
    Cardinality({o2 \in Outputs : /\ outOpen[o2] /\ Shares(o2, o)
                                  /\ mutedByDevice[o2][StrategyOf[s]]})

(* Every mMuteCount of an open output is accounted for by a live reason:   *)
(* the device mutes of the outputs sharing its devices, plus for TTS the   *)
(* beacon mute, which setBeaconMute() applied to every output open when    *)
(* mBeaconMuted last changed.  A count left over by a temporary mute, a    *)
(* checkOutputForStrategy() pair, a closed output or an unmatched unmute   *)
(* would leave a stream silenced with nothing left to unmute it.           *)
MuteCountsMatched ==
    \A o \in Outputs, s \in Streams : outOpen[o] =>
        LET extra == muteCount[o][s] - DeviceMutes(o, s)
        IN IF s # "TTS" THEN extra = 0
           ELSE IF ~beaconMuted THEN extra = 0
           ELSE IF o \in PrimaryOutputs THEN extra = 1
           ELSE extra \in {0, 1}

(* mStrategyMutedByDevice is set only while its reason lasts: the output   *)
(* is active on a combination of at least two devices.  Every path that    *)
(* makes the output inactive or changes its device (stopSource(), the      *)
(* re-routing of setForceUse() and of connection changes) must re-run      *)
(* checkDeviceMuteStrategies() and release the strategies it muted.        *)
MutedByDeviceHasCause ==
    \A o \in Outputs, i \in Strategies :
        outOpen[o] /\ mutedByDevice[o][i] =>
            IsActive(Cur, o) /\ Cardinality(device[o]) >= 2

(* Without a dedicated TTS output, TTS is silent on its output whenever    *)
(* another stream plays on any output (handleEventForBeacon(): "any        *)
(* playback causes beacon to be muted").                                   *)
TtsSilencedWhilePlaying ==
    ~TtsOutputAvailable =>
        \A c \in Clients :
            active[c] /\ ClientStream[c] = "TTS" /\ AnyOutputActiveButTts(Cur)
                => ~volume[ClientOutput[c]]["TTS"]

(* Without a dedicated TTS output, TTS playing alone is audible:           *)
(* handleEventForBeacon(): "no other playback: unmute when beacon starts   *)
(* playing".                                                               *)
BeaconAudibleWhenAlone ==
    ~TtsOutputAvailable =>
        \A c \in Clients :
            active[c] /\ ClientStream[c] = "TTS" /\ ~AnyOutputActiveButTts(Cur)
                => ~beaconMuted

====
