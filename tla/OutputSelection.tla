--------------------------- MODULE OutputSelection ---------------------------
(***************************************************************************)
(* Output stream selection of AudioPolicyManager: getOutputForAttr and     *)
(* getOutputForDevice choosing between reusing a direct output, opening a  *)
(* new one from the profile getProfileForDirectOutput finds, and attaching *)
(* to a mixed output picked by selectOutput; releaseOutput detaching a     *)
(* client and closing a direct output when its open count drops to zero.   *)
(*                                                                         *)
(* Data abstraction: a request is its session, its flags and one of three  *)
(* configurations ("pcm": mixable; "hires": linear PCM the mixer would not  *)
(* take without asking for a direct output, more than two channels or a    *)
(* high rate; "compressed": not linear PCM).  Formats are bytes per        *)
(* sample.  The device a request is routed to is an input (the engine's    *)
(* device for the strategy).  Output profiles are a constant sequence in   *)
(* module order.                                                           *)
(***************************************************************************)
EXTENDS Integers, FiniteSets, Sequences, TLC

CONSTANTS
    Profiles,      \* <<[flags, devices, configs, format, maxOpen], ...>>
    InitOpen,      \* profiles opened by initialize(), in that order
    Sessions,
    Devices,
    Requests,      \* set of [flags, config] a client may ask for
    NoSession,     \* mDirectClientSession of a mixed output
    MaxOutputs,    \* bound on io handles allocated
    MaxPorts,      \* bound on clients attached at once
    OpenOutcomes   \* results of outputDesc->open with the asked parameters

FormatOf == [c \in {"pcm", "hires", "compressed"} |->
                CASE c = "pcm" -> 2 [] c = "hires" -> 4 [] c = "compressed" -> 0]
IsLinearPcm(c) == c # "compressed"
INVALID == 0    \* AUDIO_FORMAT_INVALID
NoOutput == 0   \* AUDIO_IO_HANDLE_NONE
NoProfile == 0

VARIABLES
    outputs,   \* mOutputs: io handle -> [profile, session, count, config]
    clients,   \* port id -> [output, session, config]
    nextIo     \* next io handle; handles grow, so mOutputs order is open order

vars == <<outputs, clients, nextIo>>

IsDirect(p) == "direct" \in Profiles[p].flags

OpenCount(W, p) == Cardinality({h \in DOMAIN W.outputs : W.outputs[h].profile = p})

(* IOProfile::canOpenNewIo: the profile's open count is below its limit.   *)
CanOpenNewIo(W, p) == OpenCount(W, p) < Profiles[p].maxOpen

HandlesInOrder(S) ==
    LET RECURSIVE Build(_)
        Build(T) == IF T = {} THEN <<>>
                    ELSE LET m == CHOOSE x \in T : \A y \in T : x <= y
                         IN <<m>> \o Build(T \ {m})
    IN Build(S)

(* getOutputsForDevice: open outputs whose supported devices include the  *)
(* device, in io handle order (a SortedVector).                            *)
GetOutputsForDevice(W, device) ==
    HandlesInOrder({h \in DOMAIN W.outputs : device \in Profiles[W.outputs[h].profile].devices})

(* AudioPort::isBetterFormatMatch, as spec 4.2 states it ("closest format *)
(* match"): a format beats the current best when there is none yet or     *)
(* when it is closer to the requested one in bytes per sample.             *)
Abs(x) == IF x < 0 THEN -x ELSE x
IsBetterFormatMatch(new, cur, target) ==
    /\ new # cur
    /\ cur = INVALID \/ Abs(target - new) < Abs(target - cur)

(* One iteration of selectOutput's loop over the candidate outputs.        *)
SelectStep(W, A, h, flags, format) ==
    LET p  == W.outputs[h].profile
        f  == Profiles[p].format
        A1 == IF format # INVALID /\ IsBetterFormatMatch(f, A.bestFormat, format)
              THEN [A EXCEPT !.forFormat = h, !.bestFormat = f] ELSE A
        common == Cardinality(Profiles[p].flags \cap flags)
        A2 == IF common > A1.maxCommon
              THEN [A1 EXCEPT !.forFlags = h, !.maxCommon = common, !.bestForFlags = f]
              ELSE IF common = A1.maxCommon /\ format # INVALID
                      /\ IsBetterFormatMatch(f, A1.bestForFlags, format)
              THEN [A1 EXCEPT !.forFlags = h, !.bestForFlags = f]
              ELSE A1
        A3 == IF "primary" \in Profiles[p].flags THEN [A2 EXCEPT !.forPrimary = h] ELSE A2
    IN  IF IsDirect(p) THEN A ELSE A3

RECURSIVE SelectLoop(_, _, _, _, _)
SelectLoop(W, A, outs, flags, format) ==
    IF outs = <<>> THEN A
    ELSE SelectLoop(W, SelectStep(W, A, Head(outs), flags, format), Tail(outs), flags, format)

(* selectOutput(outputs, flags, format): no candidate gives none, a single *)
(* candidate is returned as it is; otherwise the output sharing the most   *)
(* flags (closest format on a tie), else the closest format, else the      *)
(* primary output, else the first candidate.                               *)
SelectOutput(W, outs, flags, format) ==
    IF Len(outs) = 0 THEN NoOutput
    ELSE IF Len(outs) = 1 THEN outs[1]
    ELSE LET A == SelectLoop(W, [maxCommon |-> 0, forFlags |-> NoOutput,
                                 forPrimary |-> NoOutput, forFormat |-> NoOutput,
                                 bestFormat |-> INVALID, bestForFlags |-> INVALID],
                             outs, flags, format)
         IN  CASE A.forFlags # NoOutput -> A.forFlags
               [] A.forFormat # NoOutput -> A.forFormat
               [] A.forPrimary # NoOutput -> A.forPrimary
               [] OTHER -> outs[1]

(* getProfileForDirectOutput: the first direct profile, in module order,   *)
(* that supports the device and the configuration, unless a later one is   *)
(* offload capable.  (Every device of a profile here is available.)        *)
GetProfileForDirectOutput(device, config) ==
    LET ok == {p \in DOMAIN Profiles :
                 IsDirect(p) /\ device \in Profiles[p].devices /\ config \in Profiles[p].configs}
        offload == {p \in ok : "offload" \in Profiles[p].flags}
        Least(S) == CHOOSE p \in S : \A q \in S : p <= q
    IN  IF ok = {} THEN NoProfile
        ELSE IF offload # {} THEN Least(offload)
        ELSE Least(ok)

(* The profile lookup depends only on constants; TLC evaluates it once.    *)
DirectProfileFor == [d \in Devices, c \in {"pcm", "hires", "compressed"} |->
                        GetProfileForDirectOutput(d, c)]

(* The non_direct_output label: linear PCM goes to the mixed output       *)
(* selectOutput picks among all outputs reaching the device, with the      *)
(* DIRECT flag dropped; anything else gets no output.                      *)
NonDirectOutput(W, device, flags, config) ==
    IF ~IsLinearPcm(config) THEN [W EXCEPT !.out = NoOutput]
    ELSE [W EXCEPT !.out = SelectOutput(W, GetOutputsForDevice(W, device),
                                        flags \ {"direct"}, FormatOf[config])]

(* Mutant of ReusableDirect: the session is not compared.                 *)
ReusableDirectAnySession(W, prof, session, config) ==
    {h \in DOMAIN W.outputs : W.outputs[h].profile = prof /\ W.outputs[h].config = config}

(* A direct output this session already opened with this configuration.   *)
ReusableDirect(W, prof, session, config) ==
    {h \in DOMAIN W.outputs : /\ W.outputs[h].profile = prof
                              /\ W.outputs[h].config = config
                              /\ W.outputs[h].session = session}

(* getOutputForDevice for a MUSIC stream: offload implies direct; a        *)
(* mixable request skips the direct search; a direct profile is reused     *)
(* when this session has it open with the same parameters (open count      *)
(* incremented), else opened if the profile allows another instance; a     *)
(* failed open falls back to a mixed output for linear PCM.  W.out is the  *)
(* io handle returned.                                                     *)
GetOutputForDevice(W, device, session, flags0, config, openOk) ==
    LET flags == IF "offload" \in flags0 THEN flags0 \cup {"direct"} ELSE flags0
        prof  == DirectProfileFor[device, config]
        reuse == ReusableDirect(W, prof, session, config)
        h     == CHOOSE x \in reuse : \A y \in reuse : x <= y
    IN  IF "direct" \notin flags /\ config = "pcm" THEN NonDirectOutput(W, device, flags, config)
        ELSE IF prof = NoProfile THEN NonDirectOutput(W, device, flags, config)
        ELSE IF reuse # {}
             THEN [W EXCEPT !.outputs[h].count = @ + 1, !.out = h]
        ELSE IF ~CanOpenNewIo(W, prof) THEN NonDirectOutput(W, device, flags, config)
        ELSE IF openOk
             THEN [W EXCEPT !.outputs = W.outputs @@ (W.nextIo :>
                                 [profile |-> prof, session |-> session,
                                  count |-> 1, config |-> config]),
                            !.nextIo = W.nextIo + 1,
                            !.out = W.nextIo]
        ELSE IF IsLinearPcm(config) THEN NonDirectOutput(W, device, flags, config)
        ELSE [W EXCEPT !.out = NoOutput]

(* closeOutput: the output leaves mOutputs with the clients it holds.      *)
CloseOutput(W, h) ==
    [W EXCEPT !.outputs = [x \in DOMAIN W.outputs \ {h} |-> W.outputs[x]],
              !.clients = [q \in {q \in DOMAIN W.clients : W.clients[q].output # h} |->
                             W.clients[q]]]

RemoveClient(W, port) ==
    [W EXCEPT !.clients = [q \in DOMAIN W.clients \ {port} |-> W.clients[q]]]

(* Mutants of ReleaseClient: the closed output's clients are left behind, *)
(* the reuse count is not decremented, and the output closes at count 2.  *)
ReleaseClientKeepsClosedClient(W, port) ==
    LET h == W.clients[port].output
        n == W.outputs[h].count
    IN  CASE ~IsDirect(W.outputs[h].profile) -> RemoveClient(W, port)
          [] n <= 0 -> W
          [] n = 1  -> [W EXCEPT !.outputs = [x \in DOMAIN W.outputs \ {h} |-> W.outputs[x]]]
          [] OTHER  -> [RemoveClient(W, port) EXCEPT !.outputs[h].count = n - 1]

ReleaseClientNoDecrement(W, port) ==
    LET h == W.clients[port].output
        n == W.outputs[h].count
    IN  CASE ~IsDirect(W.outputs[h].profile) -> RemoveClient(W, port)
          [] n <= 0 -> W
          [] n = 1  -> CloseOutput(RemoveClient(W, port), h)
          [] OTHER  -> RemoveClient(W, port)

ReleaseClientClosesEarly(W, port) ==
    LET h == W.clients[port].output
        n == W.outputs[h].count
    IN  CASE ~IsDirect(W.outputs[h].profile) -> RemoveClient(W, port)
          [] n <= 0 -> W
          [] n <= 2 -> CloseOutput(RemoveClient(W, port), h)
          [] OTHER  -> [RemoveClient(W, port) EXCEPT !.outputs[h].count = n - 1]

(* releaseOutput(portId) once the client's output is found: a direct       *)
(* output with no valid open count is left alone; otherwise its count      *)
(* drops and it closes at zero, and the client is removed.                 *)
ReleaseClient(W, port) ==
    LET h      == W.clients[port].output
        direct == IsDirect(W.outputs[h].profile)
        n      == W.outputs[h].count
        W1     == RemoveClient(W, port)
    IN  CASE ~direct -> W1
          [] n <= 0  -> W
          [] n = 1   -> CloseOutput(W1, h)
          [] OTHER   -> [W1 EXCEPT !.outputs[h].count = n - 1]

Cur == [outputs |-> outputs, clients |-> clients, nextIo |-> nextIo, out |-> NoOutput]

Apply(W) == /\ outputs' = W.outputs
            /\ clients' = W.clients
            /\ nextIo' = W.nextIo

-----------------------------------------------------------------------------
(* After initialize(): the mixed outputs of the attached devices are open. *)
Init ==
    /\ outputs = [k \in 1..Len(InitOpen) |->
                    [profile |-> InitOpen[k], session |-> NoSession, count |-> 0, config |-> "pcm"]]
    /\ clients = <<>>
    /\ nextIo = Len(InitOpen) + 1

(* getOutputForAttr for a MUSIC client with no explicit route and no      *)
(* policy mix: the output getOutputForDevice returns gets a new client     *)
(* under a fresh port id; no output means INVALID_OPERATION.  Port ids are *)
(* unique in the code; a slot is reused here only once its client is gone, *)
(* and a release naming a gone client does nothing either way.             *)
GetOutputForAttr(session, req, device, openOk) ==
    LET W1 == GetOutputForDevice(Cur, device, session, req.flags, req.config, openOk)
        free == (1..MaxPorts) \ DOMAIN clients
        port == CHOOSE q \in free : \A r \in free : q <= r
    IN
    /\ W1.out # NoOutput
    /\ W1.nextIo <= MaxOutputs + 1
    /\ free # {}
    /\ outputs' = W1.outputs
    /\ nextIo' = W1.nextIo
    /\ clients' = W1.clients @@ (port :> [output |-> W1.out, session |-> session,
                                          config |-> req.config])

(* releaseOutput(portId): a port whose output is gone is ignored.          *)
ReleaseOutput(port) ==
    /\ port \in DOMAIN clients
    /\ Apply(ReleaseClient(Cur, port))

Next ==
    \/ \E s \in Sessions, r \in Requests, d \in Devices, ok \in OpenOutcomes :
          GetOutputForAttr(s, r, d, ok)
    \/ \E port \in 1..MaxPorts : ReleaseOutput(port)

Spec == Init /\ [][Next]_vars

-----------------------------------------------------------------------------
ClientsOn(h) == {q \in DOMAIN clients : clients[q].output = h}

TypeOK ==
    /\ DOMAIN outputs \subseteq 1..MaxOutputs
    /\ \A h \in DOMAIN outputs : outputs[h].profile \in DOMAIN Profiles /\ outputs[h].count \in Nat
    /\ DOMAIN clients \subseteq 1..MaxPorts
    /\ \A q \in DOMAIN clients : clients[q].output \in DOMAIN outputs
    /\ nextIo \in 1..MaxOutputs + 1

(* mDirectOpenCount of an open direct output counts the clients attached  *)
(* to it: getOutputForDevice increments it for each reuse and             *)
(* releaseOutput decrements it for each client, so the output closes with *)
(* its last client.                                                        *)
DirectCountMatchesClients ==
    \A h \in DOMAIN outputs :
        IsDirect(outputs[h].profile) => outputs[h].count = Cardinality(ClientsOn(h))

(* releaseOutput closes an output only when the client released was the   *)
(* last one on it: no other client's output disappears under it.          *)
ClosedOnlyWhenUnused ==
    [][\A h \in DOMAIN outputs \ DOMAIN outputs' : Cardinality(ClientsOn(h)) <= 1]_vars

-----------------------------------------------------------------------------
(* Refinement mapping onto DirectStreams: the open direct outputs are the  *)
(* streams, each with its profile, its mDirectClientSession, its           *)
(* configuration and the clients attached to it.                           *)
DirectOutputs == {h \in DOMAIN outputs : IsDirect(outputs[h].profile)}
DirectProfiles == {p \in DOMAIN Profiles : IsDirect(p)}

AbsStreams ==
    [h \in DirectOutputs |->
        [profile |-> outputs[h].profile, owner |-> outputs[h].session,
         config |-> outputs[h].config,
         users |-> {[port |-> q, session |-> clients[q].session, config |-> clients[q].config] :
                      q \in ClientsOn(h)}]]

Direct == INSTANCE DirectStreams WITH
    streams <- AbsStreams,
    MaxOpen <- [p \in DirectProfiles |-> Profiles[p].maxOpen],
    Handles <- 1..MaxOutputs,
    Ports <- 1..MaxPorts,
    Configs <- {"pcm", "hires", "compressed"}

(* getOutputForAttr and releaseOutput implement the direct stream rules of *)
(* spec 4.2: a direct output is shared only by its own session with        *)
(* identical parameters, opens within its profile's limit and closes with  *)
(* its last client.                                                        *)
DirectStreamsRefined == Direct!Spec

====
