------------------------- MODULE CaptureConcurrency -------------------------
(***************************************************************************)
(* The capture side of AudioPolicyManager (AudioPolicyManager.cpp):        *)
(* record clients created by getInputForAttr(), attached to input          *)
(* descriptors; startInput() arbitrating which capture may run (silenced   *)
(* client eviction, HOTWORD preemption, refusal during a call);            *)
(* stopInput(), releaseInput(), setAppState(); the call TX patch built by  *)
(* updateCallRouting() that terminates captures on its HW module; and      *)
(* closeAllInputs() run on every input device connection change.           *)
(*                                                                         *)
(* Data is abstracted: a capture source is "HOTWORD" or "MIC" (every       *)
(* non-hotword source), devices, formats and patches of inputs are left    *)
(* out, an input profile is a name with a module and its open/active       *)
(* limits.  The descriptor state changed by one public call is computed as *)
(* a working record W so that the calls the handler makes in sequence      *)
(* (closeClient = stopInput then releaseInput, ...) compose in one step.   *)
(***************************************************************************)
EXTENDS Integers, FiniteSets, Sequences, SequencesExt

CONSTANTS
    MaxPorts,           \* bound on port ids handed out by getInputForAttr()
    NumSessions,        \* audio sessions are 1..NumSessions
    STSessions,         \* sessions acquired by acquireSoundTriggerSession()
    Uids,               \* client uids (model values)
    Modules,            \* HW modules (model values)
    PrimaryModule,      \* the primary HW module
    NoModule,           \* "no call TX patch"
    Profiles,           \* input IOProfiles (model values)
    ProfileModule,      \* [Profiles -> Modules]
    MaxOpenCount,       \* [Profiles -> Nat], 0 = unlimited
    MaxActiveCount,     \* [Profiles -> Nat], 0 = unlimited
    CaptureProfile,     \* profile getInputProfile() picks for a MIC request
    HotwordProfile,     \* profile for HOTWORD outside a sound trigger session
    STProfile,          \* [STSessions -> Profiles], inputs of sound trigger sessions
    STConcurrentCapture, \* what the sound trigger HAL's module list reports
    AllocOutcomes,      \* whether calloc() of the module list succeeds
    MicSessions         \* sessions MIC requests use (only HOTWORD's matter)

Sessions == 1..NumSessions
Ports == 1..MaxPorts
Sources == {"HOTWORD", "MIC"}

ASSUME /\ STSessions \subseteq Sessions
       /\ NoModule \notin Modules
       /\ PrimaryModule \in Modules
       /\ ProfileModule \in [Profiles -> Modules]
       /\ MaxOpenCount \in [Profiles -> Nat] /\ MaxActiveCount \in [Profiles -> Nat]
       /\ {CaptureProfile, HotwordProfile} \subseteq Profiles
       /\ STProfile \in [STSessions -> Profiles]
       /\ STConcurrentCapture \in BOOLEAN
       /\ AllocOutcomes \subseteq BOOLEAN /\ AllocOutcomes # {}
       /\ MicSessions \subseteq Sessions /\ MicSessions # {}

(* An input descriptor is named after the port of the getInputForAttr()   *)
(* call that opened it: every call opens at most one.  IO handles: the     *)
(* handle acquired with sound trigger session s is s; an input opened by   *)
(* the call of port p gets the fresh handle NumSessions + p.  Handles are  *)
(* unique ids allocated in increasing order, and mInputs is kept sorted by *)
(* handle, which fixes the order in which startInput() visits inputs.      *)
Descs == Ports
NoDesc == 0
Handles == 1..(NumSessions + MaxPorts)
NoClient == [desc |-> NoDesc]

VARIABLES
    nextPort,        \* next value of AudioPort::getNextUniqueId()
    clients,         \* [Ports -> record client or NoClient]
    inputs,          \* [Descs -> [open, handle, profile, preempted]]
    mInputs,         \* [Handles -> Descs \cup {NoDesc}]
    curOpenCount,    \* IOProfile::curOpenCount
    curActiveCount,  \* IOProfile::curActiveCount
    inCall,          \* phone state is AUDIO_MODE_IN_CALL
    callTxModule,    \* HW module of the source device of mCallTxPatch
    stComputed,      \* mHasComputedSoundTriggerSupportsConcurrentCapture
    stSupports,      \* mSoundTriggerSupportsConcurrentCapture
    stCaptureState   \* last SoundTrigger::setCaptureState() value sent

stCache == <<stComputed, stSupports>>
vars == <<nextPort, clients, inputs, mInputs, curOpenCount, curActiveCount,
          inCall, callTxModule, stCache, stCaptureState>>

ClientRec == [desc: Descs, source: Sources, session: Sessions, uid: Uids,
              active: BOOLEAN, silenced: BOOLEAN, st: BOOLEAN]
InputRec == [open: BOOLEAN, handle: Handles \cup {0}, profile: Profiles,
             preempted: SUBSET Sessions]

-----------------------------------------------------------------------------
(* Descriptor collections, read from a working record W.                   *)

Cur == [cl |-> clients, in |-> inputs, map |-> mInputs,
        open |-> curOpenCount, act |-> curActiveCount, stc |-> stCaptureState]

ClientsOf(W, d) == {p \in Ports : W.cl[p].desc = d}
ActiveClientsOf(W, d) == {p \in ClientsOf(W, d) : W.cl[p].active}
Registered(W) == {W.map[h] : h \in Handles} \ {NoDesc}

(* InputCollection::getInputForClient(): the registered input holding p.   *)
Reachable(W, p) == W.cl[p].desc \in Registered(W)

(* AudioInputCollection::getActiveInputs(), in mInputs (handle) order.     *)
ActiveInputs(W) ==
    SetToSortSeq({d \in Registered(W) : ActiveClientsOf(W, d) # {}},
                 LAMBDA a, b : W.in[a].handle < W.in[b].handle)

(* AudioInputDescriptor::inputSource(true): the highest priority source of *)
(* the active clients; HOTWORD has the lowest priority of all sources.     *)
InputSource(W, d) ==
    IF \A p \in ActiveClientsOf(W, d) : W.cl[p].source = "HOTWORD"
    THEN "HOTWORD" ELSE "MIC"

(* AudioInputDescriptor::isSoundTrigger(): flag of the first client.       *)
IsSoundTrigger(W, d) ==
    /\ ClientsOf(W, d) # {}
    /\ W.cl[Min(ClientsOf(W, d))].st

(* Mutant: getInputForDevice() without the canOpenNewIo() check.         *)
CanOpenNewIoUnchecked(W, f) == TRUE

(* An input captures from a device of the primary module when its profile *)
(* is on that module (availablePrimaryInputDevices()).                     *)
OnPrimary(W, d) == ProfileModule[W.in[d].profile] = PrimaryModule

(* InputCollection::activeInputsCountOnDevices(primaryInputDevices).       *)
PrimaryActiveCount(W) ==
    Cardinality({d \in Registered(W) : OnPrimary(W, d) /\ ActiveClientsOf(W, d) # {}})

(* Mutant: capture reported stopped while another primary input captures. *)
CaptureOffWhileOthersActive(W, d) ==
    IF OnPrimary(W, d) /\ PrimaryActiveCount(W) <= 1
    THEN [W EXCEPT !.stc = FALSE] ELSE W

(* stopInput() and closeInput(): the last capture on primary devices       *)
(* stopped, SoundTrigger::setCaptureState(false).                          *)
CaptureOff(W, d) ==
    IF OnPrimary(W, d) /\ PrimaryActiveCount(W) = 0
    THEN [W EXCEPT !.stc = FALSE] ELSE W

(* startInput(): the first capture on primary devices started,             *)
(* SoundTrigger::setCaptureState(true).                                    *)
CaptureOn(W, d) ==
    IF OnPrimary(W, d) /\ PrimaryActiveCount(W) = 1
    THEN [W EXCEPT !.stc = TRUE] ELSE W

CanOpenNewIo(W, f) == MaxOpenCount[f] = 0 \/ W.open[f] < MaxOpenCount[f]
CanStartNewIo(W, f) == MaxActiveCount[f] = 0 \/ W.act[f] < MaxActiveCount[f]

-----------------------------------------------------------------------------
(* Operations on W, one per function of the code.                          *)

(* Mutant: stop() that forgets to give back the profile's active slot.    *)
StopClientKeepsSlot(W, p) ==
    LET d == W.cl[p].desc
        idle == ActiveClientsOf(W, d) = {p}
        W2 == [W EXCEPT !.cl[p].active = FALSE,
                        !.in[d].preempted = IF idle THEN {} ELSE @]
    IN IF idle THEN CaptureOff(W2, d) ELSE W2

(* stopInput() of an active client: setClientActive(false), then stop()   *)
(* gives back the profile's active slot; once the input is no longer      *)
(* active, the capture state is reported and the preempted sessions are    *)
(* cleared.                                                                *)
StopClient(W, p) ==
    LET d == W.cl[p].desc
        f == W.in[d].profile
        idle == ActiveClientsOf(W, d) = {p}
        W2 == [W EXCEPT !.cl[p].active = FALSE,
                        !.act[f] = IF idle THEN @ - 1 ELSE @,
                        !.in[d].preempted = IF idle THEN {} ELSE @]
    IN IF idle THEN CaptureOff(W2, d) ELSE W2

(* Mutant: close() gives back an active slot whether or not the input was *)
(* active.                                                                 *)
CloseDescFreesAlways(W, d) ==
    LET f == W.in[d].profile
    IN [W EXCEPT !.in[d].open = FALSE, !.open[f] = @ - 1, !.act[f] = @ - 1]

(* AudioInputDescriptor::close(): frees the open slot, and the active slot *)
(* of an input closed while still active.                                  *)
CloseDesc(W, d) ==
    LET f == W.in[d].profile
    IN [W EXCEPT !.in[d].open = FALSE,
                 !.open[f] = @ - 1,
                 !.act[f] = IF ActiveClientsOf(W, d) # {} THEN @ - 1 ELSE @]

(* closeInput(): close the descriptor mInputs holds at handle h, remove  *)
(* it and report the capture state; an unknown handle is ignored.         *)
CloseInput(W, h) ==
    LET d == W.map[h]
    IN IF d = NoDesc THEN W
       ELSE CaptureOff([CloseDesc(W, d) EXCEPT !.map[h] = NoDesc], d)

(* releaseInput(): remove the client; close the input left without one.   *)
ReleaseClient(W, p) ==
    LET d == W.cl[p].desc
        W2 == [W EXCEPT !.cl[p] = NoClient]
    IN IF ClientsOf(W2, d) = {} THEN CloseInput(W2, W.in[d].handle) ELSE W2

(* closeClient(): stopInput() then releaseInput().                         *)
CloseClient(W, p) == ReleaseClient(StopClient(W, p), p)

CloseClients(W, E) == FoldSet(LAMBDA p, acc : CloseClient(acc, p), W, E)

(* closeActiveClients(): close every active client of input d.             *)
CloseActiveClients(W, d) == CloseClients(W, ActiveClientsOf(W, d))

(* startInput(), "There can be only one": close the active silenced        *)
(* clients of every active input.  The loop walks the vector activeInputs  *)
(* by position while reassigning it after each closeClient(): once the     *)
(* vector shrinks, position i holds the i-th input of the refreshed list,  *)
(* and a position past its end still holds the stale pointer of the       *)
(* original list (orig[i]), whose clients are read as they now are.        *)
(* Mutant: startInput() without the "There can be only one" loop.         *)
EvictNone(W, orig, i) == W

RECURSIVE EvictSilenced(_, _, _)
EvictSilenced(W, orig, i) ==
    IF i > Len(orig) THEN W
    ELSE LET cur == ActiveInputs(W)
             d == IF i <= Len(cur) THEN cur[i] ELSE orig[i]
             S == {p \in ActiveClientsOf(W, d) : W.cl[p].silenced}
         IN EvictSilenced(CloseClients(W, S), orig, i + 1)

(* Mutant: a HOTWORD start refused only by a preempting HOTWORD input.    *)
ConflictsHotwordIgnoresCapture(W, p, d) ==
    IF W.cl[p].source = "HOTWORD"
    THEN InputSource(W, d) = "HOTWORD" /\ W.cl[p].session \in W.in[d].preempted
    ELSE InputSource(W, d) # "HOTWORD"

(* startInput(): does active input d refuse the start of client p?         *)
Conflicts(W, p, d) ==
    IF W.cl[p].source = "HOTWORD"
    THEN IF InputSource(W, d) = "HOTWORD"
         THEN W.cl[p].session \in W.in[d].preempted
         ELSE TRUE
    ELSE InputSource(W, d) # "HOTWORD"

(* startInput(): preempt the active HOTWORD clients of each active input,  *)
(* except sound trigger inputs when concurrent capture is allowed; the     *)
(* starting input records the preempted sessions of the last input visited.*)
RECURSIVE PreemptHotword(_, _, _, _, _)
PreemptHotword(W, l, i, p, allow) ==
    IF i > Len(l) THEN W
    ELSE LET d == l[i]
             H == {q \in ActiveClientsOf(W, d) : W.cl[q].source = "HOTWORD"}
             sessions == W.in[d].preempted \cup {W.cl[q].session : q \in H}
             W2 == CloseClients(W, H)
         IN IF (allow /\ IsSoundTrigger(W, d)) \/ H = {}
            THEN PreemptHotword(W, l, i + 1, p, allow)
            ELSE PreemptHotword([W2 EXCEPT !.in[W.cl[p].desc].preempted = sessions],
                                l, i + 1, p, allow)

(* setClientActive(true) then AudioInputDescriptor::start(): the first     *)
(* active client takes an active slot of the profile; when none is left    *)
(* start() fails and startInput() undoes setClientActive().                *)
ActivateClient(W, p, silenced) ==
    LET d == W.cl[p].desc
        f == W.in[d].profile
        W2 == [W EXCEPT !.cl[p].silenced = silenced]
    IN IF ActiveClientsOf(W2, d) # {} THEN [W2 EXCEPT !.cl[p].active = TRUE]
       ELSE IF CanStartNewIo(W2, f)
            THEN CaptureOn([W2 EXCEPT !.cl[p].active = TRUE, !.act[f] = @ + 1], d)
            ELSE W2

(* Mutant: closeAllInputs() without mInputs.clear().                      *)
CloseAllInputsKeepsMap(W) ==
    LET R == Registered(W)
        W2 == FoldSet(LAMBDA d, acc : CloseDesc(acc, d), W, R)
    IN [W2 EXCEPT !.cl = [p \in Ports |-> IF W.cl[p].desc \in R THEN NoClient
                                           ELSE W.cl[p]],
                  !.stc = FALSE]

(* closeAllInputs(): close every registered input, dropping its clients.   *)
CloseAllInputs(W) ==
    LET R == Registered(W)
        W2 == FoldSet(LAMBDA d, acc : CloseDesc(acc, d), W, R)
    IN [W2 EXCEPT !.cl = [p \in Ports |-> IF W.cl[p].desc \in R THEN NoClient
                                           ELSE W.cl[p]],
                  !.map = [h \in Handles |-> NoDesc],
                  !.stc = FALSE]

(* Mutant: the TX patch built without closeActiveClients().             *)
CreateTxPatchNoClose(W, m) == W

(* createTelephonyPatch(false): terminate the active captures on the HW    *)
(* module of the TX source device, then create the patch, which may fail.  *)
CreateTxPatch(W, m) ==
    LET onModule == {d \in Registered(W) : ProfileModule[W.in[d].profile] = m}
    IN FoldSet(LAMBDA d, acc : CloseActiveClients(acc, d), W, onModule)

Apply(W) ==
    /\ clients' = W.cl
    /\ inputs' = W.in
    /\ mInputs' = W.map
    /\ curOpenCount' = W.open
    /\ curActiveCount' = W.act
    /\ stCaptureState' = W.stc

-----------------------------------------------------------------------------
(* Actions: one per public call.                                           *)

Init ==
    /\ nextPort = 1
    /\ clients = [p \in Ports |-> NoClient]
    /\ inputs = [d \in Descs |-> [open |-> FALSE, handle |-> 0,
                                  profile |-> CaptureProfile, preempted |-> {}]]
    /\ mInputs = [h \in Handles |-> NoDesc]
    /\ curOpenCount = [f \in Profiles |-> 0]
    /\ curActiveCount = [f \in Profiles |-> 0]
    /\ inCall = FALSE
    /\ callTxModule = NoModule
    /\ stComputed = FALSE
    /\ stSupports = FALSE
    /\ stCaptureState = FALSE

(* Position of session s in the sorted mSoundTriggerSessions.              *)
STIndex(s) == Cardinality({x \in STSessions : x < s})

(* getInputForAttr(): a HOTWORD request of a sound trigger session uses   *)
(* the session's IO handle; the client is flagged sound trigger when       *)
(* indexOfKey(session) > 0.                                                *)
STClient(source, session) ==
    source = "HOTWORD" /\ session \in STSessions /\ STIndex(session) > 0

(* getInputForDevice(): IO handle and profile of the input to open.        *)
InputFor(p, source, session) ==
    IF source = "HOTWORD" /\ session \in STSessions
    THEN [handle |-> session, profile |-> STProfile[session]]
    ELSE [handle |-> NumSessions + p,
          profile |-> IF source = "HOTWORD" THEN HotwordProfile ELSE CaptureProfile]

GetInputForAttr(source, session, uid) ==
    LET p == nextPort
        io == InputFor(p, source, session)
    IN /\ p <= MaxPorts
       /\ CanOpenNewIo(Cur, io.profile)
       /\ nextPort' = p + 1
       /\ inputs' = [inputs EXCEPT ![p] = [open |-> TRUE, handle |-> io.handle,
                                          profile |-> io.profile, preempted |-> {}]]
       /\ mInputs' = [mInputs EXCEPT ![io.handle] = p]
       /\ curOpenCount' = [curOpenCount EXCEPT ![io.profile] = @ + 1]
       /\ clients' = [clients EXCEPT ![p] =
                        [desc |-> p, source |-> source, session |-> session,
                         uid |-> uid, active |-> FALSE, silenced |-> FALSE,
                         st |-> STClient(source, session)]]
       /\ UNCHANGED <<curActiveCount, inCall, callTxModule, stCache, stCaptureState>>

(* soundTriggerSupportsConcurrentCapture(): the cached answer once it is  *)
(* computed.  Before that, a failed calloc() of the module list answers   *)
(* FALSE and leaves the cache empty; otherwise the HAL's answer is cached. *)
STQuery(allocOk) ==
    IF stComputed THEN [ans |-> stSupports, cached |-> TRUE]
    ELSE IF allocOk THEN [ans |-> STConcurrentCapture, cached |-> TRUE]
    ELSE [ans |-> FALSE, cached |-> FALSE]

(* startInput() asks the query only for a sound trigger input that passed  *)
(* the source checks.                                                      *)
StartInput(p, silenced, allocOk) ==
    LET d == clients[p].desc
        W1 == IF silenced THEN Cur ELSE EvictSilenced(Cur, ActiveInputs(Cur), 1)
        l == ActiveInputs(W1)
        q == STQuery(allocOk)
        allow == IsSoundTrigger(W1, d) /\ q.ans
    IN /\ Reachable(Cur, p)
       /\ ~clients[p].active
       /\ callTxModule # ProfileModule[inputs[d].profile]
       /\ IF \E i \in 1..Len(l) : Conflicts(W1, p, l[i])
          THEN Apply(W1) /\ UNCHANGED stCache
          ELSE /\ Apply(ActivateClient(PreemptHotword(W1, l, 1, p, allow), p, silenced))
               /\ IF IsSoundTrigger(W1, d)
                  THEN /\ stComputed' = q.cached
                       /\ stSupports' = IF q.cached THEN q.ans ELSE stSupports
                  ELSE UNCHANGED stCache
       /\ UNCHANGED <<nextPort, inCall, callTxModule>>

StopInput(p) ==
    /\ Reachable(Cur, p)
    /\ clients[p].active
    /\ Apply(StopClient(Cur, p))
    /\ UNCHANGED <<nextPort, inCall, callTxModule, stCache>>

(* The caller stops a client before releasing it: removeClient() of an     *)
(* active client is fatal.                                                 *)
ReleaseInput(p) ==
    /\ Reachable(Cur, p)
    /\ ~clients[p].active
    /\ Apply(ReleaseClient(Cur, p))
    /\ UNCHANGED <<nextPort, inCall, callTxModule, stCache>>

SetAppState(uid, idle) ==
    LET A == {p \in Ports : /\ clients[p].desc \in Range(ActiveInputs(Cur))
                            /\ clients[p].active /\ clients[p].uid = uid}
    IN /\ clients' = [p \in Ports |-> IF p \in A
                                      THEN [clients[p] EXCEPT !.silenced = idle]
                                      ELSE clients[p]]
       /\ UNCHANGED <<nextPort, inputs, mInputs, curOpenCount, curActiveCount,
                      inCall, callTxModule, stCache, stCaptureState>>

(* updateCallRouting(): release the TX patch, then build a new one unless  *)
(* both call devices are reached through the primary output (txModule =   *)
(* NoModule); the patch creation may fail.                                 *)
UpdateCallRouting(W, txModule, ok) ==
    IF txModule = NoModule
    THEN /\ Apply(W) /\ callTxModule' = NoModule
    ELSE /\ Apply(CreateTxPatch(W, txModule))
         /\ callTxModule' = IF ok THEN txModule ELSE NoModule

SetPhoneState(state) ==
    \/ /\ state = "IN_CALL" /\ ~inCall
       /\ inCall' = TRUE
       /\ \E m \in Modules \cup {NoModule}, ok \in BOOLEAN :
             UpdateCallRouting(Cur, m, ok)
       /\ UNCHANGED <<nextPort, stCache>>
    \/ /\ state = "NORMAL" /\ inCall
       /\ inCall' = FALSE
       /\ callTxModule' = NoModule
       /\ UNCHANGED <<nextPort, clients, inputs, mInputs, curOpenCount,
                      curActiveCount, stCache, stCaptureState>>

(* setDeviceConnectionStateInt() for an input device: closeAllInputs(),    *)
(* then updateCallRouting() again when in call.                            *)
InputDeviceConnectionChange ==
    /\ IF inCall
       THEN \E m \in Modules \cup {NoModule}, ok \in BOOLEAN :
               UpdateCallRouting(CloseAllInputs(Cur), m, ok)
       ELSE Apply(CloseAllInputs(Cur)) /\ UNCHANGED callTxModule
    /\ UNCHANGED <<nextPort, inCall, stCache>>

Next ==
    \/ \E s \in Sessions, u \in Uids : GetInputForAttr("HOTWORD", s, u)
    \/ \E s \in MicSessions, u \in Uids : GetInputForAttr("MIC", s, u)
    \/ \E p \in Ports, sil \in BOOLEAN,
          a \in IF stComputed THEN {TRUE} ELSE AllocOutcomes : StartInput(p, sil, a)
    \/ \E p \in Ports : StopInput(p)
    \/ \E p \in Ports : ReleaseInput(p)
    \/ \E u \in Uids, idle \in BOOLEAN : SetAppState(u, idle)
    \/ \E st \in {"IN_CALL", "NORMAL"} : SetPhoneState(st)
    \/ InputDeviceConnectionChange

Spec == Init /\ [][Next]_vars

-----------------------------------------------------------------------------
(* Properties.                                                             *)

(* Clients that are really capturing: active on an input still open.       *)
LiveActive ==
    {p \in Ports : /\ clients[p].desc # NoDesc
                   /\ inputs[clients[p].desc].open
                   /\ clients[p].active}

Activated(p) ==
    /\ clients[p].desc # NoDesc /\ clients'[p].desc # NoDesc
    /\ ~clients[p].active /\ clients'[p].active

TypeOK ==
    /\ nextPort \in 1..(MaxPorts + 1)
    /\ clients \in [Ports -> ClientRec \cup {NoClient}]
    /\ inputs \in [Descs -> InputRec]
    /\ mInputs \in [Handles -> Descs \cup {NoDesc}]
    /\ curOpenCount \in [Profiles -> Nat]
    /\ curActiveCount \in [Profiles -> Nat]
    /\ inCall \in BOOLEAN
    /\ callTxModule \in Modules \cup {NoModule}
    /\ stComputed \in BOOLEAN /\ stSupports \in BOOLEAN
    /\ stCaptureState \in BOOLEAN

(* startInput() admits a non-hotword capture only when nothing else is     *)
(* capturing, and any later start is refused or preempts hotword: while a  *)
(* MIC client captures it is the only active client.                       *)
ExclusiveCapture ==
    \A p \in LiveActive : clients[p].source = "MIC" => LiveActive = {p}

(* A capture never runs on the HW module that carries the call TX patch:   *)
(* startInput() refuses it and createTelephonyPatch() closes the captures  *)
(* already running there.                                                  *)
CallExcludesCapture ==
    callTxModule # NoModule =>
        \A p \in LiveActive :
            ProfileModule[inputs[clients[p].desc].profile] # callTxModule

(* IOProfile open/active counters, maintained by open(), start(), stop()   *)
(* and close() along every path (closeClient() loops, closeAllInputs()),   *)
(* always count the open and the active inputs of the profile and never    *)
(* exceed the profile's limits.                                            *)
ProfileAccounting ==
    \A f \in Profiles :
        LET open == {d \in Descs : inputs[d].open /\ inputs[d].profile = f}
        IN /\ curOpenCount[f] = Cardinality(open)
           /\ curActiveCount[f] =
                Cardinality({d \in open : ActiveClientsOf(Cur, d) # {}})
           /\ MaxOpenCount[f] = 0 \/ curOpenCount[f] <= MaxOpenCount[f]
           /\ MaxActiveCount[f] = 0 \/ curActiveCount[f] <= MaxActiveCount[f]

(* Every open input descriptor is the one mInputs holds at its IO handle. *)
(* getInputForDevice() opens a sound trigger session's input at the       *)
(* session's handle and addInput() replaces whatever mInputs held there;  *)
(* a descriptor replaced while open could no longer be released, closed   *)
(* by closeAllInputs() or counted back, so its profile slot would leak.   *)
OpenInputsRegistered ==
    \A d \in Descs : inputs[d].open => mInputs[inputs[d].handle] = d

(* The sound trigger service is told that capture runs exactly while an   *)
(* input on the primary module captures: startInput() reports the first   *)
(* capture, stopInput(), closeInput() and closeAllInputs() the last, also *)
(* when eviction, preemption or the call TX patch close the clients.      *)
SoundTriggerKnowsCapture ==
    stCaptureState <=> PrimaryActiveCount(Cur) > 0

(* "There can be only one": when startInput() starts an unsilenced client, *)
(* no silenced client is left capturing anywhere.                          *)
UnsilencedStartEvictsSilenced ==
    [][\A p \in Ports :
          Activated(p) /\ ~clients'[p].silenced =>
              \A q \in LiveActive' \ {p} : ~clients'[q].silenced]_vars

(* When the sound trigger HAL supports concurrent capture, starting a      *)
(* hotword client of a sound trigger session leaves the unsilenced hotword *)
(* clients of the other sound trigger sessions capturing (startInput():    *)
(* "we only need to check if the sound trigger session supports concurrent *)
(* capture if the input is also a sound trigger input").                   *)
SoundTriggerCapturesCoexist ==
    [][STConcurrentCapture =>
        \A p \in Ports :
          (Activated(p) /\ clients[p].source = "HOTWORD"
                        /\ clients[p].session \in STSessions) =>
            \A q \in LiveActive \ {p} :
              (/\ clients[q].source = "HOTWORD" /\ ~clients[q].silenced
               /\ clients[q].session \in STSessions \ {clients[p].session})
                 => q \in LiveActive']_vars

=============================================================================
