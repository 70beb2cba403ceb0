---------------------------- MODULE PolicyMixes ----------------------------
(***************************************************************************)
(* Dynamic policy mixes of AudioPolicyManager: registerPolicyMixes() and   *)
(* unregisterPolicyMixes() over mPolicyMixes (AudioPolicyMixCollection,    *)
(* keyed by the mix's device address), the remote submix profiles and      *)
(* devices a LOOP_BACK mix brings with it, the output a RENDER mix is      *)
(* bound to, and the remote submix devices that startOutput()/stopSource() *)
(* and startInput()/stopInput() connect and disconnect for a mix.          *)
(*                                                                         *)
(* Data abstraction: a mix is a model value with its route flags, its mix  *)
(* type, its address and, for RENDER, its device; an address is a model    *)
(* value; each policy (an AudioPolicy of a client of AudioService) has a   *)
(* fixed vector of mixes.  A remote submix device is identified by its     *)
(* address.  The static outputs keep the patch sink they were routed to;   *)
(* routing is PatchLifecycle's part.                                       *)
(***************************************************************************)
EXTENDS Naturals, Sequences, Functions

CONSTANTS
    Policies,         \* callers of registerPolicyMixes (model values)
    MixesOf,          \* [Policies -> Seq(Mixes)]: the mix vector of each
    Mixes,            \* AudioMix values (model values)
    Route,            \* [Mixes -> {"LOOP_BACK", "RENDER", "ALL"}]: mRouteFlags
    MixType,          \* [Mixes -> {"PLAYERS", "RECORDERS"}]: mMixType
    Address,          \* [Mixes -> Addresses]: mDeviceAddress
    RenderDevice,     \* [Mixes -> Devices]: mDeviceType of a RENDER mix
    Addresses,        \* device addresses
    Devices,          \* output device types
    Outputs,          \* the static outputs (mOutputs)
    OutputOrder,      \* mOutputs in handle order
    PatchSink,        \* [Outputs -> (Devices \X Addresses) \cup {NoSink}]
    NoSink,
    NoMix,
    NoOutput,
    SubmixOutput,     \* the output checkOutputsForDevice() opens for a
                      \* remote submix device
    HasSubmixModule   \* the "r_submix" HW module is loaded

ASSUME /\ \A p \in Policies : MixesOf[p] \in Seq(Mixes)
       /\ Route \in [Mixes -> {"LOOP_BACK", "RENDER", "ALL"}]
       /\ MixType \in [Mixes -> {"PLAYERS", "RECORDERS"}]
       /\ Address \in [Mixes -> Addresses]
       /\ RenderDevice \in [Mixes -> Devices]
       /\ Range(OutputOrder) = Outputs
       /\ PatchSink \in [Outputs -> (Devices \X Addresses) \cup {NoSink}]
       /\ {NoMix, NoOutput, SubmixOutput} \cap (Mixes \cup Outputs) = {}
       /\ HasSubmixModule \in BOOLEAN

VARIABLES
    policyMixes,  \* mPolicyMixes: address -> mix (NoMix: no key)
    mixOutput,    \* the output of each AudioPolicyMix (getOutput())
    descMix,      \* mPolicyMix of each static output
    profiles,     \* addresses with a remote submix profile (in and out)
    availIn,      \* addresses of available AUDIO_DEVICE_IN_REMOTE_SUBMIX
    availOut,     \* addresses of available AUDIO_DEVICE_OUT_REMOTE_SUBMIX
    playing,      \* addresses whose submix output has an active client
    capturing,    \* addresses whose remote submix input is started
    registered    \* history: the policy's last registration succeeded and
                  \* it has not unregistered since

vars == <<policyMixes, mixOutput, descMix, profiles, availIn, availOut,
          playing, capturing, registered>>

(* The handler's working state; ok is the status res of the loop.         *)
Cur == [mix |-> policyMixes, out |-> mixOutput, desc |-> descMix,
        prof |-> profiles, in |-> availIn, outAv |-> availOut,
        play |-> playing, cap |-> capturing, ok |-> TRUE]

Apply(W) ==
    /\ policyMixes' = W.mix /\ mixOutput' = W.out /\ descMix' = W.desc
    /\ profiles' = W.prof /\ availIn' = W.in /\ availOut' = W.outAv
    /\ playing' = W.play /\ capturing' = W.cap

Fail(W) == [W EXCEPT !.ok = FALSE]

-----------------------------------------------------------------------------
(* The collection (AudioPolicyMix.cpp) and the device connection calls.    *)

(* registerMix(): an address already registered is refused (BAD_VALUE);   *)
(* otherwise the mix is added, bound to desc when one is given.            *)
RegisterMix(W, a, m, desc) ==
    IF W.mix[a] # NoMix THEN Fail(W)
    ELSE LET W1 == [W EXCEPT !.mix[a] = m, !.out[a] = desc]
         IN IF desc \in Outputs THEN [W1 EXCEPT !.desc[desc] = m] ELSE W1

(* unregisterMix(): removes the address's entry, whichever mix it holds;  *)
(* an address with none is refused.  The mPolicyMix of a bound output is  *)
(* not cleared.                                                            *)
UnregisterMix(W, a) ==
    IF W.mix[a] = NoMix THEN Fail(W)
    ELSE [W EXCEPT !.mix[a] = NoMix, !.out[a] = NoOutput]

(* closeAllInputs(), run by every input device connection change.          *)
CloseAllInputs(W) == [W EXCEPT !.cap = {}]

(* setDeviceConnectionStateInt(IN_REMOTE_SUBMIX, AVAILABLE, a): refused   *)
(* when already connected or when checkInputsForDevice() finds no profile  *)
(* for the address.                                                        *)
ConnectIn(W, a) ==
    IF a \in W.in \/ a \notin W.prof THEN W
    ELSE CloseAllInputs([W EXCEPT !.in = @ \cup {a}])

DisconnectIn(W, a) ==
    IF a \notin W.in THEN W
    ELSE CloseAllInputs([W EXCEPT !.in = @ \ {a}])

(* setDeviceConnectionStateInt(OUT_REMOTE_SUBMIX, AVAILABLE, a):           *)
(* checkOutputsForDevice() opens an output on the address's profile and    *)
(* binds it to the mix registered there (getAudioPolicyMix()); without a   *)
(* profile the device is removed again.                                    *)
ConnectOut(W, a) ==
    IF a \in W.outAv \/ a \notin W.prof THEN W
    ELSE [W EXCEPT !.outAv = @ \cup {a}, !.out[a] = SubmixOutput]

(* The disconnection closes that output, with its clients (no             *)
(* stopSource()); closeOutput() clears the output of the mix bound to it. *)
DisconnectOut(W, a) ==
    IF a \notin W.outAv THEN W
    ELSE [W EXCEPT !.outAv = @ \ {a}, !.play = @ \ {a},
                   !.out[a] = IF @ = SubmixOutput THEN NoOutput ELSE @]

-----------------------------------------------------------------------------
(* registerPolicyMixes() and unregisterPolicyMixes().                      *)

(* The first output, in mOutputs order, whose patch's first sink is the    *)
(* RENDER mix's device and address.                                        *)
RenderOutputs(m) ==
    SelectSeq(OutputOrder, LAMBDA o : PatchSink[o] = <<RenderDevice[m], Address[m]>>)

(* One mix of registerPolicyMixes(): a LOOP_BACK mix needs the submix      *)
(* module, registers without an output, adds the address's profiles and    *)
(* connects the remote submix input (PLAYERS) or output (RECORDERS); a     *)
(* RENDER mix registers with the output found for its device; both route   *)
(* flags at once are refused.                                              *)
RegisterOne(W, m) ==
    LET a == Address[m] IN
    IF Route[m] = "ALL" THEN Fail(W)
    ELSE IF Route[m] = "LOOP_BACK"
    THEN IF ~HasSubmixModule THEN Fail(W)
         ELSE LET W1 == RegisterMix(W, a, m, NoOutput)
                  W2 == [W1 EXCEPT !.prof = @ \cup {a}]
              IN IF ~W1.ok THEN W1
                 ELSE IF MixType[m] = "PLAYERS" THEN ConnectIn(W2, a)
                 ELSE ConnectOut(W2, a)
    ELSE IF RenderOutputs(m) = <<>> THEN Fail(W)
    ELSE RegisterMix(W, a, m, Head(RenderOutputs(m)))

(* The loop over the vector, left at the first failure.                    *)
RECURSIVE RegisterLoop(_, _)
RegisterLoop(W, ms) ==
    IF ms = <<>> \/ ~W.ok THEN W
    ELSE RegisterLoop(RegisterOne(W, Head(ms)), Tail(ms))

(* One mix of unregisterPolicyMixes(): a mix with the LOOP_BACK flag       *)
(* unregisters its address (skipping the rest on a refusal), disconnects   *)
(* the address's remote submix input and output and removes its profiles; *)
(* then, not as an alternative, a mix with the RENDER flag unregisters its *)
(* address.                                                                *)
UnregisterOne(W, m) ==
    LET a == Address[m]
        loop == Route[m] \in {"LOOP_BACK", "ALL"}
        W1 == IF ~loop THEN W
              ELSE IF ~HasSubmixModule THEN Fail(W)
              ELSE LET Wu == UnregisterMix(W, a)
                   IN IF ~Wu.ok THEN Wu
                      ELSE [DisconnectOut(DisconnectIn(Wu, a), a)
                               EXCEPT !.prof = @ \ {a}]
    IN IF loop /\ ~W1.ok THEN W1
       ELSE IF Route[m] \in {"RENDER", "ALL"} THEN UnregisterMix(W1, a)
       ELSE W1

(* The loop goes on past refusals; its status is not used by the rollback. *)
RECURSIVE UnregisterLoop(_, _)
UnregisterLoop(W, ms) ==
    IF ms = <<>> THEN W
    ELSE UnregisterLoop([UnregisterOne([W EXCEPT !.ok = TRUE], Head(ms)) EXCEPT !.ok = W.ok],
                        Tail(ms))

(* registerPolicyMixes(mixes): on failure, unregisterPolicyMixes() of the  *)
(* whole vector.  AudioService registers a policy once.                   *)
RegisterPolicyMixes(p) ==
    LET W1 == RegisterLoop(Cur, MixesOf[p])
        W2 == IF W1.ok THEN W1 ELSE UnregisterLoop(W1, MixesOf[p])
    IN /\ ~registered[p]
       /\ Apply(W2)
       /\ registered' = [registered EXCEPT ![p] = W1.ok]

(* unregisterPolicyMixes(mixes) when the policy is released.               *)
UnregisterPolicyMixes(p) ==
    /\ registered[p]
    /\ Apply(UnregisterLoop(Cur, MixesOf[p]))
    /\ registered' = [registered EXCEPT ![p] = FALSE]

-----------------------------------------------------------------------------
(* Clients of the remote submix devices.                                   *)

(* A RECORDERS mix: the first client routed to its output by              *)
(* getOutputForAttr() starts; startOutput() connects the remote submix     *)
(* input of the mix's address.                                             *)
StartMixPlayback(a) ==
    LET m == policyMixes[a] IN
    /\ m # NoMix /\ MixType[m] = "RECORDERS" /\ Route[m] = "LOOP_BACK"
    /\ mixOutput[a] = SubmixOutput /\ a \notin playing
    /\ Apply(ConnectIn([Cur EXCEPT !.play = @ \cup {a}], a))
    /\ UNCHANGED registered

(* stopSource() of its last client disconnects that input.  The output's  *)
(* mPolicyMix is still the mix it was opened for.                          *)
StopMixPlayback(a) ==
    /\ a \in playing
    /\ Apply(DisconnectIn([Cur EXCEPT !.play = @ \ {a}], a))
    /\ UNCHANGED registered

(* A PLAYERS mix: getInputForAttr(REMOTE_SUBMIX, "addr=a") and            *)
(* startInput() connect the remote submix output of the mix's address.   *)
StartMixCapture(a) ==
    LET m == policyMixes[a] IN
    /\ m # NoMix /\ MixType[m] = "PLAYERS" /\ Route[m] = "LOOP_BACK"
    /\ a \in availIn /\ a \notin capturing
    /\ Apply(ConnectOut([Cur EXCEPT !.cap = @ \cup {a}], a))
    /\ UNCHANGED registered

(* stopInput() disconnects it again.                                       *)
StopMixCapture(a) ==
    /\ a \in capturing
    /\ Apply(DisconnectOut([Cur EXCEPT !.cap = @ \ {a}], a))
    /\ UNCHANGED registered

Init ==
    /\ policyMixes = [a \in Addresses |-> NoMix]
    /\ mixOutput = [a \in Addresses |-> NoOutput]
    /\ descMix = [o \in Outputs |-> NoMix]
    /\ profiles = {} /\ availIn = {} /\ availOut = {}
    /\ playing = {} /\ capturing = {}
    /\ registered = [p \in Policies |-> FALSE]

Next ==
    \/ \E p \in Policies : RegisterPolicyMixes(p) \/ UnregisterPolicyMixes(p)
    \/ \E a \in Addresses : \/ StartMixPlayback(a) \/ StopMixPlayback(a)
                            \/ StartMixCapture(a) \/ StopMixCapture(a)

Spec == Init /\ [][Next]_vars

-----------------------------------------------------------------------------
TypeOK ==
    /\ policyMixes \in [Addresses -> Mixes \cup {NoMix}]
    /\ mixOutput \in [Addresses -> Outputs \cup {NoOutput, SubmixOutput}]
    /\ descMix \in [Outputs -> Mixes \cup {NoMix}]
    /\ profiles \subseteq Addresses /\ availIn \subseteq Addresses
    /\ availOut \subseteq Addresses /\ playing \subseteq availOut
    /\ capturing \subseteq Addresses
    /\ registered \in [Policies -> BOOLEAN]

(* A policy whose registerPolicyMixes() returned NO_ERROR keeps every one *)
(* of its mixes in mPolicyMixes until it unregisters them: the rollback of *)
(* another policy's failed registration undoes only what that call added.  *)
RegisteredMixesKept ==
    \A p \in Policies : registered[p] =>
        \A i \in DOMAIN MixesOf[p] :
            policyMixes[Address[MixesOf[p][i]]] = MixesOf[p][i]
====
