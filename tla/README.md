# TLA+ models of AudioPolicyManager

This directory has TLA+ models of the Android audio policy manager in
`src/services/audiopolicy/managerdefault/AudioPolicyManager.cpp`, with TLC
configurations that check them. Every action and helper is translated from
that file. `PROJECT.json` maps each definition to the lines it models.

## The system

`AudioPolicyManager` is a single-threaded policy engine. The audio server
calls it under one lock, so its public calls run one at a time. Concurrency
shows up in a different way: clients of many apps issue calls in any order
(getInput, start, stop, release, app idle changes, phone state, device
connection), and one handler often runs a chain of internal calls
(`closeClient` = `stopInput` + `releaseInput`, `createTelephonyPatch` closing
captures, and so on) that change shared state part way through.

Its parts, and how they interact:

| Part | Code | State | Interacts with |
|---|---|---|---|
| Capture concurrency controller | `getInputForAttr`, `getInputForDevice`, `startInput`, `stopInput`, `releaseInput`, `closeClient`, `closeActiveClients`, `closeAllInputs`, `setAppState` | `mInputs` (IO handle → input descriptor), each input's record clients (active, silenced, session, source, sound trigger flag), its preempted sessions, and the IOProfile `curOpenCount`/`curActiveCount` | Sound trigger sessions (`mSoundTriggerSessions`), telephony (`mCallTxPatch`), device connection |
| Telephony call routing | `setPhoneState`, `updateCallRouting`, `createTelephonyPatch` | phone state, `mCallRxPatch`, `mCallTxPatch` | Captures on the TX module are terminated; outputs are rerouted and muted |
| Device connection | `setDeviceConnectionStateInt`, `checkOutputsForDevice`, `checkInputsForDevice` | available devices, opened outputs and inputs | closes all inputs; reroutes calls and outputs |
| Output selection and start/stop | `getOutputForAttr`, `selectOutput`, `startOutput`/`startSource`, `stopOutput`/`stopSource`, `releaseOutput` | `mOutputs`, per-output client activity | Mute sequencer, device selection, patches |
| Mute and volume sequencer | `setStreamMute`, `setStrategyMute`, `checkDeviceMuteStrategies`, `handleEventForBeacon`, `setBeaconMute`, `checkAndSetVolume`, `applyStreamVolumes` | per-output `mMuteCount`, `mStrategyMutedByDevice`, beacon reference counts, `mBeaconMuted` | Output routing (`setOutputDevice`) |
| Patch lifecycle | `installPatch`, `createAudioPatch`, `releaseAudioPatch`, `setOutputDevice`, `resetOutputDevice`, `setInputDevice`, `resetInputDevice`, `clearAudioPatches` | `mAudioPatches` (handle → patch, owner uid), each descriptor's patch handle and device | Every routing change |
| Device selection | `getNewOutputDevice`, `getNewInputDevice`, `findPreferredDevice`, `checkOutputForStrategy` | none (pure over current state) | Called by all routing paths |
| Volume rescaling | `rescaleVolumeIndex`, `computeVolume` | none (pure) | Volume application |
| Audio sources | `startAudioSource`, `stopAudioSource`, `connectAudioSource`, `disconnectAudioSource`, `clearAudioSources` | `mAudioSources` (port → source, its patch and output) | Patch lifecycle, output start/stop, `checkStrategyRoute` |
| Dynamic policy mixes | `registerPolicyMixes`, `unregisterPolicyMixes` | `mPolicyMixes` (address → mix, its output), the remote submix profiles and devices of each address | Device connection (remote submix devices, `closeAllInputs`), output start/stop and input start/stop (remote submix devices), output patches (a RENDER mix's output) |
| MSD patches, surround formats, effects, configuration loading | see `PROJECT.json` "components" | | |

## Modules

### CaptureConcurrency (modelled now)

`CaptureConcurrency.tla` models the capture side:

- **State.**
  - `clients`: a record client per port id, holding its input, source, session, uid, and its active, silenced and sound-trigger flags.
  - `inputs`: per descriptor, whether it is open, its IO handle, its profile and its preempted sessions.
  - `mInputs`: IO handle → descriptor.
  - The per-profile `curOpenCount` and `curActiveCount`.
  - `inCall`.
  - `callTxModule`: the HW module of `mCallTxPatch`'s source, or `NoModule` when there is no TX patch.
  - `stComputed` and `stSupports`: the cache of `soundTriggerSupportsConcurrentCapture()`. The HAL's answer is the constant `STConcurrentCapture`.
  - `stCaptureState`: the last value sent with `SoundTrigger::setCaptureState()`, that is, what the sound trigger service believes about capture. An input captures from primary devices when its profile is on `PrimaryModule`. `CaptureOn` (start of the first capture) and `CaptureOff` (`stopInput` and `closeInput` after the last one) compute the notification from `activeInputsCountOnDevices` (`PrimaryActiveCount`); `closeAllInputs` always sends FALSE.
- **Data abstraction.**
  - A capture source is `"HOTWORD"` or `"MIC"`, where `"MIC"` stands for every non-hotword source.
  - A descriptor is named after the port id of the call that opened it, because each `getInputForAttr` opens at most one.
  - IO handles keep the order that decides how `startInput` walks `mInputs`. A sound trigger session `s` has handle `s`, and other inputs get fresh, larger handles. In the real system the handle of a sound trigger session is only smaller than those of inputs opened after it was acquired.
- **Actions, one per public call.**
  - `GetInputForAttr`.
  - `StartInput(p, silenced, allocOk)`, which covers the whole handler:
    - the call refusal;
    - the "There can be only one" eviction loop (`EvictSilenced`), including its positional walk over a vector it reassigns;
    - the source check loop (`Conflicts`);
    - the query `soundTriggerSupportsConcurrentCapture()` (`STQuery`), asked only for a sound trigger input that passed the source checks. Before the answer is cached, the `calloc` of the module list may fail (`allocOk` from `AllocOutcomes`): the call then answers FALSE and caches nothing;
    - the HOTWORD preemption loop (`PreemptHotword`), including `setPreemptedSessions` keeping only the last set;
    - `setClientActive` plus `start()`, and the rollback when `start()` fails (`ActivateClient`).
  - `StopInput`.
  - `ReleaseInput`.
  - `SetAppState`.
  - `SetPhoneState`, for entering and leaving `AUDIO_MODE_IN_CALL`. It calls `UpdateCallRouting`, which nondeterministically picks the TX module (or none, when both call devices are on the primary module) and whether `createAudioPatch` succeeds.
  - `InputDeviceConnectionChange`, which runs `closeAllInputs` and then re-runs call routing when in call.
- **How one handler is composed.** The internal calls a handler makes run in sequence over a working record `W`. `Cur` is the current state, and `Apply` writes `W` back. So a whole handler is one atomic step, as it is under the service lock.

### MuteSequencer (modelled now)

`MuteSequencer.tla` models the playback side, as far as muting, volume and routing go:

- **State.**
  - The available output devices, and the engine's force use per strategy.
  - Per output: whether it is in `mOutputs`, its `mDevice`, whether it has a patch, its `mMuteCount` per stream, whether each stream's volume is applied or zero, and `mStrategyMutedByDevice`.
  - Per output, also a "recently active" flag. It stands for `isActive(latency * 2)` after a stop.
  - Per client: active or not.
  - `mBeaconMuteRefCount`, `mBeaconPlayingRefCount` and `mBeaconMuted`.
- **Data abstraction.**
  - Three streams stand for their strategies: MUSIC for media, RING for sonification, TTS for the beacon.
  - A volume is applied (`TRUE`) or zero.
  - The engine (`Engine::getDeviceForStrategy`, which is not under `src/`) gives the forced device when it is available, and otherwise the first available entry of a priority list.
- **Actions.**
  - `StartOutput` is `startOutput` + `startSource`. It covers:
    - the TTS refusal;
    - `handleEventForBeacon`;
    - the force and `requiresMuteCheck` computation over the other outputs;
    - `setOutputDevice`;
    - `checkAndSetVolume`.
  - `StopOutput` is `stopOutput` + `stopSource`. It covers the routing of the stopping output and the restore loop over the other active outputs of the module.
  - `SetForceUse`. It covers `checkOutputForAllStrategies` with its mute/unmute pairs, the re-route loop, and the optional volume re-evaluation.
  - `ConnectDevice` and `DisconnectDevice` (`setDeviceConnectionStateInt`). They cover:
    - `checkOutputsForDevice`, which opens and closes the USB output;
    - `checkOutputForAllStrategies`;
    - `closeOutput`, which runs after it;
    - the forced re-route loop. This loop also routes the duplicating output that the code opens with the primary output for a non-direct output.
  - `DrainElapsed`: time passing after a stop.
- **Internal calls.** `setOutputDevice` is one operator that contains `checkDeviceMuteStrategies` (`DeviceMuteStrategy`, `TemporaryMute`). The mute calls `setStreamMute`, `setStrategyMute` and `setBeaconMute` are operators, composed in the same working-record style as CaptureConcurrency.
- **Delayed unmutes.** A delayed unmute changes `mMuteCount` at once. Only the volume command is delayed, so it is modelled as immediate.

### PatchLifecycle (modelled now)

`PatchLifecycle.tla` models the patch registry `mAudioPatches` together with the patch handle and the device (`mDevice`) of each output.

- **State.**
  - `reg` maps a policy patch handle to its source, its owner uid and the sink devices it installs. The source is an output for a mix patch, or an input device for a device-to-device bridge.
  - `nextHandle` is the handle the next new `AudioPatch` receives.
  - `outPatch` is each output's `getPatchHandle()`, and `outDevice` is its `mDevice`.
  - `lastCall` is a history variable: who made the last call, and which operation it was.
  - `sources` is `mAudioSources`: each audio source's port, owner uid, source device, the handle of its patch, the output it plays on, and whether its `SourceClientDescriptor` is active on that output.
  - `nextPort` is the next port handle, and `profActive` is each output's profile `curActiveCount`.
- **Helpers** are operators on a working record, as in the other modules:
  - `InstallPatchAt` and `InstallIoPatch` are the two `installPatch` overloads. The second looks the patch up by the handle it is given, or else by the output's own handle.
  - `SetOutputDevice` writes `mDevice` first. Then it returns early, resets, or installs.
  - `ResetOutputDevice`, `GetNewOutputDevice` (only the rule that an app-owned patch fixes the device), `Release`, and `ClearFrom`/`ClearAudioPatches` (the downward walk over the sorted registry).
- **Actions.**
  - `CreateMixPatch` and `CreateDevicePatch`: the two `createAudioPatch` branches, with the handle lookup, the owner check and the source check.
  - `ReleaseAudioPatch`.
  - `ReleaseResourcesForUid`: when an app dies, `clearAudioSources` stops its audio sources (`ClearSourcesFrom`), then `clearAudioPatches` runs.
  - `StartAudioSource`, `StopAudioSource` and `MoveSource`: `startAudioSource` adds the source and calls `connectAudioSource`; `stopAudioSource` calls `disconnectAudioSource`; `checkStrategyRoute` moves a playing source to the output the strategy now selects (line 4684). `connectAudioSource` disconnects first, picks the output (`SourceOutputs`), starts it (`OutputStart`, which can fail on the profile's active limit), installs a patch from the source device, and starts the client (`StartSource`, which re-routes the output when it is the first active client). `disconnectAudioSource` removes the patch and stops the client only when the patch is still in `mAudioPatches`.
  - `SystemRoute`: `checkStrategyRoute` re-routes an output through `getNewOutputDevice` and `setOutputDevice`. `force` is free here, because other callers force.
- **Abstracted.**
  - The engine's choice is an input from `RouteChoices`.
  - The transport's `createAudioPatch` either succeeds or fails (`TransportOutcomes`). AudioFlinger's own handles are not tracked.
  - Outputs are open for the whole run.
  - A bridge has one sink device, which is the software-bridge case.
  - An audio source always plays through an output (the software bridge). The HAL 3.0 branch that creates a direct device-to-device patch is left out; its stub is marked as unfinished in the code.

### OutputSelection (modelled now)

`OutputSelection.tla` models how a playback client gets an output and gives it back: `getOutputForAttr`, `getOutputForDevice`, `selectOutput` and `releaseOutput`.

- **State.**
  - `outputs` is `mOutputs`: IO handle → profile, direct client session, `mDirectOpenCount` and format.
  - `clients` maps a port id to the output it was given, its session and its format.
  - `nextIo` is the next IO handle the HAL returns.
- **Helpers.**
  - `GetProfileForDirectOutput` is the first offload profile compatible with the device and format, or else the first compatible direct one.
  - `ReusableDirect` is the loop at line 969: an open output of the same profile, format and session.
  - `GetOutputForDevice` follows the branches in code order: offload implies direct, PCM without the direct flag goes to a mixed output, reuse increments the count, `canOpenNewIo` may refuse, and the open may fail. On failure, linear PCM falls back to a mixed output and anything else gets no output.
  - `SelectOutput` and `SelectLoop` are `selectOutput`: one candidate is returned as is, and the loop skips direct outputs and prefers most matching flags, then the closest format, then the primary output.
  - `ReleaseClient` is `releaseOutput`: the count of a direct output drops, the output closes at zero (`CloseOutput`), and the client is removed.
- **Actions.** `GetOutputForAttr(session, request, device, openOk)` and `ReleaseOutput(port)`. `openOk` is the HAL's answer to `openOutput`.
- **Abstracted.** The sample rate and channel mask are left out, and only three formats are kept (PCM, hi-res PCM, compressed). A request carries flags from `{deep, direct, offload}`. There is no explicit route and no policy mix.

### DirectStreams (abstract specification)

`DirectStreams.tla` states what spec 4.2 promises about direct streams, with no mention of counts, profiles lookups or handles.

- A stream is opened (`Open`) for one user's session and configuration, within the `MaxOpen` limit of its profile.
- A user joins it (`Join`) only with the same session and configuration.
- A user leaves it (`Leave`), and the stream closes with its last user.

Mixed outputs are invisible to it. `OutputSelection` maps onto it through `AbsStreams`: each open direct output becomes a stream with its profile, its `mDirectClientSession`, its configuration and the clients attached to it. `DirectStreamsRefined == Direct!Spec` is checked as a PROPERTY.

### SurroundFormats (modelled now)

`SurroundFormats.tla` models the encoded-surround state: `mSurroundFormats`, the `ENCODED_SURROUND` force use, and the formats each HDMI sink advertises.

- **State.**
  - `forceUse`: NONE (AUTO), NEVER, ALWAYS or MANUAL.
  - `surroundFormats` is `mSurroundFormats`.
  - `outDevs` maps each connected HDMI output to the formats it imported from its dynamic profile.
  - `inDevs` is the set of connected HDMI inputs.
  - `lastCall` is a history variable: the last `setSurroundFormatEnabled` call and its status.
- **Helpers.**
  - `FilterSurroundFormats` is `filterSurroundFormats`, with formats as sets.
    - MANUAL replaces the list with the enabled formats plus IEC61937.
    - NEVER strips AC3, E-AC3, DTS, DTS-HD and IEC61937, and empties `mSurroundFormats`.
    - AUTO and ALWAYS add AC3 (`alwaysForceAC3`) and IEC61937. ALWAYS also replaces the raw formats. Both then set `mSurroundFormats` to the configured surround formats in the list.
  - `UpdateAudioProfiles`: the format query and the filter.
  - `ConnectHdmiOut` is `checkOutputsForDevice` for the HDMI direct profile. Its `outcome` is one of:
    - `ok`;
    - `openFail`: the first open fails;
    - `queryFail`: the format query fails before the filter runs;
    - `reopenFail`: the filter has already run.

    Every failure removes the device again.
  - `ReconnectOuts`, `ReconnectIns` and `ApplySurroundChange` are the body of `setSurroundFormatEnabled`. It inserts or erases the format and its sub-formats, and disconnects and reconnects every HDMI output, then every HDMI input. `profileUpdated` is true if any reconnection succeeded; when none did, the backup is restored.
- **Actions.**
  - `SetForceUse`;
  - `ConnectOut`, `DisconnectOut`, `ConnectIn` and `DisconnectIn`, for external plug events;
  - `SetSurroundFormatEnabled`, with its four early returns (BAD_VALUE, not MANUAL, already in state, no HDMI output). It takes the HAL's answer for each device as an input.
- **Abstracted.**
  - Channel masks and sample rates are left out, so `filterSurroundChannelMasks` is not modelled.
  - The HDMI profile is direct, so the output `checkOutputsForDevice` opens to query it is closed again at once. That is why a connection always queries the HAL.
  - The re-routing that `setForceUse` and a connection do is modelled in MuteSequencer.
  - `closeAllInputs` after an input reconnection is modelled in CaptureConcurrency.

### PolicyMixes (modelled now)

`PolicyMixes.tla` models dynamic policy mixes, the routes that an `AudioPolicy` registered through AudioService adds to the policy manager.

- **State.**
  - `policyMixes` is `mPolicyMixes`, keyed by the mix's device address.
  - `mixOutput` is the output of each registered mix (`getOutput()`).
  - `descMix` is the `mPolicyMix` of each static output.
  - `profiles` holds the addresses that have remote submix profiles.
  - `availIn` and `availOut` hold the addresses of the available remote submix input and output devices.
  - `playing` holds the addresses whose submix output has an active client.
  - `capturing` holds the addresses whose remote submix input is started.
  - `registered` is a history variable: the policy's last `registerPolicyMixes` returned NO_ERROR and it has not unregistered since.
- **Helpers.**
  - `RegisterMix` and `UnregisterMix` are the collection's `registerMix` and `unregisterMix`. They live outside `src/` and are modelled from their behaviour: a registered address is refused, and an unregister removes the address whatever mix holds it.
  - `ConnectIn`, `DisconnectIn`, `ConnectOut` and `DisconnectOut` are the remote submix branches of `setDeviceConnectionStateInt`:
    - an input change runs `closeAllInputs`;
    - an output connection opens an output bound to the address's mix;
    - a disconnection closes that output with its clients.
  - `RegisterOne` and `RegisterLoop` are the loop of `registerPolicyMixes`, which stops at the first failure. The failures are:
    - both route flags at once;
    - no submix module;
    - an address already registered;
    - no output whose patch sinks the RENDER device.
  - `UnregisterOne` and `UnregisterLoop` are the loop of `unregisterPolicyMixes`. The RENDER test follows the LOOP_BACK branch without an `else`.
- **Actions.**
  - `RegisterPolicyMixes`: on failure the whole vector is unregistered.
  - `UnregisterPolicyMixes`.
  - `StartMixPlayback` and `StopMixPlayback`: the remote submix input that `startSource` and `stopSource` connect for a RECORDERS mix.
  - `StartMixCapture` and `StopMixCapture`: the remote submix output that `startInput` and `stopInput` connect for a PLAYERS mix.
- **Abstracted.**
  - The static outputs keep the patch sink they were routed to. Routing is PatchLifecycle's part.
  - `getOutputForAttr` and `getInputForAttr` only look mixes up, and are left out.

### Planned modules, in order

1. **DeviceSelection**: the strategy priority order of `getNewOutputDevice` (partly inside MuteSequencer now), as a pure operator checked against a reference definition.
2. An abstract patch registry refined by **PatchLifecycle** (`INSTANCE ... WITH`). It needs the caller of each step in the abstract state, because the system re-routing an app's patch and the app updating its own patch change the registry the same way.
3. A composition of **CaptureConcurrency** with call routing and **MuteSequencer** for `setPhoneState`.

## Runs

| Run | Config | Expect | What it shows |
|---|---|---|---|
| `capture_safety` | `MCCaptureConcurrency.cfg` | pass | See the invariants below. |
| `sound_trigger_concurrency` | `MCCaptureConcurrency_ST.cfg` | violation | `SoundTriggerCapturesCoexist`: with concurrent capture supported, a sound trigger hotword start must leave the other sound trigger hotwords running. TLC finds a counterexample in 4 steps, caused by `indexOfKey(session) > 0` at line 1795 (finding: code_bug). A failed allocation in `soundTriggerSupportsConcurrentCapture()` (line 1943) breaks the property too: with the property restricted to the flagged sessions 2 and 3, TLC finds a 5-state trace where session 3 starts before the answer is cached and closes session 2. |
| `mute_safety` | `MCMuteSequencer.cfg` | pass | See the invariants below. |
| `beacon_leak` | `MCMuteSequencer_Beacon.cfg` | violation | `BeaconAudibleWhenAlone`: TTS playing alone must be audible (the comment at line 5014). The trace has 5 states: TTS starts, USB connects, music starts on the USB output, and USB is unplugged. `closeOutput` drops the active music client without `stopSource`, and its later `stopOutput` returns `BAD_VALUE` at line 1513, before `handleEventForBeacon`. So `mBeaconMuteRefCount` stays 1 and TTS stays muted (finding: code_bug). |
| `patch_registry` | `MCPatchLifecycle.cfg` | pass | See the invariants below, and `AppPatchHonored`: the system's re-routing never detaches, re-owns or re-targets an output patch an app installed (spec 4.1 rule 1). The transport accepts every patch here. With failures allowed (`TransportOutcomes = {TRUE, FALSE}`), TLC finds `PatchMatchesDevice` violated in 3 states: `setOutputDevice` writes `mDevice` (line 5189) before `installPatch`, whose refusal it ignores. No run keeps that check at present. |
| `patch_takeover` | `MCPatchLifecycle_Takeover.cfg` | violation | `OwnerChangesOnlyViaSystem`: the owner check at line 2936 shows that an app-owned patch is not the caller's to change. In a 3-state trace, `a1` creates a patch on `o1`. Then `a2` calls `createAudioPatch` with no handle: `installPatch` reuses `o1`'s patch (line 6005), and line 3002 gives it to `a2` (finding: code_bug). |
| `output_direct_accounting` | `MCOutputSelection.cfg` | pass | See the invariants below. The primary output reaches both the speaker and HDMI, so a PCM request for HDMI always has a mixed candidate and `selectOutput`'s loop skips the direct output (line 1263). The properties hold only in that setting: `direct_output_hijack` shows them failing when the direct output is the only candidate. |
| `direct_output_hijack` | `MCOutputSelection_DirectOnly.cfg` | violation | `ClosedOnlyWhenUnused`: releasing a client never closes an output that another client uses. Here the primary output does not reach HDMI. In a 4-state trace, session `s1` opens the HDMI direct output for hi-res audio. Then a second client of the same session `s1` asks for PCM on HDMI: `getOutputsForDevice` lists only that direct output, and `selectOutput` returns it because it is the only candidate (line 1249). The loop's check for direct outputs is bypassed, and the count stays at 1, although the parameters differ. The PCM client's `releaseOutput` drops the count to 0 and closes the output under the hi-res client (finding: code_bug). A client of another session would be attached the same way. |
| `surround_toggle` | `MCSurroundFormats.cfg` | pass | `ToggleAllOrNothing`: when `setSurroundFormatEnabled` changes a format's state and returns NO_ERROR, every HDMI sink still connected advertises exactly the enabled formats plus IEC61937. When it returns an error, `mSurroundFormats` is unchanged. This holds under every combination of HAL failures during the reconnection. |
| `surround_manual_drops_pcm` | `MCSurroundFormats_Pcm.cfg` | violation | `HdmiKeepsPcm`: an HDMI sink that reports PCM keeps it. In a 3-state trace, `setForceUse(MANUAL)` is followed by connecting the TV. `filterSurroundFormats` clears the whole list (line 5804) and refills it with the enabled surround formats and IEC61937 only, so the sink's profile is `{IEC61937}` (finding: code_bug). |
| `policy_mix_rollback` | `MCPolicyMixes_Rollback.cfg` | violation | `RegisteredMixesKept`: a policy whose registration returned NO_ERROR keeps its mixes until it unregisters them. In a 3-state trace:\n1. `p1` registers a RENDER mix to the Bluetooth device and a PLAYERS loop-back mix.\n2. `p2` registers a RECORDERS loop-back mix and a RENDER mix to the same device; `registerMix` refuses the second, because mixes are keyed by address.\n3. The rollback calls `unregisterPolicyMixes` on `p2`'s whole vector (line 2616), which removes `p1`'s RENDER mix.\n\n`p1`'s players stop being routed to its device, and its own unregister later fails (finding: code_bug). |
| `source_patch_bridge` | `MCPatchLifecycle_SourceBridge.cfg` | violation | `SourcePlaybackAccounted`: an audio source is active exactly while its patch exists (spec 7). Here the source device is the bridgeable `mic`. In a 4-state trace, `startAudioSource(mic)` plays on `o1`. Then `a1` bridges `mic` to a device: `createAudioPatch` looks up the existing patch by its source id (line 3063), finds the audio source's patch and converts it into an app bridge. `a1` releases it, and the source stays active with no patch: `stopAudioSource` finds no patch (line 3743) and never stops the client, so the output's active count stays 1 (finding: code_bug). |

`capture_safety` checks these invariants:

- `ExclusiveCapture`: a capturing MIC client is the only capturing client.
- `CallExcludesCapture`: nothing captures on the module of the call TX patch. This includes the case where the TX patch creation fails after captures were closed.
- `ProfileAccounting`: `curOpenCount` and `curActiveCount` equal the number of open and of active inputs of the profile, and stay within its limits, along every close path.
- `OpenInputsRegistered`: every open input descriptor is the one `mInputs` holds at its IO handle. `getInputForDevice` opens a sound trigger session's input at the session's handle, and `addInput` replaces whatever was there (line 4122). A descriptor replaced while open could never be released or closed, and its profile slot would leak. The `canOpenNewIo()` check of a one-slot sound trigger profile is what prevents this: the mutant without it strands the first descriptor.
- `SoundTriggerKnowsCapture`: the sound trigger service was last told that capture runs exactly when some registered input on the primary module has an active client. Captures end along many paths, and each path must send the notification with the right count: `stopInput`, `closeInput` after a release, `closeAllInputs`, and the `closeClient` calls of eviction, preemption and the TX patch.
- `UnsilencedStartEvictsSilenced`: an action property saying that an unsilenced start leaves no silenced client capturing.

`mute_safety` checks these invariants:

- `MuteCountsMatched`: every mute count of an open output is owed to a live reason. That is, each open output that shares a device with it and has the stream's strategy muted by device, plus, for TTS, the beacon mute. A temporary mute, a `checkOutputForStrategy` pair, or a closed output that leaves a count behind breaks it.
- `MutedByDeviceHasCause`: a strategy stays muted by device only while its output is active on two or more devices.
- `TtsSilencedWhilePlaying`: without a dedicated TTS output, TTS has zero volume while any other stream plays.

`patch_registry` checks these invariants:

- `OnePatchPerOutput`: an output has at most one patch in `mAudioPatches`, and the handle it records names that patch (spec 4.1, 4.3). Creates by either app with its own handle, another app's handle or none, transport failures, releases, and the system's resets all go through this handle.
- `ClearReleasesAll`: after `clearAudioPatches(uid)`, no patch is owned by that uid. Device patches are removed, and mix patches return to the system, in whatever order the walk meets them.
- `SourcePlaybackAccounted`: an audio source's client is active exactly while its patch is in `mAudioPatches`, and an output's active count is 1 exactly while a source plays on it. It holds across starts that fail on the active limit, stops, deaths of the owner and moves by `checkStrategyRoute`, which disconnect and reconnect.

`output_direct_accounting` checks these properties:

- `DirectCountMatchesClients`: the `mDirectOpenCount` of every open direct output equals the number of clients attached to it, across reuse, failed opens, fallback and release.
- `ClosedOnlyWhenUnused`: an action property saying that a release closes an output only when the released client was the last one on it.
- `DirectStreamsRefined`: the refinement of `DirectStreams`. Unlike the two properties above, it also checks who shares a direct output: only its own session, with identical parameters. It fails in the `direct_output_hijack` configuration as well, one step before `ClosedOnlyWhenUnused` does, when the PCM client is attached to the hi-res direct output.

Each property of the passing runs has a mutant in `PROJECT.json`, a plausible bug in the mapped code, and TLC finds each one violated:

- `getInputForDevice` without `canOpenNewIo()` (`OpenInputsRegistered`);
- `stopInput` reports capture stopped when it leaves at most one other primary input active, an off-by-one (`SoundTriggerKnowsCapture`);
- `closeAllInputs` without `mInputs.clear()`, so a later device change closes the inputs again;
- a HOTWORD start ignores an active capture;
- the TX patch is built without `closeActiveClients`;
- `stop()` keeps its active slot;
- there is no eviction loop;
- `closeOutput` leaves its clients active;
- the delayed unmute of a mute pair is lost;
- a strategy muted by device is never unmuted;
- `handleEventForBeacon` ignores other playback;
- `installPatch` gives a new patch a handle without advancing the allocator (`TypeOK`);
- `resetOutputDevice` keeps the output's handle (`OnePatchPerOutput`);
- `clearAudioPatches` starts one index too low (`ClearReleasesAll`);
- `getNewOutputDevice` ignores who owns the patch (`AppPatchHonored`);
- `disconnectAudioSource` removes the patch but does not stop the client (`SourcePlaybackAccounted`);
- `releaseOutput` closes an output but leaves its client behind (`TypeOK`);
- the reuse count is not decremented (`DirectCountMatchesClients`);
- an output closes when its count is 2 or less (`ClosedOnlyWhenUnused`);
- the direct-output reuse ignores the session (`DirectStreamsRefined`);
- `filterSurroundFormats` adds every reported format to `mSurroundFormats`, not just the configured surround ones (`TypeOK`);
- `setSurroundFormatEnabled` never rolls back (`ToggleAllOrNothing`).

### Bounds

- **Three ports.** There are at most three `getInputForAttr` calls, so three clients and three descriptors.
- **Three sessions, all of them sound trigger sessions.** Session 1 is at index 0 of `mSoundTriggerSessions`, so its clients are not flagged as sound trigger. Sessions 2 and 3 are flagged. The flagged pair is what lets two sound trigger captures run together. Without it, preemption alone would remove any silenced hotword, and the eviction property would hold whatever the eviction loop does. Because every session is a sound trigger session, a hotword request outside a sound trigger session (the `HotwordProfile` branch of `GetInputForAttr`) never occurs in these runs. MIC requests all use session 1 (`MicSessions`): a non-hotword client's session is never read by the modelled code, so other values only add copies of the same states.
- **Allocation.** `calloc` of the sound trigger module list may succeed or fail (`AllocOutcomes`) until the answer is cached.
- **Two uids.** They are symmetric, because they only matter for `setAppState`.
- **Two modules.** Every input profile is on `primary`, so a TX patch on `primary` terminates captures and one on `usb` does not. Every capture therefore counts for the sound trigger notification; an input on another module would only be left out of the count.
- **Profiles.** The mic profile allows two open inputs but only one active. Each sound trigger profile allows one open and one active input.
- `capture_safety` reaches 66,414 distinct states in about 50 s. It covers every action and both branches of `SetPhoneState`.

For `mute_safety`:

- **Outputs.** A primary and a deep-buffer output on the primary module, both reaching the speaker and a wired headset, and a USB output on its own module, duplicated with the primary output.
- **Clients.** Ringtone and TTS on the primary output, and music on the deep-buffer output and on the USB output. Together they make every two-output interaction happen:
  - a device mute from a ringtone on speaker + headset mutes media on both primary-module outputs;
  - a beacon mute spans outputs;
  - the USB output closes while it plays.
- **Engine.** Ringtones go to speaker + USB or headset, and media to USB, headset or speaker. A force use can pin media to the speaker in `mute_safety` (`MCForceChoicesMedia`), and media or ringtones in `beacon_leak`. The ringtone force use adds re-routes of the same kind as the media one and doubles the state space. Clearing a ringtone force use is still explored.
- **Counters** are capped at 3 (`MaxCount`). They never reach the cap in this configuration, because there are at most two mutes per stream.
- `mute_safety` reaches 25,024 distinct states in about 50 s. Every action fires.

For the PatchLifecycle runs:

- **Outputs and devices.** Two outputs whose device sets overlap (`o1`: speaker and headset; `o2`: headset and USB) start with system patches. One input device (`mic`) can be bridged to any of the three output devices.
- **Apps.** `patch_registry` has one app besides the server: with the audio sources, a second app doubles the state space past what the run can afford. `patch_takeover` has two, so a patch can pass between them.
- **Handles.** Patch handles are capped by `MaxHandles`.
  - It is 4: two new patches on top of the two initial ones. A dead app can own both output patches and a bridge when it is cleared.
- **Audio sources.** `MaxSources` caps the port handles at 2, so two sources can play at once, and the second start can fail on the profile limit (`MaxActiveCount` = 1). In `patch_registry` the source device is an FM tuner (`fm`), which no app can bridge. `source_patch_bridge` uses `mic`, which apps can bridge.
- `patch_registry` reaches 22,979 distinct states in about 65 s.

For the OutputSelection runs:

- **Profiles.**
  - A primary mixed profile on the speaker and HDMI (on the speaker only in `direct_output_hijack`).
  - A deep-buffer profile.
  - An HDMI direct profile for hi-res and compressed audio.
  - A speaker offload profile.
  - Each profile allows one open instance, so `canOpenNewIo` refuses the second direct open.
- **Sessions, ports and outputs.** Two sessions, so reuse by the same session and use by the other one both happen. At most 3 clients at once (`MaxPorts`) and 4 IO handles (`MaxOutputs`).
- **Requests.** Five requests: plain PCM, deep-buffer PCM, hi-res, direct hi-res and offload compressed. Open failures are allowed.
- Sanity checks show these cases are reachable: a reuse count of 2, a failed hi-res open that falls back to a mixed output, an opened offload output, and four open outputs. The run reaches 8,019 distinct states in about 40 s, most of it spent checking the refinement.

For the SurroundFormats runs:

- **Devices.** Two HDMI sinks and one HDMI input.
  - The TV reports PCM, AC3, AAC and its HE sub-format.
  - The AV receiver reports PCM, E-AC3 and DTS.

  So the modes give different format sets, and a toggle can succeed on one sink and fail on the other.
- **Configuration.** The default surround configuration, reduced to AC3, E-AC3, DTS, DTS-HD and AAC (with one sub-format).
- **Calls.** Toggles pass PCM (a BAD_VALUE), AC3, DTS or AAC.
- **HAL answers.** All four answers are enabled for each output. Inputs succeed or fail.
- **A failed toggle.** When a sink's reconnection fails, the device stays disconnected although the call rolls back `mSurroundFormats` and returns INVALID_OPERATION. The model exhibits this (the device leaves `outDevs`), but no run asserts it: the code promises nothing about the device list.
- **Size.** The run reaches 49,494 distinct states in about 35 s. A sanity variant that reconnects only one sink violates `ToggleAllOrNothing`, so the success branch is not vacuous.

For `policy_mix_rollback`:

- **Policies.** There are two, which is the least needed for one registration to undo another's. Both render to the same Bluetooth address, as two apps routing to one device do. Each also has a loop-back mix, so the rollback disconnects devices and removes profiles too.
- **Outputs.** There are two static outputs, one patched to the Bluetooth device. The whole state space has 29 states.

### Fairness

There are no liveness properties yet, so `Spec` has no fairness. The policy manager only acts when called. The capture controller makes no promise that a capture eventually starts, so weak fairness on client calls would assume something about apps, not about this code. The mute sequencer's delayed unmutes change the counts at once, so no liveness property is needed for them either.

## Not modelled, and why

- **Output selection in MuteSequencer.** There, each client is fixed to its output. `OutputSelection` models the selection on its own, without explicit routing, policy mixes, `ENFORCED_AUDIBLE` stream rewriting, the HW A/V sync and MMAP flags, effect-based offload refusal or the MSD patch release before a direct open. A device disconnect closing outputs is left to MuteSequencer.
- **The duplicating output's own state.** Its mute counts and volumes are not tracked, because no client plays on it. Its routing, which reaches both sub-outputs, is modelled.

- **MMAP input reuse.** The `AUDIO_INPUT_FLAG_MMAP_NOIRQ` skips in `startInput`, and the reuse of an MMAP input by `getInputForAttr`, are not modelled. Every request opens a new input.
- **Virtual inputs.** For remote submix, `startInput` skips all checks and connects the submix output. This is left for the device connection model.
- **Input-side patches in PatchLifecycle.** `setInputDevice`, `resetInputDevice` and the device-to-mix branch of `createAudioPatch` mirror the output side, with one difference: there is no early return for an unchanged device unless it is forced. They are left for a later sitting.
- **Input device selection and input patches.** `getNewInputDevice`, `setInputDevice` and `resetInputDevice` are called by `startInput` and `stopInput` but only route. They do not change which capture runs.
- **Stale mix state.**
  - After `unregisterMix`, a RENDER mix's output keeps its `mPolicyMix` (line 2662), and `startSource` later reads it at line 1375.
  - A `closeAllInputs` caused by another remote submix connection (line 2570 or 1497) leaves the remote submix output that a closed capture had connected.

  `PolicyMixes` reaches both states, but no passing run of PolicyMixes checks them yet. The first also rests on the collection's behaviour outside `src/`.
- **Policy-mix activity notifications.** `onDynamicPolicyMixStateUpdate` informs other services and changes no policy state. No modelled input has a policy mix.
- **Volume rescaling and `computeVolume`.** `setStreamVolumeIndex` calls `rescaleVolumeIndex` only for streams that `streamsMatchForvolume` pairs, and that is plain equality (line 4910). The call therefore returns its input, and its division is never reached with unequal ranges. `computeVolume` is floating-point dB arithmetic over curve tables kept outside `src/`.
- **Results and error codes.** Only the state changes are modelled. A refused call is a step that changes nothing, or a disabled action.
- **One start preempting several inputs.** `setPreemptedSessions` keeps only the sessions of the last input a start preempted (line 2076), so a session preempted from an earlier input can restart and preempt back. Reaching it needs a fourth client, which the capture runs cannot afford, and its own violation run.
- **A2DP suspend.** `checkA2dpSuspend()` (4716-4766) treats an available SCO input as SCO connected, but only output connection changes, `setPhoneState()` and `setForceUse()` call it; an SCO input disconnecting after its output leaves A2DP suspended (line 4724). Modelling it needs phone state, SCO and A2DP outputs and input devices together, which no instance has.
