-------------------------- MODULE MCMuteSequencer --------------------------
(* A phone with a primary and a deep-buffer output on the primary module,   *)
(* both reaching speaker and wired headset, and a USB output on its own    *)
(* module, opened when a USB device connects and duplicated with the       *)
(* primary output.  Ringtone and TTS play on the primary output, music on  *)
(* the deep-buffer and on the USB output.                                  *)
EXTENDS MuteSequencer

CONSTANTS primary, deep, usbOut, spk, hs, usb, modPrimary, modUsb,
          ring, tts, music, music2

MCOutputOrder == <<primary, deep, usbOut>>
MCSupported == (primary :> {spk, hs}) @@ (deep :> {spk, hs}) @@ (usbOut :> {usb})
MCInitDevice == (primary :> {spk}) @@ (deep :> {spk}) @@ (usbOut :> {})
MCOutputModule == (primary :> modPrimary) @@ (deep :> modPrimary) @@ (usbOut :> modUsb)
MCClientOutput == (ring :> primary) @@ (tts :> primary) @@ (music :> deep)
                  @@ (music2 :> usbOut)
MCClientStream == (ring :> "RING") @@ (tts :> "TTS") @@ (music :> "MUSIC")
                  @@ (music2 :> "MUSIC")
(* Ringtones go to the speaker together with a connected USB device or   *)
(* headset, media to the last connected device, the beacon to the speaker; *)
(* a force use can pin media or ringtones to the speaker.                  *)
MCEnginePriority == ("SONIFICATION" :> <<{spk, usb}, {spk, hs}, {spk}>>)
                    @@ ("MEDIA" :> <<{usb}, {hs}, {spk}>>)
                    @@ ("BEACON" :> <<{spk}>>)
MCForceChoices == ("SONIFICATION" :> {{spk}}) @@ ("MEDIA" :> {{spk}})
                  @@ ("BEACON" :> {})
(* The safety run pins only media: the ringtone force use adds re-routes   *)
(* of the same kind and doubles the state space.                           *)
MCForceChoicesMedia == [MCForceChoices EXCEPT !["SONIFICATION"] = {}]
=============================================================================
