--------------------------- MODULE MCPolicyMixes ---------------------------
(* Two policies that both render to the same Bluetooth device, one        *)
(* capturing playback through a PLAYERS loop-back mix and one feeding     *)
(* recorders through a RECORDERS loop-back mix.  Output o1 is routed to    *)
(* the Bluetooth device, o2 to the speaker.                                *)
EXTENDS PolicyMixes, TLC

CONSTANTS p1, p2, mR1, mP1, mR2, mC2, a1, a2, btAddr, spkAddr, bt, spk, o1, o2

MCMixesOf == (p1 :> <<mR1, mP1>>) @@ (p2 :> <<mC2, mR2>>)
MCRoute == (mR1 :> "RENDER") @@ (mP1 :> "LOOP_BACK") @@ (mR2 :> "RENDER")
           @@ (mC2 :> "LOOP_BACK")
MCMixType == (mR1 :> "PLAYERS") @@ (mP1 :> "PLAYERS") @@ (mR2 :> "PLAYERS")
             @@ (mC2 :> "RECORDERS")
MCAddress == (mR1 :> btAddr) @@ (mP1 :> a1) @@ (mR2 :> btAddr) @@ (mC2 :> a2)
MCRenderDevice == [m \in {mR1, mP1, mR2, mC2} |-> bt]
MCOutputOrder == <<o1, o2>>
MCPatchSink == (o1 :> <<bt, btAddr>>) @@ (o2 :> <<spk, spkAddr>>)
=============================================================================
