------------------------- MODULE MCPatchLifecycle -------------------------
(* Two outputs with overlapping device sets, one input device bridged to  *)
(* output devices, an FM tuner for audio sources, and up to two apps      *)
(* besides the audio server (the cfg files choose how many).              *)
EXTENDS PatchLifecycle

CONSTANTS o1, o2, mic, spk, hs, usb, a1, a2, system, fm

MCOutputSeq == <<o1, o2>>
MCSupported == [o \in {o1, o2} |-> IF o = o1 THEN {spk, hs} ELSE {hs, usb}]
MCInitDevice == [o \in {o1, o2} |-> IF o = o1 THEN {spk} ELSE {usb}]
MCRouteChoices == [o \in {o1, o2} |-> IF o = o1 THEN {{spk}, {hs}} ELSE {{usb}, {hs}}]
=============================================================================
