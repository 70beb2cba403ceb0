------------------------ MODULE MCCaptureConcurrency ------------------------
(* Model of the capture controller for TLC: three sound trigger sessions   *)
(* (the first at index 0 of mSoundTriggerSessions), a mic profile that may *)
(* have two inputs open but one capturing, one input per sound trigger     *)
(* session, and a USB module that a call TX patch can be built on.         *)
EXTENDS CaptureConcurrency

CONSTANTS primary, usb, micProfile, st1Profile, st2Profile, st3Profile, u1, u2

MCModules == {primary, usb}
MCUids == {u1, u2}

(* Uids only tell clients apart for setAppState(): permuting them is sound. *)
MCSymmetry == Permutations(MCUids)
MCProfiles == {micProfile, st1Profile, st2Profile, st3Profile}
MCProfileModule == [f \in MCProfiles |-> primary]
MCMaxOpenCount ==
    [f \in MCProfiles |-> IF f = micProfile THEN 2 ELSE 1]
MCMaxActiveCount == [f \in MCProfiles |-> 1]
MCSTProfile == (1 :> st1Profile) @@ (2 :> st2Profile) @@ (3 :> st3Profile)
=============================================================================
