--------------------------- MODULE DirectStreams ---------------------------
(***************************************************************************)
(* What the output selection promises about direct streams (spec 4.2).    *)
(*                                                                         *)
(* A direct stream is opened for one session with one configuration, from *)
(* a profile that allows another concurrent instance.  A later request     *)
(* joins it only if it comes from the same session with identical          *)
(* parameters.  A stream stays open while it has users and closes with     *)
(* the last one.  Mixed streams are not visible here: attaching to or      *)
(* leaving a mixed stream is a stuttering step.                            *)
(***************************************************************************)
EXTENDS Naturals, FiniteSets, TLC

CONSTANTS
    MaxOpen,  \* direct profile -> how many streams of it may be open at once
    Handles,  \* stream handles
    Ports,    \* client ports
    Sessions,
    Configs

VARIABLES
    streams   \* open direct stream -> [profile, owner, config, users]
              \* a user is [port, session, config]

Users == UNION {streams[h].users : h \in DOMAIN streams}
InUse(q) == \E u \in Users : u.port = q

Init == streams = <<>>

(* A request that finds no stream of its own opens one, within the limit  *)
(* of its profile.                                                         *)
Open(h, p, u) ==
    /\ h \notin DOMAIN streams
    /\ ~InUse(u.port)
    /\ Cardinality({x \in DOMAIN streams : streams[x].profile = p}) < MaxOpen[p]
    /\ streams' = streams @@ (h :> [profile |-> p, owner |-> u.session,
                                    config |-> u.config, users |-> {u}])

(* The same session with identical parameters joins an open stream.        *)
Join(h, u) ==
    /\ h \in DOMAIN streams
    /\ ~InUse(u.port)
    /\ u.session = streams[h].owner
    /\ u.config = streams[h].config
    /\ streams' = [streams EXCEPT ![h].users = @ \cup {u}]

(* A user leaves; the stream closes when it was the last one.             *)
Leave(h, u) ==
    /\ h \in DOMAIN streams
    /\ u \in streams[h].users
    /\ streams' = IF streams[h].users = {u}
                  THEN [x \in DOMAIN streams \ {h} |-> streams[x]]
                  ELSE [streams EXCEPT ![h].users = @ \ {u}]

UserRecords == [port : Ports, session : Sessions, config : Configs]

Next ==
    \/ \E h \in Handles, p \in DOMAIN MaxOpen, u \in UserRecords : Open(h, p, u)
    \/ \E h \in DOMAIN streams, u \in UserRecords : Join(h, u)
    \/ \E h \in DOMAIN streams : \E u \in streams[h].users : Leave(h, u)

Spec == Init /\ [][Next]_streams
=============================================================================
