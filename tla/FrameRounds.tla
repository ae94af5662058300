----------------------------- MODULE FrameRounds ---------------------------
(***************************************************************************)
(* What shadow_mcevent.h promises: "an event is consumed by multiple       *)
(* clients.  All clients should wait others before continue.  Server       *)
(* should wait for all clients before continue."  A round starts with one  *)
(* share for every member; a member gives its share back once, by handling *)
(* the frame or by leaving; the server goes on when no share is out.       *)
(***************************************************************************)
CONSTANT Clients

VARIABLES
  members,  \* clients that subscribe
  owing,    \* members that have not handled the frame of this round
  busy      \* the server is in publish_and_wait

vars == <<members, owing, busy>>

Init == members = {} /\ owing = {} /\ busy = FALSE

Publish ==
  /\ ~busy
  /\ owing' = members /\ busy' = (members # {})
  /\ UNCHANGED members

Handle(c) ==
  /\ c \in owing
  /\ owing' = owing \ {c}
  /\ UNCHANGED <<members, busy>>

Join(c) ==
  /\ c \notin members
  /\ members' = members \cup {c}
  /\ UNCHANGED <<owing, busy>>

Leave(c) ==
  /\ c \in members
  /\ members' = members \ {c} /\ owing' = owing \ {c}
  /\ UNCHANGED busy

Finish ==
  /\ busy /\ owing = {}
  /\ busy' = FALSE
  /\ UNCHANGED <<members, owing>>

Next ==
  \/ Publish \/ Finish
  \/ \E c \in Clients : Handle(c) \/ Join(c) \/ Leave(c)

Spec == Init /\ [][Next]_vars
=============================================================================
