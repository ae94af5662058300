----------------------------- MODULE Activation -----------------------------
(***************************************************************************)
(* What the activation of an RDP session promises, without PDUs: the       *)
(* server offers capabilities (a Demand Active PDU) only when the offer    *)
(* before has led to an active session, grants every offer at most once,   *)
(* and the client reports an activation exactly once for each grant, after *)
(* it.  An offer may follow a grant at once, when the server reactivates   *)
(* the session from its PostConnect callback.                              *)
(***************************************************************************)
EXTENDS Naturals

VARIABLES
  offered,   \* offers made by the server
  granted,   \* the last offer for which the server became active
  reported   \* activations the client reported to its application

vars == <<offered, granted, reported>>

Init == offered = 0 /\ granted = 0 /\ reported = 0

Offer ==
  /\ granted = offered
  /\ offered' = offered + 1
  /\ UNCHANGED <<granted, reported>>

Grant ==
  /\ granted < offered
  /\ granted' = offered
  /\ offered' \in {offered, offered + 1}
  /\ UNCHANGED reported

Report ==
  /\ reported < granted
  /\ reported' = reported + 1
  /\ UNCHANGED <<offered, granted>>

Next == Offer \/ Grant \/ Report

Spec == Init /\ [][Next]_vars

=============================================================================
