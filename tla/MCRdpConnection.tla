-------------------------- MODULE MCRdpConnection --------------------------
(* The connection sequence for TLC: applications that reactivate only an   *)
(* active session, and applications that reactivate at any time.           *)
EXTENDS RdpConnection, TLC

WhenActive == {"ACTIVE"}
AnyTime == PduStates
=============================================================================
