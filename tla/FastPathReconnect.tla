------------------------- MODULE FastPathReconnect -------------------------
(***************************************************************************)
(* Fast-path updates when the network is lost and the client reconnects    *)
(* (client_auto_reconnect_ex, rdp_client_reconnect): rdp_reset makes a new *)
(* transport, and leaves the client's rdpFastPath as it is.                *)
(***************************************************************************)
EXTENDS FastPath

\* The connection breaks at any moment; the new one has a new server side, and
\* nothing of the old is on its way.
rdp_client_reconnect ==
  /\ clientMax > 0 /\ ~rejected
  /\ update' = (update + 1) % Updates
  /\ total' = 0 /\ left' = 0 /\ fragment' = -1
  /\ pdus' = <<>>
  /\ UNCHANGED <<serverMax, clientMax, compress, clientSide>>

ReconnectSpec == FastPathInit /\ [][FastPathNext \/ rdp_client_reconnect]_fpVars

----------------------------------------------------------------------------
(* Properties.                                                             *)

\* The client that reconnects takes the updates of the new connection: the
\* receiver checks that a fragment begins an update only where one may begin,
\* which a new connection's first fragment does.
TakenAfterReconnect == ~rejected
=============================================================================
