----------------------- MODULE ShadowMultiClientSplit ----------------------
(***************************************************************************)
(* The update event when the server uses shadow_multiclient_publish and,   *)
(* later, shadow_multiclient_wait, the two halves of publish_and_wait that *)
(* shadow_mcevent.h also exports (no subsystem calls them).                *)
(***************************************************************************)
EXTENDS ShadowMultiClient

shadow_multiclient_publish ==
  /\ server = "idle"
  /\ _Publish
  /\ server' = "published"

\* Up to the wait in _WaitForSubscribers, which is skipped when no share is out.
shadow_multiclient_wait ==
  /\ server = "published"
  /\ server' = IF consuming > 0 THEN "waiting" ELSE "idle"
  /\ UNCHANGED <<event, barrier, done, consuming, waiting, please, pc>>

SplitNext ==
  \/ shadow_multiclient_publish \/ shadow_multiclient_wait \/ DoneReturns \/ ServerContinues
  \/ \E c \in Clients : Client(c)

SplitSpec == Init /\ [][SplitNext]_vars

----------------------------------------------------------------------------
\* "Server should wait for all clients before continue" (shadow_mcevent.h): once
\* the wait is over no client still owes the frame or sends it.
ServerWaitsForAll ==
  server = "idle" => Owing = {} /\ \A c \in Clients : pc[c] # "sending"
=============================================================================
