------------------------------ MODULE License ------------------------------
(***************************************************************************)
(* Licensing on the client (license.c): the exchange with a license server *)
(* and the license (CAL) that is kept in a file between connections.  The  *)
(* client may be killed at any point.  The server is not in the            *)
(* repository (the servers of FreeRDP only send the valid client alert):   *)
(* it answers as the client expects it to.  A file is what a reader of it  *)
(* would get: a CAL, a part of one, or no file.                            *)
(***************************************************************************)
EXTENDS Naturals

CONSTANTS Cals, NoFile

ASSUME LicenseAssumption == Cals # {} /\ NoFile \notin Cals

VARIABLES
  process,     \* "connecting", "licensed", "aborted", "failed" or "killed"
  licenseState,  \* license->state: "AWAIT", "COMPLETED" or "ABORTED"
  packet,      \* the licensing packet that is under way
  saving,      \* in saveCal: "no", "opened" (.cal.new), "written"
  newCal,      \* the CAL that is saved
  calFile,     \* the file .cal
  calFileNew,  \* the file .cal.new
  stored       \* the CAL of the last saveCal that succeeded (observed)

clientLicense == <<process, licenseState, packet>>
store == <<saving, newCal, calFile, calFileNew, stored>>
licenseVars == <<clientLicense, store>>

Part(c)  == [cal |-> c, whole |-> FALSE]
Whole(c) == [cal |-> c, whole |-> TRUE]

Packet(type) == [type |-> type]

LicenseInit ==
  /\ process = "killed" /\ licenseState = "AWAIT"   \* no client runs, nothing is stored
  /\ packet = Packet("none")
  /\ saving = "no" /\ newCal = NoFile
  /\ stored = NoFile /\ calFile = NoFile /\ calFileNew = NoFile

----------------------------------------------------------------------------
(* The server.                                                             *)

ServerTurn == process = "connecting" /\ saving = "no"

ServerSends(p) ==
  /\ packet' = p
  /\ UNCHANGED <<process, licenseState, store>>

ServerAsks ==   \* at the start, or after ST_RESET_PHASE_TO_START
  /\ ServerTurn /\ packet.type = "none" /\ licenseState = "AWAIT"
  /\ ServerSends(Packet("LICENSE_REQUEST"))

ServerChallenges ==
  /\ ServerTurn /\ packet.type \in {"NEW_LICENSE_REQUEST", "LICENSE_INFO"}
  /\ ServerSends(Packet("PLATFORM_CHALLENGE"))

\* NEW_LICENSE or UPGRADE_LICENSE
ServerIssues(c) ==
  /\ ServerTurn /\ packet.type \in {"PLATFORM_CHALLENGE_RESPONSE", "LICENSE_INFO"}
  /\ ServerSends([type |-> "NEW_LICENSE", cal |-> c])

\* "RESEND" makes the client wait for a message that it does not send again; a
\* server that asks for it is left out.
ServerAlerts(transition) ==
  /\ ServerTurn
  /\ packet.type \in {"none", "NEW_LICENSE_REQUEST", "LICENSE_INFO", "PLATFORM_CHALLENGE_RESPONSE"}
  /\ ServerSends([type |-> "ERROR_ALERT", transition |-> transition])

----------------------------------------------------------------------------
(* license_recv, and rdp_client_connect_license after it.                  *)

Receives(type) == process = "connecting" /\ saving = "no" /\ packet.type = type

\* license_answer_license_request, with the CAL that loadCalFile reads.
license_answer_license_request ==
  /\ Receives("LICENSE_REQUEST")
  /\ packet' = IF calFile = NoFile THEN Packet("NEW_LICENSE_REQUEST")
               ELSE [type |-> "LICENSE_INFO", cal |-> calFile]
  /\ UNCHANGED <<process, licenseState, store>>

license_send_platform_challenge_response_packet ==
  /\ Receives("PLATFORM_CHALLENGE")
  /\ packet' = Packet("PLATFORM_CHALLENGE_RESPONSE")
  /\ UNCHANGED <<process, licenseState, store>>

\* Mutated form of OpenNew: the CAL is written to its place.
OpenInPlace(c) ==
  /\ calFile' = Part(c)
  /\ UNCHANGED calFileNew

\* fopen(filepathNew, "wb")
OpenNew(c) ==
  /\ calFileNew' = Part(c)
  /\ UNCHANGED calFile

\* license_read_new_or_upgrade_license_packet up to the fopen of saveCal.
license_read_new_or_upgrade_license_packet ==
  /\ Receives("NEW_LICENSE")
  /\ licenseState' = "COMPLETED"
  /\ saving' = "opened" /\ newCal' = packet.cal
  /\ OpenNew(packet.cal)
  /\ packet' = Packet("none")
  /\ UNCHANGED <<process, stored>>

\* The directory or the file cannot be made.
SaveOpenFails ==
  /\ Receives("NEW_LICENSE")
  /\ licenseState' = "COMPLETED" /\ process' = "failed"
  /\ packet' = Packet("none")
  /\ UNCHANGED store

\* fwrite and fclose
SaveWrites ==
  /\ process = "connecting" /\ saving = "opened"
  /\ saving' = "written"
  /\ calFileNew' = Whole(newCal)
  /\ UNCHANGED <<clientLicense, newCal, calFile, stored>>

\* The disk is full: the file is deleted, and licensing fails.
SaveWriteFails ==
  /\ process = "connecting" /\ saving = "opened"
  /\ saving' = "no" /\ process' = "failed"
  /\ calFileNew' = NoFile
  /\ UNCHANGED <<licenseState, packet, newCal, calFile, stored>>

\* MoveFileEx(filepathNew, filepath, MOVEFILE_REPLACE_EXISTING): rename.
SaveMoves ==
  /\ process = "connecting" /\ saving = "written"
  /\ saving' = "no" /\ process' = "licensed"
  /\ calFile' = calFileNew /\ calFileNew' = NoFile
  /\ stored' = newCal
  /\ UNCHANGED <<licenseState, packet, newCal>>

SaveMoveFails ==
  /\ process = "connecting" /\ saving = "written"
  /\ saving' = "no" /\ process' = "failed"
  /\ UNCHANGED <<licenseState, packet, newCal, calFile, calFileNew, stored>>

\* Mutated form of Transition: ST_NO_TRANSITION leaves the state as it is.
TransitionWaits(t) == IF t = "TOTAL_ABORT" THEN "ABORTED" ELSE "AWAIT"

Transition(t) ==
  IF t = "TOTAL_ABORT" THEN "ABORTED"
  ELSE IF t = "RESET_PHASE_TO_START" THEN "AWAIT"
  ELSE "COMPLETED"   \* NO_TRANSITION, and STATUS_VALID_CLIENT

license_read_error_alert_packet ==
  /\ Receives("ERROR_ALERT")
  /\ licenseState' = Transition(packet.transition)
  /\ process' = IF licenseState' = "ABORTED" THEN "aborted"
                ELSE IF licenseState' = "COMPLETED" THEN "licensed" ELSE process
  /\ packet' = Packet("none")
  /\ UNCHANGED store

Kill ==
  /\ process = "connecting"
  /\ process' = "killed"
  /\ UNCHANGED <<licenseState, packet, store>>

\* license_new: the next connection, of this process or of another one.
license_new ==
  /\ process # "connecting"
  /\ process' = "connecting" /\ licenseState' = "AWAIT"
  /\ packet' = Packet("none")
  /\ saving' = "no" /\ newCal' = NoFile
  /\ UNCHANGED <<calFile, calFileNew, stored>>

ServerStep ==
  \/ ServerAsks \/ ServerChallenges
  \/ \E c \in Cals : ServerIssues(c)
  \/ \E t \in {"TOTAL_ABORT", "NO_TRANSITION", "RESET_PHASE_TO_START"} : ServerAlerts(t)

ClientLicenseStep ==
  \/ license_answer_license_request \/ license_send_platform_challenge_response_packet
  \/ license_read_new_or_upgrade_license_packet \/ license_read_error_alert_packet
  \/ SaveOpenFails \/ SaveWrites \/ SaveWriteFails \/ SaveMoves \/ SaveMoveFails

LicenseNext == ServerStep \/ ClientLicenseStep \/ Kill \/ license_new

\* The client runs; the server answers, and does not start again for ever.
LicenseFairness ==
  /\ WF_licenseVars(ClientLicenseStep) /\ WF_licenseVars(ServerStep)
  /\ SF_licenseVars(\E t \in {"TOTAL_ABORT", "NO_TRANSITION"} : ServerAlerts(t))

LicenseSpec == LicenseInit /\ [][LicenseNext]_licenseVars /\ LicenseFairness

----------------------------------------------------------------------------
(* Properties.                                                             *)

\* Whenever the client is killed, the file that the next one sends to the
\* server (loadCalFile) is a whole CAL: the last one that was saved, or none
\* if none ever was.
StoredCalIsWhole ==
  calFile = IF stored = NoFile THEN NoFile ELSE Whole(stored)

\* The session goes on only after the licensing phase has come to its end, and
\* a CAL that the server issued is then in the store.
LicensedMeansCompleted ==
  process = "licensed" =>
    /\ licenseState = "COMPLETED"
    /\ newCal # NoFile => calFile = Whole(newCal)

\* The client leaves the licensing phase, whatever the server has asked for
\* before, if the server does not start again for ever.
LicensingEnds == process = "connecting" ~> process # "connecting"
=============================================================================
