------------------------------ MODULE MCSession ----------------------------
(***************************************************************************)
(* The protocols of a session side by side, for model checking: the        *)
(* negotiation, licensing, fast-path updates, static and dynamic channels, *)
(* and the rounds of the shadow server.  They do not share state: focus    *)
(* says which of them a behaviour is about.                                *)
(***************************************************************************)
EXTENDS ShadowMultiClient, Nego, License, FastPath, StaticChannel, DynamicChannels

\* A message that fits in one PDU on one channel, one that does not on the other.
MCLengths == <<{3}, {2}>>

VARIABLE focus

sessionVars == <<vars, negoVars, licenseVars, fpVars, staticVars, dvcVars, focus>>

SessionInit ==
  /\ Init /\ NegoInit /\ LicenseInit /\ FastPathInit /\ StaticInit /\ DvcInit
  /\ focus \in {"shadow", "nego", "license", "updates", "static", "dynamic"}

ShadowPart ==
  focus = "shadow" /\ UNCHANGED <<negoVars, licenseVars, fpVars, staticVars, dvcVars, focus>>
NegoPart ==
  focus = "nego" /\ UNCHANGED <<vars, licenseVars, fpVars, staticVars, dvcVars, focus>>
LicensePart ==
  focus = "license" /\ UNCHANGED <<vars, negoVars, fpVars, staticVars, dvcVars, focus>>
UpdatesPart ==
  focus = "updates" /\ UNCHANGED <<vars, negoVars, licenseVars, staticVars, dvcVars, focus>>
StaticPart ==
  focus = "static" /\ UNCHANGED <<vars, negoVars, licenseVars, fpVars, dvcVars, focus>>
DynamicPart ==
  focus = "dynamic" /\ UNCHANGED <<vars, negoVars, licenseVars, fpVars, staticVars, focus>>

SessionNext ==
  \/ ShadowPart /\ Next
  \/ NegoPart /\ NegoNext
  \/ LicensePart /\ LicenseNext
  \/ UpdatesPart /\ FastPathNext
  \/ StaticPart /\ StaticNext
  \/ DynamicPart /\ DvcNext

\* A client thread of the shadow server is at one of these steps at a time.
ClientRuns(c) == SeesUpdate(c) \/ Sends(c) \/ BarrierReturns(c) \/ ClientContinues(c)

\* The fairness of each module, in the part that is looked at.  The steps of
\* different parts are never enabled together, so that one condition may stand
\* for one of each.
SessionFairness ==
  /\ WF_sessionVars(\/ ShadowPart /\ DoneReturns
                    \/ NegoPart /\ Connecting
                    \/ LicensePart /\ ClientLicenseStep
                    \/ StaticPart /\ MainEnds
                    \/ DynamicPart /\ wts_read_drdynvc_pdu)
  /\ WF_sessionVars(\/ ShadowPart /\ ServerContinues
                    \/ LicensePart /\ ServerStep
                    \/ StaticPart /\ ThreadReads)
  /\ WF_sessionVars(StaticPart /\ ThreadDone)
  /\ \A c \in Clients : WF_sessionVars(ShadowPart /\ ClientRuns(c))
  /\ SF_sessionVars(\/ LicensePart /\ (\E t \in {"TOTAL_ABORT", "NO_TRANSITION"} : ServerAlerts(t))
                    \/ DynamicPart /\ drdynvc_order_recv)

SessionSpec == SessionInit /\ [][SessionNext]_sessionVars /\ SessionFairness
=============================================================================
