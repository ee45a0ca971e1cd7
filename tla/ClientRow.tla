----------------------------- MODULE ClientRow ------------------------------
(***************************************************************************)
(* One row of the clients table, and every request of the backend that     *)
(* reads it, awaits something, and writes it back: the HMRC invitation and *)
(* relationship polls, the (re)sending of an invitation, the edits of the  *)
(* agent, the pipeline transitions, and the gate in front of MTD calls.    *)
(*                                                                         *)
(* A request runs alone between two awaits and interleaves with the others *)
(* at each of them, so each action below is one stretch between awaits.    *)
(* clientRepo.save(client) writes back every column the request loaded,    *)
(* including those it never touched: row' = the request's copy.            *)
(*                                                                         *)
(* Requests on different clients touch different rows, so one row is       *)
(* modelled.  HMRC is external.                                            *)
(***************************************************************************)
EXTENDS PipelineStatus, FiniteSets

CONSTANTS Requests,     \* request slots: how many run at once
          Invitations,  \* identifiers HMRC can give to invitations
          NoInvitation, \* the column invitation_id is NULL
          LastQuarter,  \* bound: quarters 0 .. LastQuarter are modelled
          Faults        \* TRUE when HMRC, the database or the process may fail

ASSUME NoInvitationAssumption == NoInvitation \notin Invitations
ASSUME LastQuarterAssumption == LastQuarter \in Nat
ASSUME FaultsAssumption == Faults \in BOOLEAN

VARIABLES row,          \* the client's row, as committed
          history,      \* its rows in client_status_history
          req,          \* the requests in progress
          invitation,   \* HMRC: the status of each invitation
          relationship, \* HMRC: does the agent act for the client?
          fulfilled,    \* HMRC: quarters whose obligation is fulfilled
          chased,       \* quarters that have a chase log for the client
          quarter,      \* the current quarter
          asked,        \* manual stages some agent has asked for
          announced     \* invitations whose acceptance the firm was told of

hmrc == <<invitation, relationship, fulfilled>>
agency == <<chased, quarter, asked, announced>>
vars == <<row, history, req, hmrc, agency>>

-----------------------------------------------------------------------------
(* Types.                                                                  *)

AcceptedStatuses == {"accepted", "partial-auth"}
ResendableStatuses == {"expired", "rejected", "cancelled", "deauthorised"}
InvitationStatuses == {"pending"} \cup AcceptedStatuses \cup ResendableStatuses
Quarters == 0 .. LastQuarter

Row == [pipeline   : Stages,
        invId      : Invitations \cup {NoInvitation},
        invStatus  : InvitationStatuses,
        authorised : BOOLEAN]

\* fromStage = NoStage stands for the NULL of the first history row.
HistoryRow == [fromStage : Stages \cup {NoStage}, toStage : Stages,
               source : {"system", "agent"}]

Places == {"idle", "fetch", "saveStatus", "verify", "saveAuth", "find",
           "saveStage", "record", "notify", "decide", "mtdCall", "edit",
           "create", "saveInvite"}

Request == [at       : Places,
            copy     : Row,               \* the row the request loaded
            toStage  : Stages,            \* target of its transition
            source   : {"system", "agent"},
            announce : Invitations \cup {NoInvitation}, \* acceptance the firm
                                          \* must still be notified of
            again    : BOOLEAN,           \* it must still verify a second time
            gate     : BOOLEAN,           \* an MTD call waits behind it
            verdict  : {"unknown", "active", "inactive"}] \* HMRC told the gate

NewRow == [pipeline |-> "pending-invite", invId |-> NoInvitation,
           invStatus |-> "pending", authorised |-> FALSE]

Idle == [at |-> "idle", copy |-> NewRow, toStage |-> "pending-invite",
         source |-> "system", announce |-> NoInvitation, again |-> FALSE,
         gate |-> FALSE, verdict |-> "unknown"]

-----------------------------------------------------------------------------
(* Initial states: a client as ClientsService.create saves it, or one that *)
(* was authorised before the pipeline column existed, as the migration     *)
(* leaves it.                                                              *)

MigratedRow(i, s) == [pipeline |-> s, invId |-> i,
                      invStatus |-> "accepted", authorised |-> TRUE]

InitCreated ==
  /\ row = NewRow
  /\ invitation = [i \in Invitations |-> "none"]
  /\ relationship = "never"

InitMigrated ==
  \E i \in Invitations, s \in {"not-started", "chased"} :
    /\ row = MigratedRow(i, s)
    /\ invitation = [j \in Invitations |-> IF j = i THEN "accepted" ELSE "none"]
    /\ relationship = "active"

Init ==
  /\ InitCreated \/ InitMigrated
  /\ history = {[fromStage |-> NoStage, toStage |-> row.pipeline, source |-> "system"]}
  /\ req = [p \in Requests |-> Idle]
  /\ fulfilled = {}
  /\ chased = {}
  /\ quarter = 0
  /\ asked = {}
  /\ announced = {}

-----------------------------------------------------------------------------
(* HMRC and the client, external.                                          *)

\* The client answers a pending invitation.  A client not yet signed up to
\* MTD gives a partial authorisation, which may or may not be active.
ClientAnswers(i) ==
  /\ invitation[i] = "pending"
  /\ \E answer \in {"accepted", "partial-auth", "rejected"} :
       /\ invitation' = [invitation EXCEPT ![i] = answer]
       /\ \/ answer \in AcceptedStatuses /\ relationship' = "active"
          \/ answer # "accepted" /\ UNCHANGED relationship
  /\ UNCHANGED <<row, history, req, fulfilled, agency>>

\* A partial authorisation becomes a full one.
ClientSignsUp(i) ==
  /\ invitation[i] = "partial-auth"
  /\ invitation' = [invitation EXCEPT ![i] = "accepted"]
  /\ relationship' = "active"
  /\ UNCHANGED <<row, history, req, fulfilled, agency>>

\* A pending invitation expires or is withdrawn at HMRC.
InvitationLapses(i) ==
  /\ invitation[i] = "pending"
  /\ \E status \in {"expired", "cancelled"} :
       invitation' = [invitation EXCEPT ![i] = status]
  /\ UNCHANGED <<row, history, req, relationship, fulfilled, agency>>

\* The client ends the firm's authority at HMRC.
ClientDeauthorises(i) ==
  /\ invitation[i] \in AcceptedStatuses
  /\ invitation' = [invitation EXCEPT ![i] = "deauthorised"]
  /\ relationship' = IF relationship = "active" THEN "ended" ELSE relationship
  /\ UNCHANGED <<row, history, req, fulfilled, agency>>

\* The obligation of the current quarter is met.
QuarterFiled ==
  /\ quarter \notin fulfilled
  /\ fulfilled' = fulfilled \cup {quarter}
  /\ UNCHANGED <<row, history, req, invitation, relationship, agency>>

Hmrc == \/ \E i \in Invitations : \/ ClientAnswers(i)
                                  \/ ClientSignsUp(i)
                                  \/ InvitationLapses(i)
                                  \/ ClientDeauthorises(i)
        \/ QuarterFiled

-----------------------------------------------------------------------------
(* How a request moves on.                                                 *)

Goes(p, changes) == req' = [req EXCEPT ![p] = changes]

At(p, place) == req[p].at = place

\* Where a poll stands once a verification, or the transition after it, is
\* over: it notifies, verifies the same copy again, or lets the MTD gate
\* decide; otherwise it ends.
Resume(r) ==
  IF r.announce # NoInvitation THEN [r EXCEPT !.at = "notify"]
  ELSE IF r.again THEN [r EXCEPT !.at = "verify", !.again = FALSE]
  ELSE IF r.gate THEN [r EXCEPT !.at = "decide"]
  ELSE Idle

-----------------------------------------------------------------------------
(* The invitation poll: findAll, findOutstandingInvitations, the panel,    *)
(* checkInvitationStatus.                                                  *)

\* An invitation is polled until its stored status is a final one.
NeedsSync(c) == /\ c.invId # NoInvitation
                /\ c.invStatus \notin {"accepted"} \cup ResendableStatuses

\* The list also verifies accepted clients that are not authorised yet.
NeedsCheck(c) == c.invStatus \in AcceptedStatuses /\ ~c.authorised

\* The poll loads the row, and keeps this copy until its last write.
PollLoad(p) ==
  /\ At(p, "idle")
  /\ \/ /\ NeedsSync(row)
        /\ Goes(p, [Idle EXCEPT !.at = "fetch", !.copy = row])
     \/ /\ ~NeedsSync(row) /\ NeedsCheck(row)
        /\ Goes(p, [Idle EXCEPT !.at = "verify", !.copy = row])
  /\ UNCHANGED <<row, history, hmrc, agency>>

\* Does this answer take the copy to acceptance?  Then the firm is notified.
FirstAcceptance(before, status) ==
  before \notin AcceptedStatuses /\ status \in AcceptedStatuses

\* HMRC answers with the status of the invitation the copy names.  Only the
\* client list verifies the relationship of the same copy again afterwards.
Fetch(p) ==
  /\ At(p, "fetch")
  /\ LET status == invitation[req[p].copy.invId]
         before == req[p].copy.invStatus
     IN \E list \in BOOLEAN :
          Goes(p, [req[p] EXCEPT
                     !.at = "saveStatus",
                     !.copy.invStatus = status,
                     !.announce = IF FirstAcceptance(before, status)
                                  THEN req[p].copy.invId ELSE NoInvitation,
                     !.again = list])
  /\ UNCHANGED <<row, history, hmrc, agency>>

\* HMRC does not answer: the list goes on with the cached status.
FetchFails(p) ==
  /\ Faults
  /\ At(p, "fetch")
  /\ Goes(p, IF NeedsCheck(req[p].copy) THEN [req[p] EXCEPT !.at = "verify"] ELSE Idle)
  /\ UNCHANGED <<row, history, hmrc, agency>>

SaveStatus(p) ==
  /\ At(p, "saveStatus")
  /\ row' = req[p].copy
  /\ Goes(p, IF req[p].copy.invStatus \in AcceptedStatuses
             THEN [req[p] EXCEPT !.at = "verify"]
             ELSE Idle)
  /\ UNCHANGED <<history, hmrc, agency>>

-----------------------------------------------------------------------------
(* The relationship check: part of a poll, of checkRelationshipStatus, and *)
(* of ensureClientAuthorisedForMtd, the gate in front of every MTD call.   *)

CheckLoad(p) ==
  /\ At(p, "idle")
  /\ row.invStatus \in AcceptedStatuses
  /\ \E gate \in BOOLEAN :
       Goes(p, [Idle EXCEPT !.at = "verify", !.copy = row, !.gate = gate])
  /\ UNCHANGED <<row, history, hmrc, agency>>

\* Without an accepted invitation, or without an HMRC connection, the gate
\* goes by the row as loaded.
GateUnverified(p) ==
  /\ At(p, "idle")
  /\ row.invStatus \in AcceptedStatuses => Faults
  /\ row.authorised
  /\ Goes(p, [Idle EXCEPT !.at = "mtdCall"])
  /\ UNCHANGED <<row, history, hmrc, agency>>

\* Mutant: a 404 passes for a 204.
AnyAnswerConfirms == TRUE

\* Mutant: the 204 is not recognised.
NothingConfirms == FALSE

\* HMRC confirms the relationship of the copy (204).
Confirmed == relationship = "active"

Verify(p) ==
  /\ At(p, "verify")
  /\ LET r == [req[p] EXCEPT !.verdict = IF ~req[p].gate THEN "unknown"
                                        ELSE IF Confirmed THEN "active" ELSE "inactive",
                             !.again = @ /\ ~Confirmed /\ ~req[p].copy.authorised]
     IN Goes(p, IF Confirmed /\ ~r.copy.authorised
                THEN [r EXCEPT !.at = "saveAuth", !.copy.authorised = TRUE]
                ELSE Resume(r))
  /\ UNCHANGED <<row, history, hmrc, agency>>

\* Any other answer is logged, and the poll goes on.
VerifyFails(p) ==
  /\ Faults
  /\ At(p, "verify")
  /\ Goes(p, Resume([req[p] EXCEPT !.again = @ /\ ~req[p].copy.authorised]))
  /\ UNCHANGED <<row, history, hmrc, agency>>

\* authorised_at is saved, then markNotStarted is called.  The poll does not
\* use its copy after this.
SaveAuth(p) ==
  /\ At(p, "saveAuth")
  /\ row' = req[p].copy
  /\ LET r == req[p]
     IN Goes(p, [Idle EXCEPT !.at = "find", !.toStage = "not-started",
                             !.announce = r.announce, !.gate = r.gate,
                             !.verdict = r.verdict])
  /\ UNCHANGED <<history, hmrc, agency>>

\* The gate reads the row again and asks only whether it is authorised.
Decide(p) ==
  /\ At(p, "decide")
  /\ Goes(p, IF row.authorised
             THEN [Idle EXCEPT !.at = "mtdCall", !.verdict = req[p].verdict]
             ELSE Idle)
  /\ UNCHANGED <<row, history, hmrc, agency>>

\* The MTD call goes through to HMRC; only the dashboard's changes the row.
MtdCall(p) ==
  /\ At(p, "mtdCall")
  /\ Goes(p, Idle)
  /\ UNCHANGED <<row, history, hmrc, agency>>

\* The firm is told that the client accepted.
Notify(p) ==
  /\ At(p, "notify")
  /\ announced' = announced \cup {req[p].announce}
  /\ Goes(p, Resume([req[p] EXCEPT !.announce = NoInvitation]))
  /\ UNCHANGED <<row, history, hmrc, chased, quarter, asked>>

-----------------------------------------------------------------------------
(* ClientPipelineService.transition: find, save, append to the history.    *)

\* Mutant: the system rewrites an equal stage.
AllowedEqual(from, to, source) ==
  \/ source = "agent" /\ to \in ManualStages /\ NextManual(from) = to
  \/ source = "system" /\ Rank(to) >= Rank(from)

\* Mutant: an agent may skip stages.
AllowedSkip(from, to, source) ==
  \/ source = "agent" /\ to \in ManualStages /\ Rank(to) > Rank(from)
  \/ source = "system" /\ Rank(to) > Rank(from)

\* Mutant: off by one, the system only takes steps of two stages or more.
AllowedFar(from, to, source) ==
  \/ source = "agent" /\ to \in ManualStages /\ NextManual(from) = to
  \/ source = "system" /\ Rank(to) > Rank(from) + 1

\* May this transition be made from the stage just read?
Allowed(from, to, source) ==
  \/ source = "agent" /\ to \in ManualStages /\ NextManual(from) = to
  \/ source = "system" /\ Rank(to) > Rank(from)

\* A transition that is not allowed is refused to an agent and ignored for
\* the system.
Find(p) ==
  /\ At(p, "find")
  /\ Goes(p, IF Allowed(row.pipeline, req[p].toStage, req[p].source)
             THEN [req[p] EXCEPT !.at = "saveStage", !.copy = row]
             ELSE Resume(req[p]))
  /\ UNCHANGED <<row, history, hmrc, agency>>

\* Mutant: the row takes the next manual stage, not the one asked for.
MovedToNext(c, to) == [c EXCEPT !.pipeline = NextManual(c.pipeline)]

Moved(c, to) == [c EXCEPT !.pipeline = to]

SaveStage(p) ==
  /\ At(p, "saveStage")
  /\ row' = Moved(req[p].copy, req[p].toStage)
  /\ Goes(p, [req[p] EXCEPT !.at = "record"])
  /\ UNCHANGED <<history, hmrc, agency>>

\* Mutant: the audit row is built from the row after the change.
EntryAfter(from, to, source) ==
  [fromStage |-> to, toStage |-> from, source |-> source]

Entry(from, to, source) ==
  [fromStage |-> from, toStage |-> to, source |-> source]

Record(p) ==
  /\ At(p, "record")
  /\ LET r == req[p]
     IN history' = history \cup {Entry(r.copy.pipeline, r.toStage, r.source)}
  /\ Goes(p, Resume(req[p]))
  /\ UNCHANGED <<row, hmrc, agency>>

\* A failed transition is caught by the poll that made it.
TransitionFails(p) ==
  /\ Faults
  /\ req[p].at \in {"find", "saveStage", "record"}
  /\ Goes(p, Resume(req[p]))
  /\ UNCHANGED <<row, history, hmrc, agency>>

\* An agent sets a manual stage: setManualStatus.
AgentSets(p) ==
  /\ At(p, "idle")
  /\ \E s \in ManualStages :
       /\ asked' = asked \cup {s}
       /\ Goes(p, [Idle EXCEPT !.at = "find", !.toStage = s, !.source = "agent"])
  /\ UNCHANGED <<row, history, hmrc, chased, quarter, announced>>

-----------------------------------------------------------------------------
(* The dashboard and the chase log.                                        *)

\* The MTD call was the dashboard's, and HMRC answers that the current quarter
\* is filed: markSubmittedMany starts the transition.
DashboardFindsSubmitted(p) ==
  /\ At(p, "mtdCall")
  /\ quarter \in fulfilled
  /\ Goes(p, [Idle EXCEPT !.at = "find", !.toStage = "submitted"])
  /\ UNCHANGED <<row, history, hmrc, agency>>

\* A chase is logged for the client, whatever its row says.
ChaseClient ==
  /\ chased' = chased \cup {quarter}
  /\ UNCHANGED <<row, history, req, hmrc, quarter, asked, announced>>

NextQuarter ==
  /\ quarter < LastQuarter
  /\ quarter' = quarter + 1
  /\ UNCHANGED <<row, history, req, hmrc, chased, asked, announced>>

\* What the dashboard shows for the client.
DashboardStatus ==
  Resolve(row.pipeline,
          Derive(row.authorised, quarter \in fulfilled, quarter \in chased))

-----------------------------------------------------------------------------
(* Edits and invitations.                                                  *)

\* updateClient, assignClient: load, set columns not modelled here, save.
EditLoad(p) ==
  /\ At(p, "idle")
  /\ Goes(p, [Idle EXCEPT !.at = "edit", !.copy = row])
  /\ UNCHANGED <<row, history, hmrc, agency>>

EditSave(p) ==
  /\ At(p, "edit")
  /\ row' = req[p].copy
  /\ Goes(p, Idle)
  /\ UNCHANGED <<history, hmrc, agency>>

\* Mutant: a pending invitation may be sent again.
CanResendPending(c) == c.invStatus # "accepted"

\* A first or a new invitation may be sent for this row.
CanResend(c) == /\ c.invStatus # "accepted"
                /\ c.invId = NoInvitation \/ c.invStatus \in ResendableStatuses

ResendLoad(p) ==
  /\ At(p, "idle")
  /\ CanResend(row)
  /\ Goes(p, [Idle EXCEPT !.at = "create", !.copy = row])
  /\ UNCHANGED <<row, history, hmrc, agency>>

\* HMRC gives out a new invitation, unless one is pending for the client.
CreateInvitation(p) ==
  /\ At(p, "create")
  /\ \A j \in Invitations : invitation[j] # "pending"
  /\ \E i \in Invitations :
       /\ invitation[i] = "none"
       /\ invitation' = [invitation EXCEPT ![i] = "pending"]
       /\ Goes(p, [req[p] EXCEPT !.at = "saveInvite", !.copy.invId = i,
                                 !.copy.invStatus = "pending"])
  /\ UNCHANGED <<row, history, relationship, fulfilled, agency>>

\* HMRC refuses; the error becomes a warning.
CreationRefused(p) ==
  /\ At(p, "create")
  /\ \/ Faults
     \/ \E j \in Invitations : invitation[j] = "pending"
     \/ \A j \in Invitations : invitation[j] # "none"
  /\ Goes(p, Idle)
  /\ UNCHANGED <<row, history, hmrc, agency>>

SaveInvite(p) ==
  /\ At(p, "saveInvite")
  /\ row' = req[p].copy
  /\ Goes(p, Idle)
  /\ UNCHANGED <<history, hmrc, agency>>

-----------------------------------------------------------------------------
\* The process stops, or the request dies of an error nobody catches.
Dies(p) ==
  /\ Faults
  /\ ~At(p, "idle")
  /\ Goes(p, Idle)
  /\ UNCHANGED <<row, history, hmrc, agency>>

Starts(p) == \/ PollLoad(p)
             \/ CheckLoad(p)
             \/ GateUnverified(p)
             \/ AgentSets(p)
             \/ EditLoad(p)
             \/ ResendLoad(p)

Continues(p) == \/ Fetch(p)
                \/ SaveStatus(p)
                \/ Verify(p)
                \/ SaveAuth(p)
                \/ Decide(p)
                \/ MtdCall(p)
                \/ DashboardFindsSubmitted(p)
                \/ Notify(p)
                \/ Find(p)
                \/ SaveStage(p)
                \/ Record(p)
                \/ EditSave(p)
                \/ CreateInvitation(p)
                \/ CreationRefused(p)
                \/ SaveInvite(p)

Fails(p) == \/ FetchFails(p)
            \/ VerifyFails(p)
            \/ TransitionFails(p)
            \/ Dies(p)

Next == \/ \E p \in Requests : Starts(p) \/ Continues(p) \/ Fails(p)
        \/ ChaseClient
        \/ NextQuarter
        \/ Hmrc

Spec == Init /\ [][Next]_vars

\* A request that has started runs to its end: nothing in it waits for
\* another request.
FairSpec == Spec /\ \A p \in Requests : WF_vars(Continues(p))

-----------------------------------------------------------------------------
(* Properties.                                                             *)

\* Every variable stays within the values the columns can hold.
TypeOK ==
  /\ row \in Row
  /\ history \subseteq HistoryRow
  /\ req \in [Requests -> Request]
  /\ invitation \in [Invitations -> InvitationStatuses \cup {"none"}]
  /\ relationship \in {"never", "active", "ended"}
  /\ fulfilled \subseteq Quarters
  /\ chased \subseteq Quarters
  /\ quarter \in Quarters
  /\ asked \subseteq ManualStages
  /\ announced \subseteq Invitations

\* What a copy of the row may claim, given what HMRC and the agents have done:
\* authorised only if HMRC has confirmed the relationship, beyond pending
\* only with it, submitted only if HMRC had a fulfilled obligation, and a
\* manual stage only if agents asked for it and for the one before it.
Earned(c) ==
  /\ c.authorised => relationship # "never"
  /\ c.pipeline # "pending-invite" => relationship # "never"
  /\ c.pipeline = "submitted" => fulfilled # {}
  /\ c.pipeline = "records-received" => "records-received" \in asked
  /\ c.pipeline = "ready-for-review" => asked = ManualStages

\* However stale the copies are that requests write back, the stored row
\* never claims an authorisation, a submission or a manual stage that did not
\* happen (transition, syncRelationshipFromHmrc, findSubmittedClientIds).
StagesEarned == Earned(row)

\* No MTD call is made for a client whose relationship HMRC never confirmed
\* (ensureClientAuthorisedForMtd).
CallsConfirmed == \A p \in Requests : At(p, "mtdCall") => relationship # "never"

\* The audit trail only ever records steps up the ladder, and an agent's step
\* only as the next manual stage, even when the row itself was taken back by
\* a stale write (transition).
AuditClimbs ==
  \A h \in history : h.fromStage # NoStage =>
    /\ Rank(h.fromStage) < Rank(h.toStage)
    /\ h.source = "agent" => Rank(h.toStage) = Rank(h.fromStage) + 1

\* The pipeline of the row implements the ladder: "System never downgrades or
\* rewrites equal/lower statuses", an agent's step is the exact next one
\* (transition).
Pipeline == INSTANCE PipelineLadder WITH stage <- row.pipeline
ClimbsLadder == Pipeline!Ladder

Quiet == \A p \in Requests : At(p, "idle")

\* Between requests the audit trail accounts for the stage of the row: the
\* row stands at the highest stage recorded (transition).
HistoryComplete ==
  Quiet => /\ \E h \in history : h.toStage = row.pipeline
           /\ \A h \in history : Rank(h.toStage) <= Rank(row.pipeline)

\* Between requests the row names every invitation that the client can still
\* answer or has accepted: none is lost to a later write
\* (sendHmrcInvitationForClient, resendInvitation).  And no request is about to
\* announce what the firm was told already: "Fire notifications only on the first
\* transition to accepted" (syncOneInvitationFromHmrc).
InvitationTracked ==
  /\ Quiet => \A i \in Invitations :
                invitation[i] \in {"pending"} \cup AcceptedStatuses => row.invId = i
  /\ \A p \in Requests : At(p, "notify") => req[p].announce \notin announced

\* An authorised client leaves the pending stage: markNotStarted follows the
\* saving of authorised_at (syncRelationshipFromHmrc).
AuthorisedLeavesPending == row.authorised ~> row.pipeline # "pending-invite"

\* If the client list keeps being polled, an acceptance at HMRC reaches the
\* row, unless the client ends the relationship first (findAll).
AcceptanceArrives ==
  []<><<\E p \in Requests : PollLoad(p)>>_vars =>
    ( /\ \E i \in Invitations : row.invId = i /\ invitation[i] \in AcceptedStatuses
      /\ relationship = "active" )
    ~> (row.authorised \/ relationship # "active")

-----------------------------------------------------------------------------
(* What comments of the code say and the code does not do.                 *)

\* "System never downgrades or rewrites equal/lower statuses": a system
\* transition leaves the row no lower than it found it (transition).
SystemNeverDowngrades ==
  [][\A p \in Requests : SaveStage(p) /\ req[p].source = "system" =>
       Rank(row'.pipeline) >= Rank(row.pipeline)]_vars

\* "Gatekeeper for future MTD ITSA API calls - throws if relationship is not
\* active": a call HMRC has just answered "inactive" to is not let through
\* (ensureClientAuthorisedForMtd).
GateFollowsHmrc == \A p \in Requests : At(p, "mtdCall") => req[p].verdict # "inactive"

\* "Merge persisted client status with quarter-aware derived auto status": a
\* client shown as submitted has filed the current quarter (getSummary).
SubmittedIsCurrent == DashboardStatus = "submitted" => quarter \in fulfilled
=============================================================================
