-------------------------- MODULE ClientRow_proofs --------------------------
(***************************************************************************)
(* Proofs about ClientRow, for every number of requests, invitations and   *)
(* quarters, with or without failures.                                     *)
(*                                                                         *)
(* Neither TypeOK nor StagesEarned is inductive: the stale copies that     *)
(* requests hold come back as the row, and a poll looks up the invitation  *)
(* its copy names.  So the invariant says of every copy in flight what it  *)
(* says of the row, and of every transition in flight what entitled it to  *)
(* its target.                                                             *)
(*                                                                         *)
(* The second half takes one request at a time, which is what the ladder,  *)
(* the audit trail and the invitation need, and shows that the row then    *)
(* implements PipelineLadder.                                              *)
(***************************************************************************)
EXTENDS ClientRow, TLAPS

USE NoInvitationAssumption, LastQuarterAssumption, FaultsAssumption

-----------------------------------------------------------------------------
(* The pipeline operators.                                                 *)

\* The rank of a stage is its position, 0 to 5.
LEMMA RankType == \A s \in Stages : Rank(s) \in 0 .. 5
  BY DEF Stages, Rank

\* A transition that transition() allows climbs, by one rung for an agent.
LEMMA AllowedClimbs ==
  ASSUME NEW from \in Stages, NEW to \in Stages, NEW source,
         Allowed(from, to, source)
  PROVE  /\ Rank(from) < Rank(to)
         /\ source = "agent" => Rank(to) = Rank(from) + 1
<1>1. CASE source = "agent"
  BY <1>1 DEF Allowed, Stages, ManualStages, NextManual, NoStage, Rank
<1>2. CASE source = "system"
  BY <1>2 DEF Allowed
<1> QED BY <1>1, <1>2 DEF Allowed

-----------------------------------------------------------------------------
(* The inductive invariant.                                                *)

\* A row, stored or held, names only invitations HMRC has given out, and
\* claims only what happened.
GoodRow(c) == /\ c \in Row
              /\ c.invId # NoInvitation => invitation[c.invId] # "none"
              /\ Earned(c)

\* What entitles a transition to its target.
Entitled(r) ==
  \/ r.source = "agent" /\ r.toStage \in asked
  \/ /\ r.source = "system"
     /\ r.toStage \in {"not-started", "submitted"}
     /\ relationship # "never"
     /\ r.toStage = "submitted" => fulfilled # {}

\* What a request in progress holds.
GoodRequest(r) ==
  /\ r \in Request
  /\ GoodRow(r.copy)
  /\ r.at = "fetch" => r.copy.invId # NoInvitation
  /\ r.at = "notify" => r.announce # NoInvitation
  /\ r.at = "saveAuth" => relationship # "never"
  /\ r.at = "mtdCall" => relationship # "never"
  /\ r.at \in {"find", "saveStage"} => Entitled(r)
  /\ r.at \in {"saveStage", "record"} => Allowed(r.copy.pipeline, r.toStage, r.source)

\* The variables whose type is preserved by itself.
OthersType ==
  /\ invitation \in [Invitations -> InvitationStatuses \cup {"none"}]
  /\ relationship \in {"never", "active", "ended"}
  /\ fulfilled \subseteq Quarters
  /\ chased \subseteq Quarters
  /\ quarter \in Quarters
  /\ asked \subseteq ManualStages
  /\ announced \subseteq Invitations

GoodHistory == history \subseteq HistoryRow /\ AuditClimbs

\* The inductive invariant.
IInv == /\ GoodRow(row)
        /\ GoodHistory
        /\ req \in [Requests -> Request]
        /\ \A p \in Requests : GoodRequest(req[p])
        /\ OthersType

\* What HMRC and the agents have done is never undone.
Grows == /\ relationship # "never" => relationship' # "never"
         /\ fulfilled \subseteq fulfilled'
         /\ asked \subseteq asked'
         /\ asked' \subseteq ManualStages
         /\ \A i \in Invitations : invitation[i] # "none" => invitation'[i] # "none"

\* A client as it is created claims nothing.
LEMMA NewRowGood == GoodRow(NewRow)
  BY DEF GoodRow, NewRow, Row, Stages, InvitationStatuses, Earned

\* So does a request that is over.
LEMMA IdleGood == GoodRequest(Idle)
<1>1. Idle \in Request
  BY NewRowGood DEF Idle, GoodRow, Request, Places, Stages
<1>2. Idle.at = "idle" /\ Idle.copy = NewRow
  BY DEF Idle
<1> QED BY <1>1, <1>2, NewRowGood DEF GoodRequest

\* A request resumes with the copy it holds, or ends.
LEMMA ResumeGood ==
  ASSUME NEW r \in Request, GoodRow(r.copy)
  PROVE  GoodRequest(Resume(r))
<1>1. CASE r.announce # NoInvitation
  <2>1. /\ Resume(r) \in Request
        /\ Resume(r).at = "notify"
        /\ Resume(r).announce = r.announce
        /\ Resume(r).copy = r.copy
    BY <1>1 DEF Resume, Request, Places
  <2> QED BY <1>1, <2>1 DEF GoodRequest
<1>2. CASE r.announce = NoInvitation /\ r.again
  <2>1. /\ Resume(r) \in Request
        /\ Resume(r).at = "verify"
        /\ Resume(r).copy = r.copy
    BY <1>2 DEF Resume, Request, Places
  <2> QED BY <2>1 DEF GoodRequest
<1>3. CASE r.announce = NoInvitation /\ ~r.again /\ r.gate
  <2>1. /\ Resume(r) \in Request
        /\ Resume(r).at = "decide"
        /\ Resume(r).copy = r.copy
    BY <1>3 DEF Resume, Request, Places
  <2> QED BY <2>1 DEF GoodRequest
<1> QED BY <1>1, <1>2, <1>3, IdleGood DEF Resume

\* What a row may claim it may still claim after HMRC and the agents have
\* done more.
LEMMA GoodRowGrows ==
  ASSUME Grows, asked \subseteq ManualStages, NEW c, GoodRow(c)
  PROVE  GoodRow(c)'
<1>1. c.invId # NoInvitation => invitation'[c.invId] # "none"
  BY DEF GoodRow, Row, Grows
<1>2. asked = ManualStages => asked' = ManualStages
  BY DEF Grows
<1> QED BY <1>1, <1>2 DEF GoodRow, Earned, Grows

\* And so for the copy a request holds.
LEMMA GoodRequestGrows ==
  ASSUME Grows, asked \subseteq ManualStages, NEW r, GoodRequest(r)
  PROVE  GoodRequest(r)'
  BY GoodRowGrows DEF GoodRequest, Entitled, Grows

-----------------------------------------------------------------------------
(* Every step preserves it.                                                *)

\* A step of request p to r that leaves HMRC and the agents' wishes alone.
LEMMA RequestStep ==
  ASSUME IInv, NEW p \in Requests, NEW r, GoodRequest(r), Goes(p, r),
         NEW c, GoodRow(c), row' = c,
         GoodHistory', announced' \subseteq Invitations,
         UNCHANGED <<hmrc, chased, quarter, asked>>
  PROVE  IInv'
<1>1. GoodRow(row)' /\ OthersType'
  BY DEF IInv, GoodRow, Earned, OthersType, hmrc
<1>2. req' \in [Requests -> Request]
  BY DEF IInv, Goes, GoodRequest
<1>3. ASSUME NEW q \in Requests PROVE GoodRequest(req[q])'
  <2>1. GoodRequest(req'[q])
    BY <1>3 DEF IInv, Goes
  <2> QED
    BY <2>1 DEF GoodRequest, GoodRow, Earned, Entitled, hmrc
<1> QED BY <1>1, <1>2, <1>3 DEF IInv

\* A step that adds to what HMRC or the agents have done, and may move
\* request p to r.
LEMMA OutsideStep ==
  ASSUME IInv, Grows, OthersType', UNCHANGED <<row, history>>,
         \/ UNCHANGED req
         \/ \E p \in Requests, r \in Request : Goes(p, r) /\ GoodRequest(r)'
  PROVE  IInv'
<1>1. GoodRow(row)' /\ GoodHistory'
  BY GoodRowGrows DEF IInv, OthersType, GoodHistory, AuditClimbs
<1>2. CASE UNCHANGED req
  BY <1>1, <1>2, GoodRequestGrows DEF IInv, OthersType
<1>3. ASSUME NEW p \in Requests, NEW r \in Request, Goes(p, r), GoodRequest(r)'
      PROVE  IInv'
  <2>1. req' \in [Requests -> Request]
    BY <1>3 DEF IInv, Goes
  <2>2. ASSUME NEW q \in Requests PROVE GoodRequest(req[q])'
    <3>1. CASE q = p
      BY <1>3, <3>1 DEF IInv, Goes
    <3>2. CASE q # p
      BY <1>3, <2>2, <3>2, GoodRequestGrows DEF IInv, Goes, OthersType
    <3> QED BY <3>1, <3>2
  <2> QED BY <1>1, <2>1, <2>2 DEF IInv
<1> QED BY <1>2, <1>3

-----------------------------------------------------------------------------
(* The actions of a request, one lemma for the starts, one for the steps,  *)
(* one for the failures.                                                   *)

\* The requests that start: they load the row, or hold no copy of it.
LEMMA StartsGood ==
  ASSUME IInv, NEW p \in Requests, Starts(p)
  PROVE  IInv'
<1> USE IdleGood DEF IInv
<1>0. /\ GoodRow(row) /\ row \in Row /\ announced \subseteq Invitations
      /\ Idle \in Request
  BY DEF GoodRow, OthersType, GoodRequest
<1>1. CASE PollLoad(p)
  <2>1. CASE NeedsSync(row) /\ Goes(p, [Idle EXCEPT !.at = "fetch", !.copy = row])
    <3>1. GoodRequest([Idle EXCEPT !.at = "fetch", !.copy = row])
      BY <1>0, <2>1 DEF GoodRequest, Request, Places, NeedsSync
    <3> QED
      BY <1>0, <1>1, <2>1, <3>1, RequestStep DEF PollLoad, GoodHistory, AuditClimbs, agency
  <2>2. CASE Goes(p, [Idle EXCEPT !.at = "verify", !.copy = row])
    <3>1. GoodRequest([Idle EXCEPT !.at = "verify", !.copy = row])
      BY <1>0 DEF GoodRequest, Request, Places
    <3> QED
      BY <1>0, <1>1, <2>2, <3>1, RequestStep DEF PollLoad, GoodHistory, AuditClimbs, agency
  <2> QED BY <1>1, <2>1, <2>2 DEF PollLoad
<1>2. CASE CheckLoad(p)
  <2>1. PICK gate \in BOOLEAN :
          Goes(p, [Idle EXCEPT !.at = "verify", !.copy = row, !.gate = gate])
    BY <1>2 DEF CheckLoad
  <2>2. GoodRequest([Idle EXCEPT !.at = "verify", !.copy = row, !.gate = gate])
    BY <1>0 DEF GoodRequest, Request, Places
  <2> QED
    BY <1>0, <1>2, <2>1, <2>2, RequestStep DEF CheckLoad, GoodHistory, AuditClimbs, agency
<1>3. CASE GateUnverified(p)
  <2>1. GoodRequest([Idle EXCEPT !.at = "mtdCall"])
    BY <1>0, <1>3 DEF GateUnverified, GoodRequest, Request, Places, GoodRow, Earned, Idle
  <2> QED
    BY <1>0, <1>3, <2>1, RequestStep DEF GateUnverified, GoodHistory, AuditClimbs, agency
<1>4. CASE AgentSets(p)
  <2>1. PICK s \in ManualStages :
          /\ asked' = asked \cup {s}
          /\ Goes(p, [Idle EXCEPT !.at = "find", !.toStage = s, !.source = "agent"])
    BY <1>4 DEF AgentSets
  <2> DEFINE r == [Idle EXCEPT !.at = "find", !.toStage = s, !.source = "agent"]
  <2>2. /\ r \in Request /\ r.at = "find" /\ r.toStage = s /\ r.source = "agent"
        /\ r.copy = Idle.copy
    BY <1>0 DEF Request, Places, ManualStages, Stages
  <2>3. Grows /\ OthersType'
    BY <1>4, <2>1 DEF AgentSets, Grows, OthersType, hmrc
  <2>4. GoodRow(Idle.copy)'
    BY <2>3, GoodRowGrows DEF GoodRequest, OthersType
  <2>5. GoodRequest(r)'
    BY <2>1, <2>2, <2>4 DEF GoodRequest, Entitled
  <2> QED
    BY <1>4, <2>1, <2>2, <2>3, <2>5, OutsideStep DEF AgentSets
<1>5. CASE EditLoad(p)
  <2>1. GoodRequest([Idle EXCEPT !.at = "edit", !.copy = row])
    BY <1>0 DEF GoodRequest, Request, Places
  <2> QED
    BY <1>0, <1>5, <2>1, RequestStep DEF EditLoad, GoodHistory, AuditClimbs, agency
<1>6. CASE ResendLoad(p)
  <2>1. GoodRequest([Idle EXCEPT !.at = "create", !.copy = row])
    BY <1>0 DEF GoodRequest, Request, Places
  <2> QED
    BY <1>0, <1>6, <2>1, RequestStep DEF ResendLoad, GoodHistory, AuditClimbs, agency
<1> QED
  BY <1>1, <1>2, <1>3, <1>4, <1>5, <1>6 DEF Starts

\* The steps of a poll, up to the transition it makes.
LEMMA PollGood ==
  ASSUME IInv, NEW p \in Requests,
         Fetch(p) \/ SaveStatus(p) \/ Verify(p) \/ SaveAuth(p) \/ Notify(p)
  PROVE  IInv'
<1> DEFINE old == req[p]
<1>0. /\ GoodRequest(old) /\ old \in Request /\ GoodRow(old.copy) /\ old.copy \in Row
      /\ GoodRow(row) /\ GoodHistory /\ OthersType /\ GoodRequest(Idle)
  BY IdleGood DEF IInv, GoodRequest, GoodRow
<1>1. CASE Fetch(p)
  <2> DEFINE i == old.copy.invId
             status == invitation[i]
  <2>1. i \in Invitations /\ status \in InvitationStatuses
    BY <1>0, <1>1 DEF Fetch, At, GoodRequest, GoodRow, Row, OthersType
  <2>2. PICK list \in BOOLEAN :
          Goes(p, [old EXCEPT !.at = "saveStatus", !.copy.invStatus = status,
                              !.announce = IF FirstAcceptance(old.copy.invStatus, status)
                                           THEN i ELSE NoInvitation,
                              !.again = list])
    BY <1>1 DEF Fetch
  <2> DEFINE r == [old EXCEPT !.at = "saveStatus", !.copy.invStatus = status,
                              !.announce = IF FirstAcceptance(old.copy.invStatus, status)
                                           THEN i ELSE NoInvitation,
                              !.again = list]
  <2>3. r \in Request /\ r.at = "saveStatus" /\ r.copy = [old.copy EXCEPT !.invStatus = status]
    BY <1>0, <2>1 DEF Request, Places, Row
  <2>4. GoodRow([old.copy EXCEPT !.invStatus = status])
    BY <1>0, <2>1 DEF GoodRow, Row, Earned
  <2>5. GoodRequest(r)
    BY <2>3, <2>4 DEF GoodRequest
  <2> QED
    BY <1>0, <1>1, <2>2, <2>5, RequestStep DEF Fetch, GoodHistory, AuditClimbs, agency, OthersType
<1>2. CASE SaveStatus(p)
  <2>1. GoodRequest([old EXCEPT !.at = "verify"])
    BY <1>0 DEF GoodRequest, Request, Places
  <2>2. PICK r : GoodRequest(r) /\ Goes(p, r)
    BY <1>0, <1>2, <2>1 DEF SaveStatus
  <2> QED
    BY <1>0, <1>2, <2>2, RequestStep DEF SaveStatus, GoodHistory, AuditClimbs, agency, OthersType
<1>3. CASE Verify(p)
  <2> DEFINE r == [old EXCEPT !.verdict = IF ~old.gate THEN "unknown"
                                          ELSE IF Confirmed THEN "active" ELSE "inactive",
                              !.again = @ /\ ~Confirmed /\ ~old.copy.authorised]
             next == IF Confirmed /\ ~r.copy.authorised
                     THEN [r EXCEPT !.at = "saveAuth", !.copy.authorised = TRUE]
                     ELSE Resume(r)
  <2>1. r \in Request /\ r.copy = old.copy
    BY <1>0 DEF Request
  <2>2. GoodRequest(next)
    <3>1. CASE Confirmed /\ ~r.copy.authorised
      <4> DEFINE n == [r EXCEPT !.at = "saveAuth", !.copy.authorised = TRUE]
      <4>0. next = n
        BY <3>1
      <4> HIDE DEF r, next
      <4>1. /\ n \in Request /\ n.at = "saveAuth"
            /\ n.copy = [r.copy EXCEPT !.authorised = TRUE]
        BY <1>0, <2>1 DEF Request, Places, Row
      <4>2. GoodRow([old.copy EXCEPT !.authorised = TRUE])
        BY <1>0, <3>1 DEF GoodRow, Row, Earned, Confirmed
      <4> QED BY <2>1, <3>1, <4>0, <4>1, <4>2 DEF GoodRequest, Confirmed
    <3>2. CASE ~(Confirmed /\ ~r.copy.authorised)
      BY <1>0, <2>1, <3>2, ResumeGood
    <3> QED BY <3>1, <3>2
  <2>3. Goes(p, next)
    BY <1>3 DEF Verify
  <2> QED
    BY <1>0, <1>3, <2>2, <2>3, RequestStep DEF Verify, GoodHistory, AuditClimbs, agency, OthersType
<1>4. CASE SaveAuth(p)
  <2> DEFINE r == [Idle EXCEPT !.at = "find", !.toStage = "not-started",
                               !.announce = old.announce, !.gate = old.gate,
                               !.verdict = old.verdict]
  <2>1. r \in Request /\ r.at = "find" /\ r.copy = Idle.copy
        /\ r.toStage = "not-started" /\ r.source = Idle.source
    BY <1>0 DEF GoodRequest, Request, Places, Stages
  <2>2. Idle.source = "system" /\ relationship # "never"
    BY <1>0, <1>4 DEF SaveAuth, At, GoodRequest, Idle
  <2>3. GoodRequest(r) /\ Goes(p, r)
    BY <1>0, <1>4, <2>1, <2>2 DEF SaveAuth, GoodRequest, Entitled
  <2> QED
    BY <1>0, <1>4, <2>3, RequestStep DEF SaveAuth, GoodHistory, AuditClimbs, agency, OthersType
<1>5. CASE Notify(p)
  <2> DEFINE r == [old EXCEPT !.announce = NoInvitation]
  <2>1. r \in Request /\ r.copy = old.copy
    BY <1>0 DEF Request
  <2>2. GoodRequest(Resume(r)) /\ Goes(p, Resume(r))
    BY <1>0, <1>5, <2>1, ResumeGood DEF Notify
  <2>3. announced' \subseteq Invitations
    BY <1>0, <1>5 DEF Notify, At, GoodRequest, Request, OthersType
  <2> QED
    BY <1>0, <1>5, <2>2, <2>3, RequestStep DEF Notify, GoodHistory, AuditClimbs
<1> QED BY <1>1, <1>2, <1>3, <1>4, <1>5

\* The three steps of a transition.
LEMMA TransitionGood ==
  ASSUME IInv, NEW p \in Requests, Find(p) \/ SaveStage(p) \/ Record(p)
  PROVE  IInv'
<1> DEFINE old == req[p]
<1>0. /\ GoodRequest(old) /\ old \in Request /\ GoodRow(old.copy) /\ old.copy \in Row
      /\ GoodRow(row) /\ row \in Row /\ GoodHistory /\ OthersType
  BY DEF IInv, GoodRequest, GoodRow
<1>1. CASE Find(p)
  <2>1. CASE Allowed(row.pipeline, old.toStage, old.source)
    <3> DEFINE r == [old EXCEPT !.at = "saveStage", !.copy = row]
    <3>1. r \in Request /\ r.at = "saveStage" /\ r.copy = row
          /\ r.toStage = old.toStage /\ r.source = old.source
      BY <1>0 DEF Request, Places
    <3>2. GoodRequest(r)
      BY <1>0, <1>1, <2>1, <3>1 DEF Find, At, GoodRequest, Entitled
    <3> QED
      BY <1>0, <1>1, <2>1, <3>2, RequestStep
      DEF Find, GoodHistory, AuditClimbs, agency, OthersType
  <2>2. CASE ~Allowed(row.pipeline, old.toStage, old.source)
    BY <1>0, <1>1, <2>2, RequestStep, ResumeGood
    DEF Find, GoodHistory, AuditClimbs, agency, OthersType
  <2> QED BY <2>1, <2>2
<1>2. CASE SaveStage(p)
  <2> DEFINE r == [old EXCEPT !.at = "record"]
             c == [old.copy EXCEPT !.pipeline = old.toStage]
  <2>1. r \in Request /\ r.at = "record" /\ r.copy = old.copy
        /\ r.toStage = old.toStage /\ r.source = old.source
    BY <1>0 DEF Request, Places
  <2>2. Entitled(old) /\ Allowed(old.copy.pipeline, old.toStage, old.source)
    BY <1>0, <1>2 DEF SaveStage, At, GoodRequest
  <2>3. GoodRequest(r)
    BY <1>0, <2>1, <2>2 DEF GoodRequest
  <2>4. c \in Row /\ c.invId = old.copy.invId /\ c.authorised = old.copy.authorised
        /\ c.pipeline = old.toStage /\ old.toStage \in Stages
    BY <1>0 DEF Request, Row
  <2>5. Earned(c)
    <3>1. CASE old.source = "agent"
      <4>1. /\ old.toStage \in ManualStages /\ old.toStage \in asked
            /\ NextManual(old.copy.pipeline) = old.toStage
        BY <2>2, <3>1 DEF Allowed, Entitled
      <4>2. CASE old.toStage = "records-received"
        BY <1>0, <2>4, <4>1, <4>2 DEF GoodRow, Earned, NextManual, NoStage
      <4>3. CASE old.toStage = "ready-for-review"
        BY <1>0, <2>4, <4>1, <4>3 DEF GoodRow, Earned, NextManual, NoStage, ManualStages,
           OthersType
      <4> QED BY <4>1, <4>2, <4>3 DEF ManualStages
    <3>2. CASE old.source = "system"
      BY <1>0, <2>2, <2>4, <3>2 DEF Entitled, Earned, GoodRow
    <3> QED BY <3>1, <3>2, <2>2 DEF Entitled
  <2>6. GoodRow(c)
    BY <1>0, <2>4, <2>5 DEF GoodRow
  <2> QED
    BY <1>0, <1>2, <2>3, <2>6, RequestStep
    DEF SaveStage, Moved, GoodHistory, AuditClimbs, agency, OthersType
<1>3. CASE Record(p)
  <2> DEFINE h == [fromStage |-> old.copy.pipeline, toStage |-> old.toStage,
                   source |-> old.source]
  <2>1. Allowed(old.copy.pipeline, old.toStage, old.source)
    BY <1>0, <1>3 DEF Record, At, GoodRequest
  <2>2. h \in HistoryRow /\ old.copy.pipeline \in Stages /\ old.toStage \in Stages
    BY <1>0 DEF HistoryRow, Request, Row
  <2>3. /\ Rank(h.fromStage) < Rank(h.toStage)
        /\ h.source = "agent" => Rank(h.toStage) = Rank(h.fromStage) + 1
    BY <2>1, <2>2, AllowedClimbs
  <2>4. history' = history \cup {h}
    BY <1>3 DEF Record, Entry
  <2>5. GoodHistory'
    BY <1>0, <2>2, <2>3, <2>4 DEF GoodHistory, AuditClimbs
  <2> QED
    BY <1>0, <1>3, <2>5, RequestStep, ResumeGood DEF Record, agency, OthersType
<1> QED BY <1>1, <1>2, <1>3

\* The gate, the edits and the sending of an invitation.
LEMMA OtherStepsGood ==
  ASSUME IInv, NEW p \in Requests,
         \/ Decide(p) \/ MtdCall(p) \/ DashboardFindsSubmitted(p) \/ EditSave(p)
         \/ CreateInvitation(p) \/ CreationRefused(p) \/ SaveInvite(p)
  PROVE  IInv'
<1> DEFINE old == req[p]
<1>0. /\ GoodRequest(old) /\ old \in Request /\ GoodRow(old.copy) /\ old.copy \in Row
      /\ GoodRow(row) /\ GoodHistory /\ OthersType
      /\ GoodRequest(Idle) /\ Idle \in Request
  BY IdleGood DEF IInv, GoodRequest, GoodRow
<1>1. CASE Decide(p)
  <2> DEFINE r == [Idle EXCEPT !.at = "mtdCall", !.verdict = old.verdict]
  <2>1. CASE row.authorised
    <3>1. r \in Request /\ r.at = "mtdCall" /\ r.copy = Idle.copy
      BY <1>0 DEF Request, Places
    <3>2. GoodRequest(r)
      BY <1>0, <2>1, <3>1 DEF GoodRequest, GoodRow, Earned
    <3> QED
      BY <1>0, <1>1, <2>1, <3>2, RequestStep
      DEF Decide, GoodHistory, AuditClimbs, agency, OthersType
  <2>2. CASE ~row.authorised
    BY <1>0, <1>1, <2>2, RequestStep DEF Decide, GoodHistory, AuditClimbs, agency, OthersType
  <2> QED BY <2>1, <2>2
<1>2. CASE MtdCall(p)
  BY <1>0, <1>2, RequestStep DEF MtdCall, GoodHistory, AuditClimbs, agency, OthersType
<1>3. CASE EditSave(p)
  BY <1>0, <1>3, RequestStep DEF EditSave, GoodHistory, AuditClimbs, agency, OthersType
<1>4. CASE CreateInvitation(p)
  <2>0. PICK o \in Request : o = req[p]      \* the request before the step
    BY <1>0
  <2>1. PICK i \in Invitations :
          /\ invitation[i] = "none"
          /\ invitation' = [invitation EXCEPT ![i] = "pending"]
          /\ Goes(p, [o EXCEPT !.at = "saveInvite", !.copy.invId = i,
                               !.copy.invStatus = "pending"])
    BY <1>4, <2>0 DEF CreateInvitation
  <2> DEFINE r == [o EXCEPT !.at = "saveInvite", !.copy.invId = i,
                            !.copy.invStatus = "pending"]
             c == [o.copy EXCEPT !.invId = i, !.invStatus = "pending"]
  <2>2. r \in Request /\ r.at = "saveInvite" /\ r.copy = c
    BY <2>0, <2>1 DEF Request, Places, Row, InvitationStatuses
  <2>3. c \in Row /\ c.invId = i /\ c.authorised = o.copy.authorised
        /\ c.pipeline = o.copy.pipeline
    BY <2>0, <2>1 DEF Request, Row, InvitationStatuses
  <2>4. Grows /\ OthersType'
    BY <1>0, <1>4, <2>1 DEF CreateInvitation, Grows, OthersType, InvitationStatuses, agency
  <2>5. GoodRow(o.copy)' /\ invitation'[i] # "none"
    BY <1>0, <2>0, <2>1, <2>4, GoodRowGrows DEF OthersType
  <2>6. GoodRow(c)'
    BY <2>3, <2>5 DEF GoodRow, Earned
  <2>7. GoodRequest(r)'
    BY <2>2, <2>6 DEF GoodRequest
  <2> QED
    BY <1>4, <2>1, <2>2, <2>4, <2>7, OutsideStep DEF CreateInvitation
<1>5. CASE CreationRefused(p)
  BY <1>0, <1>5, RequestStep DEF CreationRefused, GoodHistory, AuditClimbs, agency, OthersType
<1>6. CASE SaveInvite(p)
  BY <1>0, <1>6, RequestStep DEF SaveInvite, GoodHistory, AuditClimbs, agency, OthersType
<1>7. CASE DashboardFindsSubmitted(p)
  <2> DEFINE r == [Idle EXCEPT !.at = "find", !.toStage = "submitted"]
  <2>1. /\ r \in Request /\ r.at = "find" /\ r.copy = Idle.copy
        /\ r.toStage = "submitted" /\ r.source = "system"
    BY <1>0 DEF Request, Places, Stages, Idle
  <2>2. relationship # "never" /\ fulfilled # {}
    BY <1>0, <1>7 DEF DashboardFindsSubmitted, At, GoodRequest
  <2>3. GoodRequest(r)
    BY <1>0, <2>1, <2>2 DEF GoodRequest, Entitled
  <2> QED
    BY <1>0, <1>7, <2>3, RequestStep
    DEF DashboardFindsSubmitted, GoodHistory, AuditClimbs, agency, OthersType
<1> QED BY <1>1, <1>2, <1>3, <1>4, <1>5, <1>6, <1>7

\* The failures of a request: it goes on with the copy it holds, or ends.
LEMMA FailsGood ==
  ASSUME IInv, NEW p \in Requests, Fails(p)
  PROVE  IInv'
<1> DEFINE old == req[p]
<1>0. /\ GoodRequest(old) /\ old \in Request /\ GoodRow(old.copy)
      /\ GoodRow(row) /\ GoodHistory /\ OthersType /\ GoodRequest(Idle)
  BY IdleGood DEF IInv, GoodRequest
<1>1. CASE FetchFails(p)
  <2>1. GoodRequest([old EXCEPT !.at = "verify"])
    BY <1>0 DEF GoodRequest, Request, Places
  <2>2. PICK r : GoodRequest(r) /\ Goes(p, r)
    BY <1>0, <1>1, <2>1 DEF FetchFails
  <2> QED
    BY <1>0, <1>1, <2>2, RequestStep DEF FetchFails, GoodHistory, AuditClimbs, agency, OthersType
<1>2. CASE VerifyFails(p)
  <2> DEFINE r == [old EXCEPT !.again = @ /\ ~old.copy.authorised]
  <2>1. r \in Request /\ r.copy = old.copy
    BY <1>0 DEF Request
  <2>2. GoodRequest(Resume(r)) /\ Goes(p, Resume(r))
    BY <1>0, <1>2, <2>1, ResumeGood DEF VerifyFails
  <2> QED
    BY <1>0, <1>2, <2>2, RequestStep DEF VerifyFails, GoodHistory, AuditClimbs, agency, OthersType
<1>3. CASE TransitionFails(p)
  BY <1>0, <1>3, RequestStep, ResumeGood
  DEF TransitionFails, GoodHistory, AuditClimbs, agency, OthersType
<1>4. CASE Dies(p)
  BY <1>0, <1>4, RequestStep DEF Dies, GoodHistory, AuditClimbs, agency, OthersType
<1> QED BY <1>1, <1>2, <1>3, <1>4 DEF Fails

\* HMRC, the chase log and the calendar.
LEMMA OutsideGood ==
  ASSUME IInv, Hmrc \/ ChaseClient \/ NextQuarter
  PROVE  IInv'
<1>0. OthersType
  BY DEF IInv
<1>1. ASSUME NEW i \in Invitations,
             ClientAnswers(i) \/ ClientSignsUp(i) \/ InvitationLapses(i) \/ ClientDeauthorises(i)
      PROVE  IInv'
  <2>1. /\ UNCHANGED <<row, history, req, fulfilled, agency>>
        /\ \E s \in InvitationStatuses : invitation' = [invitation EXCEPT ![i] = s]
        /\ relationship' \in {"active", "ended", relationship}
    <3> USE DEF InvitationStatuses, AcceptedStatuses, ResendableStatuses
    <3>1. CASE ClientAnswers(i)
      BY <3>1 DEF ClientAnswers
    <3>2. CASE ClientSignsUp(i)
      BY <3>2 DEF ClientSignsUp
    <3>3. CASE InvitationLapses(i)
      BY <3>3 DEF InvitationLapses
    <3>4. CASE ClientDeauthorises(i)
      BY <3>4 DEF ClientDeauthorises
    <3> QED BY <1>1, <3>1, <3>2, <3>3, <3>4
  <2>2. \A j \in Invitations : invitation[j] # "none" => invitation'[j] # "none"
    BY <1>0, <2>1
    DEF OthersType, InvitationStatuses, AcceptedStatuses, ResendableStatuses
  <2>3. Grows /\ OthersType'
    BY <1>0, <2>1, <2>2 DEF Grows, OthersType, agency
  <2> QED BY <2>1, <2>3, OutsideStep
<1>2. CASE QuarterFiled
  <2>1. Grows /\ OthersType'
    BY <1>0, <1>2 DEF QuarterFiled, Grows, OthersType, agency
  <2> QED BY <1>2, <2>1, OutsideStep DEF QuarterFiled
<1>3. CASE ChaseClient
  <2>1. Grows /\ OthersType'
    BY <1>0, <1>3 DEF ChaseClient, Grows, OthersType, hmrc
  <2> QED BY <1>3, <2>1, OutsideStep DEF ChaseClient
<1>4. CASE NextQuarter
  <2>1. Grows /\ OthersType'
    BY <1>0, <1>4 DEF NextQuarter, Grows, OthersType, hmrc, Quarters
  <2> QED BY <1>4, <2>1, OutsideStep DEF NextQuarter
<1> QED BY <1>1, <1>2, <1>3, <1>4 DEF Hmrc

-----------------------------------------------------------------------------
(* The theorems.                                                           *)

\* A client as created or migrated satisfies the inductive invariant.
LEMMA InitGood == Init => IInv
<1> SUFFICES ASSUME Init PROVE IInv
  OBVIOUS
<1>1. /\ GoodRow(row)
      /\ invitation \in [Invitations -> InvitationStatuses \cup {"none"}]
      /\ relationship \in {"never", "active", "ended"}
  <2>1. CASE InitCreated
    BY <2>1, NewRowGood DEF InitCreated
  <2>2. CASE InitMigrated
    BY <2>2 DEF InitMigrated, MigratedRow, GoodRow, Earned, Row, Stages,
                InvitationStatuses, AcceptedStatuses
  <2> QED BY <2>1, <2>2 DEF Init
<1>2. GoodHistory
  BY <1>1 DEF Init, GoodHistory, HistoryRow, AuditClimbs, GoodRow, Row
<1>3. OthersType
  BY <1>1 DEF Init, OthersType, Quarters
<1>4. req = [p \in Requests |-> Idle]
  BY DEF Init
<1>5. Idle \in Request
  BY IdleGood DEF GoodRequest
<1> QED
  BY <1>1, <1>2, <1>3, <1>4, <1>5, IdleGood DEF IInv

\* Every step, and a stutter, preserves the inductive invariant.
LEMMA NextGood == IInv /\ [Next]_vars => IInv'
<1> SUFFICES ASSUME IInv, [Next]_vars PROVE IInv'
  OBVIOUS
<1>1. ASSUME NEW p \in Requests, Continues(p) PROVE IInv'
  BY <1>1, PollGood, TransitionGood, OtherStepsGood DEF Continues
<1>2. CASE UNCHANGED vars
  BY <1>2 DEF vars, hmrc, agency, IInv, GoodRow, Earned, GoodHistory, AuditClimbs,
              GoodRequest, Entitled, OthersType
<1> QED
  BY <1>1, <1>2, StartsGood, FailsGood, OutsideGood DEF Next

\* The inductive invariant holds in every reachable state.
THEOREM Invariance == Spec => []IInv
  BY InitGood, NextGood, PTL DEF Spec

\* Every variable of the model keeps its type.
THEOREM TypeCorrect == Spec => []TypeOK
<1>1. IInv => TypeOK
  BY DEF IInv, TypeOK, GoodRow, GoodHistory, OthersType
<1> QED BY <1>1, Invariance, PTL

\* Whatever the interleaving of requests, and wherever they fail, the stored
\* row claims no authorisation, submission or manual stage that did not
\* happen.
THEOREM EarnedCorrect == Spec => []StagesEarned
<1>1. IInv => StagesEarned
  BY DEF IInv, StagesEarned, GoodRow
<1> QED BY <1>1, Invariance, PTL

\* The audit trail only records steps up the ladder.
THEOREM AuditCorrect == Spec => []AuditClimbs
<1>1. IInv => AuditClimbs
  BY DEF IInv, GoodHistory
<1> QED BY <1>1, Invariance, PTL

\* No MTD call is made for a client HMRC never confirmed.
THEOREM CallsCorrect == Spec => []CallsConfirmed
<1>1. IInv => CallsConfirmed
  BY DEF IInv, GoodRequest, CallsConfirmed, At
<1> QED BY <1>1, Invariance, PTL

-----------------------------------------------------------------------------
(* One request at a time.  The proofs above allow any number of requests;  *)
(* with two of them a stale copy takes the row back, and the audit trail   *)
(* no longer accounts for it (SystemNeverDowngrades is violated).  What    *)
(* remains to be shown is that one request alone, with its many awaits,    *)
(* never does that to itself.                                              *)

\* Where the copy the request holds is one it will write back, or use again.
Holding(r) == \/ r.at \in {"fetch", "saveStatus", "verify", "saveAuth",
                           "saveStage", "edit", "create", "saveInvite"}
              \/ r.again

\* The copy agrees with the row, but for the columns the request has set.
Fresh(r) ==
  /\ r.again => r.at \in {"saveStatus", "verify", "notify"}
  /\ Holding(r) => r.copy.pipeline = row.pipeline
  /\ Holding(r) /\ r.at # "saveInvite" => r.copy.invId = row.invId
  /\ Holding(r) /\ r.at \notin {"saveStatus", "saveInvite"} =>
       r.copy.invStatus = row.invStatus

\* An acceptance is announced by the poll that saw it first: from then on
\* the stored status is no longer pending, and HMRC never makes it so again.
AnnouncesOnce(r) ==
  /\ r.at = "fetch" => NeedsSync(r.copy)
  /\ r.at = "saveStatus" /\ r.copy.invId \in announced => r.copy.invStatus # "pending"
  /\ r.at = "saveInvite" => r.copy.invId \notin announced
  /\ r.announce # NoInvitation =>
       /\ r.at \in {"saveStatus", "verify", "saveAuth", "find", "saveStage",
                    "record", "notify"}
       /\ r.announce \notin announced
       /\ r.announce = row.invId
       /\ invitation[r.announce] \notin {"none", "pending"}
       /\ IF r.at = "saveStatus" THEN r.copy.invStatus # "pending"
                                 ELSE row.invStatus # "pending"
  /\ \A i \in announced :
       /\ invitation[i] \notin {"none", "pending"}
       /\ row.invId = i => row.invStatus # "pending"

\* The highest stage on record is that of the row, or, until the request has
\* recorded its transition, the stage it started from.
Accounted(r) ==
  LET stage == IF r.at = "record" THEN r.copy.pipeline ELSE row.pipeline
  IN /\ \E h \in history : h.toStage = stage
     /\ \A h \in history : Rank(h.toStage) <= Rank(stage)
     /\ r.at = "record" => row.pipeline = r.toStage

\* Invitations the client can still answer, or has accepted.
Open(i) == invitation[i] \in {"pending"} \cup AcceptedStatuses

\* The row, or the request about to write it, names every open invitation.
\* What is stored as ended has ended at HMRC, so that a new invitation is
\* asked for only when none is open.
Named(r) ==
  /\ \A i \in Invitations :
       Open(i) => i = IF r.at = "saveInvite" THEN r.copy.invId ELSE row.invId
  /\ row.invId # NoInvitation /\ row.invStatus \in ResendableStatuses => ~Open(row.invId)
  /\ r.at = "saveStatus" /\ r.copy.invStatus \in ResendableStatuses => ~Open(r.copy.invId)
  /\ r.at = "saveInvite" => r.copy.invStatus = "pending"
  /\ r.at = "create" => CanResend(r.copy)

\* The inductive invariant for one request.
Serial(r) == /\ Fresh(r)
             /\ AnnouncesOnce(r)
             /\ ~Faults => Accounted(r) /\ Named(r)

-----------------------------------------------------------------------------
(* Every step of the one request preserves it.                             *)

\* A request that is over holds nothing.
LEMMA IdleSerial ==
  ASSUME NEW r \in Request, r.at = "notify", Serial(r)
  PROVE  Serial(Idle)
<1>1. /\ Idle.at = "idle" /\ ~Idle.again /\ Idle.announce = NoInvitation
  BY DEF Idle
<1> QED
  BY <1>1 DEF Serial, Fresh, Holding, AnnouncesOnce, Accounted, Named

\* A request resumes, or ends, as a request.
LEMMA ResumeIsRequest == \A r \in Request : Resume(r) \in Request
<1> SUFFICES ASSUME NEW r \in Request PROVE Resume(r) \in Request
  OBVIOUS
<1>1. /\ [r EXCEPT !.at = "notify"] \in Request
      /\ [r EXCEPT !.at = "verify", !.again = FALSE] \in Request
      /\ [r EXCEPT !.at = "decide"] \in Request
  BY DEF Request, Places
<1>2. Idle \in Request
  BY IdleGood DEF GoodRequest
<1> QED BY <1>1, <1>2 DEF Resume

\* A request whose copy is fresh when it has to verify again may resume.
LEMMA ResumeSerial ==
  ASSUME NEW r \in Request, Serial([r EXCEPT !.at = "notify"])
  PROVE  Serial(Resume(r))
<1> DEFINE s == [r EXCEPT !.at = "notify"]
<1>1. /\ s \in Request /\ s.at = "notify" /\ s.copy = r.copy
      /\ s.announce = r.announce /\ s.again = r.again
  BY DEF Request, Places
<1>2. CASE r.announce # NoInvitation
  BY <1>1, <1>2 DEF Resume
<1>3. CASE r.announce = NoInvitation /\ r.again
  <2> DEFINE n == [r EXCEPT !.at = "verify", !.again = FALSE]
  <2>1. /\ n \in Request /\ n.at = "verify" /\ n.copy = r.copy
        /\ n.announce = NoInvitation /\ ~n.again
    BY <1>3 DEF Request, Places
  <2>2. Resume(r) = n
    BY <1>3 DEF Resume
  <2> HIDE DEF n, s
  <2> QED
    BY <1>1, <1>3, <2>1, <2>2
    DEF Serial, Fresh, Holding, AnnouncesOnce, Accounted, Named
<1>4. CASE r.announce = NoInvitation /\ ~r.again /\ r.gate
  <2> DEFINE n == [r EXCEPT !.at = "decide"]
  <2>1. /\ n \in Request /\ n.at = "decide" /\ n.copy = r.copy
        /\ n.announce = NoInvitation /\ ~n.again
    BY <1>4 DEF Request, Places
  <2>2. Resume(r) = n
    BY <1>4 DEF Resume
  <2> HIDE DEF n, s
  <2> QED
    BY <1>1, <1>4, <2>1, <2>2
    DEF Serial, Fresh, Holding, AnnouncesOnce, Accounted, Named
<1>5. CASE r.announce = NoInvitation /\ ~r.again /\ ~r.gate
  BY <1>1, <1>5, IdleSerial DEF Resume
<1> QED BY <1>2, <1>3, <1>4, <1>5 DEF Request

\* While the request is in none of its critical places, the row alone is
\* accounted for and named.
LEMMA RestSerial ==
  ASSUME NEW r \in Request, Serial(r), r.at # "record" \/ Faults, r.at # "saveInvite" \/ Faults
  PROVE  Serial(Idle)
<1>1. Idle.at = "idle" /\ ~Idle.again /\ Idle.announce = NoInvitation
  BY DEF Idle
<1> QED
  BY <1>1 DEF Serial, Fresh, Holding, AnnouncesOnce, Accounted, Named

\* A request that starts has just loaded the row.
LEMMA StartsSerial ==
  ASSUME IInv, NEW p \in Requests, Serial(req[p]), Starts(p)
  PROVE  \E r \in Request : Goes(p, r) /\ Serial(r)'
<1>0. /\ Serial(Idle) /\ Idle \in Request /\ row \in Row
      /\ Idle.at = "idle" /\ ~Idle.again /\ Idle.announce = NoInvitation
  BY RestSerial, IdleGood
  DEF IInv, GoodRequest, GoodRow, Idle, At, Starts, PollLoad, CheckLoad, GateUnverified,
      AgentSets, EditLoad, ResendLoad
<1> USE DEF Serial, Fresh, Holding, AnnouncesOnce, Accounted, Named, Open
<1>1. ASSUME NEW r \in Request, Goes(p, r), r.at \in {"fetch", "verify", "edit", "create"},
             r.copy = row, ~r.again, r.announce = NoInvitation,
             r.at = "fetch" => NeedsSync(row), r.at = "create" => CanResend(row),
             UNCHANGED <<row, history, hmrc, agency>>
      PROVE  \E n \in Request : Goes(p, n) /\ Serial(n)'
  BY <1>0, <1>1 DEF hmrc, agency, NeedsSync, CanResend
<1>2. ASSUME NEW r \in Request, Goes(p, r), r.at \in {"mtdCall", "find"}, ~r.again,
             r.announce = NoInvitation,
             UNCHANGED <<row, history, hmrc, announced>>
      PROVE  \E n \in Request : Goes(p, n) /\ Serial(n)'
  BY <1>0, <1>2 DEF hmrc
<1>3. ASSUME NEW at \in {"fetch", "verify", "edit", "create"}, NEW gate \in BOOLEAN,
             NEW r, \/ r = [Idle EXCEPT !.at = at, !.copy = row]
                    \/ r = [Idle EXCEPT !.at = at, !.copy = row, !.gate = gate]
      PROVE  /\ r \in Request /\ r.at = at /\ r.copy = row /\ ~r.again
             /\ r.announce = NoInvitation
  <2>1. CASE r = [Idle EXCEPT !.at = at, !.copy = row]
    BY <1>0, <2>1 DEF Request, Places
  <2>2. CASE r = [Idle EXCEPT !.at = at, !.copy = row, !.gate = gate]
    BY <1>0, <2>2 DEF Request, Places
  <2> QED BY <1>3, <2>1, <2>2
<1>4. CASE PollLoad(p)
  BY <1>1, <1>3, <1>4 DEF PollLoad
<1>5. CASE CheckLoad(p)
  BY <1>1, <1>3, <1>5 DEF CheckLoad
<1>6. CASE EditLoad(p)
  BY <1>1, <1>3, <1>6 DEF EditLoad
<1>7. CASE ResendLoad(p)
  BY <1>1, <1>3, <1>7 DEF ResendLoad
<1>8. CASE GateUnverified(p)
  <2> DEFINE r == [Idle EXCEPT !.at = "mtdCall"]
  <2>1. r \in Request /\ r.at = "mtdCall" /\ ~r.again /\ r.announce = NoInvitation
    BY <1>0 DEF Request, Places
  <2> QED BY <1>2, <1>8, <2>1 DEF GateUnverified, agency
<1>9. CASE AgentSets(p)
  <2>1. PICK s \in ManualStages :
          Goes(p, [Idle EXCEPT !.at = "find", !.toStage = s, !.source = "agent"])
    BY <1>9 DEF AgentSets
  <2> DEFINE r == [Idle EXCEPT !.at = "find", !.toStage = s, !.source = "agent"]
  <2>2. r \in Request /\ r.at = "find" /\ ~r.again /\ r.announce = NoInvitation
    BY <1>0 DEF Request, Places, Stages, ManualStages
  <2> QED BY <1>2, <1>9, <2>1, <2>2 DEF AgentSets
<1> QED BY <1>4, <1>5, <1>6, <1>7, <1>8, <1>9 DEF Starts

\* The same, in the state after a step.
LEMMA ResumeSerialNext ==
  \A r \in Request : Serial([r EXCEPT !.at = "notify"])' => Serial(Resume(r))'
<1>1. \A r \in Request : Serial([r EXCEPT !.at = "notify"]) => Serial(Resume(r))
  BY ResumeSerial
<1>2. (\A r \in Request : Serial([r EXCEPT !.at = "notify"]) => Serial(Resume(r)))'
  BY <1>1, PTL
<1> QED BY <1>2

\* The same for a request that is over.
LEMMA IdleSerialNext ==
  \A r \in Request : r.at = "notify" /\ Serial(r)' => Serial(Idle)'
<1>1. \A r \in Request : r.at = "notify" /\ Serial(r) => Serial(Idle)
  BY IdleSerial
<1>2. (\A r \in Request : r.at = "notify" /\ Serial(r) => Serial(Idle))'
  BY <1>1, PTL
<1> QED BY <1>2

\* A poll, up to the transition it makes.
LEMMA PollSerial ==
  ASSUME IInv, NEW p \in Requests, Serial(req[p]),
         Fetch(p) \/ SaveStatus(p) \/ Verify(p) \/ SaveAuth(p) \/ Notify(p)
  PROVE  \E r \in Request : Goes(p, r) /\ Serial(r)'
<1>0. PICK o \in Request : o = req[p]
  BY DEF IInv
<1>1. /\ Serial(o) /\ GoodRequest(o) /\ o.copy \in Row /\ GoodRow(o.copy)
      /\ GoodRow(row) /\ OthersType /\ IInv
  BY <1>0 DEF IInv, GoodRequest, GoodRow
<1> USE DEF Serial, Fresh, Holding, AnnouncesOnce, Accounted, Named, Open
<1>2. CASE Fetch(p)
  <2>1. o.copy.invId \in Invitations
    BY <1>0, <1>1, <1>2 DEF Fetch, At, GoodRequest, Row
  <2>2. PICK s \in InvitationStatuses : s = invitation[o.copy.invId]
    BY <1>1, <2>1 DEF OthersType, GoodRow
  <2>3. PICK list \in BOOLEAN, a \in {o.copy.invId, NoInvitation} :
          /\ a = IF FirstAcceptance(o.copy.invStatus, s) THEN o.copy.invId ELSE NoInvitation
          /\ Goes(p, [o EXCEPT !.at = "saveStatus", !.copy.invStatus = s,
                               !.announce = a, !.again = list])
    BY <1>0, <1>2, <2>2 DEF Fetch
  <2>4. PICK r : r = [o EXCEPT !.at = "saveStatus", !.copy.invStatus = s,
                               !.announce = a, !.again = list]
    OBVIOUS
  <2>5. /\ r \in Request /\ r.at = "saveStatus"
        /\ r.copy = [o.copy EXCEPT !.invStatus = s]
        /\ r.announce = a /\ r.again = list
    BY <1>1, <2>1, <2>2, <2>3, <2>4 DEF Request, Places, Row
  <2>6. /\ r.copy.pipeline = o.copy.pipeline /\ r.copy.invId = o.copy.invId
        /\ r.copy.invStatus = s
    BY <1>1, <2>5 DEF Row
  <2>7. o.at = "fetch" /\ UNCHANGED <<row, history, invitation, announced>>
    BY <1>0, <1>2 DEF Fetch, At, hmrc, agency
  <2>8. s # "none" /\ s \in InvitationStatuses
    BY <1>1, <2>1, <2>2 DEF GoodRow
  <2>9. Fresh(r)'
    BY <1>1, <2>5, <2>6, <2>7
  <2>10. AnnouncesOnce(r)'
    <3>1. o.copy.invId \in announced => s # "pending"
      BY <1>1, <2>2
    <3>2. CASE FirstAcceptance(o.copy.invStatus, s)
      <4>1. o.copy.invStatus = "pending" /\ s \notin {"none", "pending"} /\ a = o.copy.invId
        BY <1>1, <2>3, <2>7, <3>2
        DEF FirstAcceptance, NeedsSync, AcceptedStatuses, Row, InvitationStatuses
      <4>2. o.copy.invId \notin announced /\ o.copy.invId = row.invId
        BY <1>1, <2>7, <4>1
      <4> QED BY <1>1, <2>1, <2>2, <2>5, <2>6, <2>7, <4>1, <4>2
    <3>3. CASE ~FirstAcceptance(o.copy.invStatus, s)
      BY <1>1, <2>3, <2>5, <2>6, <2>7, <3>1, <3>3
    <3> QED BY <3>2, <3>3
  <2>11. ~Faults => Accounted(r)' /\ Named(r)'
    BY <1>1, <2>1, <2>2, <2>5, <2>6, <2>7
    DEF AcceptedStatuses, ResendableStatuses
  <2> QED BY <2>3, <2>4, <2>5, <2>9, <2>10, <2>11
<1>3. CASE SaveStatus(p)
  <2>1. o.at = "saveStatus" /\ row' = o.copy /\ UNCHANGED <<history, invitation, announced>>
    BY <1>0, <1>3 DEF SaveStatus, At, hmrc, agency
  <2>2. PICK r : r = [o EXCEPT !.at = "verify"]
    OBVIOUS
  <2>3. r \in Request /\ r.at = "verify" /\ r.copy = o.copy /\ r.announce = o.announce
        /\ r.again = o.again
    BY <2>2 DEF Request, Places
  <2>4. Serial(r)'
    BY <1>1, <2>1, <2>3
  <2>5. Serial(Idle)'
    <3>1. PICK n : n = [r EXCEPT !.at = "notify"]
      OBVIOUS
    <3>2. n \in Request /\ n.at = "notify" /\ n.copy = r.copy /\ n.announce = r.announce
          /\ n.again = r.again
      BY <2>3, <3>1 DEF Request, Places
    <3>3. Serial(n)'
      BY <2>3, <2>4, <3>2
    <3> QED BY <3>2, <3>3, IdleSerialNext
  <2> QED
    BY <1>0, <1>3, <2>2, <2>3, <2>4, <2>5, IdleGood DEF SaveStatus, GoodRequest
<1>4. CASE Verify(p)
  <2>0. o.at = "verify" /\ UNCHANGED <<row, history, invitation, announced>>
    BY <1>0, <1>4 DEF Verify, At, hmrc, agency
  <2>6. PICK v \in {"unknown", "active", "inactive"}, b \in BOOLEAN : \E r :
          /\ r = [o EXCEPT !.verdict = v, !.again = b]
          /\ b = (o.again /\ ~Confirmed /\ ~o.copy.authorised)
          /\ Goes(p, IF Confirmed /\ ~r.copy.authorised
                     THEN [r EXCEPT !.at = "saveAuth", !.copy.authorised = TRUE]
                     ELSE Resume(r))
    <3> DEFINE v == IF ~o.gate THEN "unknown" ELSE IF Confirmed THEN "active" ELSE "inactive"
               b == o.again /\ ~Confirmed /\ ~o.copy.authorised
    <3>1. v \in {"unknown", "active", "inactive"} /\ b \in BOOLEAN
      OBVIOUS
    <3>2. Goes(p, IF Confirmed /\ ~[o EXCEPT !.verdict = v, !.again = b].copy.authorised
                  THEN [[o EXCEPT !.verdict = v, !.again = b]
                          EXCEPT !.at = "saveAuth", !.copy.authorised = TRUE]
                  ELSE Resume([o EXCEPT !.verdict = v, !.again = b]))
      BY <1>0, <1>4 DEF Verify, Request
    <3> QED BY <3>1, <3>2
  <2>1. PICK r :
          /\ r = [o EXCEPT !.verdict = v, !.again = b]
          /\ b = (o.again /\ ~Confirmed /\ ~o.copy.authorised)
          /\ Goes(p, IF Confirmed /\ ~r.copy.authorised
                     THEN [r EXCEPT !.at = "saveAuth", !.copy.authorised = TRUE]
                     ELSE Resume(r))
    BY <2>6
  <2>2. /\ r \in Request /\ r.at = "verify" /\ r.copy = o.copy /\ r.announce = o.announce
        /\ r.again = b
    BY <2>0, <2>1 DEF Request
  <2>3. CASE Confirmed /\ ~r.copy.authorised
    <3>1. PICK n : n = [r EXCEPT !.at = "saveAuth", !.copy.authorised = TRUE]
      OBVIOUS
    <3>0. /\ n \in Request /\ n.at = "saveAuth" /\ n.announce = r.announce
          /\ n.again = r.again /\ n.copy = [r.copy EXCEPT !.authorised = TRUE]
      BY <2>2, <3>1 DEF Request, Places, Row
    <3>2. /\ n \in Request /\ n.at = "saveAuth" /\ n.announce = o.announce /\ ~n.again
          /\ n.copy = [o.copy EXCEPT !.authorised = TRUE]
      BY <2>1, <2>2, <2>3, <3>0
    <3>3. /\ n.copy.pipeline = o.copy.pipeline /\ n.copy.invId = o.copy.invId
          /\ n.copy.invStatus = o.copy.invStatus
      BY <1>1, <3>2 DEF Row
    <3>4. Serial(n)'
      BY <1>1, <2>0, <3>2, <3>3
    <3> QED BY <2>1, <2>3, <3>1, <3>2, <3>4
  <2>4. CASE ~(Confirmed /\ ~r.copy.authorised)
    <3>1. PICK n : n = [r EXCEPT !.at = "notify"]
      OBVIOUS
    <3>2. /\ n \in Request /\ n.at = "notify" /\ n.announce = o.announce /\ n.again = b
          /\ n.copy = o.copy
      BY <2>2, <3>1 DEF Request, Places
    <3>3. Serial(n)'
      BY <1>1, <2>0, <2>1, <3>2
    <3>4. Serial(Resume(r))' /\ Resume(r) \in Request
      BY <2>2, <3>1, <3>2, <3>3, ResumeSerialNext, ResumeIsRequest
    <3> QED BY <2>1, <2>4, <3>4
  <2> QED BY <2>3, <2>4
<1>5. CASE SaveAuth(p)
  <2>1. o.at = "saveAuth" /\ row' = o.copy /\ UNCHANGED <<history, invitation, announced>>
    BY <1>0, <1>5 DEF SaveAuth, At, hmrc, agency
  <2>2. PICK r : /\ r = [Idle EXCEPT !.at = "find", !.toStage = "not-started",
                                     !.announce = o.announce, !.gate = o.gate,
                                     !.verdict = o.verdict]
                 /\ Goes(p, r)
    BY <1>0, <1>5 DEF SaveAuth
  <2>3. Idle \in Request /\ ~Idle.again
    BY IdleGood DEF GoodRequest, Idle
  <2>4. r \in Request /\ r.at = "find" /\ r.announce = o.announce /\ ~r.again
    BY <2>2, <2>3 DEF Request, Places, Stages
  <2>5. Serial(r)'
    BY <1>1, <2>1, <2>4
  <2> QED BY <2>2, <2>4, <2>5
<1>6. CASE Notify(p)
  <2>1. /\ o.at = "notify" /\ announced' = announced \cup {o.announce}
        /\ UNCHANGED <<row, history, invitation>>
    BY <1>0, <1>6 DEF Notify, At, hmrc
  <2>2. PICK r : r = [o EXCEPT !.announce = NoInvitation] /\ Goes(p, Resume(r))
    BY <1>0, <1>6 DEF Notify
  <2>3. /\ r \in Request /\ r.at = "notify" /\ r.copy = o.copy /\ r.announce = NoInvitation
        /\ r.again = o.again
    BY <2>1, <2>2 DEF Request
  <2>4. o.announce # NoInvitation
    BY <1>1, <2>1 DEF GoodRequest
  <2>5. Serial(r)'
    BY <1>1, <2>1, <2>3, <2>4
  <2>6. r = [r EXCEPT !.at = "notify"]
    BY <2>3 DEF Request
  <2>7. Serial(Resume(r))' /\ Resume(r) \in Request
    BY <2>3, <2>5, <2>6, ResumeSerialNext, ResumeIsRequest
  <2> QED BY <2>2, <2>7
<1> QED BY <1>2, <1>3, <1>4, <1>5, <1>6

\* A transition: the copy that SaveStage writes back is the row Find read.
LEMMA TransitionSerial ==
  ASSUME IInv, NEW p \in Requests, Serial(req[p]), Find(p) \/ SaveStage(p) \/ Record(p)
  PROVE  \E r \in Request : Goes(p, r) /\ Serial(r)'
<1>0. PICK o \in Request : o = req[p]
  BY DEF IInv
<1>1. /\ Serial(o) /\ GoodRequest(o) /\ o.copy \in Row /\ row \in Row
      /\ GoodHistory /\ OthersType
  BY <1>0 DEF IInv, GoodRequest, GoodRow
<1> USE DEF Serial, Fresh, Holding, AnnouncesOnce, Accounted, Named, Open
<1>2. CASE Find(p)
  <2>0. o.at = "find" /\ ~o.again /\ UNCHANGED <<row, history, invitation, announced>>
    BY <1>0, <1>1, <1>2 DEF Find, At, hmrc, agency
  <2>1. CASE Allowed(row.pipeline, o.toStage, o.source)
    <3>1. PICK r : r = [o EXCEPT !.at = "saveStage", !.copy = row] /\ Goes(p, r)
      BY <1>0, <1>2, <2>1 DEF Find
    <3>2. /\ r \in Request /\ r.at = "saveStage" /\ r.copy = row /\ r.announce = o.announce
          /\ ~r.again
      BY <1>1, <2>0, <3>1 DEF Request, Places
    <3>3. Serial(r)'
      BY <1>1, <2>0, <3>2
    <3> QED BY <3>1, <3>2, <3>3
  <2>2. CASE ~Allowed(row.pipeline, o.toStage, o.source)
    <3>1. PICK n : n = [o EXCEPT !.at = "notify"]
      OBVIOUS
    <3>2. /\ n \in Request /\ n.at = "notify" /\ n.announce = o.announce /\ ~n.again
          /\ n.copy = o.copy
      BY <2>0, <3>1 DEF Request, Places
    <3>3. Serial(n)'
      BY <1>1, <2>0, <3>2
    <3>4. Serial(Resume(o))' /\ Resume(o) \in Request
      BY <3>1, <3>3, ResumeSerialNext, ResumeIsRequest
    <3> QED BY <1>0, <1>2, <2>2, <3>4 DEF Find
  <2> QED BY <2>1, <2>2
<1>3. CASE SaveStage(p)
  <2>1. /\ o.at = "saveStage" /\ ~o.again /\ UNCHANGED <<history, invitation, announced>>
        /\ row' = [o.copy EXCEPT !.pipeline = o.toStage]
    BY <1>0, <1>1, <1>3 DEF SaveStage, At, Moved, hmrc, agency
  <2>2. row'.pipeline = o.toStage /\ row'.invId = row.invId /\ row'.invStatus = row.invStatus
    BY <1>1, <2>1 DEF Row
  <2>3. PICK r : r = [o EXCEPT !.at = "record"] /\ Goes(p, r)
    BY <1>0, <1>3 DEF SaveStage
  <2>4. /\ r \in Request /\ r.at = "record" /\ r.copy = o.copy /\ r.announce = o.announce
        /\ ~r.again /\ r.toStage = o.toStage
    BY <2>1, <2>3 DEF Request, Places
  <2>5. Serial(r)'
    BY <1>1, <2>1, <2>2, <2>4
  <2> QED BY <2>3, <2>4, <2>5
<1>4. CASE Record(p)
  <2> DEFINE e == Entry(o.copy.pipeline, o.toStage, o.source)
  <2>1. /\ o.at = "record" /\ ~o.again /\ history' = history \cup {e}
        /\ UNCHANGED <<row, invitation, announced>> /\ Goes(p, Resume(o))
    BY <1>0, <1>1, <1>4 DEF Record, At, hmrc, agency
  <2>2. Rank(o.copy.pipeline) < Rank(o.toStage)
    BY <1>1, <2>1, AllowedClimbs DEF GoodRequest, Row, Request
  <2>3. /\ e.toStage = o.toStage
        /\ Rank(o.toStage) \in Nat /\ Rank(o.copy.pipeline) \in Nat
        /\ \A h \in history : Rank(h.toStage) \in Nat
    BY <1>1, RankType DEF Entry, Request, Row, GoodHistory, HistoryRow
  <2>4. ~Faults => /\ row.pipeline = o.toStage
                   /\ \A h \in history : Rank(h.toStage) <= Rank(o.copy.pipeline)
    BY <1>1, <2>1
  <2>5. ~Faults => /\ \E h \in history' : h.toStage = row'.pipeline
                   /\ \A h \in history' : Rank(h.toStage) <= Rank(row'.pipeline)
    <3> HIDE DEF e, Serial, Fresh, AnnouncesOnce, Named, Accounted
    <3> QED BY <2>1, <2>2, <2>3, <2>4
  <2>6. PICK n : n = [o EXCEPT !.at = "notify"]
    OBVIOUS
  <2>7. /\ n \in Request /\ n.at = "notify" /\ n.announce = o.announce /\ ~n.again
        /\ n.copy = o.copy
    BY <2>1, <2>6 DEF Request, Places
  <2>8. Serial(n)'
    BY <1>1, <2>1, <2>5, <2>7
  <2>9. Serial(Resume(o))' /\ Resume(o) \in Request
    BY <2>6, <2>8, ResumeSerialNext, ResumeIsRequest
  <2> QED BY <2>1, <2>9
<1> QED BY <1>2, <1>3, <1>4

\* The gate, the edits, and the sending of an invitation.
LEMMA OtherStepsSerial ==
  ASSUME IInv, NEW p \in Requests, Serial(req[p]),
         \/ Decide(p) \/ MtdCall(p) \/ DashboardFindsSubmitted(p) \/ EditSave(p)
         \/ CreateInvitation(p) \/ CreationRefused(p) \/ SaveInvite(p)
  PROVE  \E r \in Request : Goes(p, r) /\ Serial(r)'
<1>0. PICK o \in Request : o = req[p]
  BY DEF IInv
<1>1. /\ Serial(o) /\ GoodRequest(o) /\ o.copy \in Row /\ row \in Row /\ OthersType
      /\ Idle \in Request /\ ~Idle.again /\ Idle.announce = NoInvitation /\ Idle.at = "idle"
  BY <1>0, IdleGood DEF IInv, GoodRequest, GoodRow, Idle
<1> USE DEF Serial, Fresh, Holding, AnnouncesOnce, Accounted, Named, Open
<1>2. ASSUME o.at \in {"decide", "mtdCall", "create"},
             UNCHANGED <<row, history, invitation, announced>>,
             NEW r \in Request, r.at \in {"idle", "mtdCall", "find"}, ~r.again,
             r.announce = NoInvitation
      PROVE  Serial(r)'
  BY <1>1, <1>2
<1>3. CASE Decide(p)
  <2>1. PICK r : r = [Idle EXCEPT !.at = "mtdCall", !.verdict = o.verdict]
    OBVIOUS
  <2>2. r \in Request /\ r.at = "mtdCall" /\ ~r.again /\ r.announce = NoInvitation
    BY <1>1, <2>1 DEF Request, Places
  <2> QED BY <1>0, <1>1, <1>2, <1>3, <2>1, <2>2 DEF Decide, At, hmrc, agency
<1>4. CASE MtdCall(p) \/ CreationRefused(p)
  BY <1>0, <1>1, <1>2, <1>4 DEF MtdCall, CreationRefused, At, hmrc, agency
<1>5. CASE DashboardFindsSubmitted(p)
  <2>1. PICK r : r = [Idle EXCEPT !.at = "find", !.toStage = "submitted"]
    OBVIOUS
  <2>2. r \in Request /\ r.at = "find" /\ ~r.again /\ r.announce = NoInvitation
    BY <1>1, <2>1 DEF Request, Places, Stages
  <2> QED BY <1>0, <1>2, <1>5, <2>1, <2>2 DEF DashboardFindsSubmitted, At, hmrc, agency
<1>6. CASE EditSave(p)
  <2>1. /\ o.at = "edit" /\ row' = o.copy /\ UNCHANGED <<history, invitation, announced>>
        /\ Goes(p, Idle)
    BY <1>0, <1>6 DEF EditSave, At, hmrc, agency
  <2>2. Serial(Idle)'
    BY <1>1, <2>1
  <2> QED BY <1>1, <2>1, <2>2
<1>7. CASE CreateInvitation(p)
  <2>1. /\ o.at = "create" /\ UNCHANGED <<row, history, announced>>
        /\ \A j \in Invitations : invitation[j] # "pending"
    BY <1>0, <1>7 DEF CreateInvitation, At, agency
  <2>0. PICK i \in Invitations :
          /\ invitation[i] = "none"
          /\ invitation' = [invitation EXCEPT ![i] = "pending"]
          /\ Goes(p, [o EXCEPT !.at = "saveInvite", !.copy.invId = i,
                               !.copy.invStatus = "pending"])
    BY <1>0, <1>7 DEF CreateInvitation
  <2>2. PICK r :
          /\ invitation[i] = "none"
          /\ invitation' = [invitation EXCEPT ![i] = "pending"]
          /\ r = [o EXCEPT !.at = "saveInvite", !.copy.invId = i,
                           !.copy.invStatus = "pending"]
          /\ Goes(p, r)
    BY <2>0
  <2>3. /\ r \in Request /\ r.at = "saveInvite" /\ r.announce = o.announce
        /\ r.again = o.again
        /\ r.copy = [o.copy EXCEPT !.invId = i, !.invStatus = "pending"]
    BY <1>1, <2>2 DEF Request, Places, Row, InvitationStatuses
  <2>4. r.copy.pipeline = o.copy.pipeline /\ r.copy.invId = i /\ r.copy.invStatus = "pending"
    BY <1>1, <2>3 DEF Row
  <2>5. /\ invitation'[i] = "pending"
        /\ \A j \in Invitations \ {i} : invitation'[j] = invitation[j]
    BY <1>1, <2>2 DEF OthersType
  <2>6. ~Faults => \A j \in Invitations : ~Open(j)
    BY <1>1, <2>1, <2>2 DEF CanResend, Row, AcceptedStatuses, ResendableStatuses
  <2>7. o.announce = NoInvitation /\ ~o.again
    BY <1>1, <2>1
  <2>8. i \notin announced
    BY <1>1, <2>2
  <2>9. AnnouncesOnce(r)' /\ Fresh(r)'
    <3> announced \subseteq Invitations
      BY <1>1 DEF OthersType
    <3> QED BY <1>1, <2>1, <2>3, <2>4, <2>5, <2>7, <2>8
  <2>10. ~Faults => Named(r)' /\ Accounted(r)'
    <3>1. row.invId # NoInvitation => row.invId \in Invitations
      BY <1>1 DEF Row
    <3>2. row.invId # i
      BY <2>2 DEF IInv, GoodRow
    <3> QED BY <1>1, <2>1, <2>3, <2>4, <2>5, <2>6, <3>1, <3>2
  <2> QED BY <2>2, <2>3, <2>9, <2>10
<1>8. CASE SaveInvite(p)
  <2>1. /\ o.at = "saveInvite" /\ row' = o.copy /\ UNCHANGED <<history, invitation, announced>>
        /\ Goes(p, Idle)
    BY <1>0, <1>8 DEF SaveInvite, At, hmrc, agency
  <2>2. Serial(Idle)'
    BY <1>1, <2>1 DEF ResendableStatuses
  <2> QED BY <1>1, <2>1, <2>2
<1> QED BY <1>3, <1>4, <1>5, <1>6, <1>7, <1>8

\* A failure: the request goes on with the copy it holds, or ends.
LEMMA FailsSerial ==
  ASSUME IInv, NEW p \in Requests, Serial(req[p]), Fails(p)
  PROVE  \E r \in Request : Goes(p, r) /\ Serial(r)'
<1>0. PICK o \in Request : o = req[p]
  BY DEF IInv
<1>1. /\ Serial(o) /\ Faults /\ UNCHANGED <<row, history, invitation, announced>>
      /\ Idle \in Request /\ ~Idle.again /\ Idle.announce = NoInvitation /\ Idle.at = "idle"
  BY <1>0, IdleGood
  DEF Fails, FetchFails, VerifyFails, TransitionFails, Dies, GoodRequest, Idle, hmrc, agency
<1> USE DEF Serial, Fresh, Holding, AnnouncesOnce
<1>2. Serial(Idle)'
  BY <1>1
<1>3. ASSUME NEW r \in Request, r.announce = o.announce, r.copy = o.copy,
             o.at \in {"verify", "find", "saveStage", "record"}, r.again => o.again,
             Goes(p, Resume(r))
      PROVE  \E n \in Request : Goes(p, n) /\ Serial(n)'
  <2>1. PICK n : n = [r EXCEPT !.at = "notify"]
    OBVIOUS
  <2>2. /\ n \in Request /\ n.at = "notify" /\ n.announce = r.announce
        /\ n.again = r.again /\ n.copy = r.copy
    BY <1>3, <2>1 DEF Request, Places
  <2>3. Serial(n)'
    BY <1>1, <1>3, <2>2
  <2> QED BY <1>3, <2>1, <2>3, ResumeSerialNext, ResumeIsRequest
<1>4. CASE FetchFails(p)
  <2>1. PICK r : r = [o EXCEPT !.at = "verify"]
    OBVIOUS
  <2>2. /\ r \in Request /\ r.at = "verify" /\ r.copy = o.copy /\ r.announce = o.announce
        /\ r.again = o.again
    BY <2>1 DEF Request, Places
  <2>3. o.at = "fetch"
    BY <1>0, <1>4 DEF FetchFails, At
  <2>4. Serial(r)'
    BY <1>1, <2>2, <2>3
  <2> QED BY <1>0, <1>1, <1>2, <1>4, <2>1, <2>2, <2>4 DEF FetchFails
<1>5. CASE VerifyFails(p)
  <2>0. PICK b \in BOOLEAN : \E r : /\ b = (o.again /\ ~o.copy.authorised)
                                    /\ r = [o EXCEPT !.again = b]
                                    /\ Goes(p, Resume(r))
    BY <1>0, <1>5 DEF VerifyFails, Request
  <2>1. PICK r : /\ b = (o.again /\ ~o.copy.authorised)
                 /\ r = [o EXCEPT !.again = b]
                 /\ Goes(p, Resume(r))
    BY <2>0
  <2>2. /\ r \in Request /\ r.copy = o.copy /\ r.announce = o.announce /\ r.again = b
    BY <2>1 DEF Request
  <2> QED BY <1>0, <1>3, <1>5, <2>1, <2>2 DEF VerifyFails, At
<1>6. CASE TransitionFails(p)
  BY <1>0, <1>3, <1>6 DEF TransitionFails
<1>7. CASE Dies(p)
  BY <1>1, <1>2, <1>7 DEF Dies
<1> QED BY <1>4, <1>5, <1>6, <1>7 DEF Fails

\* HMRC never opens again an invitation that has ended, nor takes one that was
\* answered back to pending.
LEMMA OutsideSerial ==
  ASSUME IInv, NEW r \in Request, Serial(r), Hmrc \/ ChaseClient \/ NextQuarter
  PROVE  Serial(r)'
<1>1. UNCHANGED <<row, history, announced>> /\ OthersType
  BY DEF Hmrc, ClientAnswers, ClientSignsUp, InvitationLapses, ClientDeauthorises,
         QuarterFiled, ChaseClient, NextQuarter, hmrc, agency, IInv
<1> USE DEF Serial, Fresh, Holding, AnnouncesOnce, Accounted, Named, Open
<1>2. CASE UNCHANGED invitation
  BY <1>1, <1>2
<1>3. ASSUME NEW i \in Invitations,
             ClientAnswers(i) \/ ClientSignsUp(i) \/ InvitationLapses(i) \/ ClientDeauthorises(i)
      PROVE  Serial(r)'
  <2>1. PICK s \in InvitationStatuses : /\ invitation' = [invitation EXCEPT ![i] = s]
                                        /\ s # "pending"
                                        /\ invitation[i] \in {"pending"} \cup AcceptedStatuses
    <3> USE DEF InvitationStatuses, AcceptedStatuses, ResendableStatuses
    <3>1. CASE ClientAnswers(i)
      BY <3>1 DEF ClientAnswers
    <3>2. CASE ClientSignsUp(i)
      BY <3>2 DEF ClientSignsUp
    <3>3. CASE InvitationLapses(i)
      BY <3>3 DEF InvitationLapses
    <3>4. CASE ClientDeauthorises(i)
      BY <3>4 DEF ClientDeauthorises
    <3> QED BY <1>3, <3>1, <3>2, <3>3, <3>4
  <2>2. /\ invitation'[i] = s /\ s \notin {"none", "pending"}
        /\ \A j \in Invitations \ {i} : invitation'[j] = invitation[j]
    BY <1>1, <2>1 DEF OthersType, InvitationStatuses, AcceptedStatuses, ResendableStatuses
  <2>3. /\ announced \subseteq Invitations /\ r.announce \in Invitations \cup {NoInvitation}
        /\ r.copy.invId \in Invitations \cup {NoInvitation}
        /\ row.invId \in Invitations \cup {NoInvitation}
    BY DEF IInv, OthersType, GoodRow, Row, Request
  <2>4. \A j \in Invitations : Open(j)' => Open(j)
    BY <2>1, <2>2
  <2>5. AnnouncesOnce(r)'
    BY <1>1, <2>1, <2>2, <2>3
  <2>6. r.at = "saveStatus" /\ r.copy.invId = NoInvitation => UNCHANGED invitation[NoInvitation]
    BY <2>1, <1>1, <2>2 DEF OthersType
  <2> QED BY <1>1, <2>3, <2>4, <2>5, <2>6
<1> QED BY <1>2, <1>3 DEF Hmrc, QuarterFiled, ChaseClient, NextQuarter, hmrc, agency

-----------------------------------------------------------------------------
(* One request at a time: the theorems.                                    *)

\* A client as created or migrated is accounted for and names the invitation
\* it has.
LEMMA InitSerial == Init => Serial(Idle)
<1> SUFFICES ASSUME Init PROVE Serial(Idle)
  OBVIOUS
<1>1. Idle.at = "idle" /\ ~Idle.again /\ Idle.announce = NoInvitation
  BY DEF Idle
<1>2. /\ \E h \in history : h.toStage = row.pipeline
      /\ \A h \in history : h.toStage = row.pipeline
  BY DEF Init
<1>3. Rank(row.pipeline) \in Nat
  BY InitGood, RankType DEF IInv, GoodRow, Row
<1>4. \A i \in Invitations : Open(i) => i = row.invId
  BY DEF Init, InitCreated, InitMigrated, MigratedRow, Open, AcceptedStatuses
<1>5. row.invStatus \notin ResendableStatuses /\ announced = {}
  BY DEF Init, InitCreated, InitMigrated, MigratedRow, NewRow, ResendableStatuses
<1> QED
  BY <1>1, <1>2, <1>3, <1>4, <1>5 DEF Serial, Fresh, Holding, AnnouncesOnce, Accounted, Named

\* Every step of the only request keeps its copy fresh.
LEMMA NextSerial ==
  ASSUME NEW p, Requests = {p}, IInv, Serial(req[p]), [Next]_vars
  PROVE  Serial(req[p])'
<1>1. ASSUME NEW r \in Request, Goes(p, r), Serial(r)' PROVE Serial(req[p])'
  <2>1. req'[p] = r
    BY <1>1 DEF IInv, Goes
  <2> QED BY <1>1, <2>1
<1>2. ASSUME NEW q \in Requests, Continues(q) PROVE Serial(req[p])'
  BY <1>1, <1>2, PollSerial, TransitionSerial, OtherStepsSerial DEF Continues
<1>3. ASSUME NEW q \in Requests, Starts(q) \/ Fails(q) PROVE Serial(req[p])'
  BY <1>1, <1>3, StartsSerial, FailsSerial
<1>4. CASE Hmrc \/ ChaseClient \/ NextQuarter
  <2>1. UNCHANGED req
    BY <1>4 DEF Hmrc, ClientAnswers, ClientSignsUp, InvitationLapses, ClientDeauthorises,
                QuarterFiled, ChaseClient, NextQuarter, hmrc, agency
  <2>2. PICK r \in Request : r = req[p]
    BY DEF IInv
  <2>3. Serial(r)'
    BY <1>4, <2>2, OutsideSerial
  <2> QED BY <2>1, <2>2, <2>3
<1>5. CASE UNCHANGED vars
  BY <1>5 DEF vars, hmrc, agency, Serial, Fresh, Holding, AnnouncesOnce, Accounted, Named, Open
<1> QED BY <1>2, <1>3, <1>4, <1>5 DEF Next

\* With one request at a time its copy is always fresh enough.
THEOREM SerialInvariance ==
  ASSUME NEW CONSTANT p, Requests = {p} PROVE Spec => []Serial(req[p])
<1>1. Init => Serial(req[p])
  BY InitSerial DEF Init
<1>2. IInv /\ Serial(req[p]) /\ [Next]_vars => Serial(req[p])'
  BY NextSerial
<1> QED BY <1>1, <1>2, Invariance, PTL DEF Spec

\* One request at a time, with or without failures: the pipeline status of the
\* row implements the ladder, which only climbs, by system steps and by the
\* agent's exact next one.  (Two requests take it back: SystemNeverDowngrades
\* is violated.)
THEOREM LadderCorrect ==
  ASSUME NEW CONSTANT p, Requests = {p} PROVE Spec => ClimbsLadder
<1>1. Init => Pipeline!LadderInit
  BY DEF Init, InitCreated, InitMigrated, NewRow, MigratedRow, Pipeline!LadderInit
<1>2. IInv /\ Serial(req[p]) /\ [Next]_vars =>
        [Pipeline!SystemStep \/ Pipeline!AgentStep]_(row.pipeline)
  <2> SUFFICES ASSUME IInv, Serial(req[p]), [Next]_vars, row'.pipeline # row.pipeline
               PROVE  Pipeline!SystemStep \/ Pipeline!AgentStep
    OBVIOUS
  <2>1. PICK o \in Request : o = req[p] /\ GoodRequest(o) /\ Fresh(o)
    BY DEF IInv, Serial
  <2>2. SaveStage(p)
    <3>1. row' # row
      OBVIOUS
    <3>2. ASSUME NEW q \in Requests, ~SaveStage(q) PROVE ~Starts(q) /\ ~Continues(q) /\ ~Fails(q)
      <4>1. row' = o.copy => ~Holding(o)
        BY <2>1 DEF Fresh
      <4>2. q = p
        OBVIOUS
      <4>3. ~(SaveStatus(p) \/ SaveAuth(p) \/ EditSave(p) \/ SaveInvite(p))
        BY <2>1, <4>1 DEF SaveStatus, SaveAuth, EditSave, SaveInvite, At, Holding
      <4> QED
        BY <3>1, <3>2, <4>2, <4>3
        DEF Starts, PollLoad, CheckLoad, GateUnverified, AgentSets, EditLoad, ResendLoad,
            Continues, Fetch, Verify, Decide, MtdCall, DashboardFindsSubmitted, Notify, Find,
            Record, CreateInvitation, CreationRefused,
            Fails, FetchFails, VerifyFails, TransitionFails, Dies
    <3>3. ~(Hmrc \/ ChaseClient \/ NextQuarter) /\ ~UNCHANGED vars
      BY <3>1 DEF Hmrc, ClientAnswers, ClientSignsUp, InvitationLapses, ClientDeauthorises,
                  QuarterFiled, ChaseClient, NextQuarter, vars
    <3> QED BY <3>2, <3>3 DEF Next
  <2>3. /\ Entitled(o) /\ Allowed(o.copy.pipeline, o.toStage, o.source)
        /\ o.copy.pipeline = row.pipeline /\ row'.pipeline = o.toStage
    BY <2>1, <2>2 DEF SaveStage, At, Moved, GoodRequest, Fresh, Holding, GoodRow, Row
  <2>4. CASE o.source = "system"
    BY <2>3, <2>4 DEF Entitled, Allowed, Pipeline!SystemStep, Pipeline!Rank, Rank
  <2>5. CASE o.source = "agent"
    <3>1. NextManual(row.pipeline) = row'.pipeline /\ row'.pipeline \in ManualStages
      BY <2>3, <2>5 DEF Allowed
    <3>2. row'.pipeline # NoStage
      BY <3>1 DEF ManualStages, NoStage
    <3> QED
      BY <3>1, <3>2 DEF Pipeline!AgentStep, Pipeline!NextManual, Pipeline!NoStage, NextManual,
         NoStage
  <2> QED BY <2>3, <2>4, <2>5 DEF Entitled
<1> QED
  BY <1>1, <1>2, Invariance, SerialInvariance, PTL
  DEF Spec, ClimbsLadder, Pipeline!Ladder

\* One request at a time and no failure: between requests the audit trail
\* accounts for the stage of the row.  (A failure between the two saves of a
\* transition leaves a step unrecorded, two requests a step taken back.)
THEOREM HistoryCorrect ==
  ASSUME NEW CONSTANT p, Requests = {p}, ~Faults PROVE Spec => []HistoryComplete
<1>1. Serial(req[p]) => HistoryComplete
  BY DEF Serial, Accounted, HistoryComplete, Quiet, At
<1> QED BY <1>1, SerialInvariance, PTL

\* One request at a time and no failure: the row names every invitation the
\* client can answer or has accepted, and no acceptance is announced twice.
\* (A failure between HMRC's answer and the saving of the row loses one.)
THEOREM TrackingCorrect ==
  ASSUME NEW CONSTANT p, Requests = {p}, ~Faults PROVE Spec => []InvitationTracked
<1>1. IInv /\ Serial(req[p]) => InvitationTracked
  BY DEF IInv, GoodRequest, Serial, AnnouncesOnce, Named, Open, InvitationTracked, Quiet, At
<1> QED BY <1>1, Invariance, SerialInvariance, PTL
=============================================================================
