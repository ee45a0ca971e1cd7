------------------------ MODULE StaffInvites_proofs ------------------------
(***************************************************************************)
(* Proofs about StaffInvites, for every number of requests, firms,         *)
(* addresses and invitations, with or without faults.                      *)
(*                                                                         *)
(* SpentStaysSpent needs to know who may write an invitation that works:   *)
(* only the request that makes it, and only before its mail.  For that the *)
(* numbers of the invitations being made differ (MakersDiffer).            *)
(*                                                                         *)
(* The last part takes one request at a time and no failure, which is what *)
(* RemovedStaysOut needs: no request then holds an invitation that a       *)
(* removal has overtaken.                                                  *)
(***************************************************************************)
EXTENDS StaffInvites, TLAPS

-----------------------------------------------------------------------------
\* What the proofs assume of the constants.
StaffAssumption == Emails # {} /\ {MaxInvites, MaxUsers} \subseteq Nat

USE DEF StaffAssumption

-----------------------------------------------------------------------------
(* The inductive invariant.                                                *)

\* The places of a request that makes an invitation, and those before its mail.
Making == {"revoke", "saveInvite", "mail", "drop"}
Unsent == {"revoke", "saveInvite"}

\* A request that makes an invitation has begun it, and not mailed it when it is
\* yet to be saved.
GoodRequest(r) ==
  /\ r \in Request
  /\ r.at \in Making => r.of <= issued
  /\ r.at \in Unsent => r.of \notin mailed /\ r.copy # NoInvite
  /\ r.at \in Making \cup {"saveAccepted", "saveRevoked"} => r.of # 0
  /\ r.at \in {"checkEmail", "create", "saveAccepted", "saveRevoked"} =>
       r.copy # NoInvite /\ r.of # 0
  /\ r.at \in {"saveAccepted", "saveStaff", "deleteStaff"} => r.user # Nobody

\* Two requests make two invitations.
MakersDiffer ==
  \A p, q \in Requests :
    p # q /\ req[p].at \in Making /\ req[q].at \in Making => req[p].of # req[q].of

\* The variables whose type is preserved by itself.
OthersType ==
  /\ invite \in [Invites -> Invite \cup {NoInvite}]
  /\ issued \in 0..MaxInvites
  /\ expired \subseteq Invites
  /\ staff \in [Emails -> Staff \cup {Nobody}]
  /\ joined \in [Invites -> 0..MaxUsers]
  /\ removed \in [Firms -> [Emails -> 0..MaxInvites]]

GoodMailed == mailed \subseteq 1..issued

\* The inductive invariant.
IInv ==
  /\ OthersType
  /\ GoodMailed
  /\ req \in [Requests -> Request]
  /\ \A p \in Requests : GoodRequest(req[p])
  /\ MakersDiffer

-----------------------------------------------------------------------------
(* Lemmas.                                                                 *)

\* The values for no invitation and no member are not of these types.
LEMMA Distinct ==
  ASSUME StaffAssumption PROVE NoInvite \notin Invite /\ Nobody \notin Staff
BY DEF NoInvite, Invite, Nobody, Staff

\* A request at rest is good.
LEMMA IdleGood ==
  ASSUME StaffAssumption,
         OthersType, NEW e \in Emails
  PROVE  GoodRequest(IdleAt(e)) /\ IdleAt(e) \in Request /\ IdleAt(e).at = "idle"
BY DEF IdleAt, GoodRequest, Request, Place, OthersType, Unsent, Making

\* A request that is over holds nothing.
LEMMA IdleIsGood ==
  ASSUME StaffAssumption,
         OthersType PROVE GoodRequest(Idle) /\ Idle.at = "idle"
<1>1. (CHOOSE e \in Emails : TRUE) \in Emails
  OBVIOUS
<1> QED BY <1>1, IdleGood DEF Idle

\* A step of one request that sends no mail and begins no invitation keeps the
\* invariant when what it leaves is good, and makes nothing it did not make.
LEMMA QuietStep ==
  ASSUME StaffAssumption,
         IInv, OthersType', mailed' = mailed, issued' = issued,
         NEW p \in Requests, NEW r, GoodRequest(r),
         req' = [req EXCEPT ![p] = r],
         r.at \in Making => req[p].at \in Making /\ r.of = req[p].of
  PROVE  IInv'
<1>1. req' \in [Requests -> Request]
  BY DEF IInv, GoodRequest
<1>2. ASSUME NEW q \in Requests PROVE GoodRequest(req[q])'
  BY DEF IInv, GoodRequest
<1>3. MakersDiffer'
  BY DEF IInv, MakersDiffer
<1>4. GoodMailed'
  BY DEF IInv, GoodMailed
<1> QED BY <1>1, <1>2, <1>3, <1>4 DEF IInv

\* A step that mails the invitation of a request keeps the invariant: no other
\* request is about to save it.
LEMMA MailStep ==
  ASSUME StaffAssumption,
         IInv, OthersType, UNCHANGED <<rows, issued, expired, history>>,
         NEW p \in Requests, req[p].at = "mail",
         mailed' \in {mailed, mailed \cup {req[p].of}},
         NEW r, r \in Request, r.of <= issued,
         r.at = "idle" \/ (r.at = "drop" /\ r.of = req[p].of),
         req' = [req EXCEPT ![p] = r]
  PROVE  IInv'
<1>1. req' \in [Requests -> Request]
  BY DEF IInv
<1>2. req[p] \in Request /\ req[p].of \in 1..issued
  BY DEF IInv, GoodRequest, Making, Request, OthersType
<1>3. ASSUME NEW q \in Requests, q # p PROVE GoodRequest(req[q])'
  <2>1. req'[q] = req[q] /\ GoodRequest(req[q])
    BY <1>3 DEF IInv
  <2>2. req[q].at \in Unsent => req[q].of # req[p].of
    BY <1>3 DEF IInv, MakersDiffer, Making, Unsent
  <2> QED BY <2>1, <2>2 DEF GoodRequest
<1>4. GoodRequest(req[p])'
  <2>1. r.at = "drop" => r.of # 0
    BY <1>2
  <2> QED BY <2>1, <1>1 DEF GoodRequest, Unsent, Making, IInv
<1>5. MakersDiffer'
  BY DEF IInv, MakersDiffer, Making
<1>6. GoodMailed'
  BY <1>2 DEF IInv, GoodMailed
<1>7. OthersType'
  BY DEF OthersType, rows, history
<1> QED BY <1>1, <1>3, <1>4, <1>5, <1>6, <1>7 DEF IInv

-----------------------------------------------------------------------------
(* The first state, and the steps that begin a request.                    *)

\* No invitation and no staff yet.
LEMMA InitGood ==
  ASSUME StaffAssumption PROVE Init => IInv
<1> SUFFICES ASSUME Init PROVE IInv
  OBVIOUS
<1>1. OthersType
  BY DEF Init, OthersType
<1>2. GoodRequest(Idle) /\ Idle.at = "idle" /\ Idle \in Request
  BY <1>1, IdleIsGood DEF GoodRequest
<1>3. req \in [Requests -> Request] /\ \A p \in Requests : GoodRequest(req[p])
  BY <1>2 DEF Init
<1>4. MakersDiffer
  BY <1>2 DEF Init, MakersDiffer, Making
<1> QED BY <1>1, <1>3, <1>4 DEF IInv, GoodMailed, Init

\* InviteStaff preserves the invariant.
LEMMA InviteStaffStep ==
  ASSUME StaffAssumption,
         IInv, NEW p \in Requests, NEW f \in Firms, NEW e \in Emails, InviteStaff(p, f, e)
  PROVE  IInv'
<1> DEFINE new == [firm |-> f, email |-> e, accepted |-> FALSE, revoked |-> FALSE]
           next == issued + 1
           b == IdleAt(e)
           r == [b EXCEPT !.at = "revoke", !.of = next, !.copy = new]
<1>1. new \in Invite
  BY Zenon DEF Invite
<1>2. b \in Request
  BY IdleGood DEF IInv
<1>3. issued \in Nat /\ next \in Invites /\ next \in 0..MaxInvites /\ issued' = next
  BY DEF InviteStaff, IInv, OthersType, Invites
<1>4. req' = [req EXCEPT ![p] = r]
  BY DEF InviteStaff, Starts, Goes
<1>0. next = issued + 1
  OBVIOUS
<1> HIDE DEF new, b, next
<1>5. /\ r \in Request
      /\ r.at = "revoke"
      /\ r.of = next
      /\ r.copy = new
  BY <1>1, <1>2, <1>3 DEF Request, Place
<1> HIDE DEF r
<1>6. UNCHANGED <<rows, mailed, expired, history>>
  BY DEF InviteStaff
<1>7. OthersType'
  BY <1>3, <1>6 DEF OthersType, IInv, rows, history, Invites
<1>8. GoodMailed'
  BY <1>0, <1>3, <1>6 DEF GoodMailed, IInv
<1>9. ASSUME NEW q \in Requests PROVE GoodRequest(req[q])'
  <2>1. CASE q = p
    <3>1. (req[q])' = r
      BY <2>1, <1>4 DEF IInv
    <3>2. r.of \notin mailed
      BY <1>0, <1>3, <1>5 DEF IInv, GoodMailed
    <3>3. r.copy # NoInvite /\ r.of # 0
      BY <1>1, <1>3, <1>5, Distinct DEF Invites
    <3> QED BY <3>1, <3>2, <3>3, <1>3, <1>5, <1>6 DEF GoodRequest
  <2>2. CASE q # p
    <3>1. req'[q] = req[q] /\ GoodRequest(req[q])
      BY <2>2, <1>4 DEF IInv
    <3>2. req[q].of \in Nat
      BY DEF IInv, Request
    <3> QED BY <3>1, <3>2, <1>0, <1>3, <1>6 DEF GoodRequest
  <2> QED BY <2>1, <2>2
<1>10. req' \in [Requests -> Request]
  BY <1>4, <1>5 DEF IInv
<1>11. MakersDiffer'
  <2>1. \A q \in Requests : req[q].at \in Making => req[q].of <= issued /\ req[q].of \in Nat
    BY DEF IInv, GoodRequest, Request
  <2> QED BY <2>1, <1>0, <1>3, <1>4, <1>5 DEF IInv, MakersDiffer
<1> QED BY <1>7, <1>8, <1>9, <1>10, <1>11 DEF IInv

\* A request that loads an invitation that was stored.
LEMMA LoadStep ==
  ASSUME StaffAssumption,
         IInv, NEW p \in Requests, NEW n \in Invites, Pending(n),
         NEW place \in {"checkEmail", "saveRevoked"},
         req' = [req EXCEPT ![p] = [IdleAt(invite[n].email) EXCEPT
                                      !.at = place, !.of = n, !.copy = invite[n]]],
         UNCHANGED <<rows, issued, mailed, expired, history>>
  PROVE  IInv'
<1> DEFINE copy == invite[n]
           b == IdleAt(copy.email)
           r == [b EXCEPT !.at = place, !.of = n, !.copy = copy]
<1>1. copy \in Invite /\ copy.email \in Emails
  BY DEF Pending, IInv, OthersType, Invite
<1>2. b \in Request
  BY <1>1, IdleGood DEF IInv
<1>3. n \in 0..MaxInvites
  BY DEF Invites
<1>4. req' = [req EXCEPT ![p] = r]
  OBVIOUS
<1> HIDE DEF copy, b
<1>9. r \in Request /\ r.at = place /\ r.of = n /\ r.copy = copy
  BY <1>1, <1>2, <1>3 DEF Request, Place
<1> HIDE DEF r
<1>5. GoodRequest(r)
  BY <1>1, <1>9, Distinct DEF GoodRequest, Unsent, Making, Invites
<1>6. OthersType'
  BY DEF IInv, OthersType, rows, history
<1> QED BY <1>4, <1>5, <1>6, <1>9, QuietStep DEF Making

\* AcceptInvite preserves the invariant.
LEMMA AcceptInviteStep ==
  ASSUME StaffAssumption,
         IInv, NEW p \in Requests, NEW n \in Invites, AcceptInvite(p, n)
  PROVE  IInv'
BY LoadStep DEF AcceptInvite, Starts, Goes

\* CancelInvite preserves the invariant.
LEMMA CancelInviteStep ==
  ASSUME StaffAssumption,
         IInv, NEW p \in Requests, NEW n \in Invites, CancelInvite(p, n)
  PROVE  IInv'
BY LoadStep DEF CancelInvite, Starts, Goes

\* LoadStaff preserves the invariant.
LEMMA LoadStaffStep ==
  ASSUME StaffAssumption,
         IInv, NEW p \in Requests, NEW e \in Emails,
         NEW place \in {"saveStaff", "deleteStaff"}, LoadStaff(p, e, place)
  PROVE  IInv'
<1> DEFINE user == staff[e]
           b == IdleAt(e)
           r == [b EXCEPT !.at = place, !.user = user]
<1>1. user \in Staff /\ user # Nobody
  BY DEF LoadStaff, IInv, OthersType
<1>2. b \in Request
  BY IdleGood DEF IInv
<1>3. req' = [req EXCEPT ![p] = r]
  BY DEF LoadStaff, Starts, Goes
<1>4. OthersType' /\ mailed' = mailed /\ issued' = issued
  BY DEF LoadStaff, IInv, OthersType, rows, history
<1> HIDE DEF user, b
<1>5. r \in Request /\ r.at = place /\ r.user = user
  BY <1>1, <1>2 DEF Request, Place
<1> HIDE DEF r
<1>6. GoodRequest(r) /\ r.at \notin Making
  BY <1>1, <1>5 DEF GoodRequest, Unsent, Making
<1> QED BY <1>3, <1>4, <1>6, QuietStep

-----------------------------------------------------------------------------
(* The steps that end, or go on with, a request.                           *)

\* A request that changes only its place.
LEMMA MovedType ==
  ASSUME StaffAssumption,
         NEW r \in Request, NEW place \in Place
  PROVE  /\ [r EXCEPT !.at = place] \in Request
         /\ [r EXCEPT !.at = place].at = place
         /\ [r EXCEPT !.at = place].of = r.of
         /\ [r EXCEPT !.at = place].copy = r.copy
         /\ [r EXCEPT !.at = place].user = r.user
BY DEF Request

\* A request that ends, whatever it leaves in the rows.
LEMMA EndStep ==
  ASSUME StaffAssumption,
         IInv, OthersType', mailed' = mailed, issued' = issued,
         NEW p \in Requests, Goes(p, Idle)
  PROVE  IInv'
BY IdleIsGood, QuietStep DEF IInv, Goes, Making

\* RevokePending preserves the invariant.
LEMMA RevokePendingStep ==
  ASSUME StaffAssumption,
         IInv, NEW p \in Requests, RevokePending(p)
  PROVE  IInv'
<1> DEFINE f == req[p].copy.firm
           e == req[p].email
           r == [req[p] EXCEPT !.at = "saveInvite"]
<1>1. GoodRequest(req[p]) /\ req[p] \in Request /\ req[p].at = "revoke"
  BY DEF IInv, RevokePending, At
<1>2. ASSUME NEW n \in Invites PROVE Withdrawn(f, e)[n] \in Invite \cup {NoInvite}
  <2>1. invite[n] \in Invite \cup {NoInvite}
    BY DEF IInv, OthersType
  <2>2. CASE Pending(n) /\ invite[n].firm = f /\ invite[n].email = e
    <3>1. Withdrawn(f, e)[n] = [invite[n] EXCEPT !.revoked = TRUE]
      BY <2>2 DEF Withdrawn
    <3>2. invite[n] \in Invite
      BY <2>1, <2>2 DEF Pending
    <3> QED BY <3>1, <3>2 DEF Invite
  <2>3. CASE ~(Pending(n) /\ invite[n].firm = f /\ invite[n].email = e)
    BY <2>1, <2>3 DEF Withdrawn
  <2> QED BY <2>2, <2>3
<1>3. invite' = Withdrawn(f, e)
  BY DEF RevokePending
<1>4. DOMAIN Withdrawn(f, e) = Invites
  BY DEF Withdrawn
<1>5. invite' \in [Invites -> Invite \cup {NoInvite}]
  BY <1>2, <1>3 DEF Withdrawn
<1>6. OthersType' /\ mailed' = mailed /\ issued' = issued
  BY <1>5 DEF RevokePending, IInv, OthersType, history
<1>7. r \in Request /\ r.at = "saveInvite" /\ r.of = req[p].of /\ r.copy = req[p].copy
  BY <1>1, MovedType DEF Place
<1>8. req' = [req EXCEPT ![p] = r]
  BY DEF RevokePending, Goes
<1> HIDE DEF r
<1>9. GoodRequest(r)
  BY <1>1, <1>7 DEF GoodRequest, Unsent, Making
<1> QED BY <1>1, <1>6, <1>7, <1>8, <1>9, QuietStep DEF Making

\* SaveInvite preserves the invariant.
LEMMA SaveInviteStep ==
  ASSUME StaffAssumption,
         IInv, NEW p \in Requests, SaveInvite(p)
  PROVE  IInv'
<1> DEFINE r == [req[p] EXCEPT !.at = "mail"]
<1>1. GoodRequest(req[p]) /\ req[p] \in Request /\ req[p].at = "saveInvite"
  BY DEF IInv, SaveInvite, At
<1>2. req[p].of \in Invites /\ req[p].copy \in Invite
  BY <1>1 DEF GoodRequest, Request, Making, Unsent, Invites
<1>3. OthersType' /\ mailed' = mailed /\ issued' = issued
  BY <1>2 DEF SaveInvite, IInv, OthersType, history
<1>4. r \in Request /\ r.at = "mail" /\ r.of = req[p].of
  BY <1>1, MovedType DEF Place
<1>5. req' = [req EXCEPT ![p] = r]
  BY DEF SaveInvite, Goes
<1> HIDE DEF r
<1>6. GoodRequest(r)
  BY <1>1, <1>4 DEF GoodRequest, Unsent, Making
<1> QED BY <1>1, <1>3, <1>4, <1>5, <1>6, QuietStep DEF Making

\* MailInvite preserves the invariant.
LEMMA MailInviteStep ==
  ASSUME StaffAssumption,
         IInv, NEW p \in Requests, MailInvite(p)
  PROVE  IInv'
<1>1. GoodRequest(Idle) /\ Idle.at = "idle"
  BY IdleIsGood DEF IInv
<1>2. Idle \in Request /\ Idle.of = 0 /\ 0 <= issued
  BY <1>1 DEF GoodRequest, Idle, IdleAt, IInv, OthersType
<1> QED BY <1>1, <1>2, MailStep DEF MailInvite, At, Goes, IInv

\* MailFails preserves the invariant.
LEMMA MailFailsStep ==
  ASSUME StaffAssumption,
         IInv, NEW p \in Requests, MailFails(p)
  PROVE  IInv'
<1> DEFINE r == [req[p] EXCEPT !.at = "drop"]
<1>1. GoodRequest(req[p]) /\ req[p] \in Request /\ req[p].at = "mail"
  BY DEF IInv, MailFails, At
<1>2. r \in Request /\ r.at = "drop" /\ r.of = req[p].of
  BY <1>1, MovedType DEF Place
<1>3. req' = [req EXCEPT ![p] = r]
  BY DEF MailFails, Goes
<1> HIDE DEF r
<1>4. r.of <= issued
  BY <1>1, <1>2 DEF GoodRequest, Making
<1> QED BY <1>1, <1>2, <1>3, <1>4, MailStep DEF MailFails, IInv

\* DropInvite preserves the invariant.
LEMMA DropInviteStep ==
  ASSUME StaffAssumption,
         IInv, NEW p \in Requests, DropInvite(p)
  PROVE  IInv'
BY EndStep DEF DropInvite, IInv, OthersType, history

\* CheckEmail preserves the invariant.
LEMMA CheckEmailStep ==
  ASSUME StaffAssumption,
         IInv, NEW p \in Requests, CheckEmail(p)
  PROVE  IInv'
<1> DEFINE r == [req[p] EXCEPT !.at = "create"]
<1>1. GoodRequest(req[p]) /\ req[p] \in Request /\ req[p].at = "checkEmail"
  BY DEF IInv, CheckEmail, At
<1>2. OthersType' /\ mailed' = mailed /\ issued' = issued
  BY DEF CheckEmail, IInv, OthersType, rows, history
<1>3. CASE Goes(p, Idle)
  BY <1>2, <1>3, EndStep
<1>4. CASE Goes(p, r)
  <2>1. r \in Request /\ r.at = "create" /\ r.of = req[p].of /\ r.copy = req[p].copy
    BY <1>1, MovedType DEF Place
  <2> HIDE DEF r
  <2>2. GoodRequest(r) /\ r.at \notin Making
    BY <1>1, <2>1 DEF GoodRequest, Unsent, Making
  <2> QED BY <1>2, <1>4, <2>2, QuietStep DEF Goes
<1> QED BY <1>3, <1>4 DEF CheckEmail

\* CreateStaff preserves the invariant.
LEMMA CreateStaffStep ==
  ASSUME StaffAssumption,
         IInv, NEW p \in Requests, CreateStaff(p)
  PROVE  IInv'
<1> DEFINE of == req[p].of
           nth == joined[of] + 1
           firm == req[p].copy.firm
           user == [firm |-> firm, by |-> of, nth |-> nth]
           r == [req[p] EXCEPT !.at = "saveAccepted", !.user = user]
<1>1. GoodRequest(req[p]) /\ req[p] \in Request /\ req[p].at = "create"
  BY DEF IInv, CreateStaff, At
<1>2. CASE staff[req[p].email] = Nobody
  <2>1. of \in Invites /\ req[p].copy \in Invite
    BY <1>1 DEF GoodRequest, Request, Invites
  <2>2. firm \in Firms
    BY <2>1 DEF Invite
  <2>3. joined[of] \in 0..MaxUsers /\ joined[of] < MaxUsers
    BY <1>2, <2>1 DEF CreateStaff, IInv, OthersType
  <2>4. nth \in 1..MaxUsers
    BY <2>3
  <2>5. req' = [req EXCEPT ![p] = r]
    BY <1>2 DEF CreateStaff, Goes
  <2>6. joined' = [joined EXCEPT ![of] = nth]
    BY <1>2 DEF CreateStaff
  <2>7. staff' = [staff EXCEPT ![req[p].email] = user]
    BY <1>2 DEF CreateStaff
  <2>8. UNCHANGED <<invite, issued, mailed, expired, removed>>
    BY DEF CreateStaff
  <2>9. of = req[p].of
    OBVIOUS
  <2> HIDE DEF nth, firm, of
  <2>10. user \in Staff /\ user # Nobody
    BY <2>1, <2>2, <2>4, Distinct DEF Staff
  <2> HIDE DEF user
  <2>11. nth \in 0..MaxUsers
    BY <2>4
  <2>12. joined' \in [Invites -> 0..MaxUsers]
    BY <2>6, <2>11 DEF IInv, OthersType
  <2>13. OthersType'
    BY <2>7, <2>8, <2>10, <2>12 DEF IInv, OthersType
  <2>14. /\ r \in Request
         /\ r.at = "saveAccepted"
         /\ r.of = req[p].of
         /\ r.copy = req[p].copy
         /\ r.user = user
    BY <1>1, <2>10 DEF Request, Place
  <2> HIDE DEF r
  <2>15. GoodRequest(r) /\ r.at \notin Making
    BY <1>1, <2>10, <2>14 DEF GoodRequest, Unsent, Making
  <2> QED BY <2>5, <2>8, <2>13, <2>15, QuietStep
<1>3. CASE staff[req[p].email] # Nobody
  BY <1>3, EndStep DEF CreateStaff, IInv, OthersType
<1> QED BY <1>2, <1>3

\* SaveAccepted preserves the invariant.
LEMMA SaveAcceptedStep ==
  ASSUME StaffAssumption,
         IInv, NEW p \in Requests, SaveAccepted(p)
  PROVE  IInv'
<1> DEFINE copy == req[p].copy
<1>1. req[p].of \in Invites /\ copy \in Invite
  BY DEF IInv, SaveAccepted, At, GoodRequest, Request, Invites
<1> HIDE DEF copy
<1>2. Accepted(copy) \in Invite
  BY <1>1 DEF Accepted, Invite
<1>3. [invite EXCEPT ![req[p].of] = Accepted(copy)] \in [Invites -> Invite \cup {NoInvite}]
  BY <1>1, <1>2 DEF IInv, OthersType
<1>4. invite' \in {invite, [invite EXCEPT ![req[p].of] = Accepted(copy)]}
  BY DEF SaveAccepted, copy
<1>5. OthersType'
  BY <1>3, <1>4 DEF SaveAccepted, IInv, OthersType, history
<1> QED BY <1>5, EndStep DEF SaveAccepted

\* SaveRevoked preserves the invariant.
LEMMA SaveRevokedStep ==
  ASSUME StaffAssumption,
         IInv, NEW p \in Requests, SaveRevoked(p)
  PROVE  IInv'
<1> DEFINE copy == req[p].copy
           revoked == [copy EXCEPT !.revoked = TRUE]
<1>1. req[p].of \in Invites /\ copy \in Invite
  BY DEF IInv, SaveRevoked, At, GoodRequest, Request, Invites
<1>2. invite' = [invite EXCEPT ![req[p].of] = revoked]
  BY DEF SaveRevoked
<1> HIDE DEF copy
<1>3. revoked \in Invite
  BY <1>1 DEF Invite
<1> HIDE DEF revoked
<1>4. OthersType'
  BY <1>1, <1>2, <1>3 DEF SaveRevoked, IInv, OthersType, history
<1> QED BY <1>4, EndStep DEF SaveRevoked

\* SaveStaff preserves the invariant.
LEMMA SaveStaffStep ==
  ASSUME StaffAssumption,
         IInv, NEW p \in Requests, SaveStaff(p)
  PROVE  IInv'
<1>1. req[p].email \in Emails /\ req[p].user \in Staff \cup {Nobody}
  BY DEF IInv, Request
<1>2. OthersType'
  BY <1>1 DEF SaveStaff, IInv, OthersType, history
<1> QED BY <1>2, EndStep DEF SaveStaff

\* DeleteStaff preserves the invariant.
LEMMA DeleteStaffStep ==
  ASSUME StaffAssumption,
         IInv, NEW p \in Requests, DeleteStaff(p)
  PROVE  IInv'
<1> DEFINE e == req[p].email
           user == req[p].user
           f == user.firm
<1>1. e \in Emails /\ user \in Staff
  BY DEF IInv, Request, GoodRequest, DeleteStaff, At
<1>2. f \in Firms
  BY <1>1 DEF Staff
<1>3. staff' = [staff EXCEPT ![e] = IF @ = user THEN Nobody ELSE @]
  BY DEF DeleteStaff
<1>4. removed' = [removed EXCEPT ![f][e] = issued]
  BY DEF DeleteStaff
<1> HIDE DEF e, user, f
<1>5. staff' \in [Emails -> Staff \cup {Nobody}]
  BY <1>1, <1>3 DEF IInv, OthersType
<1>6. removed' \in [Firms -> [Emails -> 0..MaxInvites]]
  <2>1. removed[f] \in [Emails -> 0..MaxInvites] /\ issued \in 0..MaxInvites
    BY <1>2 DEF IInv, OthersType
  <2>2. [removed[f] EXCEPT ![e] = issued] \in [Emails -> 0..MaxInvites]
    BY <2>1, <1>1
  <2> QED BY <1>2, <1>4, <2>2 DEF IInv, OthersType
<1>7. OthersType'
  BY <1>5, <1>6 DEF DeleteStaff, IInv, OthersType
<1> QED BY <1>7, EndStep DEF DeleteStaff

\* Stop preserves the invariant.
LEMMA StopStep ==
  ASSUME StaffAssumption,
         IInv, NEW p \in Requests, Stop(p)
  PROVE  IInv'
BY EndStep DEF Stop, IInv, OthersType, rows, history

\* What leaves the requests and the invitations alone.
LEMMA StillStep ==
  ASSUME StaffAssumption,
         IInv, OthersType', UNCHANGED <<mailed, issued, req>>
  PROVE  IInv'
BY DEF IInv, GoodMailed, GoodRequest, MakersDiffer

\* Expires preserves the invariant.
LEMMA ExpiresStep ==
  ASSUME StaffAssumption,
         IInv, NEW n \in Invites, Expires(n)
  PROVE  IInv'
BY StillStep DEF Expires, IInv, OthersType, rows, history

\* Every step preserves the invariant.
LEMMA StepGood ==
  ASSUME StaffAssumption PROVE IInv /\ [Next]_vars => IInv'
<1> SUFFICES ASSUME IInv, [Next]_vars PROVE IInv'
  OBVIOUS
<1>1. ASSUME NEW p \in Requests, Begin(p) PROVE IInv'
  BY <1>1, InviteStaffStep, AcceptInviteStep, CancelInviteStep, LoadStaffStep DEF Begin
<1>2. ASSUME NEW p \in Requests, Continue(p) PROVE IInv'
  BY <1>2, RevokePendingStep, SaveInviteStep, MailInviteStep, MailFailsStep, DropInviteStep,
     CheckEmailStep, CreateStaffStep, SaveAcceptedStep, SaveRevokedStep, SaveStaffStep,
     DeleteStaffStep, StopStep DEF Continue
<1>3. ASSUME NEW n \in Invites, Expires(n) PROVE IInv'
  BY <1>3, ExpiresStep
<1>4. CASE UNCHANGED vars
  BY <1>4, StillStep DEF vars, rows, history, IInv, OthersType
<1> QED BY <1>1, <1>2, <1>3, <1>4 DEF Next

-----------------------------------------------------------------------------
(* The theorems.                                                           *)

\* No two requests make one invitation, and none that was mailed is about to be
\* saved, whatever overlaps, fails or stops (invite of team.service.ts).
THEOREM Invariance ==
  ASSUME StaffAssumption PROVE Spec => []IInv
BY InitGood, StepGood, PTL DEF Spec

\* Every variable of the invitations' model keeps its type.
THEOREM TypeCorrect ==
  ASSUME StaffAssumption PROVE Spec => []TypeOK
<1>1. IInv => TypeOK
  BY DEF IInv, TypeOK, OthersType, GoodMailed, Invites
<1> QED BY <1>1, Invariance, PTL

\* A step that changes the invitations of the rows in no other way than these
\* keeps one that is spent as it is.
LEMMA SpentStep ==
  ASSUME StaffAssumption,
         IInv, [Next]_vars, NEW n \in Invites, n \in mailed, ~Pending(n)
  PROVE  ~Pending(n)'
<1>1. CASE invite' = invite
  BY <1>1 DEF Pending
<1>2. ASSUME NEW p \in Requests, RevokePending(p) PROVE ~Pending(n)'
  BY <1>2 DEF RevokePending, Withdrawn, Pending
<1>3. ASSUME NEW p \in Requests, SaveInvite(p) PROVE ~Pending(n)'
  <2>1. req[p].of \notin mailed
    BY <1>3 DEF SaveInvite, At, IInv, GoodRequest, Unsent
  <2> QED BY <1>3, <2>1 DEF SaveInvite, Pending
<1>4. ASSUME NEW p \in Requests, DropInvite(p) PROVE ~Pending(n)'
  BY <1>4 DEF DropInvite, Pending, IInv, OthersType
<1>5. ASSUME NEW p \in Requests, SaveAccepted(p) PROVE ~Pending(n)'
  <2> DEFINE copy == req[p].copy
  <2>1. copy \in Invite
    BY <1>5 DEF IInv, SaveAccepted, At, GoodRequest, Request
  <2>2. invite' \in {invite, [invite EXCEPT ![req[p].of] = Accepted(copy)]}
    BY <1>5 DEF SaveAccepted
  <2> HIDE DEF copy
  <2>3. Accepted(copy).accepted
    BY <2>1 DEF Accepted, Invite
  <2> QED BY <2>2, <2>3 DEF Pending, IInv, OthersType
<1>6. ASSUME NEW p \in Requests, SaveRevoked(p) PROVE ~Pending(n)'
  <2> DEFINE copy == req[p].copy
             gone == [copy EXCEPT !.revoked = TRUE]
  <2>1. copy \in Invite
    BY <1>6 DEF IInv, SaveRevoked, At, GoodRequest, Request
  <2>2. invite' = [invite EXCEPT ![req[p].of] = gone]
    BY <1>6 DEF SaveRevoked
  <2> HIDE DEF copy
  <2>3. gone.revoked
    BY <2>1 DEF Invite
  <2> HIDE DEF gone
  <2> QED BY <2>2, <2>3 DEF Pending, IInv, OthersType
<1>7. ASSUME NEW p \in Requests, Begin(p) PROVE invite' = invite
  BY <1>7 DEF Begin, InviteStaff, AcceptInvite, CancelInvite, LoadStaff, rows
<1>8. ASSUME NEW p \in Requests, Continue(p) PROVE ~Pending(n)'
  BY <1>1, <1>2, <1>3, <1>4, <1>5, <1>6, <1>8 DEF Continue, MailInvite, MailFails, CheckEmail,
     CreateStaff, SaveStaff, DeleteStaff, Stop, rows
<1>9. ASSUME NEW m \in Invites, Expires(m) PROVE invite' = invite
  BY <1>9 DEF Expires, rows
<1>10. CASE UNCHANGED vars
  BY <1>1, <1>10 DEF vars, rows
<1> QED BY <1>1, <1>7, <1>8, <1>9, <1>10 DEF Next

\* An invitation that was accepted, revoked or dropped never works again
\* (acceptInvite, cancelInvite), however the saves of whole rows overlap.
THEOREM SpentCorrect ==
  ASSUME StaffAssumption PROVE Spec => SpentStaysSpent
<1>1. IInv /\ [Next]_vars
        => [\A n \in Invites : n \in mailed /\ ~Pending(n) => ~Pending(n)']_vars
  BY SpentStep
<1> QED BY <1>1, Invariance, PTL DEF Spec, SpentStaysSpent

-----------------------------------------------------------------------------
(* One request at a time, and none that fails or stops.                    *)

\* An invitation that works, of a firm to an address.
PendingFor(n, f, e) == Pending(n) /\ invite[n].firm = f /\ invite[n].email = e

\* No invitation that works is as old as the last removal of whom it invites.
PendingFresh ==
  \A n \in Invites : Pending(n) => removed[invite[n].firm][invite[n].email] < n

\* A firm has one for an address at most.
OnePending ==
  \A m, n \in Invites : \A f \in Firms, e \in Emails :
    PendingFor(m, f, e) /\ PendingFor(n, f, e) => m = n

\* No removal is ahead of the invitations.
RemovalsPast == \A f \in Firms, e \in Emails : removed[f][e] <= issued

\* None is for the firm's own staff, but the one that is being accepted.
Welcomed(r) ==
  \A e \in Emails, n \in Invites :
    staff[e] # Nobody /\ PendingFor(n, staff[e].firm, e) =>
      r.at = "saveAccepted" /\ r.of = n

\* What a request that is alone holds is what is stored.
Holds(r) ==
  /\ r.at # "drop"
  /\ r.at \in Unsent =>
       /\ r.copy.email = r.email
       /\ staff[r.email] = Nobody
       /\ removed[r.copy.firm][r.email] < r.of
  /\ r.at = "saveInvite" => \A n \in Invites : ~PendingFor(n, r.copy.firm, r.email)
  /\ r.at \in {"checkEmail", "create", "saveAccepted", "saveRevoked"} =>
       invite[r.of] = r.copy /\ Pending(r.of) /\ r.copy.email = r.email
  /\ r.at = "saveAccepted" => staff[r.email] = r.user /\ r.user.firm = r.copy.firm
  /\ r.at \in {"saveStaff", "deleteStaff"} => staff[r.email] = r.user

\* The invariant of one request at a time.
Serial(r) ==
  /\ RemovedStaysOut
  /\ PendingFresh
  /\ OnePending
  /\ RemovalsPast
  /\ Welcomed(r)
  /\ Holds(r)

\* The rows and their types, with the request that is about them.
SerialTypes(r) ==
  /\ OthersType
  /\ r \in Request
  /\ r.at \in Unsent => r.copy \in Invite /\ r.of \in Invites
  /\ r.at \in {"checkEmail", "create", "saveAccepted", "saveRevoked"} =>
       r.copy \in Invite /\ r.of \in Invites
  /\ r.at \in {"saveAccepted", "saveStaff", "deleteStaff"} => r.user \in Staff

\* What the first invariant says of a request.
LEMMA SerialTyped ==
  ASSUME StaffAssumption, IInv, NEW p \in Requests
  PROVE  SerialTypes(req[p])
<1>1. req[p] \in Request /\ GoodRequest(req[p])
  BY DEF IInv
<1> QED BY <1>1 DEF IInv, SerialTypes, GoodRequest, Making, Unsent, Request, Invites

\* The fields of an idle request.
LEMMA IdleFields ==
  ASSUME StaffAssumption, NEW e \in Emails
  PROVE  IdleAt(e) \in Request /\ IdleAt(e).at = "idle" /\ IdleAt(e).email = e
BY DEF IdleAt, Request, Place

\* The first state keeps the second invariant.
LEMMA InitSerial ==
  ASSUME StaffAssumption, NEW p \in Requests
  PROVE  Init => Serial(req[p])
<1> SUFFICES ASSUME Init PROVE Serial(req[p])
  OBVIOUS
<1>1. (CHOOSE e \in Emails : TRUE) \in Emails
  OBVIOUS
<1>2. req[p].at = "idle"
  BY <1>1, IdleFields DEF Init, Idle
<1>3. \A n \in Invites : ~Pending(n)
  BY DEF Init, Pending
<1> QED BY <1>2, <1>3 DEF Init, Serial, RemovedStaysOut, PendingFresh, OnePending, PendingFor,
        RemovalsPast, Welcomed, Holds, Unsent

\* A step that leaves members, removals and numbers alone, and makes no invitation
\* work, keeps what the second invariant says of the rows.
LEMMA FewerPending ==
  ASSUME StaffAssumption, OthersType, NEW r, Serial(r),
         UNCHANGED <<staff, removed>>, issued' \in Nat, issued <= issued',
         \A n \in Invites : Pending(n)' => Pending(n) /\ invite'[n] = invite[n],
         NEW s,
         \A n \in Invites : r.at = "saveAccepted" /\ r.of = n =>
             ~Pending(n)' \/ (s.at = "saveAccepted" /\ s.of = n),
         Holds(s)'
  PROVE  Serial(s)'
<1>1. RemovedStaysOut'
  BY DEF Serial, RemovedStaysOut
<1>2. PendingFresh' /\ OnePending'
  BY DEF Serial, PendingFresh, OnePending, PendingFor
<1>3. RemovalsPast'
  BY DEF Serial, RemovalsPast, OthersType
<1>4. Welcomed(s)'
  BY DEF Serial, Welcomed, PendingFor
<1> QED BY <1>1, <1>2, <1>3, <1>4 DEF Serial

\* The step of a request: what it leaves keeps the second invariant.
SerialStep(p) == \E r \in Request : Goes(p, r) /\ Serial(r)'

\* InviteStaff: who is invited is in no firm, and the invitation is a new one.
LEMMA InviteStaffSerial ==
  ASSUME StaffAssumption, NEW p \in Requests, SerialTypes(req[p]), Serial(req[p]),
         NEW f \in Firms, NEW e \in Emails, InviteStaff(p, f, e)
  PROVE  SerialStep(p)
<1>1. PICK o \in Request : o = req[p]
  BY DEF SerialTypes
<1>2. SerialTypes(o) /\ Serial(o) /\ o.at = "idle"
  BY <1>1 DEF InviteStaff, Starts, At
<1>3. issued \in Nat /\ issued' = issued + 1 /\ issued + 1 \in 0..MaxInvites
  BY DEF SerialTypes, OthersType, InviteStaff
<1>4. PICK r \in Request : /\ Goes(p, r)
                           /\ r.at = "revoke"
                           /\ r.of = issued + 1
                           /\ r.copy.firm = f
                           /\ r.copy.email = e
                           /\ r.email = e
  <2> DEFINE new == [firm |-> f, email |-> e, accepted |-> FALSE, revoked |-> FALSE]
             b == IdleAt(e)
             s == [b EXCEPT !.at = "revoke", !.of = issued + 1, !.copy = new]
  <2>1. b \in Request /\ b.email = e
    BY IdleFields
  <2>2. new \in Invite /\ new.firm = f /\ new.email = e
    BY DEF Invite
  <2>3. Goes(p, s)
    BY DEF InviteStaff, Starts
  <2> HIDE DEF new, b
  <2>4. s \in Request /\ s.at = "revoke" /\ s.of = issued + 1 /\ s.copy = new /\ s.email = e
    BY <1>3, <2>1, <2>2 DEF Request, Place
  <2> HIDE DEF s
  <2> QED BY <2>2, <2>3, <2>4
<1>5. UNCHANGED <<invite, staff, removed>> /\ staff[e] = Nobody
  BY DEF InviteStaff, rows, history
<1>6. removed[f][e] < r.of
  BY <1>2, <1>3, <1>4 DEF Serial, RemovalsPast, SerialTypes, OthersType
<1>7. Holds(r)'
  BY <1>4, <1>5, <1>6 DEF Holds, Unsent
<1>8. Serial(r)'
  BY <1>2, <1>3, <1>5, <1>7, FewerPending DEF Pending, SerialTypes
<1> QED BY <1>4, <1>8 DEF SerialStep

\* A request that ends, and has made no invitation work.
LEMMA EndsSerial ==
  ASSUME StaffAssumption, NEW p \in Requests, SerialTypes(req[p]), Serial(req[p]),
         Goes(p, Idle), UNCHANGED <<staff, removed, issued>>,
         \A n \in Invites : Pending(n)' => Pending(n) /\ invite'[n] = invite[n],
         \A n \in Invites : req[p].at = "saveAccepted" /\ req[p].of = n => ~Pending(n)'
  PROVE  SerialStep(p)
<1>1. (CHOOSE e \in Emails : TRUE) \in Emails
  OBVIOUS
<1>2. PICK r \in Request : r = Idle /\ r.at = "idle"
  BY <1>1, IdleFields DEF Idle
<1>3. PICK o \in Request : o = req[p]
  BY DEF SerialTypes
<1>4. Holds(r)'
  BY <1>2 DEF Holds, Unsent
<1>5. issued' \in Nat /\ issued <= issued'
  BY DEF SerialTypes, OthersType
<1>6. \A n \in Invites : o.at = "saveAccepted" /\ o.of = n => ~Pending(n)'
  BY <1>3
<1>7. Serial(r)'
  BY <1>3, <1>4, <1>5, <1>6, FewerPending DEF SerialTypes
<1> QED BY <1>2, <1>7 DEF SerialStep

\* RevokePending: the firm's other invitations to the address end.
LEMMA RevokePendingSerial ==
  ASSUME StaffAssumption, NEW p \in Requests, SerialTypes(req[p]), Serial(req[p]),
         RevokePending(p)
  PROVE  SerialStep(p)
<1>1. PICK o \in Request : o = req[p]
  BY DEF SerialTypes
<1>2. SerialTypes(o) /\ Serial(o) /\ o.at = "revoke"
  BY <1>1 DEF RevokePending, At
<1>3. invite' = Withdrawn(o.copy.firm, o.email) /\ UNCHANGED <<staff, removed, issued>>
  BY <1>1 DEF RevokePending, history
<1>4. PICK r \in Request : /\ Goes(p, r)
                           /\ r.at = "saveInvite"
                           /\ r.of = o.of
                           /\ r.copy = o.copy
                           /\ r.email = o.email
  BY <1>1 DEF RevokePending, Request, Place
<1>5. ASSUME NEW n \in Invites, Pending(n)'
      PROVE  /\ Pending(n)
             /\ invite'[n] = invite[n]
             /\ ~PendingFor(n, o.copy.firm, o.email)
  <2>1. CASE PendingFor(n, o.copy.firm, o.email)
    <3>1. invite'[n] = [invite[n] EXCEPT !.revoked = TRUE]
      BY <1>3, <2>1 DEF Withdrawn, PendingFor
    <3>2. invite[n] \in Invite
      BY <1>2, <2>1 DEF PendingFor, Pending, SerialTypes, OthersType
    <3>3. invite'[n].revoked
      BY <3>1, <3>2 DEF Invite
    <3> QED BY <1>5, <3>3 DEF Pending
  <2>2. CASE ~PendingFor(n, o.copy.firm, o.email)
    BY <1>3, <1>5, <2>2 DEF Withdrawn, PendingFor, Pending
  <2> QED BY <2>1, <2>2
<1>6. \A n \in Invites : ~PendingFor(n, o.copy.firm, o.email)'
  BY <1>5 DEF PendingFor
<1>7. Holds(r)'
  BY <1>2, <1>3, <1>4, <1>6 DEF Serial, Holds, Unsent
<1>8. issued' \in Nat /\ issued <= issued'
  BY <1>2, <1>3 DEF SerialTypes, OthersType
<1>9. Serial(r)'
  BY <1>2, <1>3, <1>5, <1>7, <1>8, FewerPending DEF SerialTypes
<1> QED BY <1>4, <1>9 DEF SerialStep

\* SaveInvite: the one invitation of the firm to an address that works.
LEMMA SaveInviteSerial ==
  ASSUME StaffAssumption, NEW p \in Requests, SerialTypes(req[p]), Serial(req[p]),
         SaveInvite(p)
  PROVE  SerialStep(p)
<1>1. PICK o \in Request : o = req[p]
  BY DEF SerialTypes
<1>2. SerialTypes(o) /\ Serial(o) /\ Holds(o) /\ o.at = "saveInvite"
  BY <1>1 DEF SaveInvite, At, Serial
<1>3. invite' = [invite EXCEPT ![o.of] = o.copy] /\ UNCHANGED <<staff, removed, issued>>
  BY <1>1 DEF SaveInvite, history
<1>4. PICK r \in Request : Goes(p, r) /\ r.at = "mail"
  BY <1>1 DEF SaveInvite, Request, Place
<1>5. /\ o.of \in Invites
      /\ o.copy \in Invite
      /\ o.copy.email = o.email
      /\ staff[o.email] = Nobody
      /\ removed[o.copy.firm][o.email] < o.of
      /\ \A n \in Invites : ~PendingFor(n, o.copy.firm, o.email)
  BY <1>2 DEF SerialTypes, Holds, Unsent
<1>6. invite'[o.of] = o.copy
  BY <1>2, <1>3, <1>5 DEF SerialTypes, OthersType
<1>7. ASSUME NEW n \in Invites, n # o.of
      PROVE  invite'[n] = invite[n] /\ (Pending(n)' <=> Pending(n))
  BY <1>3, <1>7 DEF Pending
<1>8. RemovedStaysOut' /\ RemovalsPast'
  BY <1>2, <1>3 DEF Serial, RemovedStaysOut, RemovalsPast
<1>9. PendingFresh'
  BY <1>2, <1>3, <1>5, <1>6, <1>7 DEF Serial, PendingFresh
<1>10. OnePending'
  BY <1>2, <1>5, <1>6, <1>7 DEF Serial, OnePending, PendingFor
<1>11. Welcomed(r)'
  BY <1>2, <1>3, <1>5, <1>6, <1>7 DEF Serial, Welcomed, PendingFor
<1>12. Holds(r)'
  BY <1>4 DEF Holds, Unsent
<1>13. Serial(r)'
  BY <1>8, <1>9, <1>10, <1>11, <1>12 DEF Serial
<1> QED BY <1>4, <1>13 DEF SerialStep

\* MailInvite changes no row.
LEMMA MailInviteSerial ==
  ASSUME StaffAssumption, NEW p \in Requests, SerialTypes(req[p]), Serial(req[p]),
         MailInvite(p)
  PROVE  SerialStep(p)
BY EndsSerial DEF MailInvite, At, rows, history, Pending

\* A request that loads an invitation that works.
LEMMA LoadSerial ==
  ASSUME StaffAssumption, NEW p \in Requests, SerialTypes(req[p]), Serial(req[p]),
         NEW n \in Invites, Pending(n), NEW place \in {"checkEmail", "saveRevoked"},
         Starts(p, [IdleAt(invite[n].email) EXCEPT
                      !.at = place, !.of = n, !.copy = invite[n]]),
         UNCHANGED <<rows, issued, mailed, expired, history>>
  PROVE  SerialStep(p)
<1>1. PICK o \in Request : o = req[p]
  BY DEF SerialTypes
<1>2. SerialTypes(o) /\ Serial(o) /\ o.at = "idle"
  BY <1>1 DEF Starts, At
<1>3. PICK copy \in Invite : copy = invite[n]
  BY <1>2 DEF Pending, SerialTypes, OthersType
<1>4. PICK r \in Request : /\ Goes(p, r)
                           /\ r.at = place
                           /\ r.of = n
                           /\ r.copy = copy
                           /\ r.email = copy.email
  <2> DEFINE b == IdleAt(copy.email)
             s == [b EXCEPT !.at = place, !.of = n, !.copy = copy]
  <2>1. b \in Request /\ b.email = copy.email
    BY <1>3, IdleFields DEF Invite
  <2>2. Goes(p, s)
    BY <1>3 DEF Starts
  <2> HIDE DEF b
  <2>3. place \in Place /\ n \in 0..MaxInvites
    BY DEF Place, Invites
  <2>4. s \in Request /\ s.at = place /\ s.of = n /\ s.copy = copy /\ s.email = copy.email
    BY <2>1, <2>3 DEF Request
  <2> HIDE DEF s
  <2> QED BY <2>2, <2>4
<1>5. UNCHANGED <<invite, staff, removed, issued>>
  BY DEF rows, history
<1>6. Holds(r)'
  BY <1>3, <1>4, <1>5 DEF Holds, Unsent, Pending
<1>7. issued' \in Nat /\ issued <= issued'
  BY <1>2, <1>5 DEF SerialTypes, OthersType
<1>8. \A m \in Invites : Pending(m)' => Pending(m) /\ invite'[m] = invite[m]
  BY <1>5 DEF Pending
<1>9. Serial(r)'
  BY <1>2, <1>5, <1>6, <1>7, <1>8, FewerPending DEF SerialTypes
<1> QED BY <1>4, <1>9 DEF SerialStep

\* CheckEmail changes no row.
LEMMA CheckEmailSerial ==
  ASSUME StaffAssumption, NEW p \in Requests, SerialTypes(req[p]), Serial(req[p]),
         CheckEmail(p)
  PROVE  SerialStep(p)
<1>1. PICK o \in Request : o = req[p]
  BY DEF SerialTypes
<1>2. SerialTypes(o) /\ Serial(o) /\ Holds(o) /\ o.at = "checkEmail"
  BY <1>1 DEF CheckEmail, At, Serial
<1>3. UNCHANGED <<invite, staff, removed, issued>>
  BY DEF CheckEmail, rows, history
<1>4. \A m \in Invites : Pending(m)' => Pending(m) /\ invite'[m] = invite[m]
  BY <1>3 DEF Pending
<1>5. CASE staff[o.email] = Nobody
  <2>1. PICK r \in Request : /\ Goes(p, r)
                             /\ r.at = "create"
                             /\ r.of = o.of
                             /\ r.copy = o.copy
                             /\ r.email = o.email
    BY <1>1, <1>5 DEF CheckEmail, Request, Place
  <2>2. Holds(r)'
    BY <1>2, <1>3, <2>1 DEF Holds, Unsent, Pending
  <2>3. issued' \in Nat /\ issued <= issued'
    BY <1>2, <1>3 DEF SerialTypes, OthersType
  <2>4. Serial(r)'
    BY <1>2, <1>3, <1>4, <2>2, <2>3, FewerPending DEF SerialTypes
  <2> QED BY <2>1, <2>4 DEF SerialStep
<1>6. CASE staff[o.email] # Nobody
  <2>1. Goes(p, Idle)
    BY <1>1, <1>6 DEF CheckEmail
  <2> QED BY <1>1, <1>2, <1>3, <1>4, <2>1, EndsSerial
<1> QED BY <1>5, <1>6

\* CreateStaff: the user comes of an invitation that is newer than the removal, and
\* it is the only one that works.
LEMMA CreateStaffSerial ==
  ASSUME StaffAssumption, NEW p \in Requests, SerialTypes(req[p]), Serial(req[p]),
         CreateStaff(p)
  PROVE  SerialStep(p)
<1>1. PICK o \in Request : o = req[p]
  BY DEF SerialTypes
<1>2. SerialTypes(o) /\ Serial(o) /\ Holds(o) /\ o.at = "create"
  BY <1>1 DEF CreateStaff, At, Serial
<1>3. UNCHANGED <<invite, removed, issued>>
  BY DEF CreateStaff
<1>4. \A m \in Invites : Pending(m)' <=> Pending(m)
  BY <1>3 DEF Pending
<1>5. CASE staff[o.email] = Nobody
  <2>1. o.copy \in Invite /\ o.of \in Invites /\ invite[o.of] = o.copy /\ Pending(o.of)
        /\ o.copy.email = o.email /\ o.email \in Emails
    BY <1>2 DEF SerialTypes, Holds, Request
  <2>2. PICK user \in Staff : /\ user.firm = o.copy.firm
                              /\ user.by = o.of
                              /\ staff' = [staff EXCEPT ![o.email] = user]
                              /\ Goes(p, [o EXCEPT !.at = "saveAccepted", !.user = user])
    <3> DEFINE u == [firm |-> o.copy.firm, by |-> o.of, nth |-> joined[o.of] + 1]
    <3>1. joined[o.of] + 1 \in 1..MaxUsers
      BY <1>1, <1>2, <1>5, <2>1 DEF CreateStaff, SerialTypes, OthersType
    <3>2. u \in Staff
      BY <2>1, <3>1 DEF Staff, Invite
    <3> QED BY <1>1, <1>5, <3>2 DEF CreateStaff
  <2>3. PICK r \in Request : /\ Goes(p, r)
                             /\ r.at = "saveAccepted"
                             /\ r.of = o.of
                             /\ r.copy = o.copy
                             /\ r.email = o.email
                             /\ r.user = user
    <3> DEFINE s == [o EXCEPT !.at = "saveAccepted", !.user = user]
    <3>1. Goes(p, s)
      BY <2>2
    <3>2. s \in Request /\ s.at = "saveAccepted" /\ s.of = o.of /\ s.copy = o.copy
          /\ s.email = o.email /\ s.user = user
      BY DEF Request, Place
    <3> HIDE DEF s
    <3> QED BY <3>1, <3>2
  <2>4. staff'[o.email] = user /\ \A e \in Emails : e # o.email => staff'[e] = staff[e]
    BY <1>2, <2>1, <2>2 DEF SerialTypes, OthersType
  <2>5. removed[o.copy.firm][o.email] < o.of
    BY <1>2, <2>1 DEF Serial, PendingFresh
  <2>6. RemovedStaysOut'
    BY <1>2, <1>3, <2>2, <2>4, <2>5 DEF Serial, RemovedStaysOut
  <2>7. PendingFresh' /\ OnePending' /\ RemovalsPast'
    BY <1>2, <1>3, <1>4 DEF Serial, PendingFresh, OnePending, RemovalsPast, PendingFor
  <2>8. Welcomed(r)'
    <3> SUFFICES ASSUME NEW e \in Emails, NEW n \in Invites, (staff[e] # Nobody)',
                        PendingFor(n, staff[e].firm, e)'
                 PROVE  r.at = "saveAccepted" /\ r.of = n
      BY DEF Welcomed
    <3>1. CASE e = o.email
      <4>1. PendingFor(n, o.copy.firm, e) /\ PendingFor(o.of, o.copy.firm, e)
        BY <1>3, <1>4, <2>1, <2>2, <2>4, <3>1 DEF PendingFor
      <4>2. o.copy.firm \in Firms
        BY <2>1 DEF Invite
      <4> QED BY <1>2, <2>1, <2>3, <4>1, <4>2 DEF Serial, OnePending
    <3>2. CASE e # o.email
      BY <1>2, <1>3, <1>4, <2>4, <3>2 DEF Serial, Welcomed, PendingFor
    <3> QED BY <3>1, <3>2
  <2>9. Holds(r)'
    BY <1>3, <1>4, <2>1, <2>2, <2>3, <2>4 DEF Holds, Unsent
  <2>10. Serial(r)'
    BY <2>6, <2>7, <2>8, <2>9 DEF Serial
  <2> QED BY <2>3, <2>10 DEF SerialStep
<1>6. CASE staff[o.email] # Nobody
  <2>1. Goes(p, Idle) /\ staff' = staff
    BY <1>1, <1>6 DEF CreateStaff
  <2> QED BY <1>1, <1>2, <1>3, <1>4, <2>1, EndsSerial
<1> QED BY <1>5, <1>6

\* SaveAccepted: the invitation that made a member works no more.
LEMMA SaveAcceptedSerial ==
  ASSUME StaffAssumption, NEW p \in Requests, SerialTypes(req[p]), Serial(req[p]),
         SaveAccepted(p)
  PROVE  SerialStep(p)
<1>1. PICK o \in Request : o = req[p]
  BY DEF SerialTypes
<1>2. SerialTypes(o) /\ Holds(o) /\ o.at = "saveAccepted"
  BY <1>1 DEF SaveAccepted, At, Serial
<1>3. o.copy \in Invite /\ o.of \in Invites /\ staff[o.email] = o.user
  BY <1>2 DEF SerialTypes, Holds
<1>4. invite' = [invite EXCEPT ![o.of] = Accepted(o.copy)] /\ Goes(p, Idle)
  BY <1>1, <1>3 DEF SaveAccepted
<1>5. UNCHANGED <<staff, removed, issued>>
  BY DEF SaveAccepted, history
<1>6. Accepted(o.copy).accepted
  BY <1>3 DEF Accepted, Invite
<1>7. invite'[o.of] = Accepted(o.copy)
  BY <1>2, <1>3, <1>4 DEF SerialTypes, OthersType
<1>8. ~Pending(o.of)'
  BY <1>6, <1>7 DEF Pending
<1>9. \A n \in Invites : n # o.of => invite'[n] = invite[n]
  BY <1>4
<1>10. \A n \in Invites : Pending(n)' => Pending(n) /\ invite'[n] = invite[n]
  BY <1>8, <1>9 DEF Pending
<1> QED BY <1>1, <1>4, <1>5, <1>8, <1>10, EndsSerial

\* SaveRevoked: the invitation works no more.
LEMMA SaveRevokedSerial ==
  ASSUME StaffAssumption, NEW p \in Requests, SerialTypes(req[p]), Serial(req[p]),
         SaveRevoked(p)
  PROVE  SerialStep(p)
<1>1. PICK o \in Request : o = req[p]
  BY DEF SerialTypes
<1>2. SerialTypes(o) /\ o.at = "saveRevoked"
  BY <1>1 DEF SaveRevoked, At
<1>3. o.copy \in Invite /\ o.of \in Invites
  BY <1>2 DEF SerialTypes
<1>4. PICK gone \in Invite : gone = [o.copy EXCEPT !.revoked = TRUE] /\ gone.revoked
  <2> DEFINE g == [o.copy EXCEPT !.revoked = TRUE]
  <2>1. g \in Invite /\ g.revoked
    BY <1>3 DEF Invite
  <2> QED BY <2>1
<1>5. invite' = [invite EXCEPT ![o.of] = gone] /\ Goes(p, Idle)
  BY <1>1, <1>4 DEF SaveRevoked
<1>6. UNCHANGED <<staff, removed, issued>>
  BY DEF SaveRevoked, history
<1>7. invite'[o.of] = gone
  BY <1>2, <1>3, <1>5 DEF SerialTypes, OthersType
<1>8. ~Pending(o.of)'
  BY <1>4, <1>7 DEF Pending
<1>9. \A n \in Invites : n # o.of => invite'[n] = invite[n]
  BY <1>5
<1>10. \A n \in Invites : Pending(n)' => Pending(n) /\ invite'[n] = invite[n]
  BY <1>8, <1>9 DEF Pending
<1> QED BY <1>1, <1>2, <1>5, <1>6, <1>10, EndsSerial

\* LoadStaff changes no row.
LEMMA LoadStaffSerial ==
  ASSUME StaffAssumption, NEW p \in Requests, SerialTypes(req[p]), Serial(req[p]),
         NEW e \in Emails, NEW place \in {"saveStaff", "deleteStaff"}, LoadStaff(p, e, place)
  PROVE  SerialStep(p)
<1>1. PICK o \in Request : o = req[p]
  BY DEF SerialTypes
<1>2. SerialTypes(o) /\ Serial(o) /\ o.at = "idle"
  BY <1>1 DEF LoadStaff, Starts, At
<1>3. PICK user \in Staff : user = staff[e]
  BY <1>2 DEF LoadStaff, SerialTypes, OthersType
<1>4. PICK r \in Request : Goes(p, r) /\ r.at = place /\ r.email = e /\ r.user = user
  <2> DEFINE b == IdleAt(e)
             s == [b EXCEPT !.at = place, !.user = user]
  <2>1. b \in Request /\ b.email = e
    BY IdleFields
  <2>2. Goes(p, s)
    BY <1>3 DEF LoadStaff, Starts
  <2> HIDE DEF b
  <2>3. place \in Place
    BY DEF Place
  <2>4. s \in Request /\ s.at = place /\ s.email = e /\ s.user = user
    BY <2>1, <2>3 DEF Request
  <2> HIDE DEF s
  <2> QED BY <2>2, <2>4
<1>5. UNCHANGED <<invite, staff, removed, issued>>
  BY DEF LoadStaff, rows, history
<1>6. Holds(r)'
  BY <1>3, <1>4, <1>5 DEF Holds, Unsent
<1>7. issued' \in Nat /\ issued <= issued'
  BY <1>2, <1>5 DEF SerialTypes, OthersType
<1>8. \A m \in Invites : Pending(m)' => Pending(m) /\ invite'[m] = invite[m]
  BY <1>5 DEF Pending
<1>9. Serial(r)'
  BY <1>2, <1>5, <1>6, <1>7, <1>8, FewerPending DEF SerialTypes
<1> QED BY <1>4, <1>9 DEF SerialStep

\* SaveStaff finds the user it loaded.
LEMMA SaveStaffSerial ==
  ASSUME StaffAssumption, NEW p \in Requests, SerialTypes(req[p]), Serial(req[p]),
         SaveStaff(p)
  PROVE  SerialStep(p)
<1>1. PICK o \in Request : o = req[p]
  BY DEF SerialTypes
<1>2. SerialTypes(o) /\ Holds(o) /\ o.at = "saveStaff"
  BY <1>1 DEF SaveStaff, At, Serial
<1>3. staff[o.email] = o.user /\ o.user # Nobody
  BY <1>2, Distinct DEF Holds, SerialTypes
<1>4. staff' = staff
  BY <1>1, <1>2, <1>3 DEF SaveStaff, SerialTypes, OthersType
<1>5. Goes(p, Idle) /\ UNCHANGED <<invite, removed, issued>>
  BY DEF SaveStaff, history
<1> QED BY <1>1, <1>2, <1>4, <1>5, EndsSerial DEF Pending

\* DeleteStaff: no invitation of the firm to the address works when it removes the
\* member, so none is older than the removal.
LEMMA DeleteStaffSerial ==
  ASSUME StaffAssumption, NEW p \in Requests, SerialTypes(req[p]), Serial(req[p]),
         DeleteStaff(p)
  PROVE  SerialStep(p)
<1>1. PICK o \in Request : o = req[p]
  BY DEF SerialTypes
<1>2. SerialTypes(o) /\ Serial(o) /\ Holds(o) /\ o.at = "deleteStaff"
  BY <1>1 DEF DeleteStaff, At, Serial
<1>3. PICK user \in Staff : user = o.user /\ staff[o.email] = user
  BY <1>2 DEF SerialTypes, Holds
<1>4. user # Nobody /\ user.firm \in Firms /\ o.email \in Emails
  BY <1>3, Distinct DEF Staff, Request
<1>5. /\ staff' = [staff EXCEPT ![o.email] = Nobody]
      /\ removed' = [removed EXCEPT ![user.firm][o.email] = issued]
      /\ Goes(p, Idle)
      /\ UNCHANGED <<invite, issued>>
  BY <1>1, <1>2, <1>3 DEF DeleteStaff, SerialTypes, OthersType
<1>6. \A m \in Invites : Pending(m)' <=> Pending(m)
  BY <1>5 DEF Pending
<1>7. \A n \in Invites : ~PendingFor(n, user.firm, o.email)
  BY <1>2, <1>3, <1>4 DEF Serial, Welcomed
<1>8. staff'[o.email] = Nobody /\ \A e \in Emails : e # o.email => staff'[e] = staff[e]
  BY <1>2, <1>4, <1>5 DEF SerialTypes, OthersType
<1>9. \A f \in Firms, e \in Emails :
        removed'[f][e] = IF f = user.firm /\ e = o.email THEN issued ELSE removed[f][e]
  BY <1>2, <1>4, <1>5 DEF SerialTypes, OthersType
<1>10. RemovedStaysOut'
  <2> SUFFICES ASSUME NEW e \in Emails, staff'[e] # Nobody
               PROVE  staff'[e].by > removed'[staff'[e].firm][e]
    BY DEF RemovedStaysOut
  <2>1. e # o.email /\ staff'[e] = staff[e]
    BY <1>8
  <2>2. staff[e].firm \in Firms
    BY <1>2, <2>1 DEF SerialTypes, OthersType, Staff
  <2> QED BY <1>2, <1>9, <2>1, <2>2 DEF Serial, RemovedStaysOut
<1>11. PendingFresh'
  <2> SUFFICES ASSUME NEW n \in Invites, Pending(n)'
               PROVE  removed'[invite'[n].firm][invite'[n].email] < n
    BY DEF PendingFresh
  <2>1. Pending(n) /\ invite'[n] = invite[n]
    BY <1>5, <1>6
  <2>2. invite[n].firm \in Firms /\ invite[n].email \in Emails
    BY <1>2, <2>1 DEF Pending, SerialTypes, OthersType, Invite
  <2>3. ~(invite[n].firm = user.firm /\ invite[n].email = o.email)
    BY <1>7, <2>1 DEF PendingFor
  <2> QED BY <1>2, <1>9, <2>1, <2>2, <2>3 DEF Serial, PendingFresh
<1>12. OnePending'
  BY <1>2, <1>5, <1>6 DEF Serial, OnePending, PendingFor
<1>13. RemovalsPast'
  BY <1>2, <1>5, <1>9 DEF Serial, RemovalsPast, SerialTypes, OthersType
<1>14. PICK r \in Request : r = Idle /\ r.at = "idle"
  <2>1. (CHOOSE e \in Emails : TRUE) \in Emails
    OBVIOUS
  <2> QED BY <2>1, IdleFields DEF Idle
<1>15. Welcomed(r)'
  BY <1>2, <1>5, <1>6, <1>8 DEF Serial, Welcomed, PendingFor
<1>16. Holds(r)'
  BY <1>14 DEF Holds, Unsent
<1>17. Serial(r)'
  BY <1>10, <1>11, <1>12, <1>13, <1>15, <1>16 DEF Serial
<1> QED BY <1>5, <1>14, <1>17 DEF SerialStep

\* Between two requests nobody is staff, again, by an invitation that is older than
\* the last removal, every invitation that works is newer than it, and a firm has
\* one for an address at most (invite, acceptInvite and removeStaff).
THEOREM SerialInvariance ==
  ASSUME StaffAssumption, NEW CONSTANT p, Requests = {p}, ~Faults
  PROVE  Spec => []Serial(req[p])
<1>1. Init => Serial(req[p])
  BY InitSerial
<1>2. IInv /\ Serial(req[p]) /\ [Next]_vars => Serial(req[p])'
  <2> SUFFICES ASSUME IInv, Serial(req[p]), [Next]_vars
               PROVE  Serial(req[p])'
    OBVIOUS
  <2>1. SerialTypes(req[p])
    BY SerialTyped
  <2>2. CASE Begin(p) \/ Continue(p)
    <3>1. ~Stop(p) /\ ~MailFails(p) /\ ~DropInvite(p)
      BY DEF Stop, MailFails, DropInvite, At, Serial, Holds
    <3>2. SerialStep(p)
      <4>1. CASE Begin(p)
        BY <2>1, <4>1, InviteStaffSerial, LoadSerial, LoadStaffSerial
           DEF Begin, AcceptInvite, CancelInvite
      <4>2. CASE Continue(p)
        BY <2>1, <3>1, <4>2, RevokePendingSerial, SaveInviteSerial, MailInviteSerial,
           CheckEmailSerial, CreateStaffSerial, SaveAcceptedSerial, SaveRevokedSerial,
           SaveStaffSerial, DeleteStaffSerial DEF Continue
      <4> QED BY <2>2, <4>1, <4>2
    <3>3. PICK r \in Request : Goes(p, r) /\ Serial(r)'
      BY <3>2 DEF SerialStep
    <3>4. req'[p] = r
      BY <3>3 DEF Goes, IInv
    <3> QED BY <3>3, <3>4
  <2>3. CASE (\E n \in Invites : Expires(n)) \/ UNCHANGED vars
    <3>1. UNCHANGED <<invite, staff, issued, removed, req>>
      BY <2>3 DEF Expires, vars, rows, history
    <3> QED BY <3>1 DEF Serial, RemovedStaysOut, PendingFresh, OnePending, PendingFor, Pending,
            RemovalsPast, Welcomed, Holds
  <2> QED BY <2>2, <2>3 DEF Next
<1> QED BY <1>1, <1>2, Invariance, PTL DEF Spec

\* Who was removed from a firm is in it again only by an invitation the firm made
\* since (removeStaff), when requests run one at a time and none fails or stops.
THEOREM RemovedCorrect ==
  ASSUME StaffAssumption, NEW CONSTANT p, Requests = {p}, ~Faults
  PROVE  Spec => []RemovedStaysOut
<1>1. Serial(req[p]) => RemovedStaysOut
  BY DEF Serial
<1> QED BY <1>1, SerialInvariance, PTL
=============================================================================
