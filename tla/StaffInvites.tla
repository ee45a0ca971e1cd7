---------------------------- MODULE StaffInvites ----------------------------
(***************************************************************************)
(* The staff of firms: invitations by mail, their acceptance with a new    *)
(* user, their cancellation, and the changes and removal of staff          *)
(* (team.service.ts, with what it calls of users.service.ts).              *)
(*                                                                         *)
(* Each action is what a request does between two awaits.  A save writes   *)
(* the row back as it was loaded, and inserts it again when it is gone.    *)
(***************************************************************************)
EXTENDS Naturals

CONSTANTS Requests,     \* request slots: how many run at once
          Firms,
          Emails,       \* addresses of people who are invited
          MaxInvites,   \* bound on the invitations
          MaxUsers,     \* bound on the users one invitation makes
          Faults        \* TRUE when mails fail and requests stop

VARIABLES invite,    \* the staff_invites rows
          issued,    \* number of invitations begun
          mailed,    \* those whose link reached its address
          expired,   \* those whose seven days are over
          staff,     \* the staff member with each address, if any
          joined,    \* number of users each invitation made
          removed,   \* how many invitations were begun when each was last removed
          req        \* the requests in progress

rows    == <<invite, staff>>
history == <<joined, removed>>
vars    == <<rows, issued, mailed, expired, history, req>>

-----------------------------------------------------------------------------
(* Types.                                                                  *)

Invites == 1..MaxInvites

Invite == [firm : Firms, email : Emails, accepted : BOOLEAN, revoked : BOOLEAN]

NoInvite == [firm |-> "none"]

\* A user is known by the invitation it came from, and which of its users it is.
Staff == [firm : Firms, by : Invites, nth : 1..MaxUsers]

Nobody == [firm |-> "none"]

Place == {"idle", "revoke", "saveInvite", "mail", "drop", "checkEmail", "create",
          "saveAccepted", "saveRevoked", "saveStaff", "deleteStaff"}

Request == [at    : Place,
            of    : 0..MaxInvites,             \* the invitation it is about
            copy  : Invite \cup {NoInvite},    \* ... as loaded, or to be saved
            email : Emails,
            user  : Staff \cup {Nobody}]       \* the user, as loaded or created

IdleAt(e) == [at |-> "idle", of |-> 0, copy |-> NoInvite, email |-> e, user |-> Nobody]

Idle == IdleAt(CHOOSE e \in Emails : TRUE)

Init ==
  /\ invite = [n \in Invites |-> NoInvite]
  /\ issued = 0
  /\ mailed = {}
  /\ expired = {}
  /\ staff = [e \in Emails |-> Nobody]
  /\ joined = [n \in Invites |-> 0]
  /\ removed = [f \in Firms |-> [e \in Emails |-> 0]]
  /\ req = [p \in Requests |-> Idle]

-----------------------------------------------------------------------------
(* Requests.                                                               *)

At(p, place) == req[p].at = place

Goes(p, r) == req' = [req EXCEPT ![p] = r]

Starts(p, r) == At(p, "idle") /\ Goes(p, r)

\* Neither accepted nor revoked.
Pending(n) == invite[n] # NoInvite /\ ~invite[n].accepted /\ ~invite[n].revoked

-----------------------------------------------------------------------------
(* Inviting.                                                               *)

\* invite: no user has the address.  Bound: MaxInvites.
InviteStaff(p, f, e) ==
  /\ issued < MaxInvites
  /\ staff[e] = Nobody
  /\ issued' = issued + 1
  /\ Starts(p, [IdleAt(e) EXCEPT
                  !.at = "revoke", !.of = issued + 1,
                  !.copy = [firm |-> f, email |-> e, accepted |-> FALSE, revoked |-> FALSE]])
  /\ UNCHANGED <<rows, mailed, expired, history>>

\* Mutant: only invitations that have expired are revoked.
WithdrawnIfExpired(f, e) ==
  [n \in Invites |-> IF Pending(n) /\ invite[n].firm = f /\ invite[n].email = e /\ n \in expired
                       THEN [invite[n] EXCEPT !.revoked = TRUE] ELSE invite[n]]

\* The pending invitations of the firm to the address are revoked.
Withdrawn(f, e) ==
  [n \in Invites |-> IF Pending(n) /\ invite[n].firm = f /\ invite[n].email = e
                       THEN [invite[n] EXCEPT !.revoked = TRUE] ELSE invite[n]]

RevokePending(p) ==
  /\ At(p, "revoke")
  /\ invite' = Withdrawn(req[p].copy.firm, req[p].email)
  /\ Goes(p, [req[p] EXCEPT !.at = "saveInvite"])
  /\ UNCHANGED <<staff, issued, mailed, expired, history>>

SaveInvite(p) ==
  /\ At(p, "saveInvite")
  /\ invite' = [invite EXCEPT ![req[p].of] = req[p].copy]
  /\ Goes(p, [req[p] EXCEPT !.at = "mail"])
  /\ UNCHANGED <<staff, issued, mailed, expired, history>>

MailInvite(p) ==
  /\ At(p, "mail")
  /\ mailed' = mailed \cup {req[p].of}
  /\ Goes(p, Idle)
  /\ UNCHANGED <<rows, issued, expired, history>>

\* The sending fails, though the mail may have gone out.
MailFails(p) ==
  /\ Faults
  /\ At(p, "mail")
  /\ mailed' \in {mailed, mailed \cup {req[p].of}}
  /\ Goes(p, [req[p] EXCEPT !.at = "drop"])
  /\ UNCHANGED <<rows, issued, expired, history>>

DropInvite(p) ==
  /\ At(p, "drop")
  /\ invite' = [invite EXCEPT ![req[p].of] = NoInvite]
  /\ Goes(p, Idle)
  /\ UNCHANGED <<staff, issued, mailed, expired, history>>

-----------------------------------------------------------------------------
(* Accepting and cancelling.                                               *)

\* acceptInvite: findValidPendingInvite.
AcceptInvite(p, n) ==
  /\ n \in mailed \ expired
  /\ Pending(n)
  /\ Starts(p, [IdleAt(invite[n].email) EXCEPT !.at = "checkEmail", !.of = n, !.copy = invite[n]])
  /\ UNCHANGED <<rows, issued, mailed, expired, history>>

\* emailExists
CheckEmail(p) ==
  /\ At(p, "checkEmail")
  /\ Goes(p, IF staff[req[p].email] = Nobody THEN [req[p] EXCEPT !.at = "create"] ELSE Idle)
  /\ UNCHANGED <<rows, issued, mailed, expired, history>>

\* The password is hashed and the user created, unless the address is taken now:
\* it is unique.  Bound: MaxUsers of one invitation.
CreateStaff(p) ==
  LET r == req[p]
      user == [firm |-> r.copy.firm, by |-> r.of, nth |-> joined[r.of] + 1]
  IN /\ At(p, "create")
     /\ IF staff[r.email] = Nobody
          THEN /\ joined[r.of] < MaxUsers
               /\ staff' = [staff EXCEPT ![r.email] = user]
               /\ joined' = [joined EXCEPT ![r.of] = @ + 1]
               /\ Goes(p, [r EXCEPT !.at = "saveAccepted", !.user = user])
          ELSE Goes(p, Idle) /\ UNCHANGED <<staff, joined>>
     /\ UNCHANGED <<invite, issued, mailed, expired, removed>>

\* Mutant: the invitation is not marked.
AcceptedUnmarked(copy) == copy

Accepted(copy) == [copy EXCEPT !.accepted = TRUE]

\* The save fails when the user it refers to was removed meanwhile.
SaveAccepted(p) ==
  LET r == req[p]
  IN /\ At(p, "saveAccepted")
     /\ invite' = IF staff[r.email] = r.user
                    THEN [invite EXCEPT ![r.of] = Accepted(r.copy)] ELSE invite
     /\ Goes(p, Idle)
     /\ UNCHANGED <<staff, issued, mailed, expired, history>>

CancelInvite(p, n) ==
  /\ Pending(n)
  /\ Starts(p, [IdleAt(invite[n].email) EXCEPT !.at = "saveRevoked", !.of = n, !.copy = invite[n]])
  /\ UNCHANGED <<rows, issued, mailed, expired, history>>

SaveRevoked(p) ==
  /\ At(p, "saveRevoked")
  /\ invite' = [invite EXCEPT ![req[p].of] = [req[p].copy EXCEPT !.revoked = TRUE]]
  /\ Goes(p, Idle)
  /\ UNCHANGED <<staff, issued, mailed, expired, history>>

-----------------------------------------------------------------------------
(* Staff.                                                                  *)

\* updatePermissions, removeStaff: requireTenantUser.  That the member is active goes
\* without saying: users are created so, and no code clears the column.
LoadStaff(p, e, place) ==
  /\ staff[e] # Nobody
  /\ Starts(p, [IdleAt(e) EXCEPT !.at = place, !.user = staff[e]])
  /\ UNCHANGED <<rows, issued, mailed, expired, history>>

\* A user that is gone is inserted again, unless its address has another now.
SaveStaff(p) ==
  LET r == req[p]
  IN /\ At(p, "saveStaff")
     /\ staff' = [staff EXCEPT ![r.email] = IF @ = Nobody THEN r.user ELSE @]
     /\ Goes(p, Idle)
     /\ UNCHANGED <<invite, issued, mailed, expired, history>>

\* After clients, chase logs and the mailbox of the user are taken care of.
DeleteStaff(p) ==
  LET r == req[p]
  IN /\ At(p, "deleteStaff")
     /\ staff' = [staff EXCEPT ![r.email] = IF @ = r.user THEN Nobody ELSE @]
     /\ removed' = [removed EXCEPT ![r.user.firm][r.email] = issued]
     /\ Goes(p, Idle)
     /\ UNCHANGED <<invite, issued, mailed, expired, joined>>

-----------------------------------------------------------------------------
(* What the code does not decide.                                          *)

Expires(n) ==
  /\ invite[n] # NoInvite
  /\ expired' = expired \cup {n}
  /\ UNCHANGED <<rows, issued, mailed, history, req>>

\* The process stops, or the database fails the request.
Stop(p) ==
  /\ Faults
  /\ ~At(p, "idle")
  /\ Goes(p, Idle)
  /\ UNCHANGED <<rows, issued, mailed, expired, history>>

-----------------------------------------------------------------------------
(* The system.                                                             *)

Begin(p) ==
  \/ \E f \in Firms, e \in Emails : InviteStaff(p, f, e)
  \/ \E n \in Invites : AcceptInvite(p, n) \/ CancelInvite(p, n)
  \/ \E e \in Emails, place \in {"saveStaff", "deleteStaff"} : LoadStaff(p, e, place)

Continue(p) ==
  \/ RevokePending(p)
  \/ SaveInvite(p)
  \/ MailInvite(p)
  \/ MailFails(p)
  \/ DropInvite(p)
  \/ CheckEmail(p)
  \/ CreateStaff(p)
  \/ SaveAccepted(p)
  \/ SaveRevoked(p)
  \/ SaveStaff(p)
  \/ DeleteStaff(p)
  \/ Stop(p)

Next ==
  \/ \E p \in Requests : Begin(p) \/ Continue(p)
  \/ \E n \in Invites : Expires(n)

Spec == Init /\ [][Next]_vars

-----------------------------------------------------------------------------
(* Properties.                                                             *)

\* Every variable holds a value of its type.
TypeOK ==
  /\ invite \in [Invites -> Invite \cup {NoInvite}]
  /\ issued \in 0..MaxInvites
  /\ mailed \subseteq Invites
  /\ expired \subseteq Invites
  /\ staff \in [Emails -> Staff \cup {Nobody}]
  /\ joined \in [Invites -> 0..MaxUsers]
  /\ removed \in [Firms -> [Emails -> 0..MaxInvites]]
  /\ req \in [Requests -> Request]

\* An invitation that was accepted, revoked or dropped never works again,
\* however the saves of whole rows in acceptInvite and cancelInvite overlap.
SpentStaysSpent ==
  [][\A n \in Invites : n \in mailed /\ ~Pending(n) => ~Pending(n)']_vars

\* Who was removed from a firm is in it again only by an invitation the firm
\* made since, as long as requests run one at a time and none stops: otherwise
\* the invitation is still pending that made the user, or a change of
\* permissions inserts the user again.
RemovedStaysOut ==
  \A e \in Emails : staff[e] # Nobody => staff[e].by > removed[staff[e].firm][e]
=============================================================================
