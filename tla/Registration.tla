---------------------------- MODULE Registration ----------------------------
(***************************************************************************)
(* How firms come and go: a registration makes a firm, its trial and its   *)
(* owner, a free trial is given once to a company's mail domain, support   *)
(* clears a domain or purges a firm (register of auth.service.ts, the      *)
(* trials of billing.service.ts, purgeFirmByEmail of admin.service.ts).    *)
(*                                                                         *)
(* Each action is what a request does between two awaits.                  *)
(***************************************************************************)
EXTENDS Naturals, FiniteSets

CONSTANTS Requests,    \* request slots: how many run at once
          Domains,     \* mail domains
          Public,      \* those of public mailboxes
          Names,       \* of the people with an address in each
          MaxFirms,    \* bound on the firms created
          Faults       \* TRUE when a request may stop at any await

VARIABLES tenant,    \* the firms' rows
          created,   \* number of firms created
          user,      \* the users' rows, by their address
          lock,      \* trial_email_domains: the firm of each domain's trial
          cleared,   \* domains whose lock support removed
          departed,  \* domains where an account was deleted
          req        \* the requests in progress

vars == <<tenant, created, user, lock, cleared, departed, req>>

-----------------------------------------------------------------------------
(* Types.                                                                  *)

Firms == 1..MaxFirms

Emails == Domains \X Names

Domain(e) == e[1]

\* "trial" is the domain the trial was started for, kept when the trial is over.
NoFirm == [there |-> FALSE, trial |-> "none"]
Firm == [there : {TRUE}, trial : Domains \cup {"none"}]

\* A user softly deleted keeps its address.
User == [firm : Firms, deleted : BOOLEAN]
NoUser == [firm |-> 0, deleted |-> FALSE]

Place == {"idle", "domain", "tenant", "lock", "trial", "user", "unlock", "purge"}

Request == [at    : Place,
            email : Emails,
            firm  : 0..MaxFirms]

IdleAt(e) == [at |-> "idle", email |-> e, firm |-> 0]

Idle == IdleAt(CHOOSE e \in Emails : TRUE)

Init ==
  /\ tenant = [t \in Firms |-> NoFirm]
  /\ created = 0
  /\ user = [e \in Emails |-> NoUser]
  /\ lock = [d \in Domains |-> 0]
  /\ cleared = {}
  /\ departed = {}
  /\ req = [p \in Requests |-> Idle]

-----------------------------------------------------------------------------
(* Registering.                                                            *)

At(p, place) == req[p].at = place

Goes(p, r) == req' = [req EXCEPT ![p] = r]

GoesTo(p, place) == Goes(p, [req[p] EXCEPT !.at = place])

\* isCorporateTrialDomain
Corporate(d) == d \notin Public

\* register: emailExists does not see a user softly deleted.
Register(p, e) ==
  /\ At(p, "idle")
  /\ user[e] = NoUser \/ user[e].deleted
  /\ Goes(p, [IdleAt(e) EXCEPT !.at = "domain"])
  /\ UNCHANGED <<tenant, created, user, lock, cleared, departed>>

\* assertTrialDomainAvailable
CheckDomain(p) ==
  /\ At(p, "domain")
  /\ LET d == Domain(req[p].email)
     IN IF Corporate(d) /\ lock[d] # 0 THEN Goes(p, Idle) ELSE GoesTo(p, "tenant")
  /\ UNCHANGED <<tenant, created, user, lock, cleared, departed>>

\* TenantsService.create.  Bound: MaxFirms.
SaveTenant(p) ==
  /\ At(p, "tenant")
  /\ created < MaxFirms
  /\ created' = created + 1
  /\ tenant' = [tenant EXCEPT ![created + 1] = [there |-> TRUE, trial |-> "none"]]
  /\ Goes(p, [req[p] EXCEPT !.at = IF Corporate(Domain(req[p].email)) THEN "lock" ELSE "trial",
                            !.firm = created + 1])
  /\ UNCHANGED <<user, lock, cleared, departed>>

\* Mutant: the lock that is there goes to the later firm.
LockedAgain(d, t) == {[lock EXCEPT ![d] = t]}

\* The insertion of a lock fails when the domain, which is unique, has one.
Locked(d, t) == IF lock[d] = 0 THEN {[lock EXCEPT ![d] = t]} ELSE {}

SaveLock(p) ==
  LET d == Domain(req[p].email)
      locked == Locked(d, req[p].firm)
  IN /\ At(p, "lock")
     /\ IF locked = {}
          THEN Goes(p, Idle) /\ UNCHANGED lock
          ELSE GoesTo(p, "trial") /\ lock' \in locked
     /\ UNCHANGED <<tenant, created, user, cleared, departed>>

\* startTrialForNewTenant saves the firm.
SaveTrial(p) ==
  LET r == req[p]
  IN /\ At(p, "trial")
     /\ tenant' = [tenant EXCEPT ![r.firm] = [there |-> TRUE, trial |-> Domain(r.email)]]
     /\ GoesTo(p, "user")
     /\ UNCHANGED <<created, user, lock, cleared, departed>>

\* A user with the address, softly deleted or made meanwhile, lets this fail.
UserMade(r) ==
  [user EXCEPT ![r.email] = IF @ = NoUser THEN [firm |-> r.firm, deleted |-> FALSE] ELSE @]

CreateUser(p) ==
  /\ At(p, "user")
  /\ user' = UserMade(req[p])
  /\ Goes(p, Idle)
  /\ UNCHANGED <<tenant, created, lock, cleared, departed>>

-----------------------------------------------------------------------------
(* Support.                                                                *)

\* clearTrialDomain finds the lock, and removes it.
ClearDomain(p, d) ==
  /\ At(p, "idle")
  /\ lock[d] # 0
  /\ \E e \in Emails :
       Domain(e) = d /\ Goes(p, [IdleAt(e) EXCEPT !.at = "unlock", !.firm = lock[d]])
  /\ UNCHANGED <<tenant, created, user, lock, cleared, departed>>

RemoveLock(p) ==
  LET d == Domain(req[p].email)
  IN /\ At(p, "unlock")
     /\ lock' = [lock EXCEPT ![d] = IF @ = req[p].firm THEN 0 ELSE @]
     /\ cleared' = cleared \cup {d}
     /\ Goes(p, Idle)
     /\ UNCHANGED <<tenant, created, user, departed>>

\* purgeFirmByEmail finds a user of the firm, softly deleted or not.
PurgeFirm(p, e) ==
  /\ At(p, "idle")
  /\ user[e] # NoUser
  /\ tenant[user[e].firm].there
  /\ Goes(p, [IdleAt(e) EXCEPT !.at = "purge", !.firm = user[e].firm])
  /\ UNCHANGED <<tenant, created, user, lock, cleared, departed>>

\* Mutant: the firm's lock stays.
LockLeft(d, t) == lock

\* The locks left.  The domain is that of the address support gave: of a staff
\* member's address, it may be another firm's.
Unlocked(d, t) == [x \in Domains |-> IF x = d \/ lock[x] = t THEN 0 ELSE lock[x]]

\* The transaction.
Purge(p) ==
  LET t == req[p].firm
      d == Domain(req[p].email)
  IN /\ At(p, "purge")
     /\ tenant' = [tenant EXCEPT ![t] = NoFirm]
     /\ user' = [e \in Emails |-> IF user[e].firm = t THEN NoUser ELSE user[e]]
     /\ lock' = Unlocked(d, t)
     /\ cleared' = cleared \cup {d}
     /\ Goes(p, Idle)
     /\ UNCHANGED <<created, departed>>

-----------------------------------------------------------------------------
(* What the rest of the system does.                                       *)

\* A staff member joins (StaffInvites).
Join(p, e, t) ==
  /\ At(p, "idle")
  /\ user[e] = NoUser
  /\ \E o \in Emails : user[o].firm = t /\ ~user[o].deleted
  /\ user' = [user EXCEPT ![e] = [firm |-> t, deleted |-> FALSE]]
  /\ UNCHANGED <<tenant, created, lock, cleared, departed, req>>

\* An owner's account is deleted (AccountDeletion).
DeleteAccount(p, e) ==
  /\ At(p, "idle")
  /\ user[e] # NoUser
  /\ user' = [user EXCEPT ![e].deleted = TRUE]
  /\ departed' = departed \cup {Domain(e)}
  /\ UNCHANGED <<tenant, created, lock, cleared, req>>

\* The process stops, or the database fails the request.
Stop(p) ==
  /\ Faults
  /\ ~At(p, "idle")
  /\ Goes(p, Idle)
  /\ UNCHANGED <<tenant, created, user, lock, cleared, departed>>

-----------------------------------------------------------------------------
(* The system.                                                             *)

Begin(p) ==
  \/ \E e \in Emails : \/ Register(p, e)
                       \/ PurgeFirm(p, e)
                       \/ DeleteAccount(p, e)
                       \/ \E t \in Firms : Join(p, e, t)
  \/ \E d \in Domains : ClearDomain(p, d)

Continue(p) ==
  \/ CheckDomain(p)
  \/ SaveTenant(p)
  \/ SaveLock(p)
  \/ SaveTrial(p)
  \/ CreateUser(p)
  \/ RemoveLock(p)
  \/ Purge(p)
  \/ Stop(p)

Next == \E p \in Requests : Begin(p) \/ Continue(p)

Spec == Init /\ [][Next]_vars

-----------------------------------------------------------------------------
(* Properties.                                                             *)

\* Every variable holds a value of its type.
TypeOK ==
  /\ tenant \in [Firms -> Firm \cup {NoFirm}]
  /\ created \in 0..MaxFirms
  /\ user \in [Emails -> User \cup {NoUser}]
  /\ lock \in [Domains -> 0..MaxFirms]
  /\ cleared \subseteq Domains
  /\ departed \subseteq Domains
  /\ req \in [Requests -> Request]

\* A company's domain has one firm that had its free trial, whatever overlaps or
\* stops: of two registrations that both find the domain free, one fails on the
\* lock.  Only support lets a domain have another.
OneTrialADomain ==
  \A t, u \in Firms :
    /\ t # u
    /\ tenant[t].trial = tenant[u].trial
    /\ tenant[t].trial \in Domains \ Public
    => tenant[t].trial \in cleared

\* A lock belongs to a firm that someone can sign in to or support can find: a
\* registration that fails must not lock its domain out, as long as requests run
\* one at a time, none stops, and no account of the domain was deleted (whose
\* address is free to emailExists and taken to the users table).
LockHasFirm ==
  \A d \in Domains \ departed :
    /\ lock[d] # 0
    /\ \A p \in Requests : At(p, "idle")
    => \E e \in Emails : user[e].firm = lock[d]
=============================================================================
