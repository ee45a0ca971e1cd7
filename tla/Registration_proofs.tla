------------------------ MODULE Registration_proofs ------------------------
(***************************************************************************)
(* Proofs about Registration, for every number of requests, domains, names *)
(* and firms, with or without stops.                                       *)
(*                                                                         *)
(* OneTrialADomain is not inductive: it needs that a company's trial comes *)
(* with the lock of its domain (Granted), also when its request has yet to *)
(* save it.  A purge takes a lock away from the firm it removes; that no   *)
(* request goes on to save that firm is known because a firm in the making *)
(* has no user (GoodRequest), and a purge finds a firm by its user.        *)
(*                                                                         *)
(* The last part takes one request at a time and no stop, which is what    *)
(* LockHasFirm needs: a firm that holds a lock then has a user, or the     *)
(* request that is making it goes on to make one.                          *)
(***************************************************************************)
EXTENDS Registration, TLAPS

-----------------------------------------------------------------------------
\* What the proofs assume of the constants.
RegistrationAssumption == /\ Domains # {} /\ "none" \notin Domains
                          /\ Names # {}
                          /\ MaxFirms \in Nat

USE DEF RegistrationAssumption

-----------------------------------------------------------------------------
(* The inductive invariant.                                                *)

\* The firm has the lock of the domain, unless support removed it.
Granted(d, t) == lock[d] = t \/ d \in cleared

\* Each company's trial is granted.
Kept == \A t \in Firms : tenant[t].trial \in Domains \ Public => Granted(tenant[t].trial, t)

\* The places of a request that makes a firm.
Making == {"lock", "trial", "user"}

\* What a request in progress holds.
GoodRequest(r) ==
  /\ r \in Request
  /\ r.at \in Making => \A e \in Emails : user[e].firm # r.firm
  /\ r.at \in Making \cup {"purge"} => r.firm \in Firms /\ r.firm <= created
  /\ r.at = "trial" /\ Corporate(Domain(r.email)) => Granted(Domain(r.email), r.firm)

\* Two requests make two firms, and none is purged that is being made.
MakersDiffer ==
  \A p, q \in Requests :
    p # q /\ req[p].at \in Making /\ req[q].at \in Making \cup {"purge"}
      => req[p].firm # req[q].firm

UsersCreated == \A e \in Emails : user[e].firm <= created

\* The variables whose type is preserved by itself.
OthersType ==
  /\ tenant \in [Firms -> Firm \cup {NoFirm}]
  /\ created \in 0..MaxFirms
  /\ user \in [Emails -> User \cup {NoUser}]
  /\ lock \in [Domains -> 0..MaxFirms]
  /\ cleared \subseteq Domains
  /\ departed \subseteq Domains

\* The inductive invariant.
IInv ==
  /\ OthersType
  /\ Kept
  /\ UsersCreated
  /\ req \in [Requests -> Request]
  /\ \A p \in Requests : GoodRequest(req[p])
  /\ MakersDiffer

-----------------------------------------------------------------------------
(* Lemmas.                                                                 *)

\* An address has a domain.
LEMMA DomainType == ASSUME RegistrationAssumption, NEW e \in Emails PROVE Domain(e) \in Domains
BY DEF Emails, Domain

\* The type of a user that is stored.
LEMMA UserType ==
  ASSUME RegistrationAssumption,
         OthersType, NEW e \in Emails
  PROVE  /\ user[e].firm \in 0..MaxFirms
         /\ user[e] # NoUser => user[e] \in User /\ user[e].firm \in Firms
BY DEF OthersType, User, NoUser, Firms

\* A request that is over has its type.
LEMMA IdleType ==
  ASSUME RegistrationAssumption,
         NEW e \in Emails
  PROVE  IdleAt(e) \in Request /\ IdleAt(e).at = "idle" /\ IdleAt(e).email = e
BY DEF IdleAt, Request, Place

\* ... and holds nothing.
LEMMA IdleIsGood ==
  ASSUME RegistrationAssumption PROVE Idle \in Request /\ Idle.at = "idle"
<1>1. PICK d \in Domains, n \in Names : TRUE
  OBVIOUS
<1>2. <<d, n>> \in Emails
  BY DEF Emails
<1>3. (CHOOSE e \in Emails : TRUE) \in Emails
  BY <1>2
<1> QED BY <1>3, IdleType DEF Idle

\* A request that changes only its place.
LEMMA MovedType ==
  ASSUME RegistrationAssumption,
         NEW r \in Request, NEW place \in Place
  PROVE  /\ [r EXCEPT !.at = place] \in Request
         /\ [r EXCEPT !.at = place].at = place
         /\ [r EXCEPT !.at = place].firm = r.firm
         /\ [r EXCEPT !.at = place].email = r.email
BY DEF Request

\* A step of one request keeps the invariant when what it leaves is good, and so
\* are the others.
LEMMA RequestStep ==
  ASSUME RegistrationAssumption,
         IInv, OthersType', Kept', UsersCreated',
         NEW p \in Requests, NEW r, req' = [req EXCEPT ![p] = r], GoodRequest(r)',
         \A q \in Requests \ {p} : GoodRequest(req[q])',
         r.at \in Making \cup {"purge"} =>
           \/ req[p].at \in Making /\ r.at \in Making /\ r.firm = req[p].firm
           \/ \A q \in Requests \ {p} :
                req[q].at \in Making \cup {"purge"} /\ (r.at \in Making \/ req[q].at \in Making)
                  => req[q].firm # r.firm
  PROVE  IInv'
<1>1. req' \in [Requests -> Request]
  BY DEF IInv, GoodRequest
<1>2. ASSUME NEW q \in Requests PROVE GoodRequest(req[q])'
  <2>1. CASE q = p
    <3>1. req'[q] = r
      BY <2>1 DEF IInv
    <3> QED BY <3>1 DEF GoodRequest
  <2> QED BY <2>1
<1>3. MakersDiffer'
  BY DEF IInv, MakersDiffer
<1> QED BY <1>1, <1>2, <1>3 DEF IInv

\* A step of one request that leaves firms, users and locks as they are.
LEMMA QuietStep ==
  ASSUME RegistrationAssumption,
         IInv, UNCHANGED <<tenant, created, user, lock, cleared, departed>>,
         NEW p \in Requests, NEW r, req' = [req EXCEPT ![p] = r], GoodRequest(r),
         r.at \in Making \cup {"purge"} =>
           \/ req[p].at \in Making /\ r.at \in Making /\ r.firm = req[p].firm
           \/ \A q \in Requests \ {p} :
                req[q].at \in Making \cup {"purge"} /\ (r.at \in Making \/ req[q].at \in Making)
                  => req[q].firm # r.firm
  PROVE  IInv'
<1>1. OthersType' /\ Kept' /\ UsersCreated'
  BY DEF IInv, OthersType, Kept, Granted, UsersCreated
<1>2. GoodRequest(r)'
  BY DEF GoodRequest, Granted
<1>3. \A q \in Requests \ {p} : GoodRequest(req[q])'
  BY DEF IInv, GoodRequest, Granted
<1> QED BY <1>1, <1>2, <1>3, RequestStep

\* A request that ends preserves the invariant.
LEMMA EndStep ==
  ASSUME RegistrationAssumption,
         IInv, UNCHANGED <<tenant, created, user, lock, cleared, departed>>,
         NEW p \in Requests, Goes(p, Idle)
  PROVE  IInv'
BY IdleIsGood, QuietStep DEF Goes, GoodRequest, Making

-----------------------------------------------------------------------------
(* The first state, and the steps of a registration.                       *)

\* No firm, user or lock yet.
LEMMA InitGood ==
  ASSUME RegistrationAssumption PROVE Init => IInv
<1> SUFFICES ASSUME Init PROVE IInv
  OBVIOUS
<1>1. Idle \in Request /\ Idle.at = "idle"
  BY IdleIsGood
<1>2. OthersType
  BY DEF Init, OthersType
<1>3. Kept
  BY DEF Init, Kept, NoFirm
<1>4. UsersCreated
  BY DEF Init, UsersCreated, NoUser
<1>5. req \in [Requests -> Request] /\ \A p \in Requests : GoodRequest(req[p])
  BY <1>1 DEF Init, GoodRequest, Making
<1>6. MakersDiffer
  BY <1>1 DEF Init, MakersDiffer, Making
<1> QED BY <1>2, <1>3, <1>4, <1>5, <1>6 DEF IInv

\* Register preserves the invariant.
LEMMA RegisterStep ==
  ASSUME RegistrationAssumption,
         IInv, NEW p \in Requests, NEW e \in Emails, Register(p, e)
  PROVE  IInv'
<1> DEFINE b == IdleAt(e)
           r == [b EXCEPT !.at = "domain"]
<1>1. b \in Request
  BY IdleType
<1>2. req' = [req EXCEPT ![p] = r]
  BY DEF Register, Goes
<1> HIDE DEF b
<1>3. r \in Request /\ r.at = "domain"
  BY <1>1, MovedType DEF Place
<1> HIDE DEF r
<1>4. GoodRequest(r)
  BY <1>3 DEF GoodRequest, Making
<1> QED BY <1>2, <1>3, <1>4, QuietStep DEF Register, Making

\* CheckDomain preserves the invariant.
LEMMA CheckDomainStep ==
  ASSUME RegistrationAssumption,
         IInv, NEW p \in Requests, CheckDomain(p)
  PROVE  IInv'
<1> DEFINE r == [req[p] EXCEPT !.at = "tenant"]
<1>1. req[p] \in Request
  BY DEF IInv
<1>2. r \in Request /\ r.at = "tenant"
  BY <1>1, MovedType DEF Place
<1>3. CASE Goes(p, Idle)
  BY <1>3, EndStep DEF CheckDomain
<1>4. CASE GoesTo(p, "tenant")
  <2>1. req' = [req EXCEPT ![p] = r]
    BY <1>4 DEF GoesTo, Goes
  <2> HIDE DEF r
  <2>2. GoodRequest(r)
    BY <1>2 DEF GoodRequest, Making
  <2> QED BY <1>2, <2>1, <2>2, QuietStep DEF CheckDomain, Making
<1> QED BY <1>3, <1>4 DEF CheckDomain

\* SaveTenant preserves the invariant.
LEMMA SaveTenantStep ==
  ASSUME RegistrationAssumption,
         IInv, NEW p \in Requests, SaveTenant(p)
  PROVE  IInv'
<1> DEFINE next == created + 1
           place == IF Corporate(Domain(req[p].email)) THEN "lock" ELSE "trial"
           new == [there |-> TRUE, trial |-> "none"]
           r == [req[p] EXCEPT !.at = place, !.firm = next]
<1>1. req[p] \in Request /\ req[p].at = "tenant"
  BY DEF IInv, SaveTenant, At
<1>2. /\ created \in Nat
      /\ next \in Firms
      /\ next \in 0..MaxFirms
      /\ created' = next
      /\ created < next
  BY DEF SaveTenant, IInv, OthersType, Firms
<1>3. place \in {"lock", "trial"} /\ place \in Place
  BY DEF Place
<1>4. place = "trial" => ~Corporate(Domain(req[p].email))
  OBVIOUS
<1>5. req' = [req EXCEPT ![p] = r]
  BY DEF SaveTenant, Goes
<1>6. tenant' = [tenant EXCEPT ![next] = new]
  BY DEF SaveTenant
<1>7. new \in Firm
  BY Zenon DEF Firm
<1>8. new.trial = "none"
  OBVIOUS
<1>9. UNCHANGED <<user, lock, cleared, departed>>
  BY DEF SaveTenant
<1> HIDE DEF next, place, new
<1>10. r \in Request /\ r.at = place /\ r.firm = next /\ r.email = req[p].email
  BY <1>1, <1>2, <1>3 DEF Request
<1>19. PICK s : s = r
  OBVIOUS
<1> HIDE DEF r
<1>20. /\ s \in Request
       /\ s.at \in {"lock", "trial"}
       /\ s.firm = next
       /\ s.at = "trial" => ~Corporate(Domain(s.email))
  BY <1>3, <1>4, <1>10, <1>19
<1>11. OthersType'
  BY <1>2, <1>6, <1>7, <1>9 DEF IInv, OthersType
<1>12. Kept'
  BY <1>2, <1>6, <1>8, <1>9 DEF IInv, Kept, Granted, OthersType
<1>13. \A e \in Emails : user[e].firm \in Nat /\ user[e].firm < next
  BY <1>2, UserType DEF IInv, UsersCreated
<1>14. UsersCreated'
  BY <1>2, <1>9, <1>13 DEF UsersCreated
<1>15. GoodRequest(s)'
  <2>1. \A e \in Emails : user'[e].firm # s.firm
    BY <1>2, <1>9, <1>13, <1>20
  <2>2. s.firm \in Firms /\ s.firm <= created'
    BY <1>2, <1>20
  <2> QED BY <1>20, <2>1, <2>2 DEF GoodRequest
<1>16. \A q \in Requests \ {p} : /\ GoodRequest(req[q])
                                 /\ req'[q] = req[q]
                                 /\ req[q].firm \in Nat
  BY <1>5 DEF IInv, Request
<1>17. \A q \in Requests \ {p} : GoodRequest(req[q])'
  BY <1>2, <1>9, <1>16 DEF GoodRequest, Granted
<1>18. \A q \in Requests \ {p} : req[q].at \in Making \cup {"purge"} => req[q].firm # s.firm
  BY <1>2, <1>16, <1>20 DEF GoodRequest
<1>21. req' = [req EXCEPT ![p] = s]
  BY <1>5, <1>19
<1> QED BY <1>11, <1>12, <1>14, <1>15, <1>17, <1>18, <1>21, RequestStep

\* SaveLock preserves the invariant.
LEMMA SaveLockStep ==
  ASSUME RegistrationAssumption,
         IInv, NEW p \in Requests, SaveLock(p)
  PROVE  IInv'
<1>0. PICK d, t, r : /\ d = Domain(req[p].email)
                     /\ t = req[p].firm
                     /\ r = [req[p] EXCEPT !.at = "trial"]
  OBVIOUS
<1>1. /\ GoodRequest(req[p])
      /\ req[p] \in Request
      /\ req[p].at = "lock"
      /\ t \in Firms
  BY <1>0 DEF IInv, SaveLock, At, GoodRequest, Making
<1>2. d \in Domains /\ t \in 1..MaxFirms
  BY <1>0, <1>1, DomainType DEF Request, Firms
<1>3. CASE Locked(d, t) = {}
  BY <1>0, <1>3, EndStep DEF SaveLock
<1>4. CASE Locked(d, t) # {}
  <2>1. lock[d] = 0 /\ lock' = [lock EXCEPT ![d] = t]
    BY <1>0, <1>4 DEF SaveLock, Locked
  <2>2. req' = [req EXCEPT ![p] = r]
    BY <1>0, <1>4 DEF SaveLock, GoesTo, Goes
  <2>3. UNCHANGED <<tenant, created, user, cleared, departed>>
    BY DEF SaveLock
  <2>4. r \in Request /\ r.at = "trial" /\ r.firm = t /\ r.email = req[p].email
    BY <1>0, <1>1, MovedType DEF Place
  <2>6. ASSUME NEW x, NEW u \in Firms, x \in Domains, Granted(x, u) PROVE Granted(x, u)'
    BY <1>2, <2>1, <2>3, <2>6 DEF Granted, IInv, OthersType, Firms
  <2>7. OthersType'
    BY <1>2, <2>1, <2>3 DEF IInv, OthersType
  <2>8. Kept' /\ UsersCreated'
    BY <2>3, <2>6 DEF IInv, Kept, UsersCreated
  <2>9. Granted(d, t)'
    BY <1>2, <2>1 DEF Granted, IInv, OthersType
  <2>10. GoodRequest(r)'
    BY <1>1, <2>3, <2>4, <1>0, <2>9 DEF GoodRequest, Making
  <2>11. ASSUME NEW q \in Requests \ {p} PROVE GoodRequest(req[q])'
    <3>1. GoodRequest(req[q]) /\ req'[q] = req[q] /\ Domain(req[q].email) \in Domains
      BY <2>2, DomainType DEF IInv, Request
    <3> QED BY <2>3, <2>6, <3>1 DEF GoodRequest, Making
  <2> QED BY <1>1, <2>2, <2>4, <1>0, <2>7, <2>8, <2>10, <2>11, RequestStep DEF Making
<1> QED BY <1>3, <1>4

\* SaveTrial preserves the invariant.
LEMMA SaveTrialStep ==
  ASSUME RegistrationAssumption,
         IInv, NEW p \in Requests, SaveTrial(p)
  PROVE  IInv'
<1>0. PICK d, t, r : /\ d = Domain(req[p].email)
                     /\ t = req[p].firm
                     /\ r = [req[p] EXCEPT !.at = "user"]
  OBVIOUS
<1>1. /\ GoodRequest(req[p])
      /\ req[p] \in Request
      /\ req[p].at = "trial"
      /\ t \in Firms
      /\ d \in Domains
  BY <1>0, DomainType DEF IInv, SaveTrial, At, GoodRequest, Making, Request
<1>2. UNCHANGED <<created, user, lock, cleared, departed>>
  BY DEF SaveTrial
<1> DEFINE new == [there |-> TRUE, trial |-> d]
<1>3. tenant' = [tenant EXCEPT ![t] = new]
  BY <1>0 DEF SaveTrial
<1>4. new \in Firm
  BY <1>1, Zenon DEF Firm
<1>5. new.trial = d
  OBVIOUS
<1> HIDE DEF new
<1>6. r \in Request /\ r.at = "user" /\ r.firm = t
  BY <1>0, <1>1, MovedType DEF Place
<1>7. req' = [req EXCEPT ![p] = r]
  BY <1>0 DEF SaveTrial, GoesTo, Goes
<1>8. OthersType' /\ UsersCreated'
  BY <1>1, <1>2, <1>3, <1>4 DEF IInv, OthersType, UsersCreated
<1>9. d \notin Public => Granted(d, t)
  BY <1>0, <1>1 DEF GoodRequest, Corporate
<1>10. ASSUME NEW u \in Firms, tenant'[u].trial \in Domains \ Public
       PROVE  Granted(tenant[u].trial, u)'
  <2>1. CASE u = t
    <3>1. tenant'[u].trial = d
      BY <1>1, <1>3, <1>5, <2>1 DEF IInv, OthersType
    <3> QED BY <1>2, <1>9, <1>10, <2>1, <3>1 DEF Granted
  <2>2. CASE u # t
    <3>1. tenant'[u] = tenant[u]
      BY <1>3, <2>2 DEF IInv, OthersType
    <3> QED BY <1>2, <1>10, <3>1 DEF IInv, Kept, Granted
  <2> QED BY <2>1, <2>2
<1>11. Kept'
  BY <1>10 DEF Kept
<1>12. GoodRequest(r)'
  BY <1>0, <1>1, <1>2, <1>6 DEF GoodRequest, Making
<1>13. \A q \in Requests \ {p} : GoodRequest(req[q])'
  BY <1>2, <1>7 DEF IInv, GoodRequest, Granted
<1> QED BY <1>0, <1>1, <1>6, <1>7, <1>8, <1>11, <1>12, <1>13, RequestStep DEF Making

\* A step that changes users alone keeps the invariant when no firm in the making
\* gets one.
LEMMA UsersStep ==
  ASSUME RegistrationAssumption,
         IInv, UNCHANGED <<tenant, created, lock, cleared>>,
         departed' \subseteq Domains,
         user' \in [Emails -> User \cup {NoUser}], UsersCreated',
         NEW p \in Requests, req' = req \/ (Goes(p, Idle) /\ req[p].at \in Making),
         \A q \in Requests : req'[q].at \in Making =>
           \A e \in Emails : user'[e].firm # req[q].firm
  PROVE  IInv'
<1>1. OthersType' /\ Kept'
  BY DEF IInv, OthersType, Kept, Granted
<1>2. req' \in [Requests -> Request]
  BY IdleIsGood DEF IInv, Goes
<1>3. ASSUME NEW q \in Requests PROVE GoodRequest(req[q])'
  <2>1. CASE req'[q] = req[q]
    BY <2>1 DEF IInv, GoodRequest, Granted
  <2>2. CASE req'[q] = Idle
    BY <2>2, IdleIsGood DEF GoodRequest, Making
  <2>3. req'[q] \in {req[q], Idle}
    BY DEF Goes, IInv
  <2> QED BY <2>1, <2>2, <2>3
<1>4. MakersDiffer'
  BY IdleIsGood DEF IInv, MakersDiffer, Goes, Making
<1> QED BY <1>1, <1>2, <1>3, <1>4 DEF IInv

\* CreateUser preserves the invariant.
LEMMA CreateUserStep ==
  ASSUME RegistrationAssumption,
         IInv, NEW p \in Requests, CreateUser(p)
  PROVE  IInv'
<1> DEFINE t == req[p].firm
           new == [firm |-> t, deleted |-> FALSE]
           m == req[p].email
<1>1. /\ GoodRequest(req[p])
      /\ m \in Emails
      /\ req[p].at = "user"
      /\ t \in Firms
      /\ t <= created
  BY DEF IInv, CreateUser, At, GoodRequest, Making, Request
<1>2. new \in User
  BY <1>1, Zenon DEF User
<1>3. new.firm = t
  OBVIOUS
<1>4. user' = [user EXCEPT ![m] = IF @ = NoUser THEN new ELSE @]
  BY DEF CreateUser, UserMade
<1> HIDE DEF new, m
<1>5. user' \in [Emails -> User \cup {NoUser}]
  BY <1>1, <1>2, <1>4 DEF IInv, OthersType
<1>6. \A e \in Emails : user'[e].firm \in {user[e].firm, t}
  BY <1>1, <1>3, <1>4 DEF IInv, OthersType
<1>7. UsersCreated'
  BY <1>1, <1>6 DEF UsersCreated, CreateUser, IInv
<1>8. ASSUME NEW q \in Requests, req'[q].at \in Making
      PROVE  \A e \in Emails : user'[e].firm # req[q].firm
  <2>1. q # p
    BY <1>8, IdleIsGood DEF CreateUser, Goes, Making, IInv
  <2>2. req'[q] = req[q]
    BY <2>1 DEF CreateUser, Goes, IInv
  <2>3. req[q].firm # t
    BY <1>1, <1>8, <2>1, <2>2 DEF IInv, MakersDiffer, Making
  <2>4. \A e \in Emails : user[e].firm # req[q].firm
    BY <1>8, <2>2 DEF IInv, GoodRequest
  <2> QED BY <1>6, <2>3, <2>4
<1> QED BY <1>1, <1>5, <1>7, <1>8, UsersStep DEF CreateUser, Making, IInv, OthersType

\* Join preserves the invariant.
LEMMA JoinStep ==
  ASSUME RegistrationAssumption,
         IInv, NEW p \in Requests, NEW e \in Emails, NEW t \in Firms, Join(p, e, t)
  PROVE  IInv'
<1> DEFINE new == [firm |-> t, deleted |-> FALSE]
<1>1. PICK o \in Emails : user[o].firm = t
  BY DEF Join
<1>2. new \in User
  BY Zenon DEF User
<1>3. new.firm = t
  OBVIOUS
<1>4. user' = [user EXCEPT ![e] = new]
  BY DEF Join
<1> HIDE DEF new
<1>5. user' \in [Emails -> User \cup {NoUser}]
  BY <1>2, <1>4 DEF IInv, OthersType
<1>6. \A x \in Emails : \E y \in Emails : user'[x].firm = user[y].firm
  <2>1. ASSUME NEW x \in Emails PROVE \E y \in Emails : user'[x].firm = user[y].firm
    <3>1. CASE x = e
      BY <1>1, <1>3, <1>4, <3>1 DEF IInv, OthersType
    <3>2. CASE x # e
      BY <1>4, <3>2 DEF IInv, OthersType
    <3> QED BY <3>1, <3>2
  <2> QED BY <2>1
<1>7. UsersCreated'
  BY <1>6 DEF UsersCreated, Join, IInv
<1>8. \A q \in Requests : req'[q].at \in Making => \A x \in Emails : user'[x].firm # req[q].firm
  BY <1>6 DEF Join, IInv, GoodRequest
<1> QED BY <1>5, <1>7, <1>8, UsersStep DEF Join, IInv, OthersType

\* DeleteAccount preserves the invariant.
LEMMA DeleteAccountStep ==
  ASSUME RegistrationAssumption,
         IInv, NEW p \in Requests, NEW e \in Emails, DeleteAccount(p, e)
  PROVE  IInv'
<1> DEFINE old == user[e]
           new == [old EXCEPT !.deleted = TRUE]
<1>1. old \in User
  BY DEF DeleteAccount, IInv, OthersType
<1>2. user' = [user EXCEPT ![e] = new]
  BY DEF DeleteAccount
<1>0. old.firm = user[e].firm
  OBVIOUS
<1> HIDE DEF old
<1>3. new \in User /\ new.firm = old.firm
  BY <1>1 DEF User
<1> HIDE DEF new
<1>4. user' \in [Emails -> User \cup {NoUser}]
  BY <1>2, <1>3 DEF IInv, OthersType
<1>5. \A x \in Emails : user'[x].firm = user[x].firm
  BY <1>0, <1>2, <1>3 DEF IInv, OthersType
<1>6. UsersCreated'
  BY <1>5 DEF UsersCreated, DeleteAccount, IInv
<1>7. departed' \subseteq Domains
  BY DomainType DEF DeleteAccount, IInv, OthersType
<1>8. \A q \in Requests : req'[q].at \in Making => \A x \in Emails : user'[x].firm # req[q].firm
  BY <1>5 DEF DeleteAccount, IInv, GoodRequest
<1> QED BY <1>4, <1>6, <1>7, <1>8, UsersStep DEF DeleteAccount

-----------------------------------------------------------------------------
(* Support.                                                                *)

\* ClearDomain preserves the invariant.
LEMMA ClearDomainStep ==
  ASSUME RegistrationAssumption,
         IInv, NEW p \in Requests, NEW d \in Domains, ClearDomain(p, d)
  PROVE  IInv'
<1>1. PICK e \in Emails :
        req' = [req EXCEPT ![p] = [IdleAt(e) EXCEPT !.at = "unlock", !.firm = lock[d]]]
  BY DEF ClearDomain, Goes
<1> DEFINE t == lock[d]
           b == IdleAt(e)
           r == [b EXCEPT !.at = "unlock", !.firm = t]
<1>2. b \in Request /\ t \in 0..MaxFirms
  BY IdleType DEF IInv, OthersType
<1>3. req' = [req EXCEPT ![p] = r]
  BY <1>1
<1> HIDE DEF b, t
<1>4. r \in Request /\ r.at = "unlock"
  BY <1>2 DEF Request, Place
<1> HIDE DEF r
<1>5. GoodRequest(r)
  BY <1>4 DEF GoodRequest, Making
<1> QED BY <1>3, <1>4, <1>5, QuietStep DEF ClearDomain, Making

\* RemoveLock preserves the invariant.
LEMMA RemoveLockStep ==
  ASSUME RegistrationAssumption,
         IInv, NEW p \in Requests, RemoveLock(p)
  PROVE  IInv'
<1>0. PICK d : d = Domain(req[p].email)
  OBVIOUS
<1>1. d \in Domains
  BY <1>0, DomainType DEF IInv, Request
<1>2. lock' = [lock EXCEPT ![d] = IF @ = req[p].firm THEN 0 ELSE @] /\ cleared' = cleared \cup {d}
  BY <1>0 DEF RemoveLock
<1>3. UNCHANGED <<tenant, created, user, departed>> /\ req' = [req EXCEPT ![p] = Idle]
  BY DEF RemoveLock, Goes
<1>4. lock' \in [Domains -> 0..MaxFirms]
  <2> DEFINE t == req[p].firm
  <2>1. lock' = [lock EXCEPT ![d] = IF @ = t THEN 0 ELSE @]
    BY <1>2
  <2> HIDE DEF t
  <2>2. \A x \in Domains : lock'[x] \in {lock[x], 0}
    BY <2>1, <1>1 DEF IInv, OthersType
  <2>3. lock' = [x \in Domains |-> lock'[x]]
    BY <2>1 DEF IInv, OthersType
  <2>4. \A x \in Domains : lock'[x] \in 0..MaxFirms
    BY <2>2 DEF IInv, OthersType
  <2> QED BY <2>3, <2>4
<1>5. OthersType' /\ UsersCreated'
  BY <1>1, <1>2, <1>3, <1>4 DEF IInv, OthersType, UsersCreated
<1>6. ASSUME NEW x \in Domains, NEW u, Granted(x, u) PROVE Granted(x, u)'
  BY <1>2, <1>6 DEF Granted, IInv, OthersType
<1>7. Kept'
  BY <1>3, <1>6 DEF IInv, Kept
<1>8. GoodRequest(Idle)'
  BY IdleIsGood DEF GoodRequest, Making, Idle, IdleAt
<1>9. ASSUME NEW q \in Requests \ {p} PROVE GoodRequest(req[q])'
  <2>1. GoodRequest(req[q]) /\ req'[q] = req[q] /\ Domain(req[q].email) \in Domains
    BY <1>3, DomainType DEF IInv, Request
  <2> QED BY <1>3, <1>6, <2>1 DEF GoodRequest
<1> QED BY <1>3, <1>5, <1>7, <1>8, <1>9, RequestStep, IdleIsGood DEF Making

\* PurgeFirm preserves the invariant.
LEMMA PurgeFirmStep ==
  ASSUME RegistrationAssumption,
         IInv, NEW p \in Requests, NEW e \in Emails, PurgeFirm(p, e)
  PROVE  IInv'
<1> DEFINE t == user[e].firm
           b == IdleAt(e)
           r == [b EXCEPT !.at = "purge", !.firm = t]
<1>1. t \in Firms /\ t \in 0..MaxFirms /\ t <= created
  BY UserType DEF PurgeFirm, IInv, OthersType, UsersCreated
<1>2. b \in Request
  BY IdleType
<1>3. req' = [req EXCEPT ![p] = r]
  BY DEF PurgeFirm, Goes
<1>4. \A q \in Requests : req[q].at \in Making => req[q].firm # t
  BY DEF IInv, GoodRequest
<1> HIDE DEF b, t
<1>5. r \in Request /\ r.at = "purge" /\ r.firm = t
  BY <1>1, <1>2 DEF Request, Place
<1> HIDE DEF r
<1>6. GoodRequest(r)
  BY <1>1, <1>5 DEF GoodRequest, Making
<1>7. r.at \notin Making
  BY <1>5 DEF Making
<1> QED BY <1>3, <1>4, <1>5, <1>6, <1>7, QuietStep DEF PurgeFirm

\* A firm in the making keeps its lock, as it is not the one that is purged.
LEMMA PurgeStep ==
  ASSUME RegistrationAssumption,
         IInv, NEW p \in Requests, Purge(p)
  PROVE  IInv'
<1>0. PICK t, d : t = req[p].firm /\ d = Domain(req[p].email)
  OBVIOUS
<1>1. req[p].at = "purge" /\ t \in Firms /\ d \in Domains
  BY <1>0, DomainType DEF Purge, At, IInv, GoodRequest, Request
<1>2. /\ tenant' = [tenant EXCEPT ![t] = NoFirm]
      /\ user' = [e \in Emails |-> IF user[e].firm = t THEN NoUser ELSE user[e]]
      /\ lock' = [x \in Domains |-> IF x = d \/ lock[x] = t THEN 0 ELSE lock[x]]
      /\ cleared' = cleared \cup {d}
      /\ UNCHANGED <<created, departed>>
      /\ req' = [req EXCEPT ![p] = Idle]
  BY <1>0 DEF Purge, Unlocked, Goes
<1>3. tenant' \in [Firms -> Firm \cup {NoFirm}]
  BY <1>2 DEF IInv, OthersType
<1>4. user' \in [Emails -> User \cup {NoUser}]
  BY <1>2 DEF IInv, OthersType
<1>5. lock' \in [Domains -> 0..MaxFirms]
  BY <1>2 DEF IInv, OthersType
<1>6. OthersType'
  BY <1>1, <1>2, <1>3, <1>4, <1>5 DEF IInv, OthersType
<1>7. \A e \in Emails : user'[e].firm \in {user[e].firm, 0}
  BY <1>2 DEF NoUser
<1>8. UsersCreated'
  BY <1>2, <1>7 DEF IInv, UsersCreated, OthersType
<1>9. ASSUME NEW x \in Domains, NEW u \in Firms, u # t, Granted(x, u) PROVE Granted(x, u)'
  BY <1>2, <1>9 DEF Granted, IInv, OthersType
<1>10. ASSUME NEW u \in Firms, tenant'[u].trial \in Domains \ Public
       PROVE  Granted(tenant[u].trial, u)'
  <2>1. u # t
    BY <1>1, <1>2, <1>10 DEF IInv, OthersType, NoFirm
  <2>2. tenant'[u] = tenant[u]
    BY <1>2, <2>1 DEF IInv, OthersType
  <2> QED BY <1>9, <1>10, <2>1, <2>2 DEF IInv, Kept
<1>11. Kept'
  BY <1>10 DEF Kept
<1>12. GoodRequest(Idle)'
  BY IdleIsGood DEF GoodRequest, Making, Idle, IdleAt
<1>13. ASSUME NEW q \in Requests \ {p} PROVE GoodRequest(req[q])'
  <2>1. GoodRequest(req[q]) /\ req'[q] = req[q] /\ Domain(req[q].email) \in Domains
    BY <1>2, DomainType DEF IInv, Request
  <2>2. req[q].at \in Making => req[q].firm # t /\ req[q].firm \in Firms
    BY <1>0, <1>1, <2>1 DEF IInv, MakersDiffer, GoodRequest
  <2>3. req[q].at \in Making => \A e \in Emails : user'[e].firm # req[q].firm
    BY <1>7, <2>1, <2>2 DEF GoodRequest, Firms
  <2>4. req[q].at = "trial" /\ Granted(Domain(req[q].email), req[q].firm)
          => Granted(Domain(req[q].email), req[q].firm)'
    BY <1>2, <1>9, <2>1, <2>2 DEF Making
  <2> QED BY <1>2, <2>1, <2>3, <2>4 DEF GoodRequest
<1> QED BY <1>2, <1>6, <1>8, <1>11, <1>12, <1>13, RequestStep, IdleIsGood DEF Making

-----------------------------------------------------------------------------
(* The theorems.                                                           *)

\* Stop preserves the invariant.
LEMMA StopStep ==
  ASSUME RegistrationAssumption,
         IInv, NEW p \in Requests, Stop(p)
  PROVE  IInv'
BY EndStep DEF Stop

\* Every step preserves the invariant.
LEMMA StepGood ==
  ASSUME RegistrationAssumption PROVE IInv /\ [Next]_vars => IInv'
<1> SUFFICES ASSUME IInv, [Next]_vars PROVE IInv'
  OBVIOUS
<1>1. ASSUME NEW p \in Requests, Begin(p) PROVE IInv'
  BY <1>1, RegisterStep, PurgeFirmStep, DeleteAccountStep, JoinStep, ClearDomainStep DEF Begin
<1>2. ASSUME NEW p \in Requests, Continue(p) PROVE IInv'
  BY <1>2, CheckDomainStep, SaveTenantStep, SaveLockStep, SaveTrialStep, CreateUserStep,
     RemoveLockStep, PurgeStep, StopStep DEF Continue
<1>3. CASE UNCHANGED vars
  BY <1>3 DEF vars, IInv, OthersType, Kept, Granted, UsersCreated, GoodRequest, MakersDiffer
<1> QED BY <1>1, <1>2, <1>3 DEF Next

\* Whatever overlaps or stops, a company's trial, stored or about to be, comes with
\* its domain's lock, and no firm is purged while it is made (register, and
\* purgeFirmByEmail).
THEOREM Invariance ==
  ASSUME RegistrationAssumption PROVE Spec => []IInv
BY InitGood, StepGood, PTL DEF Spec

\* Every variable of the registration model keeps its type.
THEOREM TypeCorrect ==
  ASSUME RegistrationAssumption PROVE Spec => []TypeOK
<1>1. IInv => TypeOK
  BY DEF IInv, TypeOK, OthersType
<1> QED BY <1>1, Invariance, PTL

\* A company's domain has one firm that had its free trial, unless support removed
\* the lock (assertTrialDomainAvailable, startTrialForNewTenant).
THEOREM OneTrialCorrect ==
  ASSUME RegistrationAssumption PROVE Spec => []OneTrialADomain
<1>1. IInv => OneTrialADomain
  BY DEF IInv, Kept, Granted, OneTrialADomain
<1> QED BY <1>1, Invariance, PTL

-----------------------------------------------------------------------------
(* One request at a time, and none that stops.                             *)

\* The places of a request that registers a firm, and those after its lock.
Registering == {"domain", "tenant", "lock", "trial", "user"}
Locking == {"trial", "user"}

\* Who was deleted has left the domain.
Departures == \A e \in Emails : user[e].deleted => Domain(e) \in departed

\* The address that registers is free, but for a user who was deleted.
FreeAddress(r) ==
  r.at \in Registering => user[r.email] = NoUser \/ user[r.email].deleted

\* A lock belongs to a firm with a user, or to the one that is being registered.
LockKept(r) ==
  \A d \in Domains \ departed :
    lock[d] # 0 =>
      \/ \E e \in Emails : user[e].firm = lock[d]
      \/ r.at \in Locking /\ r.firm = lock[d] /\ Domain(r.email) = d

\* The invariant of one request at a time.
Serial(r) == Departures /\ FreeAddress(r) /\ LockKept(r)

\* The step of a request: what it leaves keeps the second invariant.
SerialStep(p) == \E r \in Request : Goes(p, r) /\ Serial(r)'

\* A request that is over.
LEMMA EndsSerial ==
  ASSUME RegistrationAssumption, NEW p, Goes(p, Idle), Departures', LockKept(Idle)'
  PROVE  SerialStep(p)
<1>1. PICK r \in Request : r = Idle /\ r.at = "idle"
  BY IdleIsGood
<1>2. FreeAddress(r)'
  BY <1>1 DEF FreeAddress, Registering
<1>3. LockKept(r)'
  BY <1>1 DEF LockKept, Locking
<1> QED BY <1>1, <1>2, <1>3 DEF SerialStep, Serial

\* A request that starts for an address changes no row.
LEMMA StartsSerial ==
  ASSUME RegistrationAssumption, NEW p \in Requests, req[p] \in Request, Serial(req[p]),
         At(p, "idle"), UNCHANGED <<user, lock, departed>>,
         NEW r \in Request, Goes(p, r),
         r.at \in Registering => user[r.email] = NoUser \/ user[r.email].deleted
  PROVE  SerialStep(p)
<1>1. \A d \in Domains \ departed : lock[d] # 0 => \E e \in Emails : user[e].firm = lock[d]
  BY DEF Serial, LockKept, Locking, At
<1>2. Departures' /\ FreeAddress(r)'
  BY DEF Serial, Departures, FreeAddress
<1>3. LockKept(r)'
  BY <1>1 DEF LockKept
<1> QED BY <1>2, <1>3 DEF SerialStep, Serial

\* Register finds the address free.
LEMMA RegisterSerial ==
  ASSUME RegistrationAssumption, NEW p \in Requests, req[p] \in Request, Serial(req[p]),
         NEW e \in Emails, Register(p, e)
  PROVE  SerialStep(p)
<1>1. PICK r \in Request : Goes(p, r) /\ r.at = "domain" /\ r.email = e
  <2> DEFINE b == IdleAt(e)
  <2>1. b \in Request /\ b.email = e
    BY IdleType
  <2>2. Goes(p, [b EXCEPT !.at = "domain"])
    BY DEF Register
  <2>3. "domain" \in Place
    BY DEF Place
  <2> HIDE DEF b
  <2> QED BY <2>1, <2>2, <2>3, MovedType
<1>2. At(p, "idle") /\ UNCHANGED <<user, lock, departed>>
  BY DEF Register
<1>3. user[r.email] = NoUser \/ user[r.email].deleted
  BY <1>1 DEF Register
<1> QED BY <1>1, <1>2, <1>3, StartsSerial

\* A request of support's registers nothing.
LEMMA SupportSerial ==
  ASSUME RegistrationAssumption, NEW p \in Requests, req[p] \in Request, Serial(req[p]),
         At(p, "idle"), UNCHANGED <<user, lock, departed>>,
         NEW e \in Emails, NEW place \in {"unlock", "purge"}, NEW t \in 0..MaxFirms,
         Goes(p, [IdleAt(e) EXCEPT !.at = place, !.firm = t])
  PROVE  SerialStep(p)
<1>1. PICK r \in Request : Goes(p, r) /\ r.at = place
  <2> DEFINE b == IdleAt(e)
             s == [b EXCEPT !.at = place, !.firm = t]
  <2>1. b \in Request
    BY IdleType
  <2>2. place \in Place
    BY DEF Place
  <2>3. Goes(p, s)
    OBVIOUS
  <2> HIDE DEF b
  <2>4. s \in Request /\ s.at = place
    BY <2>1, <2>2 DEF Request
  <2> QED BY <2>3, <2>4
<1>2. r.at \notin Registering
  BY <1>1 DEF Registering
<1> QED BY <1>1, <1>2, StartsSerial

\* ClearDomain and PurgeFirm are such requests.
LEMMA ClearSerial ==
  ASSUME RegistrationAssumption, OthersType, NEW p \in Requests, req[p] \in Request,
         Serial(req[p]), NEW d \in Domains, ClearDomain(p, d)
  PROVE  SerialStep(p)
<1>1. PICK e \in Emails, t \in 0..MaxFirms :
        Goes(p, [IdleAt(e) EXCEPT !.at = "unlock", !.firm = t])
  BY DEF ClearDomain, OthersType
<1> QED BY <1>1, SupportSerial DEF ClearDomain

\* PurgeFirm finds the firm by one of its users.
LEMMA PurgeFirmSerial ==
  ASSUME RegistrationAssumption, OthersType, NEW p \in Requests, req[p] \in Request,
         Serial(req[p]), NEW e \in Emails, PurgeFirm(p, e)
  PROVE  SerialStep(p)
<1>1. PICK t \in 0..MaxFirms : t = user[e].firm
  BY UserType
<1>2. Goes(p, [IdleAt(e) EXCEPT !.at = "purge", !.firm = t])
  BY <1>1 DEF PurgeFirm
<1> QED BY <1>2, SupportSerial DEF PurgeFirm

\* What changes users alone, and keeps each in its firm.
LEMMA UsersSerial ==
  ASSUME RegistrationAssumption, NEW p \in Requests, req[p] \in Request, Serial(req[p]),
         At(p, "idle"), UNCHANGED <<lock, req>>, departed \subseteq departed', Departures',
         \A e \in Emails : user[e].firm # 0 => user'[e].firm = user[e].firm
  PROVE  Serial(req[p])'
<1>1. \A d \in Domains \ departed : lock[d] # 0 => \E e \in Emails : user[e].firm = lock[d]
  BY DEF Serial, LockKept, Locking, At
<1>2. FreeAddress(req[p])'
  BY DEF FreeAddress, Registering, At
<1>3. LockKept(req[p])'
  BY <1>1 DEF LockKept
<1> QED BY <1>2, <1>3 DEF Serial

\* Join makes one of the addresses that are free a user's.
LEMMA JoinSerial ==
  ASSUME RegistrationAssumption, OthersType, NEW p \in Requests, req[p] \in Request,
         Serial(req[p]), NEW e \in Emails, NEW t \in Firms, Join(p, e, t)
  PROVE  Serial(req[p])'
<1>1. user' = [user EXCEPT ![e] = [firm |-> t, deleted |-> FALSE]] /\ user[e] = NoUser
  BY DEF Join
<1>2. UNCHANGED <<lock, departed, req>>
  BY DEF Join
<1>3. Departures'
  BY <1>1, <1>2 DEF Serial, Departures, OthersType
<1>4. \A o \in Emails : user[o].firm # 0 => user'[o].firm = user[o].firm
  BY <1>1 DEF OthersType, NoUser
<1> QED BY <1>2, <1>3, <1>4, UsersSerial DEF Join

\* DeleteAccount keeps the firm of the user it deletes.
LEMMA DeleteAccountSerial ==
  ASSUME RegistrationAssumption, OthersType, NEW p \in Requests, req[p] \in Request,
         Serial(req[p]), NEW e \in Emails, DeleteAccount(p, e)
  PROVE  Serial(req[p])'
<1>1. user' = [user EXCEPT ![e].deleted = TRUE] /\ departed' = departed \cup {Domain(e)}
  BY DEF DeleteAccount
<1>2. UNCHANGED <<lock, req>>
  BY DEF DeleteAccount
<1>3. \A o \in Emails : o # e => user'[o] = user[o]
  BY <1>1
<1>4. user'[e].firm = user[e].firm
  BY <1>1 DEF OthersType, User, NoUser
<1>5. Departures'
  BY <1>1, <1>3 DEF Serial, Departures
<1> QED BY <1>1, <1>2, <1>3, <1>4, <1>5, UsersSerial DEF DeleteAccount

\* A request that goes on to a place changes nothing else of itself.
LEMMA GoesOn ==
  ASSUME RegistrationAssumption, NEW p, NEW o \in Request, o = req[p],
         NEW place \in Place, GoesTo(p, place)
  PROVE  \E r \in Request : /\ Goes(p, r)
                            /\ r.at = place
                            /\ r.firm = o.firm
                            /\ r.email = o.email
<1> DEFINE s == [o EXCEPT !.at = place]
<1>1. Goes(p, s)
  BY DEF GoesTo
<1>2. s \in Request /\ s.at = place /\ s.firm = o.firm /\ s.email = o.email
  BY MovedType
<1> QED BY <1>1, <1>2

\* A request that registers, and goes on to a place before its lock.
LEMMA MovesSerial ==
  ASSUME RegistrationAssumption, NEW p \in Requests, NEW o \in Request, o = req[p],
         Serial(o), o.at \in Registering \ Locking, UNCHANGED <<user, lock, departed>>,
         NEW r \in Request, Goes(p, r), r.email = o.email
  PROVE  SerialStep(p)
<1>1. \A d \in Domains \ departed : lock[d] # 0 => \E e \in Emails : user[e].firm = lock[d]
  BY DEF Serial, LockKept
<1>2. Departures' /\ FreeAddress(r)'
  BY DEF Serial, Departures, FreeAddress
<1>3. LockKept(r)'
  BY <1>1 DEF LockKept
<1> QED BY <1>2, <1>3 DEF SerialStep, Serial

\* A request that ends before it has a lock changes no row.
LEMMA FailsSerial ==
  ASSUME RegistrationAssumption, NEW o, Serial(o), o.at \notin Locking,
         UNCHANGED <<user, lock, departed>>, NEW p, Goes(p, Idle)
  PROVE  SerialStep(p)
<1>1. Departures' /\ LockKept(Idle)'
  BY DEF Serial, Departures, LockKept
<1> QED BY <1>1, EndsSerial

\* CheckDomain changes no row.
LEMMA CheckDomainSerial ==
  ASSUME RegistrationAssumption, NEW p \in Requests, req[p] \in Request, Serial(req[p]),
         CheckDomain(p)
  PROVE  SerialStep(p)
<1>1. PICK o \in Request : o = req[p] /\ o.at = "domain"
  BY DEF CheckDomain, At
<1>2. UNCHANGED <<user, lock, departed>>
  BY DEF CheckDomain
<1>3. Goes(p, Idle) \/ GoesTo(p, "tenant")
  BY DEF CheckDomain
<1>4. CASE Goes(p, Idle)
  BY <1>1, <1>2, <1>4, FailsSerial DEF Locking
<1>5. CASE GoesTo(p, "tenant")
  <2>1. PICK r \in Request : Goes(p, r) /\ r.email = o.email
    BY <1>1, <1>5, GoesOn DEF Place
  <2> QED BY <1>1, <1>2, <2>1, MovesSerial DEF Registering, Locking
<1> QED BY <1>3, <1>4, <1>5

\* SaveTenant: without a lock, the firm has no user yet.
LEMMA SaveTenantSerial ==
  ASSUME RegistrationAssumption, OthersType, NEW p \in Requests, req[p] \in Request,
         Serial(req[p]), SaveTenant(p)
  PROVE  SerialStep(p)
<1>1. PICK o \in Request : o = req[p] /\ o.at = "tenant"
  BY DEF SaveTenant, At
<1>2. UNCHANGED <<user, lock, departed>>
  BY DEF SaveTenant
<1>3. PICK place \in {"lock", "trial"} :
        Goes(p, [o EXCEPT !.at = place, !.firm = created + 1])
  BY <1>1 DEF SaveTenant
<1>4. created + 1 \in 0..MaxFirms
  BY DEF SaveTenant, OthersType
<1>5. PICK r \in Request : Goes(p, r) /\ r.email = o.email
  <2> DEFINE s == [o EXCEPT !.at = place, !.firm = created + 1]
  <2>1. place \in Place
    BY DEF Place
  <2>2. s \in Request /\ s.email = o.email
    BY <1>4, <2>1 DEF Request
  <2> QED BY <1>3, <2>2
<1> QED BY <1>1, <1>2, <1>5, MovesSerial DEF Registering, Locking

\* SaveLock: the lock is that of the firm that is being registered.
LEMMA SaveLockSerial ==
  ASSUME RegistrationAssumption, OthersType, NEW p \in Requests, req[p] \in Request,
         Serial(req[p]), SaveLock(p)
  PROVE  SerialStep(p)
<1>1. PICK o \in Request : o = req[p] /\ o.at = "lock"
  BY DEF SaveLock, At
<1>2. UNCHANGED <<user, departed>>
  BY DEF SaveLock
<1> DEFINE d == Domain(o.email)
<1>3. CASE lock[d] = 0
  <2>1. lock' = [lock EXCEPT ![d] = o.firm] /\ GoesTo(p, "trial")
    BY <1>1, <1>3 DEF SaveLock, Locked
  <2>2. PICK r \in Request : /\ Goes(p, r)
                             /\ r.at = "trial"
                             /\ r.firm = o.firm
                             /\ r.email = o.email
    BY <1>1, <2>1, GoesOn DEF Place
  <2>3. Departures' /\ FreeAddress(r)'
    BY <1>1, <1>2, <2>2 DEF Serial, Departures, FreeAddress, Registering
  <2>4. LockKept(r)'
    BY <1>1, <1>2, <2>1, <2>2 DEF Serial, LockKept, Locking, OthersType
  <2> QED BY <2>2, <2>3, <2>4 DEF SerialStep, Serial
<1>4. CASE lock[d] # 0
  <2>1. Goes(p, Idle) /\ lock' = lock
    BY <1>1, <1>4 DEF SaveLock, Locked
  <2> QED BY <1>1, <1>2, <2>1, FailsSerial DEF Locking
<1> QED BY <1>3, <1>4

\* SaveTrial changes the firm's row.
LEMMA SaveTrialSerial ==
  ASSUME RegistrationAssumption, NEW p \in Requests, req[p] \in Request, Serial(req[p]),
         SaveTrial(p)
  PROVE  SerialStep(p)
<1>1. PICK o \in Request : o = req[p] /\ o.at = "trial"
  BY DEF SaveTrial, At
<1>2. UNCHANGED <<user, lock, departed>>
  BY DEF SaveTrial
<1>3. PICK r \in Request : /\ Goes(p, r)
                           /\ r.at = "user"
                           /\ r.firm = o.firm
                           /\ r.email = o.email
  BY <1>1, GoesOn DEF SaveTrial, Place
<1>4. Departures' /\ FreeAddress(r)' /\ LockKept(r)'
  BY <1>1, <1>2, <1>3 DEF Serial, Departures, FreeAddress, LockKept, Registering, Locking
<1> QED BY <1>3, <1>4 DEF SerialStep, Serial

\* CreateUser: the address is free still, unless its domain's account was deleted.
LEMMA CreateUserSerial ==
  ASSUME RegistrationAssumption, OthersType, NEW p \in Requests, req[p] \in Request,
         Serial(req[p]), CreateUser(p)
  PROVE  SerialStep(p)
<1>1. PICK o \in Request : o = req[p] /\ o.at = "user"
  BY DEF CreateUser, At
<1>2. UNCHANGED <<lock, departed>> /\ Goes(p, Idle) /\ user' = UserMade(o)
  BY <1>1 DEF CreateUser
<1>3. o.email \in Emails
  BY DEF Request
<1>4. user[o.email] = NoUser \/ user[o.email].deleted
  BY <1>1 DEF Serial, FreeAddress, Registering
<1>5. \A e \in Emails : e # o.email => user'[e] = user[e]
  BY <1>2 DEF UserMade
<1>6. user'[o.email] = IF user[o.email] = NoUser THEN [firm |-> o.firm, deleted |-> FALSE]
                                                 ELSE user[o.email]
  BY <1>2, <1>3 DEF UserMade, OthersType
<1>7. Departures'
  BY <1>1, <1>2, <1>5, <1>6 DEF Serial, Departures
<1>8. LockKept(Idle)'
  <2> SUFFICES ASSUME NEW d \in Domains \ departed, lock[d] # 0
               PROVE  \E e \in Emails : user'[e].firm = lock[d]
    BY <1>2 DEF LockKept
  <2>1. CASE \E e \in Emails : user[e].firm = lock[d]
    <3>1. PICK e \in Emails : user[e].firm = lock[d]
      BY <2>1
    <3>2. user[e] # NoUser
      BY <3>1 DEF NoUser
    <3> QED BY <1>5, <1>6, <3>1, <3>2
  <2>2. CASE o.firm = lock[d] /\ Domain(o.email) = d
    <3>1. user[o.email] = NoUser
      BY <1>1, <1>3, <1>4, <2>2 DEF Serial, Departures
    <3> QED BY <1>3, <1>6, <2>2, <3>1
  <2> QED BY <1>1, <2>1, <2>2 DEF Serial, LockKept
<1> QED BY <1>2, <1>7, <1>8, EndsSerial

\* RemoveLock: the others keep their firms.
LEMMA RemoveLockSerial ==
  ASSUME RegistrationAssumption, OthersType, NEW p \in Requests, req[p] \in Request,
         Serial(req[p]), RemoveLock(p)
  PROVE  SerialStep(p)
<1>1. PICK o \in Request : o = req[p] /\ o.at = "unlock"
  BY DEF RemoveLock, At
<1>2. UNCHANGED <<user, departed>> /\ Goes(p, Idle)
  BY DEF RemoveLock
<1>3. \A d \in Domains : lock'[d] \in {lock[d], 0}
  BY DEF RemoveLock, OthersType
<1>4. Departures' /\ LockKept(Idle)'
  BY <1>1, <1>2, <1>3 DEF Serial, Departures, LockKept, Locking
<1> QED BY <1>2, <1>4, EndsSerial

\* Purge: the locks of the firm that goes are removed with its users.
LEMMA PurgeSerial ==
  ASSUME RegistrationAssumption, OthersType, NEW p \in Requests, req[p] \in Request,
         Serial(req[p]), Purge(p)
  PROVE  SerialStep(p)
<1>1. PICK o \in Request : o = req[p] /\ o.at = "purge"
  BY DEF Purge, At
<1>2. Goes(p, Idle) /\ departed' = departed
  BY DEF Purge
<1>3. \A e \in Emails : user'[e] = IF user[e].firm = o.firm THEN NoUser ELSE user[e]
  BY <1>1 DEF Purge
<1>4. \A d \in Domains : lock'[d] # 0 => lock'[d] = lock[d] /\ lock[d] # o.firm
  BY <1>1 DEF Purge, Unlocked
<1>5. Departures'
  BY <1>1, <1>2, <1>3 DEF Serial, Departures, NoUser
<1>6. LockKept(Idle)'
  BY <1>1, <1>2, <1>3, <1>4 DEF Serial, LockKept, Locking
<1> QED BY <1>2, <1>5, <1>6, EndsSerial

\* Between two requests every lock of a domain, none of whose accounts was deleted,
\* belongs to a firm with a user, and during a registration to that firm at most
\* (register, clearTrialDomain, purgeFirmByEmail).
THEOREM SerialInvariance ==
  ASSUME RegistrationAssumption, NEW CONSTANT p, Requests = {p}, ~Faults
  PROVE  Spec => []Serial(req[p])
<1>1. Init => Serial(req[p])
  BY IdleIsGood DEF Init, Serial, Departures, FreeAddress, LockKept, NoUser, Registering
<1>2. IInv /\ Serial(req[p]) /\ [Next]_vars => Serial(req[p])'
  <2> SUFFICES ASSUME IInv, Serial(req[p]), [Next]_vars
               PROVE  Serial(req[p])'
    OBVIOUS
  <2>1. OthersType /\ req[p] \in Request
    BY DEF IInv
  <2>2. CASE SerialStep(p)
    <3>1. PICK r \in Request : Goes(p, r) /\ Serial(r)'
      BY <2>2 DEF SerialStep
    <3>2. req'[p] = r
      BY <3>1 DEF Goes, IInv
    <3> QED BY <3>1, <3>2
  <2>3. CASE Begin(p)
    BY <2>1, <2>2, <2>3, RegisterSerial, PurgeFirmSerial, DeleteAccountSerial, JoinSerial,
       ClearSerial DEF Begin
  <2>4. CASE Continue(p)
    <3>1. ~Stop(p)
      BY DEF Stop
    <3> QED BY <2>1, <2>2, <2>4, <3>1, CheckDomainSerial, SaveTenantSerial, SaveLockSerial,
            SaveTrialSerial, CreateUserSerial, RemoveLockSerial, PurgeSerial DEF Continue
  <2>5. CASE UNCHANGED vars
    BY <2>5 DEF vars, Serial, Departures, FreeAddress, LockKept
  <2> QED BY <2>3, <2>4, <2>5 DEF Next
<1> QED BY <1>1, <1>2, Invariance, PTL DEF Spec

\* No registration that fails locks its domain out (register): the lock belongs to
\* a firm that has a user, when requests run one at a time and none stops, and no
\* account of the domain was deleted.
THEOREM LockCorrect ==
  ASSUME RegistrationAssumption, NEW CONSTANT p, Requests = {p}, ~Faults
  PROVE  Spec => []LockHasFirm
<1>1. Serial(req[p]) => LockHasFirm
  BY DEF Serial, LockKept, LockHasFirm, At, Locking
<1> QED BY <1>1, SerialInvariance, PTL
=============================================================================
