--------------------------- MODULE MCOffice_proofs ---------------------------
(***************************************************************************)
(* Proofs about the services that MCOffice puts side by side.  A behaviour *)
(* of the office is one of each of them (EachService), so what is proved   *)
(* of a service holds in the office; the theorems are at the end.          *)
(*                                                                         *)
(* The chat, the staff invitations and the registration have modules of    *)
(* proofs of their own, which are instantiated here.  The account          *)
(* deletion, the portal, the requests to HMRC and the daily chase are      *)
(* proved in this module, each in two steps: its types, for any number of  *)
(* requests and whatever fails, and an invariant of what the one request   *)
(* at work has read, and relies on, being still so.                        *)
(***************************************************************************)
EXTENDS MCOffice, OAuthConnection_proofs, SequenceTheorems

-----------------------------------------------------------------------------
(* A behaviour of the office is one of each service.                       *)

\* The definitions of the office's steps.
LEMMA OneScene ==
  ASSUME OfficeNext \/ UNCHANGED officeVars
  PROVE  /\ Next \/ UNCHANGED vars
         /\ Portal!Next \/ UNCHANGED portalVars
         /\ Chat!Next \/ UNCHANGED chatVars
         /\ Staff!Next \/ UNCHANGED staffVars
         /\ Deletion!Next \/ UNCHANGED deletionVars
         /\ Registered!Next \/ UNCHANGED registrationVars
         /\ Chase!Next \/ UNCHANGED chaseVars
         /\ Calls!Next \/ UNCHANGED callsVars
BY DEF OfficeNext, officeVars, InConnection, InPortal, InChat, InStaff, InDeletion,
   InRegistration, InChase, InCalls

\* Every service behaves as its module says.
LEMMA EachService ==
  OfficeSpec => /\ Spec
                /\ Portal!Spec
                /\ Chat!Spec
                /\ Staff!Spec
                /\ Deletion!Spec
                /\ Registered!Spec
                /\ Chase!Spec
                /\ Calls!Spec
<1>1. OfficeInit => /\ Init
                    /\ Portal!Init
                    /\ Chat!Init
                    /\ Staff!Init
                    /\ Deletion!Init
                    /\ Registered!Init
                    /\ Chase!Init
                    /\ Calls!Init
  BY DEF OfficeInit
<1>2. [OfficeNext]_officeVars => [Next]_vars
  BY OneScene
<1>3. [OfficeNext]_officeVars => [Portal!Next]_(Portal!vars)
  BY OneScene DEF portalVars, Portal!vars, Portal!rows, Portal!history
<1>4. [OfficeNext]_officeVars => [Chat!Next]_(Chat!vars)
  BY OneScene DEF chatVars, Chat!vars, Chat!talk, Chat!drops
<1>5. [OfficeNext]_officeVars => [Staff!Next]_(Staff!vars)
  BY OneScene DEF staffVars, Staff!vars, Staff!rows, Staff!history
<1>6. [OfficeNext]_officeVars => [Deletion!Next]_(Deletion!vars)
  BY OneScene DEF deletionVars, Deletion!vars, Deletion!data
<1>7. [OfficeNext]_officeVars => [Registered!Next]_(Registered!vars)
  BY OneScene DEF registrationVars, Registered!vars
<1>8. [OfficeNext]_officeVars => [Chase!Next]_(Chase!vars)
  BY OneScene DEF chaseVars, Chase!vars
<1>9. [OfficeNext]_officeVars => [Calls!Next]_(Calls!vars)
  BY OneScene DEF callsVars, Calls!vars
<1> QED BY <1>1, <1>2, <1>3, <1>4, <1>5, <1>6, <1>7, <1>8, <1>9, PTL
        DEF OfficeSpec, Spec, Portal!Spec, Chat!Spec, Staff!Spec, Deletion!Spec, Registered!Spec,
            Chase!Spec, Calls!Spec

-----------------------------------------------------------------------------
(* The deletion of an account (AccountDeletion).                           *)

\* The next deletion of a run is a request, too.
LEMMA NextType ==
  ASSUME MaxDeletions \in Nat, NEW r \in Deletion!Request
  PROVE  Deletion!NextOf(r) \subseteq Deletion!Request
<1>1. Deletion!Idle \in Deletion!Request
  BY DEF Deletion!Idle, Deletion!Request, Deletion!Place
<1>2. ASSUME NEW n \in r.list
      PROVE  [r EXCEPT !.at = "load", !.of = n, !.list = @ \ {n}, !.ids = {}] \in Deletion!Request
  <2>1. n \in 0..MaxDeletions /\ r.list \ {n} \in SUBSET Deletion!Deletions
    BY DEF Deletion!Request, Deletion!Deletions
  <2>2. "load" \in Deletion!Place
    BY DEF Deletion!Place
  <2> QED BY <2>1, <2>2 DEF Deletion!Request
<1> QED BY <1>1, <1>2 DEF Deletion!NextOf

\* Every variable of the deletions' model keeps its type.
LEMMA DeletionTypes ==
  ASSUME MaxDeletions \in Nat
  PROVE  Deletion!Spec => []Deletion!TypeOK
<1> USE DEF Deletion!TypeOK
<1>1. Deletion!Init => Deletion!TypeOK
  <2>1. Deletion!Idle \in Deletion!Request
    BY DEF Deletion!Idle, Deletion!Request, Deletion!Place
  <2> QED BY <2>1 DEF Deletion!Init
<1>2. Deletion!TypeOK /\ [Deletion!Next]_(Deletion!vars) => Deletion!TypeOK'
  <2> SUFFICES ASSUME Deletion!TypeOK, [Deletion!Next]_(Deletion!vars)
               PROVE  Deletion!TypeOK'
    OBVIOUS
  <2>1. Deletion!Idle \in Deletion!Request
    BY DEF Deletion!Idle, Deletion!Request, Deletion!Place
  <2>2. ASSUME NEW p \in Requests, Deletion!Begin(p)
        PROVE  Deletion!TypeOK'
    <3>1. ASSUME NEW n \in Deletion!Deletions, NEW place \in Deletion!Place,
                 NEW L \in SUBSET Deletion!Deletions
          PROVE  /\ [Deletion!Idle EXCEPT !.at = place, !.of = n] \in Deletion!Request
                 /\ [Deletion!Idle EXCEPT !.at = place, !.of = n, !.list = L]
                       \in Deletion!Request
      <4>1. n \in 0..MaxDeletions
        BY DEF Deletion!Deletions
      <4>2. /\ [Deletion!Idle EXCEPT !.at = place] \in Deletion!Request
            /\ [Deletion!Idle EXCEPT !.at = place, !.of = n] \in Deletion!Request
        BY <2>1, <4>1 DEF Deletion!Request
      <4>3. [Deletion!Idle EXCEPT !.at = place, !.of = n, !.list = L] \in Deletion!Request
        BY <2>1, <4>1 DEF Deletion!Request
      <4> QED BY <4>2, <4>3
    <3>2. ASSUME NEW n \in Deletion!Deletions,
                 Deletion!RequestDeletion(p, n) \/ Deletion!CancelDeletion(p, n)
          PROVE  Deletion!TypeOK'
      <4>1. "check" \in Deletion!Place /\ "saveCancelled" \in Deletion!Place
        BY DEF Deletion!Place
      <4>2. dReq' \in [Requests -> Deletion!Request]
        BY <3>1, <3>2, <4>1 DEF Deletion!RequestDeletion, Deletion!CancelDeletion, Deletion!Goes
      <4> QED BY <3>2, <4>2 DEF Deletion!RequestDeletion, Deletion!CancelDeletion, Deletion!data
    <3>3. CASE Deletion!RunJob(p)
      <4>1. "load" \in Deletion!Place
        BY DEF Deletion!Place
      <4>2. Deletion!DueNow \subseteq Deletion!Deletions
        BY DEF Deletion!DueNow, Deletion!Pending
      <4>3. PICK n \in Deletion!DueNow :
              Deletion!Goes(p, [Deletion!Idle EXCEPT !.at = "load", !.of = n,
                                                     !.list = Deletion!DueNow \ {n}])
        BY <3>3 DEF Deletion!RunJob
      <4>4. [Deletion!Idle EXCEPT !.at = "load", !.of = n, !.list = Deletion!DueNow \ {n}]
              \in Deletion!Request
        BY <3>1, <4>1, <4>2
      <4>5. dReq' \in [Requests -> Deletion!Request]
        BY <4>3, <4>4 DEF Deletion!Goes
      <4> QED BY <3>3, <4>5 DEF Deletion!RunJob, Deletion!data
    <3>4. CASE Deletion!ClearData(p)
      BY <3>4 DEF Deletion!ClearData, Deletion!Goes, Deletion!data, Deletion!Idle,
         Deletion!Request, Deletion!Place
    <3>5. ASSUME NEW c \in Clients,
                 \/ Deletion!AddClient(p, c)
                 \/ Deletion!AddContent(p, c)
                 \/ Deletion!RemoveCustomer(p, c)
          PROVE  Deletion!TypeOK'
      BY <3>5 DEF Deletion!AddClient, Deletion!AddContent, Deletion!RemoveCustomer
    <3> QED BY <2>2, <3>1, <3>2, <3>3, <3>4, <3>5 DEF Deletion!Begin
  <2>3. ASSUME NEW p \in Requests, Deletion!Continue(p)
        PROVE  Deletion!TypeOK'
    <3> DEFINE r == dReq[p]
    <3>1. r \in Deletion!Request
      OBVIOUS
    <3>2. CASE Deletion!CheckPending(p)
      BY <2>1, <3>1, <3>2 DEF Deletion!CheckPending, Deletion!Goes, Deletion!data,
         Deletion!Request, Deletion!Place
    <3>3. CASE Deletion!SaveRequest(p) \/ Deletion!SaveCancelled(p)
      BY <2>1, <3>3 DEF Deletion!SaveRequest, Deletion!SaveCancelled, Deletion!Cancelled,
         Deletion!Goes, Deletion!data
    <3>4. CASE Deletion!LoadClients(p)
      BY <3>1, <3>4 DEF Deletion!LoadClients, Deletion!Goes, Deletion!data,
         Deletion!Request, Deletion!Place
    <3>5. CASE Deletion!Wipe(p)
      <4>1. dReq' \in [Requests -> Deletion!Request]
        BY <3>1, <3>5 DEF Deletion!Wipe, Deletion!Goes, Deletion!Request, Deletion!Place
      <4> QED BY <3>5, <4>1 DEF Deletion!Wipe, Deletion!Wiped
    <3>6. CASE Deletion!RemoveFiles(p)
      <4>1. Deletion!NextOf(r) \subseteq Deletion!Request
        BY <3>1, NextType
      <4> QED BY <3>6, <4>1 DEF Deletion!RemoveFiles, Deletion!Goes
    <3> QED BY <2>3, <3>2, <3>3, <3>4, <3>5, <3>6 DEF Deletion!Continue
  <2>4. ASSUME NEW p \in Requests, Deletion!WipeFails(p) \/ Deletion!Stop(p)
        PROVE  Deletion!TypeOK'
    <3>1. dReq[p] \in Deletion!Request
      OBVIOUS
    <3>2. Deletion!NextOf(dReq[p]) \subseteq Deletion!Request
      BY <3>1, NextType
    <3> QED BY <2>1, <2>4, <3>2 DEF Deletion!WipeFails, Deletion!Stop, Deletion!Goes, Deletion!data
  <2>5. ASSUME NEW n \in Deletion!Deletions, Deletion!DaysPass(n)
        PROVE  Deletion!TypeOK'
    BY <2>5 DEF Deletion!DaysPass, Deletion!data
  <2>6. CASE UNCHANGED Deletion!vars
    BY <2>6 DEF Deletion!vars, Deletion!data
  <2> QED BY <2>2, <2>3, <2>4, <2>5, <2>6 DEF Deletion!Next
<1> QED BY <1>1, <1>2, PTL DEF Deletion!Spec

\* One deletion is pending at most, and only while the owner wants it.
OneWish ==
  /\ \A m, n \in Deletion!Pending : m = n
  /\ Deletion!Pending # {} \/ dUser = "deleted" => dWish = "delete"

\* What a request, or a run of the job, that is alone found is so still.
DeletionFound(r) ==
  /\ r.at \in {"check", "saveRequest", "saveCancelled"} => dUser = "active"
  /\ r.at = "saveRequest" => Deletion!Pending = {}
  /\ r.at = "saveCancelled" => r.of \in Deletion!Pending
  /\ r.at \in {"load", "wipe"} /\ r.of # 0 => r.of \in Deletion!Pending
  /\ r.list = {}

\* The invariant of one request at a time.
DeletionSerial(r) == OneWish /\ DeletionFound(r)

\* The step of a request: what it leaves keeps that invariant.
DeletionStep(p) == \E r \in Deletion!Request : Deletion!Goes(p, r) /\ DeletionSerial(r)'

\* A request that leaves rows and wish alone, and finds what is so.
LEMMA DeletionMoves ==
  ASSUME NEW p, OneWish, UNCHANGED <<dUser, dStatus, dWish>>,
         NEW r \in Deletion!Request, Deletion!Goes(p, r), DeletionFound(r)
  PROVE  DeletionStep(p)
<1>1. Deletion!Pending' = Deletion!Pending
  BY DEF Deletion!Pending
<1>2. OneWish' /\ DeletionFound(r)'
  BY <1>1 DEF OneWish, DeletionFound
<1> QED BY <1>2 DEF DeletionStep, DeletionSerial

\* The fields of a request that is over, and that it finds nothing.
LEMMA DeletionIdle ==
  ASSUME MaxDeletions \in Nat
  PROVE  /\ Deletion!Idle \in Deletion!Request
         /\ Deletion!Idle.at = "idle"
         /\ Deletion!Idle.list = {}
BY DEF Deletion!Idle, Deletion!Request, Deletion!Place

\* A request that ends, when what it did to rows and wish keeps them together.
LEMMA DeletionEnds ==
  ASSUME MaxDeletions \in Nat, NEW p, Deletion!Goes(p, Deletion!Idle), OneWish'
  PROVE  DeletionStep(p)
<1>1. PICK r \in Deletion!Request : r = Deletion!Idle /\ r.at = "idle" /\ r.list = {}
  BY DeletionIdle
<1>2. DeletionFound(r)'
  BY <1>1 DEF DeletionFound
<1> QED BY <1>1, <1>2 DEF DeletionStep, DeletionSerial

\* The steps that begin a request.
LEMMA DeletionBegins ==
  ASSUME MaxDeletions \in Nat, NEW p \in Requests, Deletion!TypeOK, DeletionSerial(dReq[p]),
         Deletion!Begin(p)
  PROVE  DeletionStep(p) \/ (dReq' = dReq /\ UNCHANGED <<dUser, dStatus, dWish>>)
<1>1. OneWish
  BY DEF DeletionSerial
<1>2. ASSUME NEW n \in Deletion!Deletions, Deletion!RequestDeletion(p, n)
      PROVE  DeletionStep(p)
  <2>1. PICK r \in Deletion!Request : Deletion!Goes(p, r) /\ r.at = "check" /\ r.list = {}
    <3>1. PICK s : /\ s = [Deletion!Idle EXCEPT !.at = "check", !.of = n]
                   /\ Deletion!Goes(p, s)
      BY <1>2 DEF Deletion!RequestDeletion
    <3>2. "check" \in Deletion!Place
      BY DEF Deletion!Place
    <3>3. n \in 0..MaxDeletions
      BY DEF Deletion!Deletions
    <3>4. s \in Deletion!Request
      BY <3>1, <3>2, <3>3, DeletionIdle DEF Deletion!Request
    <3>5. s.at = "check" /\ s.of = n /\ s.list = {}
      BY <3>1 DEF Deletion!Idle
    <3> QED BY <3>1, <3>4, <3>5
  <2>2. dUser = "active" /\ UNCHANGED <<dUser, dStatus, dWish>>
    BY <1>2 DEF Deletion!RequestDeletion
  <2>3. DeletionFound(r)
    BY <2>1, <2>2 DEF DeletionFound
  <2> QED BY <1>1, <2>1, <2>2, <2>3, DeletionMoves
<1>3. ASSUME NEW n \in Deletion!Deletions, Deletion!CancelDeletion(p, n)
      PROVE  DeletionStep(p)
  <2>1. PICK r \in Deletion!Request : /\ Deletion!Goes(p, r)
                                      /\ r.at = "saveCancelled"
                                      /\ r.of = n
                                      /\ r.list = {}
    <3>1. PICK s : /\ s = [Deletion!Idle EXCEPT !.at = "saveCancelled", !.of = n]
                   /\ Deletion!Goes(p, s)
      BY <1>3 DEF Deletion!CancelDeletion
    <3>2. "saveCancelled" \in Deletion!Place
      BY DEF Deletion!Place
    <3>3. n \in 0..MaxDeletions
      BY DEF Deletion!Deletions
    <3>4. s \in Deletion!Request
      BY <3>1, <3>2, <3>3, DeletionIdle DEF Deletion!Request
    <3>5. s.at = "saveCancelled" /\ s.of = n /\ s.list = {}
      BY <3>1 DEF Deletion!Idle
    <3> QED BY <3>1, <3>4, <3>5
  <2>2. /\ dUser = "active"
        /\ n \in Deletion!Pending
        /\ UNCHANGED <<dUser, dStatus, dWish>>
    BY <1>3 DEF Deletion!CancelDeletion
  <2>3. DeletionFound(r)
    BY <2>1, <2>2 DEF DeletionFound
  <2> QED BY <1>1, <2>1, <2>2, <2>3, DeletionMoves
<1>4. CASE Deletion!RunJob(p)
  <2>1. PICK n \in Deletion!DueNow :
          Deletion!Goes(p, [Deletion!Idle EXCEPT !.at = "load", !.of = n,
                                                 !.list = Deletion!DueNow \ {n}])
    BY <1>4 DEF Deletion!RunJob
  <2>2. n \in Deletion!Pending /\ n \in Deletion!Deletions /\ Deletion!DueNow \ {n} = {}
    BY <1>1 DEF Deletion!DueNow, Deletion!Pending, OneWish
  <2>3. PICK r \in Deletion!Request : /\ Deletion!Goes(p, r)
                                      /\ r.at = "load"
                                      /\ r.of = n
                                      /\ r.list = {}
    <3>1. PICK s : /\ s = [Deletion!Idle EXCEPT !.at = "load", !.of = n, !.list = {}]
                   /\ Deletion!Goes(p, s)
      BY <2>1, <2>2
    <3>2. "load" \in Deletion!Place
      BY DEF Deletion!Place
    <3>3. n \in 0..MaxDeletions
      BY <2>2 DEF Deletion!Deletions
    <3>4. s \in Deletion!Request
      BY <3>1, <3>2, <3>3, DeletionIdle DEF Deletion!Request
    <3>5. s.at = "load" /\ s.of = n /\ s.list = {}
      BY <3>1 DEF Deletion!Idle
    <3> QED BY <3>1, <3>4, <3>5
  <2>4. UNCHANGED <<dUser, dStatus, dWish>>
    BY <1>4 DEF Deletion!RunJob
  <2>5. DeletionFound(r)
    BY <2>2, <2>3 DEF DeletionFound
  <2> QED BY <1>1, <2>3, <2>4, <2>5, DeletionMoves
<1>5. CASE Deletion!ClearData(p)
  <2>1. PICK r \in Deletion!Request : /\ Deletion!Goes(p, r)
                                      /\ r.at = "load"
                                      /\ r.of = 0
                                      /\ r.list = {}
    BY <1>5 DEF Deletion!ClearData, Deletion!Idle, Deletion!Request, Deletion!Place
  <2>2. UNCHANGED <<dUser, dStatus, dWish>>
    BY <1>5 DEF Deletion!ClearData
  <2>3. DeletionFound(r)
    BY <2>1 DEF DeletionFound
  <2> QED BY <1>1, <2>1, <2>2, <2>3, DeletionMoves
<1>6. ASSUME NEW c \in Clients, \/ Deletion!AddClient(p, c)
                                \/ Deletion!AddContent(p, c)
                                \/ Deletion!RemoveCustomer(p, c)
      PROVE  dReq' = dReq /\ UNCHANGED <<dUser, dStatus, dWish>>
  BY <1>6 DEF Deletion!AddClient, Deletion!AddContent, Deletion!RemoveCustomer
<1> QED BY <1>2, <1>3, <1>4, <1>5, <1>6 DEF Deletion!Begin

\* The steps that go on with a request, or end it.
LEMMA DeletionContinues ==
  ASSUME MaxDeletions \in Nat, NEW p \in Requests, Deletion!TypeOK, DeletionSerial(dReq[p]),
         Deletion!Continue(p) \/ Deletion!WipeFails(p) \/ Deletion!Stop(p)
  PROVE  DeletionStep(p)
<1>1. PICK o \in Deletion!Request : o = dReq[p]
  BY DEF Deletion!TypeOK
<1>2. OneWish /\ DeletionFound(o)
  BY <1>1 DEF DeletionSerial
<1>3. dStatus \in [Deletion!Deletions -> {"none", "pending", "cancelled", "completed"}]
  BY DEF Deletion!TypeOK
<1>4. CASE Deletion!CheckPending(p)
  <2>1. o.at = "check" /\ UNCHANGED <<dUser, dStatus, dWish>>
    BY <1>1, <1>4 DEF Deletion!CheckPending, Deletion!At
  <2>2. CASE Deletion!Pending = {}
    <3>1. PICK r \in Deletion!Request : /\ Deletion!Goes(p, r)
                                        /\ r.at = "saveRequest"
                                        /\ r.list = o.list
      BY <1>1, <1>4, <2>2 DEF Deletion!CheckPending, Deletion!Request, Deletion!Place
    <3>2. DeletionFound(r)
      BY <1>2, <2>1, <2>2, <3>1 DEF DeletionFound
    <3> QED BY <1>2, <2>1, <3>1, <3>2, DeletionMoves
  <2>3. CASE Deletion!Pending # {}
    <3>1. Deletion!Goes(p, Deletion!Idle)
      BY <1>4, <2>3 DEF Deletion!CheckPending
    <3>2. OneWish'
      BY <1>2, <2>1 DEF OneWish, Deletion!Pending
    <3> QED BY <3>1, <3>2, DeletionEnds
  <2> QED BY <2>2, <2>3
<1>5. CASE Deletion!SaveRequest(p)
  <2>1. /\ o.at = "saveRequest"
        /\ dStatus' = [dStatus EXCEPT ![o.of] = "pending"]
        /\ dWish' = "delete"
        /\ Deletion!Goes(p, Deletion!Idle)
    BY <1>1, <1>5 DEF Deletion!SaveRequest, Deletion!At
  <2>2. \A n \in Deletion!Deletions : n # o.of => dStatus'[n] # "pending"
    BY <1>2, <2>1 DEF DeletionFound, Deletion!Pending
  <2>3. OneWish'
    BY <2>1, <2>2 DEF OneWish, Deletion!Pending
  <2> QED BY <2>1, <2>3, DeletionEnds
<1>6. CASE Deletion!SaveCancelled(p)
  <2>1. /\ o.at = "saveCancelled"
        /\ dStatus' = [dStatus EXCEPT ![o.of] = "cancelled"]
        /\ dUser' = dUser
        /\ Deletion!Goes(p, Deletion!Idle)
    BY <1>1, <1>6 DEF Deletion!SaveCancelled, Deletion!Cancelled, Deletion!At
  <2>2. \A n \in Deletion!Deletions : dStatus'[n] # "pending"
    BY <1>2, <1>3, <2>1 DEF OneWish, DeletionFound, Deletion!Pending
  <2>3. dUser = "active"
    BY <1>2, <2>1 DEF DeletionFound
  <2>4. OneWish'
    BY <2>1, <2>2, <2>3 DEF OneWish, Deletion!Pending
  <2> QED BY <2>1, <2>4, DeletionEnds
<1>7. CASE Deletion!LoadClients(p)
  <2>1. o.at = "load" /\ UNCHANGED <<dUser, dStatus, dWish>>
    BY <1>1, <1>7 DEF Deletion!LoadClients, Deletion!At
  <2>2. PICK r \in Deletion!Request : /\ Deletion!Goes(p, r)
                                      /\ r.at = "wipe"
                                      /\ r.of = o.of
                                      /\ r.list = o.list
    <3> DEFINE ids == {c \in Clients : dClient[c] = "kept"}
               s == [o EXCEPT !.at = "wipe", !.ids = ids]
    <3>1. Deletion!Goes(p, s)
      BY <1>1, <1>7 DEF Deletion!LoadClients
    <3>2. ids \in SUBSET Clients
      OBVIOUS
    <3> HIDE DEF ids
    <3>3. s \in Deletion!Request /\ s.at = "wipe" /\ s.of = o.of /\ s.list = o.list
      BY <3>2 DEF Deletion!Request, Deletion!Place
    <3> QED BY <3>1, <3>3
  <2>3. DeletionFound(r)
    BY <1>2, <2>1, <2>2 DEF DeletionFound
  <2> QED BY <1>2, <2>1, <2>2, <2>3, DeletionMoves
<1>8. CASE Deletion!Wipe(p)
  <2>1. PICK r \in Deletion!Request : /\ Deletion!Goes(p, r)
                                      /\ r.at = "files"
                                      /\ r.list = o.list
    BY <1>1, <1>8 DEF Deletion!Wipe, Deletion!Request, Deletion!Place
  <2>2. o.at = "wipe" /\ dWish' = dWish
    BY <1>1, <1>8 DEF Deletion!Wipe, Deletion!At
  <2>3. DeletionFound(r)'
    BY <1>2, <2>1 DEF DeletionFound
  <2>4. CASE o.of = 0
    <3>1. UNCHANGED <<dUser, dStatus>>
      BY <1>1, <1>8, <2>4 DEF Deletion!Wipe
    <3>2. OneWish'
      BY <1>2, <2>2, <3>1 DEF OneWish, Deletion!Pending
    <3> QED BY <2>1, <2>3, <3>2 DEF DeletionStep, DeletionSerial
  <2>5. CASE o.of # 0
    <3>1. dStatus' = [dStatus EXCEPT ![o.of] = "completed"]
      BY <1>1, <1>8, <2>5 DEF Deletion!Wipe
    <3>2. dWish = "delete" /\ \A n \in Deletion!Deletions : dStatus'[n] # "pending"
      BY <1>2, <1>3, <2>2, <2>5, <3>1 DEF OneWish, DeletionFound, Deletion!Pending
    <3>3. OneWish'
      BY <2>2, <3>2 DEF OneWish, Deletion!Pending
    <3> QED BY <2>1, <2>3, <3>3 DEF DeletionStep, DeletionSerial
  <2> QED BY <2>4, <2>5
<1>9. CASE Deletion!WipeFails(p) \/ Deletion!RemoveFiles(p) \/ Deletion!Stop(p)
  <2>1. UNCHANGED <<dUser, dStatus, dWish>>
    BY <1>9 DEF Deletion!WipeFails, Deletion!RemoveFiles, Deletion!Stop
  <2>2. Deletion!Goes(p, Deletion!Idle)
    BY <1>1, <1>2, <1>9 DEF Deletion!WipeFails, Deletion!RemoveFiles, Deletion!Stop,
       Deletion!NextOf, DeletionFound
  <2>3. OneWish'
    BY <1>2, <2>1 DEF OneWish, Deletion!Pending
  <2> QED BY <2>2, <2>3, DeletionEnds
<1> QED BY <1>4, <1>5, <1>6, <1>7, <1>8, <1>9 DEF Deletion!Continue

\* At most one deletion is pending, and only while the owner wants it, whatever fails
\* or stops, when requests and runs of the job come one at a time (requestDeletion,
\* cancelDeletion, executeAccountDeletion).
LEMMA DeletionInvariance ==
  ASSUME MaxDeletions \in Nat, NEW CONSTANT p, Requests = {p}
  PROVE  Deletion!Spec => []DeletionSerial(dReq[p])
<1>1. Deletion!Init => DeletionSerial(dReq[p])
  BY DEF Deletion!Init, Deletion!Idle, Deletion!Pending, DeletionSerial, OneWish, DeletionFound
<1>2. Deletion!TypeOK /\ DeletionSerial(dReq[p]) /\ [Deletion!Next]_(Deletion!vars)
        => DeletionSerial(dReq[p])'
  <2> SUFFICES ASSUME Deletion!TypeOK, DeletionSerial(dReq[p]),
                      [Deletion!Next]_(Deletion!vars)
               PROVE  DeletionSerial(dReq[p])'
    OBVIOUS
  <2>1. CASE DeletionStep(p)
    <3>1. PICK r \in Deletion!Request : Deletion!Goes(p, r) /\ DeletionSerial(r)'
      BY <2>1 DEF DeletionStep
    <3>2. dReq'[p] = r
      BY <3>1 DEF Deletion!Goes, Deletion!TypeOK
    <3> QED BY <3>1, <3>2
  <2>2. CASE UNCHANGED <<dReq, dUser, dStatus, dWish>>
    BY <2>2 DEF DeletionSerial, OneWish, DeletionFound, Deletion!Pending
  <2>3. CASE Deletion!Begin(p)
    BY <2>1, <2>2, <2>3, DeletionBegins
  <2>4. CASE Deletion!Continue(p) \/ Deletion!WipeFails(p) \/ Deletion!Stop(p)
    BY <2>1, <2>4, DeletionContinues
  <2>5. CASE (\E n \in Deletion!Deletions : Deletion!DaysPass(n)) \/ UNCHANGED Deletion!vars
    BY <2>2, <2>5 DEF Deletion!DaysPass, Deletion!vars
  <2> QED BY <2>3, <2>4, <2>5 DEF Deletion!Next
<1> QED BY <1>1, <1>2, DeletionTypes, PTL DEF Deletion!Spec

-----------------------------------------------------------------------------
(* The access of clients to the portal (PortalAccess).                     *)

\* What the proofs assume of the portal's constants.
PortalAssumption == Clients # {} /\ MaxLinks \in Nat

\* A request that invites has a link, and one that lets in an account.
PortalGood(r) ==
  /\ r \in Portal!Request
  /\ r.at \in {"saveClient", "find", "saveInvite", "mail"} => r.link \in Portal!Links
  /\ r.at \in {"saveSetup", "saveLogin", "removeAccount"} => r.copy \in Portal!Account

\* The variables of the portal, and its requests.
PortalRows ==
  /\ pClient \in [Clients -> {"none", "kept", "removed"}]
  /\ pAccount \in [Clients -> Portal!Account \cup {Portal!NoAccount}]
  /\ pLinks \in 0..MaxLinks
  /\ pMailed \subseteq [who : Clients, link : Portal!Links]
  /\ pUsed \in [Portal!Links -> 0..2]
  /\ pCookies \subseteq [who : Clients, id : Portal!Links]
  /\ pRevoked \in [Clients -> 0..MaxLinks]
  /\ pAddress \in [Clients -> Addresses]

\* The inductive invariant of the types.
PortalInv ==
  /\ PortalRows
  /\ pReq \in [Requests -> Portal!Request]
  /\ \A p \in Requests : PortalGood(pReq[p])

\* The first invariant of the portal, for one request at a time: an account is newer
\* than the last one that was removed, as are the links in the making.
PortalNewer ==
  /\ \A c \in Clients : pRevoked[c] <= pLinks
  /\ \A c \in Clients :
       Portal!Has(c) => pRevoked[c] < pAccount[c].id /\ pAccount[c].id <= pLinks

\* What a request that is alone found is so still.
PortalFound(r) ==
  /\ r.at \in {"saveClient", "find", "saveInvite"} => pRevoked[r.who] < r.link /\ r.link <= pLinks
  /\ r.at \in {"saveInvite", "saveSetup", "saveLogin", "removeAccount"} =>
       r.copy.id = pAccount[r.who].id

\* The invariant of one request at a time.
PortalSerial(r) == PortalNewer /\ PortalFound(r)

\* The step of a request that keeps its type, and that invariant when it is alone.
PortalStep(p) ==
  \E r \in Portal!Request :
    /\ Portal!Goes(p, r)
    /\ PortalGood(r)
    /\ PortalRows'
    /\ PortalSerial(pReq[p]) => PortalSerial(r)'

\* No account is not one.
LEMMA NotAnAccount ==
  ASSUME PortalAssumption
  PROVE  /\ Portal!NoAccount \notin Portal!Account
         /\ Portal!NoAccount.id = 0
         /\ \A a \in Portal!Account : a.id \in Portal!Links /\ a.id # 0
BY DEF Portal!NoAccount, Portal!Account, Portal!Links, PortalAssumption

\* A request that is over is good, and finds nothing.
LEMMA PortalIdle ==
  ASSUME PortalAssumption, NEW c \in Clients
  PROVE  Portal!IdleAt(c) \in Portal!Request /\ Portal!IdleAt(c).at = "idle"
         /\ Portal!IdleAt(c).who = c
BY DEF Portal!IdleAt, Portal!Request, Portal!Place, PortalAssumption

\* A request for any client.
LEMMA PortalAny ==
  ASSUME PortalAssumption PROVE Portal!Idle \in Portal!Request /\ Portal!Idle.at = "idle"
<1>1. Portal!AnyClient \in Clients
  BY DEF Portal!AnyClient, PortalAssumption
<1> QED BY <1>1, PortalIdle DEF Portal!Idle

\* The first state.
LEMMA PortalInit ==
  ASSUME PortalAssumption
  PROVE  Portal!Init => PortalInv /\ \A p \in Requests : PortalSerial(pReq[p])
<1> SUFFICES ASSUME Portal!Init
             PROVE  PortalInv /\ \A p \in Requests : PortalSerial(pReq[p])
  OBVIOUS
<1>1. ASSUME NEW p \in Requests
      PROVE  pReq[p] \in Portal!Request /\ pReq[p].at = "idle"
  BY PortalAny DEF Portal!Init
<1>2. PortalRows
  BY DEF Portal!Init, PortalRows, PortalAssumption
<1>3. PortalInv
  BY <1>1, <1>2 DEF PortalInv, PortalGood, Portal!Init
<1>4. PortalNewer
  BY DEF Portal!Init, PortalNewer, Portal!Has, PortalAssumption
<1>5. \A p \in Requests : PortalFound(pReq[p])
  BY <1>1 DEF PortalFound
<1> QED BY <1>3, <1>4, <1>5 DEF PortalSerial

\* A step of a request that ends it.
LEMMA PortalEnds ==
  ASSUME PortalAssumption, NEW p, Portal!Goes(p, Portal!Idle), PortalRows',
         PortalSerial(pReq[p]) => PortalNewer'
  PROVE  PortalStep(p)
<1>1. PICK r \in Portal!Request : r = Portal!Idle /\ r.at = "idle"
  BY PortalAny
<1>2. PortalGood(r) /\ PortalFound(r)'
  BY <1>1 DEF PortalGood, PortalFound
<1> QED BY <1>1, <1>2 DEF PortalStep, PortalSerial

\* A step that leaves accounts, removals and links alone leaves them as new.
LEMMA PortalStill ==
  ASSUME UNCHANGED <<pAccount, pRevoked, pLinks>>, PortalNewer
  PROVE  PortalNewer'
BY DEF PortalNewer, Portal!Has

\* A step that leaves the rows of the database and what was handed out alone.
PortalQuiet ==
  UNCHANGED <<pClient, pAccount, pLinks, pMailed, pUsed, pCookies, pRevoked, pAddress>>

\* A request that starts with a loaded account, and leaves the rows alone.
LEMMA PortalStarts ==
  ASSUME PortalAssumption, NEW p, PortalRows, PortalQuiet,
         NEW c \in Clients, Portal!Has(c),
         NEW r \in Portal!Request, r.at \in {"saveSetup", "saveLogin", "removeAccount"},
         r.who = c, r.copy = pAccount[c], Portal!Goes(p, r)
  PROVE  PortalStep(p)
<1>1. PortalGood(r)
  BY DEF PortalGood, Portal!Has, PortalRows
<1>2. PortalRows'
  BY DEF PortalRows, PortalQuiet
<1>3. PortalFound(r)'
  BY DEF PortalFound, PortalQuiet
<1> QED BY <1>1, <1>2, <1>3, PortalStill DEF PortalStep, PortalSerial, PortalQuiet

\* A request that invites, at its beginning (createAndInvite).
LEMMA PortalInvites ==
  ASSUME PortalAssumption, NEW p, PortalRows, NEW c \in Clients,
         NEW place \in {"saveClient", "find"}, Portal!Invites(p, c, place),
         pClient' \in [Clients -> {"none", "kept", "removed"}],
         UNCHANGED <<pAccount, pMailed, pUsed, pCookies, pRevoked, pAddress>>
  PROVE  PortalStep(p)
<1>1. pLinks \in Nat /\ pLinks < MaxLinks /\ pLinks' = pLinks + 1
  BY DEF PortalRows, Portal!Invites, PortalAssumption
<1>2. pLinks + 1 \in Portal!Links /\ pLinks + 1 \in 0..MaxLinks
  BY <1>1 DEF Portal!Links, PortalAssumption
<1>3. PICK r \in Portal!Request : /\ Portal!Goes(p, r)
                                  /\ r.at = place
                                  /\ r.who = c
                                  /\ r.link = pLinks + 1
  <2>1. PICK s \in Portal!Request : s = Portal!IdleAt(c) /\ s.who = c
    BY PortalIdle
  <2>2. place \in Portal!Place
    BY DEF Portal!Place
  <2>3. PICK r : r = [s EXCEPT !.at = place, !.link = pLinks + 1]
    OBVIOUS
  <2>4. r \in Portal!Request /\ r.at = place /\ r.who = s.who /\ r.link = pLinks + 1
    BY <1>2, <2>1, <2>2, <2>3 DEF Portal!Request
  <2> QED BY <2>1, <2>3, <2>4 DEF Portal!Invites, Portal!Starts
<1>4. PortalGood(r)
  BY <1>2, <1>3 DEF PortalGood
<1>5. PortalRows'
  BY <1>1, <1>2 DEF PortalRows
<1>6. ASSUME PortalSerial(pReq[p]) PROVE PortalSerial(r)'
  <2>1. \A d \in Clients : pRevoked[d] \in Nat
    BY DEF PortalRows
  <2>2. \A d \in Clients : Portal!Has(d) => pAccount[d].id \in Nat
    BY DEF PortalRows, Portal!Has, Portal!Account, Portal!Links
  <2>3. PortalNewer'
    BY <1>1, <1>6, <2>1, <2>2 DEF PortalSerial, PortalNewer, Portal!Has
  <2>4. PortalFound(r)'
    BY <1>1, <1>3, <1>6, <2>1 DEF PortalSerial, PortalNewer, PortalFound
  <2> QED BY <2>3, <2>4 DEF PortalSerial
<1> QED BY <1>3, <1>4, <1>5, <1>6 DEF PortalStep

\* The steps that begin a request.
LEMMA PortalBegins ==
  ASSUME PortalAssumption, NEW p \in Requests, PortalInv, Portal!Begin(p)
  PROVE  PortalStep(p)
<1> USE DEF PortalInv
<1>1. ASSUME NEW c \in Clients, \/ Portal!CreateClient(p, c)
                                \/ Portal!InvitePortalClient(p, c)
                                \/ Portal!ResendInvite(p, c)
      PROVE  PortalStep(p)
  <2>1. PICK place \in {"saveClient", "find"} : Portal!Invites(p, c, place)
    BY <1>1 DEF Portal!CreateClient, Portal!InvitePortalClient, Portal!ResendInvite
  <2>2. UNCHANGED <<pAccount, pMailed, pUsed, pCookies, pRevoked, pAddress>>
    BY <1>1 DEF Portal!CreateClient, Portal!InvitePortalClient, Portal!ResendInvite,
       Portal!rows, Portal!history
  <2>3. pClient' \in [Clients -> {"none", "kept", "removed"}]
    BY <1>1 DEF Portal!CreateClient, Portal!InvitePortalClient, Portal!ResendInvite,
       Portal!rows, PortalRows
  <2> QED BY <2>1, <2>2, <2>3, PortalInvites
<1>2. ASSUME NEW c \in Clients, NEW place \in {"saveLogin", "removeAccount"}, Portal!Has(c),
             Portal!Starts(p, [Portal!IdleAt(c) EXCEPT !.at = place, !.copy = pAccount[c]]),
             PortalQuiet
      PROVE  PortalStep(p)
  <2>1. PICK s \in Portal!Request : s = Portal!IdleAt(c) /\ s.who = c
    BY PortalIdle
  <2>2. place \in Portal!Place
    BY DEF Portal!Place
  <2>3. pAccount[c] \in Portal!Account \cup {Portal!NoAccount} /\ 0 \in 0..MaxLinks
    BY DEF PortalRows, PortalAssumption
  <2>4. PICK r : r = [s EXCEPT !.at = place, !.copy = pAccount[c]]
    OBVIOUS
  <2>5. r \in Portal!Request /\ r.at = place /\ r.who = s.who /\ r.copy = pAccount[c]
    BY <2>1, <2>2, <2>3, <2>4 DEF Portal!Request
  <2>6. Portal!Goes(p, r) /\ r.who = c
    BY <1>2, <2>1, <2>4, <2>5 DEF Portal!Starts
  <2> QED BY <1>2, <2>5, <2>6, PortalStarts
<1>3. ASSUME NEW c \in Clients, Portal!Login(p, c) PROVE PortalStep(p)
  BY <1>2, <1>3 DEF Portal!Login, PortalQuiet, Portal!rows, Portal!history
<1>4. ASSUME NEW c \in Clients, Portal!Revoke(p, c) PROVE PortalStep(p)
  BY <1>2, <1>4 DEF Portal!Revoke, PortalQuiet, Portal!rows, Portal!history
<1>5. ASSUME NEW m \in pMailed, Portal!Setup(p, m) PROVE PortalStep(p)
  <2>1. PICK c \in Clients : c = m.who
    BY DEF PortalRows
  <2>2. m.link \in 0..MaxLinks
    BY DEF PortalRows, Portal!Links, PortalAssumption
  <2>3. PICK s \in Portal!Request : s = Portal!IdleAt(c) /\ s.who = c
    BY PortalIdle
  <2>4. "saveSetup" \in Portal!Place /\ pAccount[c] \in Portal!Account \cup {Portal!NoAccount}
    BY DEF Portal!Place, PortalRows
  <2>5. PICK r : r = [s EXCEPT !.at = "saveSetup", !.copy = pAccount[c], !.link = m.link]
    OBVIOUS
  <2>6. /\ r \in Portal!Request
        /\ r.at = "saveSetup" /\ r.who = s.who /\ r.copy = pAccount[c]
    BY <2>2, <2>3, <2>4, <2>5 DEF Portal!Request
  <2>7. Portal!Goes(p, r) /\ r.who = c /\ Portal!Has(c) /\ PortalQuiet
    BY <1>5, <2>1, <2>3, <2>5, <2>6 DEF Portal!Setup, Portal!Starts, PortalQuiet, Portal!rows,
       Portal!history
  <2> QED BY <2>6, <2>7, PortalStarts
<1> QED BY <1>1, <1>3, <1>4, <1>5 DEF Portal!Begin

\* The steps that go on with an invitation, or end it.
LEMMA PortalInviteGoesOn ==
  ASSUME PortalAssumption, NEW p \in Requests, PortalInv,
         \/ Portal!SaveClient(p)
         \/ Portal!FindAccount(p)
         \/ Portal!SaveInvite(p)
         \/ Portal!MailInvite(p)
  PROVE  PortalStep(p)
<1>1. PICK o \in Portal!Request : o = pReq[p] /\ PortalGood(o)
  BY DEF PortalInv
<1>2. PICK c \in Clients : c = o.who
  BY DEF Portal!Request
<1>3. PortalRows
  BY DEF PortalInv
<1>4. CASE Portal!SaveClient(p)
  <2>1. PICK r : r = [o EXCEPT !.at = "find"]
    OBVIOUS
  <2>2. /\ r \in Portal!Request
        /\ r.at = "find" /\ r.who = c /\ r.link = o.link
    BY <1>2, <2>1 DEF Portal!Request, Portal!Place
  <2>3. /\ o.at = "saveClient"
        /\ Portal!Goes(p, r)
        /\ pClient' = [pClient EXCEPT ![c] = "kept"]
        /\ UNCHANGED <<pAccount, pLinks, pMailed, pUsed, pCookies, pRevoked, pAddress>>
    BY <1>1, <1>2, <1>4, <2>1 DEF Portal!SaveClient, Portal!At, Portal!history
  <2>4. PortalGood(r)
    BY <1>1, <2>2, <2>3 DEF PortalGood
  <2>5. PortalRows'
    BY <1>3, <2>3 DEF PortalRows
  <2>6. ASSUME PortalSerial(o) PROVE PortalSerial(r)'
    BY <1>2, <2>2, <2>3, <2>6, PortalStill DEF PortalSerial, PortalFound
  <2> QED BY <1>1, <2>2, <2>3, <2>4, <2>5, <2>6 DEF PortalStep
<1>5. CASE Portal!FindAccount(p)
  <2>1. PICK a \in Portal!Account \cup {Portal!NoAccount} : a = pAccount[c]
    BY <1>3 DEF PortalRows
  <2>2. PICK r : r = [o EXCEPT !.at = "saveInvite", !.copy = a]
    OBVIOUS
  <2>3. /\ r \in Portal!Request
        /\ r.at = "saveInvite" /\ r.who = c /\ r.link = o.link /\ r.copy = a
    BY <1>2, <2>1, <2>2 DEF Portal!Request, Portal!Place
  <2>4. /\ o.at = "find"
        /\ Portal!Goes(p, r)
        /\ PortalQuiet
    BY <1>1, <1>2, <1>5, <2>1, <2>2 DEF Portal!FindAccount, Portal!At, Portal!history,
       Portal!rows, PortalQuiet
  <2>5. PortalGood(r)
    BY <1>1, <2>3, <2>4 DEF PortalGood
  <2>6. PortalRows'
    BY <1>3, <2>4 DEF PortalRows, PortalQuiet
  <2>7. ASSUME PortalSerial(o) PROVE PortalSerial(r)'
    <3>1. PortalFound(r)'
      BY <1>2, <2>1, <2>3, <2>4, <2>7 DEF PortalSerial, PortalFound, PortalQuiet
    <3> QED BY <2>4, <2>7, <3>1, PortalStill DEF PortalSerial, PortalQuiet
  <2> QED BY <1>1, <2>3, <2>4, <2>5, <2>6, <2>7 DEF PortalStep
<1>6. CASE Portal!SaveInvite(p)
  <2>1. /\ o.at = "saveInvite"
        /\ UNCHANGED <<pClient, pLinks, pMailed, pUsed, pCookies, pRevoked, pAddress>>
    BY <1>1, <1>6 DEF Portal!SaveInvite, Portal!At, Portal!history
  <2>2. CASE o.copy = Portal!NoAccount /\ Portal!Has(c)
    <3>1. pAccount' = pAccount /\ Portal!Goes(p, Portal!Idle)
      BY <1>1, <1>2, <1>6, <2>2 DEF Portal!SaveInvite
    <3>2. PortalRows'
      BY <1>3, <2>1, <3>1 DEF PortalRows
    <3>3. ASSUME PortalSerial(pReq[p]) PROVE PortalNewer'
      BY <2>1, <3>1, <3>3, PortalStill DEF PortalSerial
    <3> QED BY <3>1, <3>2, <3>3, PortalEnds
  <2>3. CASE ~(o.copy = Portal!NoAccount /\ Portal!Has(c))
    <3>1. PICK r : r = [o EXCEPT !.at = "mail"]
      OBVIOUS
    <3>2. r \in Portal!Request /\ r.at = "mail" /\ r.link = o.link
      BY <3>1 DEF Portal!Request, Portal!Place
    <3>3. PICK a : a = Portal!Invited(o)
      OBVIOUS
    <3>4. Portal!Goes(p, r) /\ pAccount' = [pAccount EXCEPT ![c] = a]
      BY <1>1, <1>2, <1>6, <2>3, <3>1, <3>3 DEF Portal!SaveInvite
    <3>5. o.link \in Portal!Links /\ o.link \in 0..MaxLinks
      BY <1>1, <2>1 DEF PortalGood, Portal!Request
    <3>6. CASE o.copy = Portal!NoAccount
      <4>1. a = [id |-> o.link, token |-> o.link, open |-> TRUE, active |-> FALSE]
        BY <3>3, <3>6 DEF Portal!Invited
      <4>2. a \in Portal!Account /\ a.id = o.link
        BY <3>5, <4>1 DEF Portal!Account
      <4>3. PortalRows'
        BY <1>3, <2>1, <3>4, <4>2 DEF PortalRows
      <4>4. ASSUME PortalSerial(o) PROVE PortalSerial(r)'
        <5>1. PortalNewer'
          BY <1>2, <1>3, <2>1, <3>4, <4>2, <4>4 DEF PortalSerial, PortalNewer, PortalFound,
             PortalRows, Portal!Has
        <5> QED BY <3>2, <5>1 DEF PortalSerial, PortalFound
      <4> QED BY <1>1, <3>2, <3>4, <3>5, <4>3, <4>4 DEF PortalStep, PortalGood
    <3>7. CASE o.copy # Portal!NoAccount
      <4>1. o.copy \in Portal!Account
        BY <3>7 DEF Portal!Request
      <4>2. a = [o.copy EXCEPT !.token = o.link, !.open = TRUE]
        BY <3>3, <3>7 DEF Portal!Invited
      <4>3. a \in Portal!Account /\ a.id = o.copy.id
        BY <3>5, <4>1, <4>2 DEF Portal!Account
      <4>4. PortalRows'
        BY <1>3, <2>1, <3>4, <4>3 DEF PortalRows
      <4>5. ASSUME PortalSerial(o) PROVE PortalSerial(r)'
        <5>1. pAccount[c].id = a.id
          BY <1>2, <2>1, <4>3, <4>5 DEF PortalSerial, PortalFound
        <5>2. Portal!Has(c)
          BY <4>1, <4>3, <5>1, NotAnAccount DEF Portal!Has
        <5>3. PortalNewer'
          BY <1>3, <2>1, <3>4, <4>5, <5>1, <5>2 DEF PortalSerial, PortalNewer,
             PortalRows, Portal!Has
        <5> QED BY <3>2, <5>3 DEF PortalSerial, PortalFound
      <4> QED BY <1>1, <3>2, <3>4, <3>5, <4>4, <4>5 DEF PortalStep, PortalGood
    <3> QED BY <3>6, <3>7
  <2> QED BY <2>2, <2>3
<1>7. CASE Portal!MailInvite(p)
  <2>1. /\ o.at = "mail"
        /\ Portal!Goes(p, Portal!Idle)
        /\ pMailed' \subseteq pMailed \cup {[who |-> o.who, link |-> o.link]}
        /\ UNCHANGED <<pClient, pAccount, pLinks, pUsed, pCookies, pRevoked, pAddress>>
    BY <1>1, <1>7 DEF Portal!MailInvite, Portal!At, Portal!history, Portal!rows
  <2>2. o.link \in Portal!Links
    BY <1>1, <2>1 DEF PortalGood
  <2>3. PortalRows'
    BY <1>2, <1>3, <2>1, <2>2 DEF PortalRows
  <2>4. ASSUME PortalSerial(pReq[p]) PROVE PortalNewer'
    BY <2>1, <2>4, PortalStill DEF PortalSerial
  <2> QED BY <2>1, <2>3, <2>4, PortalEnds
<1> QED BY <1>4, <1>5, <1>6, <1>7

\* The steps that go on with a setup, a login or a removal, or end it.
LEMMA PortalAccountGoesOn ==
  ASSUME PortalAssumption, NEW p \in Requests, PortalInv,
         \/ Portal!SaveSetup(p)
         \/ Portal!SaveLogin(p)
         \/ Portal!RemoveAccount(p)
         \/ Portal!RemoveClient(p)
  PROVE  PortalStep(p)
<1>1. PICK o \in Portal!Request : o = pReq[p] /\ PortalGood(o)
  BY DEF PortalInv
<1>2. PICK c \in Clients : c = o.who
  BY DEF Portal!Request
<1>3. PortalRows
  BY DEF PortalInv
<1>4. ASSUME NEW a \in Portal!Account, PortalSerial(o), a.id = o.copy.id,
             o.at \in {"saveSetup", "saveLogin"}, o.copy \in Portal!Account,
             pAccount' = [pAccount EXCEPT ![c] = a], UNCHANGED <<pRevoked, pLinks>>
      PROVE  PortalNewer'
  <2>1. pAccount[c].id = a.id
    BY <1>2, <1>4 DEF PortalSerial, PortalFound
  <2>2. Portal!Has(c)
    BY <2>1, NotAnAccount DEF Portal!Has
  <2> QED BY <1>3, <1>4, <2>1, <2>2 DEF PortalSerial, PortalNewer, PortalRows, Portal!Has
<1>5. CASE Portal!SaveSetup(p)
  <2>1. PICK a : a = Portal!SetUp(o, pAccount[c])
    OBVIOUS
  <2>2. /\ o.at = "saveSetup"
        /\ Portal!Goes(p, Portal!Idle)
        /\ pAccount' = [pAccount EXCEPT ![c] = a]
        /\ pUsed' = [pUsed EXCEPT ![o.link] = IF @ = 2 THEN 2 ELSE @ + 1]
        /\ pCookies' = pCookies \cup {[who |-> c, id |-> o.copy.id]}
        /\ UNCHANGED <<pClient, pLinks, pMailed, pRevoked, pAddress>>
    BY <1>1, <1>2, <1>3, <1>5, <2>1 DEF Portal!SaveSetup, Portal!At, PortalRows
  <2>3. o.copy \in Portal!Account
    BY <1>1, <2>2 DEF PortalGood
  <2>4. a \in Portal!Account /\ a.id = o.copy.id
    <3>1. CASE pAccount[c] = Portal!NoAccount
      <4>1. a = [o.copy EXCEPT !.active = TRUE, !.token = 0]
        BY <2>1, <3>1 DEF Portal!SetUp
      <4>2. 0 \in 0..MaxLinks
        BY DEF PortalAssumption
      <4> QED BY <2>3, <4>1, <4>2 DEF Portal!Account
    <3>2. CASE pAccount[c] # Portal!NoAccount
      <4>1. PICK b \in Portal!Account : b = pAccount[c]
        BY <1>3, <3>2 DEF PortalRows
      <4>2. a = [o.copy EXCEPT !.active = TRUE, !.token = b.token, !.open = b.open]
        BY <2>1, <3>2, <4>1 DEF Portal!SetUp
      <4>3. b.token \in 0..MaxLinks /\ b.open \in BOOLEAN
        BY <4>1 DEF Portal!Account
      <4> QED BY <2>3, <4>2, <4>3 DEF Portal!Account
    <3> QED BY <3>1, <3>2
  <2>5. pUsed' \in [Portal!Links -> 0..2]
    <3>1. PICK n : n = IF pUsed[o.link] = 2 THEN 2 ELSE pUsed[o.link] + 1
      OBVIOUS
    <3>2. pUsed' = [pUsed EXCEPT ![o.link] = n]
      BY <2>2, <3>1
    <3>3. o.link \in Portal!Links => n \in 0..2
      BY <1>3, <3>1 DEF PortalRows
    <3> QED BY <1>3, <3>2, <3>3 DEF PortalRows
  <2>6. o.copy.id \in Portal!Links
    BY <2>3 DEF Portal!Account
  <2>7. PortalRows'
    BY <1>3, <2>2, <2>4, <2>5, <2>6 DEF PortalRows
  <2> QED BY <1>1, <1>4, <2>2, <2>3, <2>4, <2>7, PortalEnds
<1>6. CASE Portal!SaveLogin(p)
  <2>1. /\ o.at = "saveLogin"
        /\ Portal!Goes(p, Portal!Idle)
        /\ pAccount' = [pAccount EXCEPT ![c] = o.copy]
        /\ pCookies' = pCookies \cup {[who |-> c, id |-> o.copy.id]}
        /\ UNCHANGED <<pClient, pLinks, pMailed, pUsed, pRevoked, pAddress>>
    BY <1>1, <1>2, <1>6 DEF Portal!SaveLogin, Portal!At
  <2>2. o.copy \in Portal!Account
    BY <1>1, <2>1 DEF PortalGood
  <2>3. o.copy.id \in Portal!Links
    BY <2>2 DEF Portal!Account
  <2>4. PortalRows'
    BY <1>3, <2>1, <2>2, <2>3 DEF PortalRows
  <2> QED BY <1>1, <1>4, <2>1, <2>2, <2>4, PortalEnds
<1>7. CASE Portal!RemoveAccount(p)
  <2>1. PICK a : a = Portal!RowRemoved(pAccount[c], o.copy)
    OBVIOUS
  <2>2. /\ o.at = "removeAccount"
        /\ Portal!Goes(p, [Portal!IdleAt(c) EXCEPT !.at = Portal!AfterAccount(c)])
        /\ pAccount' = [pAccount EXCEPT ![c] = a]
        /\ pRevoked' = [pRevoked EXCEPT ![c] = IF @ < o.copy.id THEN o.copy.id ELSE @]
        /\ UNCHANGED <<pClient, pLinks, pMailed, pUsed, pCookies, pAddress>>
    BY <1>1, <1>2, <1>3, <1>7, <2>1 DEF Portal!RemoveAccount, Portal!At, PortalRows
  <2>3. PICK s \in Portal!Request : s = Portal!IdleAt(c) /\ s.who = c
    BY PortalIdle
  <2>4. PICK r : r = [s EXCEPT !.at = Portal!AfterAccount(c)]
    OBVIOUS
  <2>5. Portal!AfterAccount(c) \in {"removeClient", "idle"}
    BY DEF Portal!AfterAccount
  <2>6. r \in Portal!Request /\ r.at \in {"removeClient", "idle"}
    BY <2>3, <2>4, <2>5 DEF Portal!Request, Portal!Place
  <2>7. PortalGood(r) /\ PortalFound(r)'
    BY <2>6 DEF PortalGood, PortalFound
  <2>8. o.copy \in Portal!Account /\ o.copy.id \in Portal!Links /\ o.copy.id \in 0..MaxLinks
    BY <1>1, <2>2 DEF PortalGood, Portal!Account, Portal!Links, PortalAssumption
  <2>9. a \in {pAccount[c], Portal!NoAccount}
    BY <2>1 DEF Portal!RowRemoved
  <2>10. PortalRows'
    BY <1>3, <2>2, <2>8, <2>9 DEF PortalRows
  <2>11. ASSUME PortalSerial(o) PROVE PortalNewer'
    <3>1. pAccount[c].id = o.copy.id /\ a = Portal!NoAccount
      BY <1>2, <2>1, <2>2, <2>11 DEF PortalSerial, PortalFound, Portal!RowRemoved
    <3>2. Portal!Has(c)
      BY <2>8, <3>1, NotAnAccount DEF Portal!Has
    <3>3. o.copy.id <= pLinks
      BY <2>11, <3>1, <3>2 DEF PortalSerial, PortalNewer
    <3> QED BY <1>3, <2>2, <2>11, <3>1, <3>3 DEF PortalSerial, PortalNewer, PortalRows,
            Portal!Has
  <2> QED BY <1>1, <2>2, <2>3, <2>4, <2>6, <2>7, <2>10, <2>11 DEF PortalStep, PortalSerial
<1>8. CASE Portal!RemoveClient(p)
  <2>1. /\ Portal!Goes(p, Portal!Idle)
        /\ pClient' = [pClient EXCEPT ![c] = "removed"]
        /\ UNCHANGED <<pAccount, pLinks, pMailed, pUsed, pCookies, pRevoked, pAddress>>
    BY <1>1, <1>2, <1>8 DEF Portal!RemoveClient, Portal!history
  <2>2. PortalRows'
    BY <1>3, <2>1 DEF PortalRows
  <2>3. ASSUME PortalSerial(pReq[p]) PROVE PortalNewer'
    BY <2>1, <2>3, PortalStill DEF PortalSerial
  <2> QED BY <2>1, <2>2, <2>3, PortalEnds
<1> QED BY <1>5, <1>6, <1>7, <1>8

\* The steps that no request takes of itself.
LEMMA PortalDecided ==
  ASSUME PortalAssumption, NEW p \in Requests, PortalInv, Portal!Stop(p)
  PROVE  PortalStep(p)
<1>1. Portal!Goes(p, Portal!Idle) /\ PortalQuiet
  BY DEF Portal!Stop, PortalQuiet, Portal!rows, Portal!history
<1>2. PortalRows'
  BY <1>1 DEF PortalInv, PortalRows, PortalQuiet
<1>3. ASSUME PortalSerial(pReq[p]) PROVE PortalNewer'
  BY <1>1, <1>3, PortalStill DEF PortalSerial, PortalQuiet
<1> QED BY <1>1, <1>2, <1>3, PortalEnds

\* A link expires, and its account stays.
LEMMA PortalExpires ==
  ASSUME PortalInv, NEW c \in Clients, Portal!LinkExpires(c)
  PROVE  /\ pReq' = pReq
         /\ PortalRows'
         /\ \A r \in Portal!Request : PortalSerial(r) => PortalSerial(r)'
<1>1. PICK a \in Portal!Account : a = pAccount[c]
  BY DEF PortalInv, PortalRows, Portal!LinkExpires, Portal!Has
<1>2. PICK b : b = [a EXCEPT !.open = FALSE]
  OBVIOUS
<1>3. b \in Portal!Account /\ b.id = a.id
  BY <1>1, <1>2 DEF Portal!Account
<1>4. /\ pAccount' = [pAccount EXCEPT ![c] = b]
      /\ UNCHANGED <<pClient, pLinks, pMailed, pUsed, pCookies, pRevoked, pAddress, pReq>>
  BY <1>1, <1>2 DEF PortalInv, PortalRows, Portal!LinkExpires, Portal!history
<1>5. PortalRows'
  BY <1>3, <1>4 DEF PortalInv, PortalRows
<1>6. Portal!Has(c) /\ \A d \in Clients : pAccount'[d].id = pAccount[d].id
  BY <1>1, <1>3, <1>4 DEF PortalInv, PortalRows, Portal!LinkExpires
<1>7. \A d \in Clients : d # c => pAccount'[d] = pAccount[d]
  BY <1>4 DEF PortalInv, PortalRows
<1>8. ASSUME PortalNewer PROVE PortalNewer'
  BY <1>4, <1>6, <1>7, <1>8 DEF PortalNewer, Portal!Has
<1>9. ASSUME NEW r \in Portal!Request, PortalFound(r) PROVE PortalFound(r)'
  <2>1. r.who \in Clients
    BY DEF Portal!Request
  <2> QED BY <1>4, <1>6, <1>9, <2>1 DEF PortalFound
<1> QED BY <1>4, <1>5, <1>8, <1>9 DEF PortalSerial

\* Every step of a request.
LEMMA PortalSteps ==
  ASSUME PortalAssumption, NEW p \in Requests, PortalInv,
         Portal!Begin(p) \/ Portal!Continue(p) \/ Portal!Stop(p)
  PROVE  PortalStep(p)
<1>1. CASE Portal!Begin(p)
  BY <1>1, PortalBegins
<1>2. CASE Portal!Continue(p)
  BY <1>2, PortalInviteGoesOn, PortalAccountGoesOn DEF Portal!Continue
<1>3. CASE Portal!Stop(p)
  BY <1>3, PortalDecided
<1> QED BY <1>1, <1>2, <1>3

\* The variables of the portal hold values of their types (portal.service.ts).
LEMMA PortalTypes == PortalAssumption => (Portal!Spec => []PortalInv)
<1> SUFFICES ASSUME PortalAssumption
             PROVE  Portal!Spec => []PortalInv
  OBVIOUS
<1>1. Portal!Init => PortalInv
  BY PortalInit
<1>2. PortalInv /\ [Portal!Next]_(Portal!vars) => PortalInv'
  <2> SUFFICES ASSUME PortalInv, [Portal!Next]_(Portal!vars)
               PROVE  PortalInv'
    OBVIOUS
  <2>1. ASSUME NEW p \in Requests, Portal!Begin(p) \/ Portal!Continue(p) \/ Portal!Stop(p)
        PROVE  PortalInv'
    <3>1. PICK r \in Portal!Request : Portal!Goes(p, r) /\ PortalGood(r) /\ PortalRows'
      BY <2>1, PortalSteps DEF PortalStep
    <3>2. /\ pReq' \in [Requests -> Portal!Request]
          /\ \A q \in Requests : pReq'[q] = IF q = p THEN r ELSE pReq[q]
      BY <3>1 DEF PortalInv, Portal!Goes
    <3>3. \A q \in Requests : PortalGood(pReq'[q])
      BY <3>1, <3>2 DEF PortalInv
    <3> QED BY <3>1, <3>2, <3>3 DEF PortalInv, PortalGood
  <2>2. ASSUME NEW c \in Clients, Portal!LinkExpires(c) PROVE PortalInv'
    BY <2>2, PortalExpires DEF PortalInv, PortalGood
  <2>3. CASE UNCHANGED Portal!vars
    BY <2>3 DEF PortalInv, PortalRows, PortalGood, Portal!vars, Portal!rows, Portal!history
  <2> QED BY <2>1, <2>2, <2>3 DEF Portal!Next
<1> QED BY <1>1, <1>2, PTL DEF Portal!Spec

\* An account is newer than the last one removed, whatever fails or stops, when requests
\* come one at a time (createAndInvite, setup, login, revokeAccess).
LEMMA PortalInvariance ==
  ASSUME PortalAssumption, NEW CONSTANT p, Requests = {p}
  PROVE  Portal!Spec => []PortalSerial(pReq[p])
<1>1. Portal!Init => PortalSerial(pReq[p])
  BY PortalInit
<1>2. PortalInv /\ PortalSerial(pReq[p]) /\ [Portal!Next]_(Portal!vars)
        => PortalSerial(pReq[p])'
  <2> SUFFICES ASSUME PortalInv, PortalSerial(pReq[p]), [Portal!Next]_(Portal!vars)
               PROVE  PortalSerial(pReq[p])'
    OBVIOUS
  <2>1. PICK o \in Portal!Request : o = pReq[p] /\ PortalSerial(o)
    BY DEF PortalInv
  <2>2. CASE Portal!Begin(p) \/ Portal!Continue(p) \/ Portal!Stop(p)
    <3>1. PICK r \in Portal!Request : Portal!Goes(p, r) /\ PortalSerial(r)'
      BY <2>2, PortalSteps DEF PortalStep
    <3>2. pReq'[p] = r
      BY <3>1 DEF Portal!Goes, PortalInv
    <3> QED BY <3>1, <3>2
  <2>3. ASSUME NEW c \in Clients, Portal!LinkExpires(c) PROVE PortalSerial(pReq[p])'
    <3>1. PortalSerial(o)' /\ pReq'[p] = o
      BY <2>1, <2>3, PortalExpires
    <3> QED BY <3>1
  <2>4. CASE UNCHANGED Portal!vars
    BY <2>4 DEF PortalSerial, PortalNewer, PortalFound, Portal!Has, Portal!vars, Portal!rows,
       Portal!history
  <2> QED BY <2>2, <2>3, <2>4 DEF Portal!Next
<1> QED BY <1>1, <1>2, PortalTypes, PTL DEF Portal!Spec

\* No session outlives the removal of the access that it was opened with.
LEMMA PortalStaysOut ==
  ASSUME PortalAssumption, PortalInv, PortalNewer
  PROVE  Portal!RevokedStaysOut
<1> SUFFICES ASSUME NEW s \in pCookies, Portal!LetIn(s)
             PROVE  s.id > pRevoked[s.who]
  BY DEF Portal!RevokedStaysOut
<1>1. s.who \in Clients
  BY DEF PortalInv, PortalRows
<1>2. pRevoked[s.who] < s.id
  BY <1>1 DEF Portal!LetIn, PortalNewer
<1>3. pRevoked[s.who] \in Nat /\ s.id \in Nat
  BY <1>1 DEF PortalInv, PortalRows, Portal!Links, PortalAssumption
<1> QED BY <1>2, <1>3

-----------------------------------------------------------------------------
(* The requests to HMRC (HmrcCalls).                                       *)

\* The operations that have steps.
Operations == {"se read", "se put", "uk read", "uk put", "uk figures", "legacy uk figures",
               "summary", "figures",
               "legacy figures", "obligations", "crystallisation", "balance", "payments",
               "charges", "penalties", "codes read", "codes put", "codes delete", "status",
               "opt", "itsa status", "businesses", "details", "sources",
               "portal obligations", "portal status", "portal submissions",
               "portal liabilities"}

\* What the proofs assume of the constants: the operations are those that have steps, and
\* the amount that the sandbox puts for none is shown as 0, so that 0 is an amount, too.
CallsAssumption ==
  /\ Ops \subseteq Operations
  /\ Amounts # {} /\ Amounts \subseteq Nat
  /\ {MaxRetries, MaxWrites} \subseteq Nat

\* The steps that requests are made of.
CallStep ==
  {s \in Calls!Step :
     /\ s.do = "read" => s.of # "none"
     /\ s.do = "write" => s.of \in Calls!Resources
     /\ s.how \in {"versions", "periods", "optional"} =>
          s.do = "read" /\ s.of \in Calls!Businesses
     /\ s.do = "each" => s = Calls!Check("each")}

\* Lists of steps: the list of the periods of a business is followed by its read.
Tidy(s) ==
  /\ s \in Seq(CallStep)
  /\ s # <<>>
  /\ \A i \in 1..Len(s) : s[i].how = "periods" =>
                            i < Len(s) /\ s[i + 1] = Calls!Read(s[i].of, "versions")

\* No step of the list fills in a total.
Plain(s) ==
  \A i \in 1..Len(s) : s[i].do # "each" /\ s[i].how \notin {"versions", "periods"}

\* The list writes to nothing but one resource, or not at all.
WritesTo(s, w) == \A i \in 1..Len(s) : s[i].do = "write" => s[i].of = w

\* A step is on the list, or ends it.
HasStep(s, x) == \E i \in 1..Len(s) : s[i] = x
LastStep(s) == s[Len(s)]

\* What an operation writes, and the read whose data it answers with.
Target(op) ==
  CASE op = "se put"    -> "se"
    [] op = "uk put"    -> "uk"
    [] op = "codes put" -> "codes"
    [] op = "opt"       -> "opted"
    [] op = "se read"   -> "none"
    [] op = "uk read"   -> "none"
Reread(op) ==
  CASE op \in {"se put", "se read"} -> Calls!Read("se", "optional")
    [] op \in {"uk put", "uk read"} -> Calls!Read("uk", "property")
    [] op = "codes put"             -> Calls!Read("codes", "strict")
    [] op = "opt"                   -> Calls!Read("opted", "strict")

\* The operations that answer with data they read last, and those that answer with totals.
Rereading == Calls!Writes \cup {"se read", "uk read"}
Totalled == {"summary", "figures", "legacy figures"}

\* A request is well formed.
CallsGood(r) ==
  /\ r \in Calls!Request
  /\ r.steps # <<>> => Tidy(r.steps)
  /\ r.todo # {} => r.steps # <<>> /\ Head(r.steps).do = "each"

\* The inductive invariant of the types.
CallsInv ==
  /\ hHeld \in [Calls!Resources -> Calls!Value]
  /\ hFiled \in 0..MaxWrites
  /\ {hAuthorised, hConnected, hScope} \subseteq BOOLEAN
  /\ hReq \in [Requests -> Calls!Request]
  /\ hAns \in [Requests -> Calls!AnAnswer]
  /\ \A p \in Requests : CallsGood(hReq[p])

\* A write that is alone has yet to write, or HMRC holds what it wrote.
WriteFound(r) ==
  r.op \in Calls!Writes =>
    /\ r.value \in Amounts
    /\ HasStep(r.steps, Calls!Write(Target(r.op))) \/ hHeld[Target(r.op)] = r.value

\* A request for figures or debts ends with a read of them, and then has what HMRC holds;
\* if not, it has nothing since a read of the self-employment was lost, or it read the
\* debts of the sandbox.
DataFound(r) ==
  r.op \in Rereading =>
    /\ r.steps # <<>> => /\ Plain(r.steps)
                         /\ WritesTo(r.steps, Target(r.op))
                         /\ LastStep(r.steps) = Reread(r.op)
    /\ r.steps = <<>> => \/ r.data = hHeld[Reread(r.op).of]
                         \/ Sandbox /\ r.op = "codes put"
                         \/ /\ r.op \in {"se read", "se put"}
                            /\ r.data = None /\ "se" \in r.unread

\* Totals have yet to ask for the summaries, or they have those that came and miss those
\* that are under way or failed.
SummariesFound(r) ==
  \/ HasStep(r.steps, Calls!Check("each")) /\ r.todo = {}
  \/ \A b \in Calls!Businesses :
       /\ b \in r.todo => b \notin r.unsummed
       /\ r.biss[b] = IF b \in r.todo \cup r.unsummed THEN None ELSE hHeld[b]

\* They have the periods of a business, have yet to read them, or a read was lost.
PeriodsFound(r) ==
  \A b \in Calls!Businesses :
    /\ r.periods[b] \in {None, Calls!Kept(hHeld[b])}
    /\ r.op # "summary" => \/ b \in r.unread
                           \/ HasStep(r.steps, Calls!Read(b, "versions"))
                           \/ r.periods[b] = Calls!Kept(hHeld[b])

\* What totals have found.
TotalsFound(r) ==
  r.op \in Totalled =>
    WritesTo(r.steps, "none") /\ SummariesFound(r) /\ PeriodsFound(r)

\* What a request has found so far, and what an answer says.
CallsFound(r) == WriteFound(r) /\ DataFound(r) /\ TotalsFound(r)
CallsTrue(a) ==
  /\ Calls!EmptyIsEmpty(a)
  /\ Calls!FiguresHeld(a)
  /\ Calls!PutHeld(a)
  /\ Calls!CodingShown(a)
  /\ Calls!TotalsComplete(a)

\* The invariant of one request at a time.
CallsSerial(r, a) ==
  /\ r.steps # <<>> => CallsFound(r)
  /\ CallsTrue(a)

\* The steps that lists are made of.
LEMMA StepKinds ==
  /\ \A w \in {"gate", "token", "scope", "valid", "each"} : Calls!Check(w) \in CallStep
  /\ \A w \in {"gate", "token"} : [Calls!Check(w) EXCEPT !.how = "shy"] \in CallStep
  /\ \A of \in Calls!Resources \cup Calls!Others :
       \A how \in {"shy", "strict", "property"} : Calls!Read(of, how) \in CallStep
  /\ \A b \in Calls!Businesses :
       \A how \in {"optional", "versions", "periods"} : Calls!Read(b, how) \in CallStep
  /\ \A of \in Calls!Resources : Calls!Write(of) \in CallStep
<1> USE DEF CallStep, Calls!Step, Calls!Check, Calls!Read, Calls!Write, Calls!Resources,
        Calls!Businesses
<1>1. \A w \in {"gate", "token", "scope", "valid", "each"} : Calls!Check(w) \in CallStep
  OBVIOUS
<1>2. \A w \in {"gate", "token"} : [Calls!Check(w) EXCEPT !.how = "shy"] \in CallStep
  OBVIOUS
<1>3. \A of \in Calls!Resources \cup Calls!Others :
        \A how \in {"shy", "strict", "property"} : Calls!Read(of, how) \in CallStep
  BY DEF Calls!Others
<1>4. \A b \in Calls!Businesses :
        \A how \in {"optional", "versions", "periods"} : Calls!Read(b, how) \in CallStep
  OBVIOUS
<1>5. \A of \in Calls!Resources : Calls!Write(of) \in CallStep
  OBVIOUS
<1> QED BY <1>1, <1>2, <1>3, <1>4, <1>5

\* A list that writes to "w" or nothing, and fills in no total.
Simple(s, w) == Tidy(s) /\ Plain(s) /\ WritesTo(s, w)

\* A step that such a list may hold.
SimpleStep(x, w) ==
  /\ x \in CallStep
  /\ x.do # "each"
  /\ x.how \notin {"versions", "periods"}
  /\ x.do = "write" => x.of = w

\* Lists of one, two and three steps.
LEMMA OneStep ==
  ASSUME NEW x \in CallStep, x.how # "periods"
  PROVE  /\ Tidy(<<x>>) /\ LastStep(<<x>>) = x /\ HasStep(<<x>>, x)
         /\ \A w : SimpleStep(x, w) => Simple(<<x>>, w)
<1>1. <<x>> \in Seq(CallStep) /\ Len(<<x>>) = 1 /\ <<x>>[1] = x
  OBVIOUS
<1>2. PICK s \in Seq(CallStep) : s = <<x>> /\ Len(s) = 1 /\ s[1] = x /\ s # <<>>
  BY <1>1
<1>3. Tidy(s) /\ LastStep(s) = x /\ HasStep(s, x)
  BY <1>2 DEF Tidy, LastStep, HasStep
<1>4. \A w : SimpleStep(x, w) => Simple(s, w)
  BY <1>2, <1>3 DEF Simple, SimpleStep, Plain, WritesTo
<1> QED BY <1>2, <1>3, <1>4

\* Two steps.
LEMMA TwoSteps ==
  ASSUME NEW x \in CallStep, NEW y \in CallStep, x.how # "periods", y.how # "periods"
  PROVE  /\ Tidy(<<x, y>>) /\ LastStep(<<x, y>>) = y
         /\ HasStep(<<x, y>>, x) /\ HasStep(<<x, y>>, y)
         /\ \A w : SimpleStep(x, w) /\ SimpleStep(y, w) => Simple(<<x, y>>, w)
         /\ \A w : x.do # "write" /\ y.do # "write" => WritesTo(<<x, y>>, w)
<1>1. /\ <<x, y>> \in Seq(CallStep) /\ Len(<<x, y>>) = 2
      /\ <<x, y>>[1] = x /\ <<x, y>>[2] = y
  OBVIOUS
<1>2. PICK s \in Seq(CallStep) : s = <<x, y>> /\ Len(s) = 2 /\ s[1] = x /\ s[2] = y /\ s # <<>>
  BY <1>1
<1>3. Tidy(s) /\ LastStep(s) = y /\ HasStep(s, x) /\ HasStep(s, y)
  BY <1>2 DEF Tidy, LastStep, HasStep
<1>4. \A w : SimpleStep(x, w) /\ SimpleStep(y, w) => Simple(s, w)
  BY <1>2, <1>3 DEF Simple, SimpleStep, Plain, WritesTo
<1>5. \A w : x.do # "write" /\ y.do # "write" => WritesTo(s, w)
  BY <1>2 DEF WritesTo
<1> QED BY <1>2, <1>3, <1>4, <1>5

\* Three steps.
LEMMA ThreeSteps ==
  ASSUME NEW x \in CallStep, NEW y \in CallStep, NEW z \in CallStep,
         x.how # "periods", y.how # "periods", z.how # "periods"
  PROVE  /\ Tidy(<<x, y, z>>) /\ HasStep(<<x, y, z>>, z)
         /\ \A w : SimpleStep(x, w) /\ SimpleStep(y, w) /\ SimpleStep(z, w)
                     => Simple(<<x, y, z>>, w)
<1>1. /\ <<x, y, z>> \in Seq(CallStep) /\ Len(<<x, y, z>>) = 3
      /\ <<x, y, z>>[1] = x /\ <<x, y, z>>[2] = y /\ <<x, y, z>>[3] = z
  OBVIOUS
<1>2. PICK s \in Seq(CallStep) : /\ s = <<x, y, z>> /\ Len(s) = 3 /\ s # <<>>
                                 /\ s[1] = x /\ s[2] = y /\ s[3] = z
  BY <1>1
<1>3. Tidy(s) /\ HasStep(s, z)
  BY <1>2 DEF Tidy, HasStep
<1>4. \A w : SimpleStep(x, w) /\ SimpleStep(y, w) /\ SimpleStep(z, w) => Simple(s, w)
  BY <1>2, <1>3 DEF Simple, SimpleStep, Plain, WritesTo
<1> QED BY <1>2, <1>3, <1>4

\* One list after the other.
LEMMA Joined ==
  ASSUME NEW s, NEW t, Tidy(s), Tidy(t)
  PROVE  /\ Tidy(s \o t)
         /\ LastStep(s \o t) = LastStep(t)
         /\ \A x : HasStep(s, x) \/ HasStep(t, x) => HasStep(s \o t, x)
         /\ \A w : WritesTo(s, w) /\ WritesTo(t, w) => WritesTo(s \o t, w)
         /\ \A w : Simple(s, w) /\ Simple(t, w) => Simple(s \o t, w)
<1>1. PICK u : u = s \o t
  OBVIOUS
<1>2. s \in Seq(CallStep) /\ t \in Seq(CallStep) /\ Len(s) \in Nat \ {0} /\ Len(t) \in Nat \ {0}
  BY EmptySeq DEF Tidy
<1>3. /\ u \in Seq(CallStep)
      /\ Len(u) = Len(s) + Len(t)
      /\ \A i \in 1 .. Len(s) + Len(t) : u[i] = IF i <= Len(s) THEN s[i] ELSE t[i - Len(s)]
  BY <1>1, <1>2, ConcatProperties
<1>4. /\ \A i \in 1..Len(s) : i \in 1..Len(u) /\ u[i] = s[i]
      /\ \A i \in 1..Len(t) : i + Len(s) \in 1..Len(u) /\ u[i + Len(s)] = t[i]
  <2>1. \A i \in 1..Len(s) : i \in 1..Len(u) /\ u[i] = s[i]
    BY <1>2, <1>3
  <2>2. ASSUME NEW i \in 1..Len(t)
        PROVE  i + Len(s) \in 1..Len(u) /\ u[i + Len(s)] = t[i]
    <3>1. PICK j \in 1..Len(s) + Len(t) : j = i + Len(s)
      BY <1>2
    <3>2. u[j] = IF j <= Len(s) THEN s[j] ELSE t[j - Len(s)]
      BY <1>3
    <3>3. j - Len(s) = i /\ ~(j <= Len(s))
      BY <1>2, <3>1
    <3> QED BY <1>3, <3>1, <3>2, <3>3
  <2> QED BY <2>1, <2>2
<1>5. \A i \in 1..Len(u) : \/ i \in 1..Len(s) /\ u[i] = s[i]
                           \/ i - Len(s) \in 1..Len(t) /\ u[i] = t[i - Len(s)]
  BY <1>2, <1>3
<1>6. u # <<>>
  BY <1>2, <1>3
<1>7. ASSUME NEW i \in 1..Len(u), u[i].how = "periods"
      PROVE  i < Len(u) /\ u[i + 1] = Calls!Read(u[i].of, "versions")
  <2>1. CASE i \in 1..Len(s) /\ u[i] = s[i]
    <3>1. i < Len(s) /\ s[i + 1] = Calls!Read(s[i].of, "versions")
      BY <1>7, <2>1 DEF Tidy
    <3> QED BY <1>2, <1>3, <1>4, <2>1, <3>1
  <2>2. CASE i - Len(s) \in 1..Len(t) /\ u[i] = t[i - Len(s)]
    <3> DEFINE j == i - Len(s)
    <3>1. j < Len(t) /\ t[j + 1] = Calls!Read(t[j].of, "versions")
      BY <1>7, <2>2 DEF Tidy
    <3>2. j + 1 \in 1..Len(t) /\ (j + 1) + Len(s) = i + 1
      BY <1>2, <2>2, <3>1
    <3>3. u[i + 1] = t[j + 1]
      BY <1>4, <3>2
    <3> QED BY <1>2, <1>3, <2>2, <3>1, <3>2, <3>3
  <2> QED BY <1>5, <2>1, <2>2
<1>8. Tidy(u)
  BY <1>3, <1>6, <1>7 DEF Tidy
<1>9. LastStep(u) = LastStep(t)
  BY <1>2, <1>3, <1>4 DEF LastStep
<1>10. \A x : HasStep(s, x) \/ HasStep(t, x) => HasStep(u, x)
  BY <1>4 DEF HasStep
<1>11. \A w : WritesTo(s, w) /\ WritesTo(t, w) => WritesTo(u, w)
  BY <1>5 DEF WritesTo
<1>12. Plain(s) /\ Plain(t) => Plain(u)
  BY <1>5 DEF Plain
<1> QED BY <1>1, <1>8, <1>9, <1>10, <1>11, <1>12 DEF Simple

\* The shared beginnings and ends of the operations' steps.
LEMMA SimpleLists ==
  ASSUME NEW w
  PROVE  /\ Simple(Calls!Gate, w)
         /\ Simple(Calls!Listed, w)
         /\ Simple(Calls!SeListed, w)
         /\ Simple(Calls!UkListed, w)
         /\ Simple(<<Calls!Check("valid")>>, w)
         /\ Simple(Calls!SeRead, w) /\ LastStep(Calls!SeRead) = Calls!Read("se", "optional")
         /\ Simple(Calls!UkRead, w) /\ LastStep(Calls!UkRead) = Calls!Read("uk", "property")
         /\ Simple(Calls!CodesRead, w) /\ LastStep(Calls!CodesRead) = Calls!Read("codes", "strict")
         /\ Simple(Calls!StatusRead, w)
         /\ LastStep(Calls!StatusRead) = Calls!Read("opted", "strict")
         /\ Simple(Calls!Payments, w)
<1>1. \A x \in {"gate", "token", "scope", "valid"} :
        /\ Calls!Check(x) \in CallStep
        /\ Calls!Check(x).how # "periods"
        /\ SimpleStep(Calls!Check(x), w)
  BY StepKinds DEF SimpleStep, Calls!Check
<1>2. \A of \in {"list", "uk", "codes", "opted", "account"} :
        \A how \in {"strict", "property"} :
          /\ Calls!Read(of, how) \in CallStep
          /\ Calls!Read(of, how).how # "periods"
          /\ SimpleStep(Calls!Read(of, how), w)
  BY StepKinds DEF SimpleStep, Calls!Read, Calls!Resources, Calls!Businesses, Calls!Others
<1>3. /\ Calls!Read("se", "optional") \in CallStep
      /\ Calls!Read("se", "optional").how # "periods"
      /\ SimpleStep(Calls!Read("se", "optional"), w)
  BY StepKinds DEF SimpleStep, Calls!Read, Calls!Businesses
<1>4. \A of \in {"list", "uk", "codes", "opted", "account"} :
        \A how \in {"strict", "property"} :
          /\ Simple(<<Calls!Read(of, how)>>, w)
          /\ LastStep(<<Calls!Read(of, how)>>) = Calls!Read(of, how)
  BY <1>2, OneStep
<1>5. Simple(<<Calls!Check("valid")>>, w)
  BY <1>1, OneStep
<1>6. Simple(Calls!Gate, w)
  BY <1>1, TwoSteps DEF Calls!Gate
<1>7. Simple(Calls!Listed, w)
  BY <1>4, <1>6, Joined DEF Calls!Listed, Simple
<1>8. Simple(Calls!SeListed, w) /\ Simple(Calls!UkListed, w)
  BY <1>5, <1>7, Joined DEF Calls!SeListed, Calls!UkListed, Simple
<1>9. Simple(Calls!SeRead, w) /\ LastStep(Calls!SeRead) = Calls!Read("se", "optional")
  <2>1. /\ Simple(<<Calls!Read("se", "optional")>>, w)
        /\ LastStep(<<Calls!Read("se", "optional")>>) = Calls!Read("se", "optional")
    BY <1>3, OneStep
  <2> QED BY <1>8, <2>1, Joined DEF Calls!SeRead, Simple
<1>10. Simple(Calls!UkRead, w) /\ LastStep(Calls!UkRead) = Calls!Read("uk", "property")
  BY <1>4, <1>8, Joined DEF Calls!UkRead, Simple
<1>11. Simple(<<Calls!Check("valid")>> \o Calls!Gate, w)
  BY <1>5, <1>6, Joined DEF Simple
<1>12. Simple(Calls!CodesRead, w) /\ LastStep(Calls!CodesRead) = Calls!Read("codes", "strict")
  BY <1>4, <1>11, Joined DEF Calls!CodesRead, Simple
<1>13. Simple(Calls!StatusRead, w) /\ LastStep(Calls!StatusRead) = Calls!Read("opted", "strict")
  BY <1>4, <1>11, Joined DEF Calls!StatusRead, Simple
<1>14. Simple(Calls!Payments, w)
  BY <1>4, <1>6, Joined DEF Calls!Payments, Simple
<1> QED BY <1>5, <1>6, <1>7, <1>8, <1>9, <1>10, <1>12, <1>13, <1>14

\* A write is written to its resource, and then read again.
LEMMA WriteSteps ==
  ASSUME NEW op \in Calls!Writes
  PROVE  /\ Simple(Calls!Steps(op), Target(op))
         /\ HasStep(Calls!Steps(op), Calls!Write(Target(op)))
         /\ LastStep(Calls!Steps(op)) = Reread(op)
<1>1. ASSUME NEW of \in Calls!Resources
      PROVE  /\ Calls!Write(of) \in CallStep /\ Calls!Write(of).how # "periods"
             /\ SimpleStep(Calls!Write(of), of)
  BY StepKinds DEF SimpleStep, Calls!Write
<1>2. ASSUME NEW w, NEW x \in {"scope", "valid"}
      PROVE  /\ Calls!Check(x) \in CallStep /\ Calls!Check(x).how # "periods"
             /\ SimpleStep(Calls!Check(x), w)
  BY StepKinds DEF SimpleStep, Calls!Check
<1>3. {"se", "uk", "codes", "opted"} \subseteq Calls!Resources
  BY DEF Calls!Resources, Calls!Businesses
<1>4. ASSUME NEW of \in {"se", "uk"}
      PROVE  /\ Simple(<<Calls!Check("scope"), Calls!Check("valid"), Calls!Write(of)>>, of)
             /\ HasStep(<<Calls!Check("scope"), Calls!Check("valid"), Calls!Write(of)>>,
                        Calls!Write(of))
  BY <1>1, <1>2, <1>3, ThreeSteps
<1>5. ASSUME NEW of \in {"codes", "opted"}
      PROVE  Simple(<<Calls!Write(of)>>, of) /\ HasStep(<<Calls!Write(of)>>, Calls!Write(of))
  BY <1>1, <1>3, OneStep
<1>6. ASSUME NEW of \in {"se", "uk"}, NEW l, Simple(l, of), NEW t, Simple(t, of)
      PROVE  LET s == l \o <<Calls!Check("scope"), Calls!Check("valid"), Calls!Write(of)>>
             IN /\ Simple(s \o t, of)
                /\ HasStep(s \o t, Calls!Write(of))
                /\ LastStep(s \o t) = LastStep(t)
  <2> DEFINE s == l \o <<Calls!Check("scope"), Calls!Check("valid"), Calls!Write(of)>>
  <2>1. Simple(s, of) /\ HasStep(s, Calls!Write(of))
    BY <1>4, <1>6, Joined DEF Simple
  <2> HIDE DEF s
  <2>2. Simple(s \o t, of) /\ HasStep(s \o t, Calls!Write(of)) /\ LastStep(s \o t) = LastStep(t)
    BY <1>6, <2>1, Joined DEF Simple
  <2> QED BY <2>2 DEF s
<1>7. ASSUME NEW of \in {"codes", "opted"}, NEW t, Simple(t, of)
      PROVE  LET s == <<Calls!Check("valid")>> \o Calls!Gate \o <<Calls!Write(of)>>
             IN /\ Simple(s \o t, of)
                /\ HasStep(s \o t, Calls!Write(of))
                /\ LastStep(s \o t) = LastStep(t)
  <2> DEFINE s == <<Calls!Check("valid")>> \o Calls!Gate \o <<Calls!Write(of)>>
  <2>1. Simple(<<Calls!Check("valid")>> \o Calls!Gate, of)
    BY SimpleLists, Joined DEF Simple
  <2>2. Simple(s, of) /\ HasStep(s, Calls!Write(of))
    BY <1>5, <2>1, Joined DEF Simple
  <2> HIDE DEF s
  <2>3. Simple(s \o t, of) /\ HasStep(s \o t, Calls!Write(of)) /\ LastStep(s \o t) = LastStep(t)
    BY <1>7, <2>2, Joined DEF Simple
  <2> QED BY <2>3 DEF s
<1>8. CASE op = "se put"
  <2>1. Target(op) = "se" /\ Reread(op) = Calls!Read("se", "optional")
    BY <1>8 DEF Target, Reread
  <2>2. Calls!Steps(op) = Calls!SePut
    BY <1>8 DEF Calls!Steps
  <2>3. /\ Simple(Calls!SePut, "se")
        /\ HasStep(Calls!SePut, Calls!Write("se"))
        /\ LastStep(Calls!SePut) = Calls!Read("se", "optional")
    BY <1>6, SimpleLists DEF Calls!SePut
  <2> QED BY <2>1, <2>2, <2>3
<1>9. CASE op = "uk put"
  <2>1. Target(op) = "uk" /\ Reread(op) = Calls!Read("uk", "property")
    BY <1>9 DEF Target, Reread
  <2>2. Calls!Steps(op) = Calls!UkPut
    BY <1>9 DEF Calls!Steps
  <2>3. /\ Simple(Calls!UkPut, "uk")
        /\ HasStep(Calls!UkPut, Calls!Write("uk"))
        /\ LastStep(Calls!UkPut) = Calls!Read("uk", "property")
    BY <1>6, SimpleLists DEF Calls!UkPut
  <2> QED BY <2>1, <2>2, <2>3
<1>10. CASE op = "codes put"
  <2>1. Target(op) = "codes" /\ Reread(op) = Calls!Read("codes", "strict")
    BY <1>10 DEF Target, Reread
  <2>2. Calls!Steps(op) = Calls!CodesPut
    BY <1>10 DEF Calls!Steps
  <2>3. /\ Simple(Calls!CodesPut, "codes")
        /\ HasStep(Calls!CodesPut, Calls!Write("codes"))
        /\ LastStep(Calls!CodesPut) = Calls!Read("codes", "strict")
    BY <1>7, SimpleLists DEF Calls!CodesPut
  <2> QED BY <2>1, <2>2, <2>3
<1>11. CASE op = "opt"
  <2>1. Target(op) = "opted" /\ Reread(op) = Calls!Read("opted", "strict")
    BY <1>11 DEF Target, Reread
  <2>2. Calls!Steps(op) = Calls!Opt
    BY <1>11 DEF Calls!Steps
  <2>3. /\ Simple(Calls!Opt, "opted")
        /\ HasStep(Calls!Opt, Calls!Write("opted"))
        /\ LastStep(Calls!Opt) = Calls!Read("opted", "strict")
    BY <1>7, SimpleLists DEF Calls!Opt
  <2> QED BY <2>1, <2>2, <2>3
<1> QED BY <1>8, <1>9, <1>10, <1>11 DEF Calls!Writes

\* A read of figures writes nothing.
LEMMA ReadSteps ==
  ASSUME NEW op \in {"se read", "uk read"}
  PROVE  Simple(Calls!Steps(op), Target(op)) /\ LastStep(Calls!Steps(op)) = Reread(op)
<1>1. CASE op = "se read"
  <2>1. Calls!Steps(op) = Calls!SeRead
    BY <1>1 DEF Calls!Steps
  <2>2. Reread(op) = Calls!Read("se", "optional")
    BY <1>1 DEF Reread
  <2> QED BY <2>1, <2>2, SimpleLists
<1>2. CASE op = "uk read"
  <2>1. Calls!Steps(op) = Calls!UkRead
    BY <1>2 DEF Calls!Steps
  <2>2. Reread(op) = Calls!Read("uk", "property")
    BY <1>2 DEF Reread
  <2> QED BY <2>1, <2>2, SimpleLists
<1> QED BY <1>1, <1>2

\* The totals ask for all summaries, and read the periods of each business.
LEMMA TotalSteps ==
  ASSUME NEW op \in Totalled
  PROVE  /\ Tidy(Calls!Steps(op)) /\ WritesTo(Calls!Steps(op), "none")
         /\ HasStep(Calls!Steps(op), Calls!Check("each"))
         /\ op # "summary" =>
              \A b \in Calls!Businesses : HasStep(Calls!Steps(op), Calls!Read(b, "versions"))
<1> DEFINE each == <<Calls!Check("each")>>
<1>1. Tidy(each) /\ WritesTo(each, "none") /\ HasStep(each, Calls!Check("each"))
  <2>1. Calls!Check("each") \in CallStep /\ Calls!Check("each").how # "periods"
    BY StepKinds DEF Calls!Check
  <2>2. Tidy(each) /\ HasStep(each, Calls!Check("each"))
    BY <2>1, OneStep
  <2>3. Len(each) = 1 /\ each[1].do # "write"
    BY DEF Calls!Check
  <2> QED BY <2>2, <2>3 DEF WritesTo
<1> HIDE DEF each
<1>2. Tidy(Calls!Listed) /\ WritesTo(Calls!Listed, "none")
  BY SimpleLists DEF Simple
<1>3. /\ Tidy(Calls!Summary) /\ WritesTo(Calls!Summary, "none")
      /\ HasStep(Calls!Summary, Calls!Check("each"))
  BY <1>1, <1>2, Joined DEF Calls!Summary, each
<1>4. LET s == Calls!Summary \o Calls!Listed
      IN Tidy(s) /\ WritesTo(s, "none") /\ HasStep(s, Calls!Check("each"))
  BY <1>2, <1>3, Joined
<1>5. /\ Tidy(Calls!Cumulative) /\ WritesTo(Calls!Cumulative, "none")
      /\ \A b \in Calls!Businesses : HasStep(Calls!Cumulative, Calls!Read(b, "versions"))
  <2> DEFINE x == Calls!Read("se", "versions")
             y == Calls!Read("uk", "versions")
  <2>1. x \in CallStep /\ y \in CallStep
    BY StepKinds DEF Calls!Businesses
  <2>2. x.how # "periods" /\ y.how # "periods" /\ x.do # "write" /\ y.do # "write"
    BY DEF Calls!Read
  <2>3. Calls!Cumulative = <<x, y>>
    BY DEF Calls!Cumulative
  <2> HIDE DEF x, y
  <2>4. /\ Tidy(Calls!Cumulative) /\ WritesTo(Calls!Cumulative, "none")
        /\ HasStep(Calls!Cumulative, x) /\ HasStep(Calls!Cumulative, y)
    BY <2>1, <2>2, <2>3, TwoSteps
  <2> QED BY <2>4 DEF x, y, Calls!Businesses
<1>6. /\ Tidy(Calls!Legacy) /\ WritesTo(Calls!Legacy, "none")
      /\ \A b \in Calls!Businesses : HasStep(Calls!Legacy, Calls!Read(b, "versions"))
  <2>1. PICK s : s = Calls!Legacy
    OBVIOUS
  <2>2. /\ Len(s) = 4
        /\ s[1] = Calls!Read("se", "periods") /\ s[2] = Calls!Read("se", "versions")
        /\ s[3] = Calls!Read("uk", "periods") /\ s[4] = Calls!Read("uk", "versions")
    BY <2>1 DEF Calls!Legacy
  <2>3. s \in Seq(CallStep)
    BY <2>1, StepKinds DEF Calls!Legacy, Calls!Businesses
  <2>4. s # <<>>
    BY <2>2
  <2>5. ASSUME NEW i \in 1..Len(s)
        PROVE  /\ s[i].do # "write"
               /\ s[i].how = "periods" => i < Len(s) /\ s[i + 1] = Calls!Read(s[i].of, "versions")
    <3>1. i \in {1, 2, 3, 4}
      BY <2>2
    <3> QED BY <2>2, <3>1 DEF Calls!Read
  <2>6. Tidy(s) /\ WritesTo(s, "none")
    BY <2>3, <2>4, <2>5 DEF Tidy, WritesTo
  <2>7. \A b \in Calls!Businesses : HasStep(s, Calls!Read(b, "versions"))
    BY <2>2 DEF HasStep, Calls!Businesses
  <2> QED BY <2>1, <2>6, <2>7
<1>7. CASE op = "summary"
  <2>1. Calls!Steps(op) = Calls!Summary
    BY <1>7 DEF Calls!Steps
  <2> QED BY <1>3, <1>7, <2>1
<1>8. CASE op = "figures"
  <2>1. Calls!Steps(op) = (Calls!Summary \o Calls!Listed) \o Calls!Cumulative
    BY <1>8 DEF Calls!Steps, Calls!SubmittedFigures
  <2> QED BY <1>4, <1>5, <2>1, Joined
<1>9. CASE op = "legacy figures"
  <2>1. Calls!Steps(op) = (Calls!Summary \o Calls!Listed) \o Calls!Legacy
    BY <1>9 DEF Calls!Steps, Calls!LegacyFigures
  <2> QED BY <1>4, <1>6, <2>1, Joined
<1> QED BY <1>7, <1>8, <1>9 DEF Totalled

\* The steps of every operation.
LEMMA TidySteps ==
  ASSUME NEW op \in Operations PROVE Tidy(Calls!Steps(op))
<1>1. \A of \in Calls!Resources \cup Calls!Others :
        \A how \in {"strict", "property", "shy"} :
          Calls!Read(of, how) \in CallStep /\ Calls!Read(of, how).how # "periods"
  BY StepKinds DEF Calls!Read
<1>2. {"uk", "annual", "obligations", "account", "itsa", "details", "list", "year"}
        \subseteq Calls!Resources \cup Calls!Others
  BY DEF Calls!Resources, Calls!Businesses, Calls!Others
<1>3. \A of \in {"obligations", "itsa", "details"} : Tidy(<<Calls!Read(of, "strict")>>)
  BY <1>1, <1>2, OneStep
<1>4. Calls!Check("valid") \in CallStep /\ Calls!Check("valid").how # "periods"
  BY StepKinds DEF Calls!Check
<1>5. \A of \in {"obligations", "account"} :
        Tidy(<<Calls!Check("valid"), Calls!Read(of, "strict")>>)
  BY <1>1, <1>2, <1>4, TwoSteps
<1>6. Tidy(<<Calls!Read("uk", "property"), Calls!Read("annual", "property")>>)
  BY <1>1, <1>2, TwoSteps
<1>7. Tidy(<<Calls!Write("codes")>>)
  <2>1. Calls!Write("codes") \in CallStep /\ Calls!Write("codes").how # "periods"
    BY StepKinds DEF Calls!Write, Calls!Resources
  <2> QED BY <2>1, OneStep
<1>8. /\ Tidy(Calls!Gate) /\ Tidy(Calls!Listed) /\ Tidy(<<Calls!Check("valid")>>)
      /\ Tidy(Calls!SeRead) /\ Tidy(Calls!UkRead) /\ Tidy(Calls!CodesRead)
      /\ Tidy(Calls!UkListed)
      /\ Tidy(Calls!StatusRead) /\ Tidy(Calls!Payments)
  BY SimpleLists DEF Simple
<1>9. \A of \in {"list", "obligations", "itsa", "year", "account"} : Tidy(Calls!Shy(of))
  <2>1. ASSUME NEW x \in {"gate", "token"}
        PROVE  LET c == [Calls!Check(x) EXCEPT !.how = "shy"]
               IN c \in CallStep /\ c.how # "periods"
    BY StepKinds DEF Calls!Check
  <2> QED BY <1>1, <1>2, <2>1, ThreeSteps DEF Calls!Shy
<1>10. CASE op \in Calls!Writes
  BY <1>10, WriteSteps DEF Simple
<1>11. CASE op \in Totalled
  BY <1>11, TotalSteps
<1>12. CASE op \in {"se read", "uk read", "codes read", "status", "businesses"}
  BY <1>8, <1>12 DEF Calls!Steps
<1>13. CASE op \in {"payments", "penalties"}
  BY <1>8, <1>13 DEF Calls!Steps, Calls!Penalties
<1>14. CASE op = "uk figures"
  BY <1>6, <1>8, <1>14, Joined DEF Calls!Steps, Calls!UkFigures
<1>15. CASE op = "obligations"
  BY <1>5, <1>8, <1>15, Joined DEF Calls!Steps, Calls!Obligations
<1>16. CASE op = "crystallisation"
  BY <1>3, <1>8, <1>16, Joined DEF Calls!Steps, Calls!Crystallisation
<1>17. CASE op = "balance"
  BY <1>5, <1>8, <1>17, Joined DEF Calls!Steps, Calls!Balance
<1>18. CASE op = "charges"
  BY <1>8, <1>18, Joined DEF Calls!Steps, Calls!Charges
<1>19. CASE op = "codes delete"
  <2>1. Tidy(<<Calls!Check("valid")>> \o Calls!Gate)
    BY <1>8, Joined
  <2> QED BY <1>7, <1>19, <2>1, Joined DEF Calls!Steps, Calls!CodesDelete
<1>20. CASE op \in {"itsa status", "details"}
  BY <1>3, <1>8, <1>20, Joined DEF Calls!Steps, Calls!ItsaStatus, Calls!Details
<1>21. CASE op \in {"sources", "portal obligations", "portal status", "portal submissions",
                    "portal liabilities"}
  BY <1>9, <1>21 DEF Calls!Steps, Calls!Sources, Calls!PortalObligations, Calls!PortalStatus,
     Calls!PortalSubmissions, Calls!PortalLiabilities
<1>22. CASE op = "legacy uk figures"
  <2>1. PICK s : s = <<Calls!Read("uk", "periods"), Calls!Read("uk", "versions"),
                       Calls!Read("annual", "property")>>
    OBVIOUS
  <2>2. s \in Seq(CallStep)
    BY <1>1, <1>2, <2>1, StepKinds DEF Calls!Businesses
  <2>3. Len(s) = 3 /\ s # <<>> /\ s[2] = Calls!Read(s[1].of, "versions")
    BY <2>1 DEF Calls!Read
  <2>4. s[2].how # "periods" /\ s[3].how # "periods"
    BY <2>1 DEF Calls!Read
  <2>5. ASSUME NEW i \in 1..Len(s), s[i].how = "periods"
        PROVE  i < Len(s) /\ s[i + 1] = Calls!Read(s[i].of, "versions")
    <3>1. i \in {1, 2, 3}
      BY <2>3
    <3> QED BY <2>3, <2>4, <2>5, <3>1
  <2>6. Tidy(s)
    BY <2>2, <2>3, <2>5 DEF Tidy
  <2> QED BY <1>8, <1>22, <2>1, <2>6, Joined DEF Calls!Steps, Calls!LegacyUkFigures
<1> QED BY <1>10, <1>11, <1>12, <1>13, <1>14, <1>15, <1>16, <1>17, <1>18, <1>19, <1>20, <1>21,
           <1>22
        DEF Operations, Calls!Writes, Totalled

\* What is left of a list after its first step.
LEMMA Later ==
  ASSUME NEW s, Tidy(s), NEW t, t = Tail(s)
  PROVE  /\ Head(s) \in CallStep /\ Head(s) = s[1] /\ t \in Seq(CallStep)
         /\ t # <<>> => Tidy(t) /\ LastStep(t) = LastStep(s)
         /\ t = <<>> => Head(s) = LastStep(s) /\ \A x : HasStep(s, x) => x = Head(s)
         /\ Head(s).how = "periods" => t # <<>> /\ Head(t) = Calls!Read(Head(s).of, "versions")
         /\ \A x : HasStep(s, x) /\ Head(s) # x => HasStep(t, x)
         /\ \A w : WritesTo(s, w) => WritesTo(t, w)
         /\ Plain(s) => Plain(t)
<1>1. s \in Seq(CallStep) /\ s # <<>> /\ Len(s) \in Nat \ {0}
  BY EmptySeq DEF Tidy
<1>2. /\ Head(s) \in CallStep /\ Head(s) = s[1] /\ t \in Seq(CallStep)
      /\ Len(t) = Len(s) - 1
      /\ \A i \in 1..Len(t) : t[i] = s[i + 1]
  BY <1>1, HeadTailProperties
<1>3. /\ \A i \in 1..Len(t) : i + 1 \in 1..Len(s) /\ t[i] = s[i + 1]
      /\ \A i \in 1..Len(s) : i = 1 \/ (i - 1 \in 1..Len(t) /\ t[i - 1] = s[i])
  <2>1. \A i \in 1..Len(t) : i + 1 \in 1..Len(s) /\ t[i] = s[i + 1]
    BY <1>1, <1>2
  <2>2. ASSUME NEW i \in 1..Len(s), i # 1
        PROVE  i - 1 \in 1..Len(t) /\ t[i - 1] = s[i]
    <3>1. i - 1 \in 1..Len(t) /\ (i - 1) + 1 = i
      BY <1>1, <1>2, <2>2
    <3> QED BY <2>1, <3>1
  <2> QED BY <2>1, <2>2
<1>4. t = <<>> <=> Len(s) = 1
  BY <1>1, <1>2, EmptySeq
<1>5. \A i \in 1..Len(s) : s[i].how = "periods" =>
                             i < Len(s) /\ s[i + 1] = Calls!Read(s[i].of, "versions")
  BY DEF Tidy
<1>6. ASSUME t # <<>> PROVE Tidy(t) /\ LastStep(t) = LastStep(s)
  <2>1. Len(t) \in 1..Len(t) /\ Len(t) + 1 = Len(s)
    BY <1>1, <1>2, <1>4, <1>6
  <2>2. LastStep(t) = LastStep(s)
    BY <1>3, <2>1 DEF LastStep
  <2>3. ASSUME NEW i \in 1..Len(t), t[i].how = "periods"
        PROVE  i < Len(t) /\ t[i + 1] = Calls!Read(t[i].of, "versions")
    <3>1. i + 1 \in 1..Len(s) /\ s[i + 1] = t[i]
      BY <1>3
    <3>2. i + 1 < Len(s) /\ s[(i + 1) + 1] = Calls!Read(t[i].of, "versions")
      BY <1>5, <2>3, <3>1
    <3>3. i + 1 \in 1..Len(t)
      BY <1>1, <1>2, <3>1, <3>2
    <3>4. t[i + 1] = s[(i + 1) + 1]
      BY <1>3, <3>3
    <3> QED BY <1>1, <1>2, <3>2, <3>4
  <2> QED BY <1>2, <1>6, <2>2, <2>3 DEF Tidy
<1>7. ASSUME t = <<>> PROVE Head(s) = LastStep(s) /\ \A x : HasStep(s, x) => x = Head(s)
  BY <1>2, <1>4, <1>7 DEF LastStep, HasStep
<1>8. ASSUME Head(s).how = "periods"
      PROVE  t # <<>> /\ Head(t) = Calls!Read(Head(s).of, "versions")
  <2>1. 1 \in 1..Len(s)
    BY <1>1
  <2>2. 1 < Len(s) /\ s[1 + 1] = Calls!Read(Head(s).of, "versions")
    BY <1>2, <1>5, <1>8, <2>1
  <2>3. t # <<>> /\ 1 \in 1..Len(t)
    BY <1>1, <1>2, <1>4, <2>2
  <2>4. Head(t) = t[1]
    BY <1>2, <2>3, HeadTailProperties
  <2> QED BY <1>2, <2>2, <2>3, <2>4
<1>9. ASSUME NEW x, HasStep(s, x), Head(s) # x PROVE HasStep(t, x)
  BY <1>2, <1>3, <1>9 DEF HasStep
<1>10. \A w : WritesTo(s, w) => WritesTo(t, w)
  BY <1>3 DEF WritesTo
<1>11. Plain(s) => Plain(t)
  BY <1>3 DEF Plain
<1> QED BY <1>2, <1>6, <1>7, <1>8, <1>9, <1>10, <1>11

\* HMRC's data, and what the firm may do.
CallsRows ==
  /\ hHeld \in [Calls!Resources -> Calls!Value]
  /\ hFiled \in 0..MaxWrites
  /\ {hAuthorised, hConnected, hScope} \subseteq BOOLEAN

\* The step of a request, alone or not.
CallsStep(p) ==
  /\ CallsRows'
  /\ \E r \in Calls!Request, a \in Calls!AnAnswer :
       /\ CallsGood(r)
       /\ hReq' = [hReq EXCEPT ![p] = r]
       /\ hAns' = [hAns EXCEPT ![p] = a]
       /\ CallsSerial(hReq[p], hAns[p]) => CallsSerial(r, a)'

\* An answer stays true of what HMRC held then.
LEMMA TrueStays ==
  ASSUME NEW a PROVE CallsTrue(a)' <=> CallsTrue(a)
<1>1. Calls!EmptyIsEmpty(a)' <=> Calls!EmptyIsEmpty(a)
  BY DEF Calls!EmptyIsEmpty, Calls!FiguresOf, Calls!Shown
<1>2. Calls!FiguresHeld(a)' <=> Calls!FiguresHeld(a)
  BY DEF Calls!FiguresHeld, Calls!FiguresOf, Calls!Shown, Calls!Businesses
<1>3. Calls!PutHeld(a)' <=> Calls!PutHeld(a)
  BY DEF Calls!PutHeld, Calls!FiguresOf, Calls!Writes, Calls!Businesses
<1>4. Calls!CodingShown(a)' <=> Calls!CodingShown(a)
  BY DEF Calls!CodingShown, Calls!Figures, Calls!FiguresOf, Calls!Writes, Calls!Businesses
<1>5. Calls!TotalsComplete(a)' <=> Calls!TotalsComplete(a)
  BY DEF Calls!TotalsComplete, Calls!Kept, Calls!Shown, Calls!Total, Calls!Businesses
<1> QED BY <1>1, <1>2, <1>3, <1>4, <1>5 DEF CallsTrue

\* What a request found stays so while HMRC holds the same.
LEMMA FoundStays ==
  ASSUME NEW r, hHeld' = hHeld PROVE CallsFound(r)' <=> CallsFound(r)
<1>1. WriteFound(r)' <=> WriteFound(r)
  BY DEF WriteFound, Calls!Writes, HasStep, Target, Calls!Write
<1>2. DataFound(r)' <=> DataFound(r)
  BY DEF DataFound, Rereading, Calls!Writes, Plain, WritesTo, LastStep, Target, Reread,
     Calls!Read
<1>3. TotalsFound(r)' <=> TotalsFound(r)
  BY DEF TotalsFound, SummariesFound, PeriodsFound, Totalled, WritesTo, HasStep,
     Calls!Businesses, Calls!Read, Calls!Check, Calls!Kept, Calls!Shown
<1> QED BY <1>1, <1>2, <1>3 DEF CallsFound

\* The operations about the figures of a business.
LEMMA FigureOps ==
  /\ Calls!FiguresOf("se") = {"se read", "se put"}
  /\ Calls!FiguresOf("uk") = {"uk read", "uk put"}
  /\ Calls!Figures = {"se read", "se put", "uk read", "uk put"}
  /\ Calls!Writes \ Calls!Figures = {"codes put", "opt"}
  /\ Calls!Businesses = {"se", "uk"}
<1>1. /\ Calls!FiguresOf("se") = {"se read", "se put"}
      /\ Calls!FiguresOf("uk") = {"uk read", "uk put"}
      /\ Calls!Businesses = {"se", "uk"}
  BY DEF Calls!FiguresOf, Calls!Businesses
<1>2. Calls!Figures = {"se read", "se put", "uk read", "uk put"}
  <2>1. \A x : x \in Calls!Figures <=> \E b \in Calls!Businesses : x \in Calls!FiguresOf(b)
    BY DEF Calls!Figures
  <2> QED BY <1>1, <2>1
<1> QED BY <1>1, <1>2 DEF Calls!Writes

\* The read that ends an operation is of what that operation is about.
LEMMA RereadOf ==
  /\ Reread("se read").of = "se" /\ Reread("se put").of = "se"
  /\ Reread("uk read").of = "uk" /\ Reread("uk put").of = "uk"
  /\ Reread("codes put").of = "codes" /\ Reread("opt").of = "opted"
BY DEF Reread, Calls!Read

\* That read is of something that HMRC holds for the firm.
LEMMA RereadKind ==
  ASSUME NEW op \in Rereading
  PROVE  /\ Reread(op).do = "read"
         /\ Reread(op).of \in Calls!Resources
         /\ Reread(op).of \notin Calls!Others
BY DEF Reread, Rereading, Calls!Read, Calls!Writes, Calls!Resources, Calls!Businesses,
   Calls!Others

\* Only a read of figures of a self-employment is forgiven, and only one of debts may be
\* of another store.
LEMMA RereadLost ==
  ASSUME NEW op \in Rereading
  PROVE  /\ Reread(op).of = "codes" => op = "codes put"
         /\ Reread(op).how = "optional" => op \in {"se read", "se put"} /\ Reread(op).of = "se"
BY DEF Reread, Rereading, Calls!Read, Calls!Writes

\* What was written is what is read again.
LEMMA RereadWrites ==
  ASSUME NEW op \in Calls!Writes PROVE Reread(op).of = Target(op)
BY DEF Reread, Target, Calls!Read, Calls!Writes

\* The values at the beginning.
LEMMA CallsNothing ==
  ASSUME CallsAssumption
  PROVE  /\ Calls!Idle \in Calls!Request /\ Calls!Idle.steps = <<>> /\ CallsGood(Calls!Idle)
         /\ Calls!NoAnswer \in Calls!AnAnswer /\ CallsTrue(Calls!NoAnswer)
<1>1. Calls!NoTotals \in Calls!Totals /\ None \in Calls!Value
  BY DEF Calls!NoTotals, Calls!Totals, Calls!Value
<1>2. Calls!Idle \in Calls!Request /\ Calls!Idle.steps = <<>> /\ Calls!Idle.todo = {}
  BY <1>1 DEF Calls!Idle, Calls!Request, CallsAssumption
<1>3. Calls!NoAnswer \in Calls!AnAnswer
  BY <1>1 DEF Calls!NoAnswer, Calls!AnAnswer
<1>4. Calls!NoAnswer.op = None /\ Calls!NoAnswer.source = None
  BY DEF Calls!NoAnswer
<1>5. CallsTrue(Calls!NoAnswer)
  <2>1. PICK a : a = Calls!NoAnswer /\ a.source = None /\ a.op = None
    BY <1>4
  <2>2. CallsTrue(a)
    BY <2>1, FigureOps DEF CallsTrue, Calls!EmptyIsEmpty, Calls!FiguresHeld, Calls!PutHeld,
       Calls!CodingShown, Calls!TotalsComplete
  <2> QED BY <2>1, <2>2
<1> QED BY <1>2, <1>3, <1>5 DEF CallsGood

\* An error or a message is no answer about HMRC's data.
LEMMA CallsFail ==
  ASSUME CallsAssumption, CallsInv, NEW p \in Requests, CallsRows', Calls!Fails(p)
  PROVE  CallsStep(p)
<1>1. PICK o \in Calls!Request : o = hReq[p]
  BY DEF CallsInv
<1>2. PICK x \in {"message", "error"} :
        hAns' = [hAns EXCEPT ![p] = [Calls!NoAnswer EXCEPT !.op = o.op, !.source = x]]
  BY <1>1 DEF Calls!Fails
<1>3. PICK a : a = [Calls!NoAnswer EXCEPT !.op = o.op, !.source = x]
  OBVIOUS
<1>4. a \in Calls!AnAnswer /\ a.source = x
  BY <1>1, <1>3, CallsNothing DEF Calls!AnAnswer, Calls!Request
<1>5. CallsTrue(a)
  BY <1>4 DEF CallsTrue, Calls!EmptyIsEmpty, Calls!FiguresHeld, Calls!PutHeld,
     Calls!CodingShown, Calls!TotalsComplete
<1>6. PICK r \in Calls!Request : r = Calls!Idle /\ r.steps = <<>> /\ CallsGood(r)
  BY CallsNothing
<1>7. hReq' = [hReq EXCEPT ![p] = r]
  BY <1>6 DEF Calls!Fails
<1>8. CallsSerial(r, a)'
  BY <1>5, <1>6, TrueStays DEF CallsSerial
<1> QED BY <1>2, <1>3, <1>4, <1>6, <1>7, <1>8 DEF CallsStep

\* Amounts are shown as values.
LEMMA ShownValues ==
  ASSUME CallsAssumption, NEW v \in Calls!Value
  PROVE  Calls!Kept(v) \in Calls!Value /\ (v # None => Calls!Shown(v) \in Calls!Value \cup {0})
BY DEF Calls!Kept, Calls!Shown, Calls!Value, CallsAssumption

\* The sum of two amounts, of which there may be none.
LEMMA TotalIsNat ==
  ASSUME CallsAssumption, NEW f \in Calls!Totals
  PROVE  Calls!Total(f) \in Nat
<1>1. \A b \in {"se", "uk"} : f[b] \in Amounts \cup {None}
  BY DEF Calls!Totals, Calls!Businesses, Calls!Value
<1>2. \A b \in {"se", "uk"} : (IF f[b] = None THEN 0 ELSE f[b]) \in Nat
  BY <1>1 DEF CallsAssumption
<1> QED BY <1>2 DEF Calls!Total

\* A request that has taken all its steps is answered with what it found.
LEMMA CallsAnswers ==
  ASSUME CallsAssumption, CallsRows, NEW r \in Calls!Request, r.steps = <<>>,
         NEW x \in Calls!SourcesOf(r.op, r.data), NEW a, a = Calls!Answer(r, x)
  PROVE  /\ a \in Calls!AnAnswer
         /\ a.op = r.op /\ a.source = x /\ a.wanted = r.value /\ a.biss = r.biss
         /\ a.periods = r.periods /\ a.unsummed = r.unsummed /\ a.unread = r.unread
         /\ a.value = IF x = "hmrc" THEN Calls!ValueShown(r.op, r.data) ELSE None
         /\ a.total = Calls!TotalOf(r)
         /\ \A b \in Calls!Businesses : a.held[b] = hHeld[b]
         /\ a.held \in Calls!Totals
<1>1. /\ a.op = r.op /\ a.source = x /\ a.wanted = r.value /\ a.biss = r.biss
      /\ a.periods = r.periods /\ a.unsummed = r.unsummed /\ a.unread = r.unread
      /\ a.value = IF x = "hmrc" THEN Calls!ValueShown(r.op, r.data) ELSE None
      /\ a.total = Calls!TotalOf(r)
      /\ a.held = [b \in Calls!Businesses |-> hHeld[b]]
  BY DEF Calls!Answer
<1>2. x \in {"hmrc", "empty", "test"}
  BY DEF Calls!SourcesOf
<1>3. /\ r.data \in Calls!Value /\ r.value \in Calls!Value /\ r.op \in Ops \cup {None}
      /\ r.biss \in Calls!Totals /\ r.periods \in Calls!Totals
      /\ r.unsummed \in SUBSET Calls!Businesses /\ r.unread \in SUBSET Calls!Businesses
  BY DEF Calls!Request
<1>4. a.value \in Calls!Value \cup {0}
  BY <1>1, <1>3, ShownValues DEF Calls!ValueShown, Calls!Value
<1>5. a.held \in Calls!Totals /\ \A b \in Calls!Businesses : a.held[b] = hHeld[b]
  BY <1>1 DEF CallsRows, Calls!Totals, Calls!Resources
<1>6. a.total \in Nat
  BY <1>1, <1>3, TotalIsNat DEF Calls!TotalOf
<1>7. a = [op |-> a.op, source |-> a.source, value |-> a.value, wanted |-> a.wanted,
           biss |-> a.biss, periods |-> a.periods, total |-> a.total,
           unsummed |-> a.unsummed, unread |-> a.unread, held |-> a.held]
  BY <1>1 DEF Calls!Answer
<1>8. a \in Calls!AnAnswer
  BY <1>1, <1>2, <1>3, <1>4, <1>5, <1>6, <1>7 DEF Calls!AnAnswer
<1> QED BY <1>1, <1>5, <1>8

\* What a request answers of figures and debts is what HMRC holds.
LEMMA DataAnswered ==
  ASSUME CallsAssumption, CallsRows, NEW r \in Calls!Request, r.steps = <<>>,
         NEW x \in Calls!SourcesOf(r.op, r.data), NEW a, a = Calls!Answer(r, x),
         CallsFound(r)
  PROVE  /\ Calls!EmptyIsEmpty(a) /\ Calls!FiguresHeld(a)
         /\ Calls!PutHeld(a) /\ Calls!CodingShown(a)
<1>1. /\ a.op = r.op /\ a.source = x /\ a.wanted = r.value /\ a.unread = r.unread
      /\ a.value = IF x = "hmrc" THEN Calls!ValueShown(r.op, r.data) ELSE None
      /\ a.held["se"] = hHeld["se"] /\ a.held["uk"] = hHeld["uk"]
  <2>1. "se" \in Calls!Businesses /\ "uk" \in Calls!Businesses
    BY DEF Calls!Businesses
  <2> QED BY <2>1, CallsAnswers
<1>2. \A y : ~HasStep(r.steps, y)
  BY DEF HasStep
<1>3. r.op \in Calls!Writes => hHeld[Target(r.op)] = r.value
  BY <1>2 DEF CallsFound, WriteFound
<1>4. r.op \in Rereading => \/ r.data = hHeld[Reread(r.op).of]
                            \/ Sandbox /\ r.op = "codes put"
                            \/ /\ r.op \in {"se read", "se put"}
                               /\ r.data = None /\ "se" \in r.unread
  BY DEF CallsFound, DataFound
<1>5. /\ {"se read", "se put", "uk read", "uk put", "codes put", "opt"} \subseteq Rereading
      /\ Target("se put") = "se" /\ Target("uk put") = "uk"
      /\ {"se put", "uk put", "codes put", "opt"} \subseteq Calls!Writes
  BY DEF Rereading, Calls!Writes, Target
<1>6. r.op \in {"uk read", "uk put"} => r.data = hHeld["uk"]
  <2>1. Reread("uk read").of = "uk" /\ Reread("uk put").of = "uk"
    BY RereadOf
  <2> QED BY <1>4, <1>5, <2>1
<1>7. r.op \in {"se read", "se put"} =>
        r.data = hHeld["se"] \/ (r.data = None /\ "se" \in r.unread)
  <2>1. Reread("se read").of = "se" /\ Reread("se put").of = "se"
    BY RereadOf
  <2> QED BY <1>4, <1>5, <2>1
<1>8. /\ r.op \in {"se read", "se put", "uk read", "uk put"} =>
           /\ x = "empty" => r.data = None
           /\ x = "hmrc" => r.data # None
      /\ r.op \in {"se read", "se put"} /\ x = "test" => r.data = None
      /\ r.op \in {"uk read", "uk put"} /\ x = "test" => r.data = None \/ Calls!Shown(r.data) = 0
  <2>1. {"se read", "se put"} \cap {"uk read", "uk put"} = {}
    OBVIOUS
  <2> QED BY <2>1, FigureOps DEF Calls!SourcesOf
<1>9. Calls!EmptyIsEmpty(a)
  BY <1>1, <1>6, <1>7, <1>8, FigureOps DEF Calls!EmptyIsEmpty
<1>10. Calls!FiguresHeld(a)
  <2>1. SUFFICES ASSUME NEW b \in Calls!Businesses, a.op \in Calls!FiguresOf(b), a.source = "hmrc"
                 PROVE  a.held[b] # None /\ a.value = Calls!Shown(a.held[b])
    BY DEF Calls!FiguresHeld
  <2>2. r.data # None /\ a.value = Calls!Shown(r.data)
    BY <1>1, <1>8, <2>1, FigureOps DEF Calls!ValueShown
  <2> QED BY <1>1, <1>6, <1>7, <2>1, <2>2, FigureOps
<1>11. Calls!PutHeld(a)
  <2>1. SUFFICES ASSUME NEW b \in Calls!Businesses, a.op \in Calls!FiguresOf(b) \cap Calls!Writes
                 PROVE  a.held[b] = a.wanted
    BY DEF Calls!PutHeld
  <2>2. \/ b = "se" /\ r.op = "se put"
        \/ b = "uk" /\ r.op = "uk put"
    BY <1>1, <2>1, FigureOps DEF Calls!Writes
  <2> QED BY <1>1, <1>3, <1>5, <2>2
<1>12. Calls!CodingShown(a)
  <2>1. SUFFICES ASSUME a.op \in {"codes put", "opt"}, a.source = "hmrc",
                        ~(Sandbox /\ a.op = "codes put")
                 PROVE  a.value = a.wanted
    BY FigureOps DEF Calls!CodingShown
  <2>2. r.data = hHeld[Target(r.op)] /\ r.op \notin Calls!Figures
    <3>1. Reread(r.op).of = Target(r.op)
      BY <1>1, <1>5, <2>1, RereadWrites
    <3> QED BY <1>1, <1>4, <1>5, <2>1, <3>1, FigureOps
  <2>3. a.value = r.data
    BY <1>1, <2>1, <2>2 DEF Calls!ValueShown
  <2> QED BY <1>1, <1>3, <1>5, <2>1, <2>2, <2>3
<1> QED BY <1>9, <1>10, <1>11, <1>12

\* What a request answers of totals is what HMRC holds.
LEMMA TotalsAnswered ==
  ASSUME CallsAssumption, CallsRows, NEW r \in Calls!Request, r.steps = <<>>, r.todo = {},
         NEW x \in Calls!SourcesOf(r.op, r.data), NEW a, a = Calls!Answer(r, x),
         CallsFound(r)
  PROVE  Calls!TotalsComplete(a)
<1> SUFFICES ASSUME a.op \in Totalled PROVE Calls!TotalsComplete(a)
  BY DEF Calls!TotalsComplete, Totalled
<1>1. /\ a.op = r.op /\ a.biss = r.biss /\ a.periods = r.periods
      /\ a.unsummed = r.unsummed /\ a.unread = r.unread /\ a.total = Calls!TotalOf(r)
      /\ \A b \in Calls!Businesses : a.held[b] = hHeld[b]
      /\ a.held \in Calls!Totals
  BY CallsAnswers
<1>2. \A y : ~HasStep(r.steps, y)
  BY DEF HasStep
<1>3. /\ r.biss \in Calls!Totals /\ r.periods \in Calls!Totals
      /\ r.unsummed \in SUBSET Calls!Businesses
  BY DEF Calls!Request
<1>4. \A b \in Calls!Businesses :
        /\ r.biss[b] = IF b \in r.unsummed THEN None ELSE a.held[b]
        /\ r.periods[b] \in {None, Calls!Kept(a.held[b])}
        /\ r.op # "summary" => b \in r.unread \/ r.periods[b] = Calls!Kept(a.held[b])
  BY <1>1, <1>2 DEF CallsFound, TotalsFound, SummariesFound, PeriodsFound
<1>5. /\ Calls!NoTotals \in Calls!Totals
      /\ \A b \in Calls!Businesses : Calls!NoTotals[b] = None
  BY DEF Calls!NoTotals, Calls!Totals, Calls!Value
<1>6. \A f, g \in Calls!Totals : (\A b \in Calls!Businesses : f[b] = g[b]) => f = g
  BY DEF Calls!Totals
<1>7. Calls!Kept(None) = None
  BY DEF Calls!Kept
<1>8. ASSUME a.unsummed = {} PROVE a.total = Calls!Total(a.held)
  <2>1. r.biss = a.held
    BY <1>1, <1>3, <1>4, <1>6, <1>8
  <2>2. CASE r.biss = Calls!NoTotals
    <3>1. \A b \in Calls!Businesses : r.periods[b] = None
      BY <1>4, <1>5, <1>7, <2>1, <2>2
    <3>2. r.periods = a.held
      BY <1>3, <1>5, <1>6, <2>1, <2>2, <3>1
    <3> QED BY <1>1, <2>2, <3>2 DEF Calls!TotalOf
  <2> QED BY <1>1, <2>1, <2>2 DEF Calls!TotalOf
<1>9. ASSUME a.op # "summary", a.unsummed = Calls!Businesses, a.unread = {}
      PROVE  a.total = Calls!Total([b \in Calls!Businesses |-> Calls!Kept(a.held[b])])
  <2>1. r.biss = Calls!NoTotals
    BY <1>1, <1>3, <1>4, <1>5, <1>6, <1>9
  <2>2. PICK k : k = [b \in Calls!Businesses |-> Calls!Kept(a.held[b])]
    OBVIOUS
  <2>3. \A b \in Calls!Businesses : r.periods[b] = k[b]
    BY <1>1, <1>4, <1>9, <2>2
  <2>4. r.periods = k
    BY <1>3, <2>2, <2>3 DEF Calls!Totals
  <2> QED BY <1>1, <2>1, <2>2, <2>4 DEF Calls!TotalOf
<1> QED BY <1>1, <1>4, <1>8, <1>9 DEF Calls!TotalsComplete

\* A request that goes on, or is answered.
LEMMA CallsMove ==
  ASSUME CallsAssumption, CallsInv, NEW p \in Requests, CallsRows', NEW r, CallsGood(r),
         Calls!GoesOn(p, r),
         CallsSerial(hReq[p], hAns[p]) =>
           IF r.steps = <<>> THEN CallsFound(r) ELSE CallsFound(r)'
  PROVE  CallsStep(p)
<1>1. r \in Calls!Request /\ CallsRows /\ (r.todo # {} => r.steps # <<>>)
  BY DEF CallsGood, CallsInv, CallsRows
<1>2. CASE r.steps = <<>>
  <2>1. PICK x \in Calls!SourcesOf(r.op, r.data) :
          hAns' = [hAns EXCEPT ![p] = Calls!Answer(r, x)]
    BY <1>2 DEF Calls!GoesOn
  <2>2. PICK a : a = Calls!Answer(r, x)
    OBVIOUS
  <2>3. a \in Calls!AnAnswer
    BY <1>1, <1>2, <2>2, CallsAnswers
  <2>4. CallsFound(r) => CallsTrue(a)
    BY <1>1, <1>2, <2>2, DataAnswered, TotalsAnswered DEF CallsTrue
  <2>5. PICK s \in Calls!Request : s = Calls!Idle /\ s.steps = <<>> /\ CallsGood(s)
    BY CallsNothing
  <2>6. hReq' = [hReq EXCEPT ![p] = s] /\ hAns' = [hAns EXCEPT ![p] = a]
    BY <1>2, <2>1, <2>2, <2>5 DEF Calls!GoesOn
  <2>7. CallsTrue(a) => CallsSerial(s, a)'
    BY <2>5, TrueStays DEF CallsSerial
  <2> QED BY <1>2, <2>3, <2>4, <2>5, <2>6, <2>7 DEF CallsStep
<1>3. CASE r.steps # <<>>
  <2>1. hReq' = [hReq EXCEPT ![p] = r] /\ hAns' = hAns
    BY <1>3 DEF Calls!GoesOn
  <2>2. PICK a \in Calls!AnAnswer : a = hAns[p]
    BY DEF CallsInv
  <2>3. hAns' = [hAns EXCEPT ![p] = a]
    BY <2>1, <2>2 DEF CallsInv
  <2>4. CallsSerial(hReq[p], hAns[p]) /\ CallsFound(r)' => CallsSerial(r, a)'
    BY <2>2, TrueStays DEF CallsSerial
  <2> QED BY <1>1, <1>3, <2>1, <2>3, <2>4 DEF CallsStep
<1> QED BY <1>2, <1>3

\* A request that is done with a step.
LEMMA CallsDone ==
  ASSUME CallsAssumption, NEW o \in Calls!Request, o.steps \in Seq(CallStep), o.steps # <<>>,
         NEW r, r = Calls!Done(o)
  PROVE  /\ r \in Calls!Request /\ r.steps = Tail(o.steps) /\ r.steps \in Seq(CallStep)
         /\ r.op = o.op /\ r.value = o.value /\ r.data = o.data /\ r.todo = o.todo
         /\ r.biss = o.biss /\ r.periods = o.periods
         /\ r.unsummed = o.unsummed /\ r.unread = o.unread
<1>1. Tail(o.steps) \in Seq(CallStep)
  BY HeadTailProperties
<1>2. Tail(o.steps) \in Seq(Calls!Step)
  BY HeadTailProperties DEF Calls!Request
<1>3. r = [o EXCEPT !.steps = Tail(o.steps), !.tries = 0, !.version = 1]
  BY DEF Calls!Done
<1>4. 0 \in 0..MaxRetries /\ 1 \in 1..2
  BY DEF CallsAssumption
<1>5. r \in Calls!Request
  BY <1>2, <1>3, <1>4 DEF Calls!Request
<1> QED BY <1>1, <1>3, <1>5 DEF Calls!Request

\* A step that neither reads nor writes keeps what a request found.
LEMMA CallsPass ==
  ASSUME CallsAssumption, NEW o \in Calls!Request, CallsGood(o), o.steps # <<>>,
         Head(o.steps).do \in {"gate", "token", "scope", "valid"},
         NEW r, r = Calls!Done(o)
  PROVE  CallsGood(r) /\ (CallsFound(o) => CallsFound(r))
<1>1. Tidy(o.steps) /\ o.steps \in Seq(CallStep) /\ o.todo = {}
  BY DEF CallsGood, Tidy
<1>2. /\ r \in Calls!Request /\ r.steps = Tail(o.steps) /\ r.steps \in Seq(CallStep)
      /\ r.op = o.op /\ r.value = o.value /\ r.data = o.data /\ r.todo = {}
      /\ r.biss = o.biss /\ r.periods = o.periods
      /\ r.unsummed = o.unsummed /\ r.unread = o.unread
  BY <1>1, CallsDone
<1> DEFINE h == Head(o.steps)
<1>3. /\ r.steps # <<>> => Tidy(r.steps) /\ LastStep(r.steps) = LastStep(o.steps)
      /\ r.steps = <<>> => h = LastStep(o.steps)
      /\ \A x : HasStep(o.steps, x) /\ h # x => HasStep(r.steps, x)
      /\ \A w : WritesTo(o.steps, w) => WritesTo(r.steps, w)
      /\ Plain(o.steps) => Plain(r.steps)
  BY <1>1, <1>2, Later
<1>4. h.do \notin {"each", "read", "write"}
  OBVIOUS
<1> HIDE DEF h
<1>5. CallsGood(r)
  BY <1>2, <1>3 DEF CallsGood
<1>6. ASSUME WriteFound(o) PROVE WriteFound(r)
  <2>1. \A of : h # Calls!Write(of)
    BY <1>4 DEF Calls!Write
  <2> QED BY <1>2, <1>3, <1>6, <2>1 DEF WriteFound
<1>7. ASSUME DataFound(o) PROVE DataFound(r)
  <2>1. \A op \in Rereading : h # Reread(op)
    BY <1>4, RereadKind
  <2> QED BY <1>2, <1>3, <1>7, <2>1 DEF DataFound
<1>8. ASSUME TotalsFound(o) PROVE TotalsFound(r)
  <2>1. h # Calls!Check("each") /\ \A b : h # Calls!Read(b, "versions")
    BY <1>4 DEF Calls!Read, Calls!Check
  <2> SUFFICES ASSUME o.op \in Totalled PROVE TotalsFound(r)
    BY <1>2 DEF TotalsFound
  <2>2. SummariesFound(r)
    BY <1>1, <1>2, <1>3, <1>8, <2>1 DEF TotalsFound, SummariesFound
  <2>3. PeriodsFound(r)
    BY <1>2, <1>3, <1>8, <2>1 DEF TotalsFound, PeriodsFound
  <2> QED BY <1>2, <1>3, <1>8, <2>2, <2>3 DEF TotalsFound
<1> QED BY <1>5, <1>6, <1>7, <1>8 DEF CallsFound

\* What a request makes of the answer to a read.
ReadOf(o, v, r) ==
  LET h == Head(o.steps)
  IN /\ r.op = o.op /\ r.value = o.value /\ r.biss = o.biss /\ r.todo = o.todo
     /\ r.unsummed = o.unsummed /\ r.unread = o.unread
     /\ \/ /\ v = None /\ Calls!Again(o)
           /\ r.steps = o.steps /\ r.periods = o.periods
        \/ /\ ~(v = None /\ Calls!Again(o))
           /\ \/ /\ h.how = "periods" /\ v = None
                 /\ r.steps = Tail(Tail(o.steps)) /\ r.periods = o.periods
              \/ /\ h.how = "periods" /\ v # None
                 /\ r.steps = Tail(o.steps) /\ r.periods = o.periods
              \/ /\ h.how = "versions"
                 /\ r.steps = Tail(o.steps)
                 /\ r.periods = [o.periods EXCEPT ![h.of] = Calls!Kept(v)]
              \/ /\ h.how \notin {"periods", "versions"}
                 /\ r.steps = Tail(o.steps) /\ r.periods = o.periods
                 /\ h.of \notin Calls!Others => r.data = v

\* A read that is answered leaves the request with what it read (WithData).
LEMMA CallsReads ==
  ASSUME CallsAssumption, NEW o \in Calls!Request, Tidy(o.steps), o.todo = {},
         NEW v \in Calls!Value, NEW r, r = Calls!WithData(o, v)
  PROVE  CallsGood(r) /\ ReadOf(o, v, r)
<1>1. o.steps \in Seq(CallStep) /\ o.steps # <<>>
  BY DEF Tidy
<1> DEFINE h == Head(o.steps)
<1>2. PICK t : t = Tail(o.steps)
  OBVIOUS
<1>3. /\ h \in CallStep /\ t \in Seq(CallStep)
      /\ t # <<>> => Tidy(t)
      /\ h.how = "periods" => t # <<>> /\ Head(t) = Calls!Read(h.of, "versions")
  BY <1>2, Later
<1>4. Calls!Again(o) <=> h.how \in {"periods", "versions"} /\ o.version = 1
  BY DEF Calls!Again
<1>5. CASE v = None /\ Calls!Again(o)
  <2>1. r = [o EXCEPT !.version = 2, !.tries = 0]
    BY <1>5 DEF Calls!WithData, Calls!Again
  <2>2. 0 \in 0..MaxRetries /\ 2 \in 1..2
    BY DEF CallsAssumption
  <2>3. /\ r \in Calls!Request /\ r.steps = o.steps /\ r.todo = {} /\ r.op = o.op
        /\ r.value = o.value /\ r.biss = o.biss /\ r.periods = o.periods
        /\ r.unsummed = o.unsummed /\ r.unread = o.unread
    BY <2>1, <2>2 DEF Calls!Request
  <2> QED BY <1>5, <2>3 DEF CallsGood, ReadOf
<1>6. CASE h.how = "periods" /\ v = None /\ ~Calls!Again(o)
  <2>1. r = Calls!Done(Calls!Done(o))
    BY <1>6 DEF Calls!WithData
  <2>2. PICK d : d = Calls!Done(o)
    OBVIOUS
  <2>3. /\ d \in Calls!Request /\ d.steps = t /\ d.steps \in Seq(CallStep) /\ d.op = o.op
        /\ d.value = o.value /\ d.todo = {} /\ d.biss = o.biss /\ d.periods = o.periods
        /\ d.unsummed = o.unsummed /\ d.unread = o.unread
    BY <1>1, <1>2, <2>2, CallsDone
  <2>4. t # <<>> /\ Tidy(t)
    BY <1>3, <1>6
  <2>5. /\ r \in Calls!Request /\ r.steps = Tail(t) /\ r.op = o.op /\ r.value = o.value
        /\ r.todo = {} /\ r.biss = o.biss /\ r.periods = o.periods
        /\ r.unsummed = o.unsummed /\ r.unread = o.unread
    BY <2>1, <2>2, <2>3, <2>4, CallsDone
  <2>6. r.steps # <<>> => Tidy(r.steps)
    BY <2>4, <2>5, Later
  <2> QED BY <1>2, <1>6, <2>5, <2>6 DEF CallsGood, ReadOf
<1>7. CASE h.how = "periods" /\ v # None
  <2>1. r = Calls!Done(o)
    BY <1>7 DEF Calls!WithData
  <2>2. /\ r \in Calls!Request /\ r.steps = t /\ r.op = o.op
        /\ r.value = o.value /\ r.todo = {} /\ r.biss = o.biss /\ r.periods = o.periods
        /\ r.unsummed = o.unsummed /\ r.unread = o.unread
    BY <1>1, <1>2, <2>1, CallsDone
  <2> QED BY <1>2, <1>3, <1>7, <2>2 DEF CallsGood, ReadOf
<1>8. CASE h.how = "versions" /\ ~(v = None /\ Calls!Again(o))
  <2>1. PICK q : q = [o.periods EXCEPT ![h.of] = Calls!Kept(v)]
    OBVIOUS
  <2>2. PICK d : d = [o EXCEPT !.periods = q]
    OBVIOUS
  <2>3. r = Calls!Done(d)
    BY <1>8, <2>1, <2>2 DEF Calls!WithData
  <2>4. q \in Calls!Totals
    BY <2>1, ShownValues DEF Calls!Request, Calls!Totals
  <2>5. /\ d \in Calls!Request /\ d.steps = o.steps /\ d.op = o.op /\ d.value = o.value
        /\ d.todo = {} /\ d.biss = o.biss /\ d.periods = q
        /\ d.unsummed = o.unsummed /\ d.unread = o.unread
    BY <2>2, <2>4 DEF Calls!Request
  <2>6. /\ r \in Calls!Request /\ r.steps = t /\ r.op = o.op /\ r.value = o.value
        /\ r.todo = {} /\ r.biss = o.biss /\ r.periods = q
        /\ r.unsummed = o.unsummed /\ r.unread = o.unread
    BY <1>1, <1>2, <2>3, <2>5, CallsDone
  <2> QED BY <1>2, <1>3, <1>8, <2>1, <2>6 DEF CallsGood, ReadOf
<1>9. CASE h.how \notin {"periods", "versions"}
  <2>1. PICK d : d = IF h.of \in Calls!Others THEN o ELSE [o EXCEPT !.data = v]
    OBVIOUS
  <2>2. r = Calls!Done(d)
    BY <1>9, <2>1 DEF Calls!WithData, Calls!Again
  <2>3. /\ d \in Calls!Request /\ d.steps = o.steps /\ d.op = o.op /\ d.value = o.value
        /\ d.todo = {} /\ d.biss = o.biss /\ d.periods = o.periods
        /\ d.unsummed = o.unsummed /\ d.unread = o.unread
        /\ h.of \notin Calls!Others => d.data = v
    BY <2>1 DEF Calls!Request
  <2>4. /\ r \in Calls!Request /\ r.steps = t /\ r.op = o.op /\ r.value = o.value
        /\ r.todo = {} /\ r.biss = o.biss /\ r.periods = o.periods
        /\ r.unsummed = o.unsummed /\ r.unread = o.unread
        /\ h.of \notin Calls!Others => r.data = v
    BY <1>1, <1>2, <2>2, <2>3, CallsDone
  <2> QED BY <1>2, <1>3, <1>4, <1>9, <2>4 DEF CallsGood, ReadOf
<1> QED BY <1>4, <1>5, <1>6, <1>7, <1>8, <1>9

\* What is found by a request whose read was answered with what HMRC holds.
LEMMA CallsReadTrue ==
  ASSUME CallsAssumption, CallsRows, NEW o \in Calls!Request, Tidy(o.steps), o.todo = {},
         NEW v \in Calls!Value, NEW r, ReadOf(o, v, r),
         Head(o.steps).do = "read",
         Head(o.steps).of \in Calls!Resources /\ ~(Sandbox /\ Head(o.steps).of = "codes")
           => v = hHeld[Head(o.steps).of],
         CallsFound(o)
  PROVE  CallsFound(r)
<1> DEFINE h == Head(o.steps)
<1>1. PICK t : t = Tail(o.steps)
  OBVIOUS
<1>2. /\ h \in CallStep /\ h = o.steps[1] /\ t \in Seq(CallStep)
      /\ t # <<>> => Tidy(t) /\ LastStep(t) = LastStep(o.steps)
      /\ t = <<>> => h = LastStep(o.steps)
      /\ h.how = "periods" => t # <<>> /\ Head(t) = Calls!Read(h.of, "versions")
      /\ \A x : HasStep(o.steps, x) /\ h # x => HasStep(t, x)
      /\ \A w : WritesTo(o.steps, w) => WritesTo(t, w)
      /\ Plain(o.steps) => Plain(t)
  BY <1>1, Later
<1>3. o.steps # <<>> /\ 1 \in 1..Len(o.steps)
  BY EmptySeq DEF Tidy
<1>4. ASSUME Plain(o.steps) PROVE r.steps = t /\ (h.of \notin Calls!Others => r.data = v)
  <2>1. h.how \notin {"periods", "versions"}
    BY <1>2, <1>3, <1>4 DEF Plain
  <2> QED BY <1>1, <2>1 DEF ReadOf, Calls!Again
<1>5. o.op \in Rereading => Plain(o.steps) /\ WritesTo(o.steps, Target(o.op))
                              /\ LastStep(o.steps) = Reread(o.op)
  BY <1>3 DEF CallsFound, DataFound
<1>6. WriteFound(r)
  <2> SUFFICES ASSUME o.op \in Calls!Writes PROVE WriteFound(r)
    BY DEF ReadOf, WriteFound
  <2>1. /\ o.value \in Amounts
        /\ HasStep(o.steps, Calls!Write(Target(o.op))) \/ hHeld[Target(o.op)] = o.value
    BY DEF CallsFound, WriteFound
  <2>2. r.steps = t /\ r.op = o.op /\ r.value = o.value
    BY <1>4, <1>5 DEF ReadOf, Rereading
  <2>3. h # Calls!Write(Target(o.op))
    BY DEF Calls!Write
  <2>4. HasStep(t, Calls!Write(Target(o.op))) \/ hHeld[Target(o.op)] = o.value
    BY <1>2, <2>1, <2>3
  <2> QED BY <2>1, <2>2, <2>4 DEF WriteFound
<1>7. DataFound(r)
  <2> SUFFICES ASSUME o.op \in Rereading PROVE DataFound(r)
    BY DEF ReadOf, DataFound
  <2>1. r.steps = t /\ r.op = o.op /\ (h.of \notin Calls!Others => r.data = v)
    BY <1>4, <1>5 DEF ReadOf
  <2>2. t # <<>> => Plain(t) /\ WritesTo(t, Target(o.op)) /\ LastStep(t) = Reread(o.op)
    BY <1>2, <1>5
  <2>3. ASSUME t = <<>>
        PROVE  r.data = hHeld[Reread(o.op).of] \/ (Sandbox /\ o.op = "codes put")
    <3>1. h = Reread(o.op)
      BY <1>2, <1>5, <2>3
    <3>2. h.of \in Calls!Resources /\ h.of \notin Calls!Others
          /\ (h.of = "codes" => o.op = "codes put")
      BY <3>1, RereadKind, RereadLost
    <3> QED BY <2>1, <3>1, <3>2
  <2> QED BY <2>1, <2>2, <2>3 DEF DataFound
<1>8. TotalsFound(r)
  <2> SUFFICES ASSUME o.op \in Totalled PROVE TotalsFound(r)
    BY DEF ReadOf, TotalsFound
  <2>1. /\ WritesTo(o.steps, "none") /\ SummariesFound(o) /\ PeriodsFound(o)
        /\ r.op = o.op /\ r.biss = o.biss /\ r.todo = o.todo
        /\ r.unsummed = o.unsummed /\ r.unread = o.unread
    BY DEF CallsFound, ReadOf, TotalsFound
  <2>2. h # Calls!Check("each")
    BY DEF Calls!Check
  <2>3. h.how \in {"versions", "periods"} =>
          h.of \in Calls!Businesses /\ v = hHeld[h.of] /\ h.of \in DOMAIN o.periods
    BY <1>2 DEF CallStep, Calls!Resources, Calls!Request, Calls!Totals, Calls!Businesses
  <2>4. CASE r.steps = o.steps /\ r.periods = o.periods
    BY <2>1, <2>4 DEF TotalsFound, SummariesFound, PeriodsFound
  <2>5. CASE /\ h.how = "periods" /\ v = None
             /\ r.steps = Tail(t) /\ r.periods = o.periods
    <3>1. t # <<>> /\ Tidy(t) /\ Head(t) = Calls!Read(h.of, "versions")
      BY <1>2, <2>5
    <3>2. /\ \A x : HasStep(t, x) /\ Head(t) # x => HasStep(r.steps, x)
          /\ \A w : WritesTo(t, w) => WritesTo(r.steps, w)
      BY <2>5, <3>1, Later
    <3>3. WritesTo(r.steps, "none")
      BY <1>2, <2>1, <3>2
    <3>4. HasStep(o.steps, Calls!Check("each")) => HasStep(r.steps, Calls!Check("each"))
      <4>1. Head(t) # Calls!Check("each")
        BY <3>1 DEF Calls!Check, Calls!Read
      <4> QED BY <1>2, <2>2, <3>2, <4>1
    <3>5. ASSUME NEW b \in Calls!Businesses, o.op # "summary"
          PROVE  \/ b \in o.unread
                 \/ HasStep(r.steps, Calls!Read(b, "versions"))
                 \/ o.periods[b] = Calls!Kept(hHeld[b])
      <4>1. CASE b = h.of
        <5>1. hHeld[b] = None
          BY <2>3, <2>5, <4>1
        <5>2. Calls!Kept(None) = None
          BY DEF Calls!Kept
        <5> QED BY <2>1, <5>1, <5>2 DEF PeriodsFound
      <4>2. CASE b # h.of
        <5>1. Head(t) # Calls!Read(b, "versions") /\ h # Calls!Read(b, "versions")
          BY <2>5, <3>1, <4>2 DEF Calls!Read
        <5> QED BY <1>2, <2>1, <3>2, <3>5, <5>1 DEF PeriodsFound
      <4> QED BY <4>1, <4>2
    <3>6. SummariesFound(r)
      BY <2>1, <3>4 DEF SummariesFound
    <3>7. PeriodsFound(r)
      BY <2>1, <2>5, <3>5 DEF PeriodsFound
    <3> QED BY <3>3, <3>6, <3>7 DEF TotalsFound
  <2>6. CASE h.how # "versions" /\ r.steps = t /\ r.periods = o.periods
    <3>1. \A b : h # Calls!Read(b, "versions")
      BY <2>6 DEF Calls!Read
    <3>2. SummariesFound(r)
      BY <1>2, <2>1, <2>2, <2>6 DEF SummariesFound
    <3>3. PeriodsFound(r)
      BY <1>2, <2>1, <2>6, <3>1 DEF PeriodsFound
    <3> QED BY <1>2, <2>1, <2>6, <3>2, <3>3 DEF TotalsFound
  <2>7. CASE /\ h.how = "versions"
             /\ r.steps = t
             /\ r.periods = [o.periods EXCEPT ![h.of] = Calls!Kept(v)]
    <3>1. ASSUME NEW b \in Calls!Businesses
          PROVE  /\ r.periods[b] \in {None, Calls!Kept(hHeld[b])}
                 /\ o.op # "summary" => \/ b \in o.unread
                                        \/ HasStep(t, Calls!Read(b, "versions"))
                                        \/ r.periods[b] = Calls!Kept(hHeld[b])
      <4>1. CASE b = h.of
        BY <2>3, <2>7, <4>1
      <4>2. CASE b # h.of
        <5>1. h # Calls!Read(b, "versions")
          BY <4>2 DEF Calls!Read
        <5>2. r.periods[b] = o.periods[b]
          BY <2>7, <4>2 DEF Calls!Request, Calls!Totals
        <5> QED BY <1>2, <2>1, <5>1, <5>2 DEF PeriodsFound
      <4> QED BY <4>1, <4>2
    <3>2. SummariesFound(r)
      BY <1>2, <2>1, <2>2, <2>7 DEF SummariesFound
    <3>3. PeriodsFound(r)
      BY <2>1, <2>7, <3>1 DEF PeriodsFound
    <3> QED BY <1>2, <2>1, <2>7, <3>2, <3>3 DEF TotalsFound
  <2> QED BY <1>1, <2>4, <2>5, <2>6, <2>7 DEF ReadOf
<1> QED BY <1>6, <1>7, <1>8 DEF CallsFound

\* What is found by a request whose read failed, and was answered like no data.
LEMMA CallsReadForgiven ==
  ASSUME CallsAssumption, NEW o \in Calls!Request, Tidy(o.steps), o.todo = {},
         NEW f, f = Calls!Unread(o), NEW r, ReadOf(f, None, r),
         Head(o.steps).do = "read", Calls!Forgives(Head(o.steps).how),
         CallsFound(o)
  PROVE  CallsFound(r)
<1> DEFINE h == Head(o.steps)
<1>1. PICK t : t = Tail(o.steps)
  OBVIOUS
<1>2. /\ h \in CallStep /\ h = o.steps[1] /\ t \in Seq(CallStep)
      /\ t # <<>> => Tidy(t) /\ LastStep(t) = LastStep(o.steps)
      /\ t = <<>> => h = LastStep(o.steps)
      /\ h.how = "periods" => t # <<>> /\ Head(t) = Calls!Read(h.of, "versions")
      /\ \A x : HasStep(o.steps, x) /\ h # x => HasStep(t, x)
      /\ \A w : WritesTo(o.steps, w) => WritesTo(t, w)
      /\ Plain(o.steps) => Plain(t)
  BY <1>1, Later
<1>3. o.steps # <<>> /\ 1 \in 1..Len(o.steps)
  BY EmptySeq DEF Tidy
<1>4. CASE Calls!Again(o)
  <2>1. f = o
    BY <1>4 DEF Calls!Unread
  <2>2. /\ r.op = o.op /\ r.value = o.value /\ r.biss = o.biss /\ r.todo = o.todo
        /\ r.unsummed = o.unsummed /\ r.unread = o.unread
        /\ r.steps = o.steps /\ r.periods = o.periods
    BY <1>4, <2>1 DEF ReadOf
  <2>3. h.how \in {"periods", "versions"}
    BY <1>4 DEF Calls!Again
  <2>4. ~Plain(o.steps)
    BY <1>2, <1>3, <2>3 DEF Plain
  <2>5. o.op \notin Rereading
    BY <1>3, <2>4 DEF CallsFound, DataFound
  <2>6. TotalsFound(r)
    BY <2>2 DEF CallsFound, TotalsFound, SummariesFound, PeriodsFound
  <2> QED BY <2>2, <2>5, <2>6 DEF CallsFound, WriteFound, DataFound, Rereading
<1>5. CASE ~Calls!Again(o)
  <2>1. f = [o EXCEPT !.unread = o.unread \cup {h.of}]
    BY <1>5 DEF Calls!Unread
  <2>2. /\ f.steps = o.steps /\ f.op = o.op /\ f.value = o.value /\ f.biss = o.biss
        /\ f.todo = o.todo /\ f.unsummed = o.unsummed /\ f.periods = o.periods
        /\ f.version = o.version /\ f.unread = o.unread \cup {h.of}
    BY <2>1 DEF Calls!Request
  <2>3. ~Calls!Again(f)
    BY <1>5, <2>2 DEF Calls!Again
  <2>4. /\ r.op = o.op /\ r.value = o.value /\ r.biss = o.biss /\ r.todo = o.todo
        /\ r.unsummed = o.unsummed /\ r.unread = o.unread \cup {h.of}
    BY <2>2 DEF ReadOf
  <2>5. \/ h.how = "periods" /\ r.steps = Tail(t) /\ r.periods = o.periods
        \/ /\ h.how = "versions" /\ r.steps = t
           /\ r.periods = [o.periods EXCEPT ![h.of] = Calls!Kept(None)]
        \/ /\ h.how \notin {"periods", "versions"} /\ r.steps = t /\ r.periods = o.periods
           /\ h.of \notin Calls!Others => r.data = None
    BY <1>1, <2>2, <2>3 DEF ReadOf
  <2>6. ASSUME Plain(o.steps)
        PROVE  h.how = "optional" /\ r.steps = t /\ r.data = None
    <3>1. h.how \notin {"periods", "versions"}
      BY <1>2, <1>3, <2>6 DEF Plain
    <3>2. h.how = "optional"
      BY <3>1 DEF Calls!Forgives
    <3>3. h.of \notin Calls!Others
      BY <1>2, <3>2 DEF CallStep, Calls!Businesses, Calls!Others
    <3> QED BY <2>5, <3>1, <3>2, <3>3
  <2>7. WriteFound(r)
    <3> SUFFICES ASSUME o.op \in Calls!Writes PROVE WriteFound(r)
      BY <2>4 DEF WriteFound
    <3>1. /\ o.value \in Amounts
          /\ HasStep(o.steps, Calls!Write(Target(o.op))) \/ hHeld[Target(o.op)] = o.value
      BY DEF CallsFound, WriteFound
    <3>2. r.steps = t
      BY <1>3, <2>6 DEF CallsFound, DataFound, Rereading
    <3>3. h # Calls!Write(Target(o.op))
      BY DEF Calls!Write
    <3>4. HasStep(t, Calls!Write(Target(o.op))) \/ hHeld[Target(o.op)] = o.value
      BY <1>2, <3>1, <3>3
    <3> QED BY <2>4, <3>1, <3>2, <3>4 DEF WriteFound
  <2>8. DataFound(r)
    <3> SUFFICES ASSUME o.op \in Rereading PROVE DataFound(r)
      BY <2>4 DEF DataFound
    <3>1. /\ Plain(o.steps) /\ WritesTo(o.steps, Target(o.op))
          /\ LastStep(o.steps) = Reread(o.op)
      BY <1>3 DEF CallsFound, DataFound
    <3>2. h.how = "optional" /\ r.steps = t /\ r.data = None
      BY <2>6, <3>1
    <3>3. t # <<>> => Plain(t) /\ WritesTo(t, Target(o.op)) /\ LastStep(t) = Reread(o.op)
      BY <1>2, <3>1
    <3>4. t = <<>> => o.op \in {"se read", "se put"} /\ h.of = "se"
      BY <1>2, <3>1, <3>2, RereadLost
    <3> QED BY <2>4, <3>2, <3>3, <3>4 DEF DataFound
  <2>9. TotalsFound(r)
    <3> SUFFICES ASSUME o.op \in Totalled PROVE TotalsFound(r)
      BY <2>4 DEF TotalsFound
    <3>1. WritesTo(o.steps, "none") /\ SummariesFound(o) /\ PeriodsFound(o)
      BY DEF CallsFound, TotalsFound
    <3>2. WritesTo(t, "none") /\ (h.how = "periods" => WritesTo(Tail(t), "none"))
      BY <1>2, <3>1, Later
    <3>3. \A x : /\ HasStep(o.steps, x)
                 /\ h # x
                 /\ h.how = "periods" => Calls!Read(h.of, "versions") # x
                 => HasStep(r.steps, x)
      <4>1. h.how = "periods" => \A x : HasStep(t, x) /\ Head(t) # x => HasStep(Tail(t), x)
        BY <1>2, Later
      <4> QED BY <1>2, <2>5, <4>1
    <3>4. SummariesFound(r)
      <4>1. h # Calls!Check("each") /\ Calls!Read(h.of, "versions") # Calls!Check("each")
        BY DEF Calls!Check, Calls!Read
      <4> QED BY <2>4, <3>1, <3>3, <4>1 DEF SummariesFound
    <3>5. ASSUME NEW b \in Calls!Businesses
          PROVE  /\ r.periods[b] \in {None, Calls!Kept(hHeld[b])}
                 /\ o.op # "summary" => \/ b \in r.unread
                                        \/ HasStep(r.steps, Calls!Read(b, "versions"))
                                        \/ r.periods[b] = Calls!Kept(hHeld[b])
      <4>1. o.periods \in [Calls!Businesses -> Calls!Value]
        BY DEF Calls!Request, Calls!Totals
      <4>2. CASE b = h.of
        <5>1. Calls!Kept(None) = None
          BY DEF Calls!Kept
        <5>2. r.periods[b] \in {o.periods[b], None}
          BY <2>5, <4>1, <4>2, <5>1
        <5> QED BY <2>4, <3>1, <4>2, <5>2 DEF PeriodsFound
      <4>3. CASE b # h.of
        <5>1. r.periods[b] = o.periods[b]
          BY <2>5, <4>1, <4>3
        <5>2. h # Calls!Read(b, "versions")
              /\ Calls!Read(h.of, "versions") # Calls!Read(b, "versions")
          BY <4>3 DEF Calls!Read
        <5> QED BY <2>4, <3>1, <3>3, <5>1, <5>2 DEF PeriodsFound
      <4> QED BY <4>2, <4>3
    <3>6. PeriodsFound(r)
      BY <2>4, <3>5 DEF PeriodsFound
    <3>7. WritesTo(r.steps, "none")
      BY <2>5, <3>2
    <3> QED BY <3>4, <3>6, <3>7 DEF TotalsFound
  <2> QED BY <2>7, <2>8, <2>9 DEF CallsFound
<1> QED BY <1>4, <1>5

\* What is found by a request whose write HMRC took.
LEMMA CallsWritten ==
  ASSUME CallsAssumption, CallsRows, NEW o \in Calls!Request, CallsGood(o), o.steps # <<>>,
         Head(o.steps).do = "write", NEW r, r = Calls!Done(o),
         hHeld' = [hHeld EXCEPT ![Head(o.steps).of] = o.value]
  PROVE  /\ CallsGood(r)
         /\ CallsFound(o) => IF r.steps = <<>> THEN CallsFound(r) ELSE CallsFound(r)'
<1>1. Tidy(o.steps) /\ o.steps \in Seq(CallStep) /\ o.todo = {}
  BY DEF CallsGood, Tidy
<1>2. /\ r \in Calls!Request /\ r.steps = Tail(o.steps) /\ r.steps \in Seq(CallStep)
      /\ r.op = o.op /\ r.value = o.value /\ r.todo = {}
  BY <1>1, CallsDone
<1> DEFINE h == Head(o.steps)
<1>3. /\ h \in CallStep /\ h = o.steps[1] /\ 1 \in 1..Len(o.steps)
      /\ r.steps # <<>> => Tidy(r.steps) /\ LastStep(r.steps) = LastStep(o.steps)
      /\ r.steps = <<>> => h = LastStep(o.steps)
      /\ \A w : WritesTo(o.steps, w) => WritesTo(r.steps, w)
      /\ Plain(o.steps) => Plain(r.steps)
  <2>1. 1 \in 1..Len(o.steps)
    BY <1>1, EmptySeq
  <2> QED BY <1>1, <1>2, <2>1, Later
<1>4. CallsGood(r)
  BY <1>2, <1>3 DEF CallsGood
<1>5. h.of \in Calls!Resources /\ h.of # "none"
  BY <1>3 DEF CallStep, Calls!Resources, Calls!Businesses
<1>6. ~WritesTo(o.steps, "none")
  BY <1>3, <1>5 DEF WritesTo
<1>7. ASSUME CallsFound(o), o.op \in Rereading
      PROVE  r.steps # <<>> /\ WriteFound(r)' /\ DataFound(r)'
  <2>1. /\ Plain(o.steps)
        /\ WritesTo(o.steps, Target(o.op))
        /\ LastStep(o.steps) = Reread(o.op)
    BY <1>7 DEF CallsFound, DataFound
  <2>2. r.steps # <<>>
    BY <1>3, <1>7, <2>1, RereadKind
  <2>3. h.of = Target(o.op)
    BY <1>3, <2>1 DEF WritesTo
  <2>4. hHeld'[Target(o.op)] = o.value
    BY <1>5, <2>3 DEF CallsRows
  <2>5. o.op \in Calls!Writes => o.value \in Amounts
    BY <1>7 DEF CallsFound, WriteFound
  <2>6. WriteFound(r)'
    BY <1>2, <2>4, <2>5 DEF WriteFound
  <2>7. Plain(r.steps) /\ WritesTo(r.steps, Target(r.op)) /\ LastStep(r.steps) = Reread(r.op)
    BY <1>2, <1>3, <2>1, <2>2
  <2> QED BY <2>2, <2>6, <2>7 DEF DataFound
<1>8. CallsFound(o) => o.op \notin Totalled
  BY <1>6 DEF CallsFound, TotalsFound
<1>9. CallsFound(o) /\ o.op \notin Rereading => CallsFound(r) /\ CallsFound(r)'
  BY <1>2, <1>8 DEF CallsFound, WriteFound, DataFound, TotalsFound, Rereading
<1>10. CallsFound(o) /\ o.op \in Rereading => r.steps # <<>> /\ CallsFound(r)'
  BY <1>2, <1>7, <1>8 DEF CallsFound, TotalsFound
<1> QED BY <1>4, <1>9, <1>10

\* What is found by a request that has the summary of one more business, or lost it.
LEMMA CallsSummary ==
  ASSUME CallsAssumption, CallsRows, NEW o \in Calls!Request, CallsGood(o), NEW b \in o.todo,
         NEW w \in Calls!Request,
         w.op = o.op, w.value = o.value, w.steps = o.steps, w.todo = o.todo,
         w.periods = o.periods, w.unread = o.unread,
         \/ w.unsummed = o.unsummed /\ w.biss = [o.biss EXCEPT ![b] = hHeld[b]]
         \/ w.unsummed = o.unsummed \cup {b} /\ w.biss = o.biss,
         NEW r, r = Calls!AfterSummary(w, b)
  PROVE  CallsGood(r) /\ (CallsFound(o) => CallsFound(r))
<1>1. /\ o.todo # {} /\ o.steps # <<>> /\ Head(o.steps).do = "each" /\ Tidy(o.steps)
      /\ o.steps \in Seq(CallStep) /\ o.todo \subseteq Calls!Businesses
  BY DEF CallsGood, Tidy, Calls!Request
<1> DEFINE h == Head(o.steps)
<1>2. PICK t : t = Tail(o.steps)
  OBVIOUS
<1>3. /\ h \in CallStep /\ h = o.steps[1] /\ 1 \in 1..Len(o.steps)
      /\ t # <<>> => Tidy(t)
      /\ \A x : HasStep(o.steps, x) /\ h # x => HasStep(t, x)
      /\ \A x : WritesTo(o.steps, x) => WritesTo(t, x)
  <2>1. 1 \in 1..Len(o.steps)
    BY <1>1, EmptySeq
  <2> QED BY <1>1, <1>2, <2>1, Later
<1>4. ~Plain(o.steps)
  BY <1>1, <1>3 DEF Plain
<1>5. CallsFound(o) => o.op \notin Rereading
  BY <1>1, <1>4 DEF CallsFound, DataFound
<1>6. \A c : h # Calls!Read(c, "versions")
  BY <1>1 DEF Calls!Read
<1>7. ASSUME CallsFound(o), o.op \in Totalled, NEW c \in Calls!Businesses
      PROVE  /\ c \in o.todo \ {b} => c \notin w.unsummed
             /\ w.biss[c] = IF c \in (o.todo \ {b}) \cup w.unsummed THEN None ELSE hHeld[c]
  <2>1. /\ c \in o.todo => c \notin o.unsummed
        /\ o.biss[c] = IF c \in o.todo \cup o.unsummed THEN None ELSE hHeld[c]
        /\ b \notin o.unsummed /\ o.biss[b] = None
    BY <1>1, <1>7 DEF CallsFound, TotalsFound, SummariesFound
  <2>2. o.biss \in [Calls!Businesses -> Calls!Value]
    BY DEF Calls!Request, Calls!Totals
  <2>3. CASE w.unsummed = o.unsummed /\ w.biss = [o.biss EXCEPT ![b] = hHeld[b]]
    <3>1. w.biss[c] = IF c = b THEN hHeld[b] ELSE o.biss[c]
      BY <2>2, <2>3
    <3> QED BY <2>1, <2>3, <3>1
  <2>4. CASE w.unsummed = o.unsummed \cup {b} /\ w.biss = o.biss
    BY <2>1, <2>4
  <2> QED BY <2>3, <2>4
<1>8. CASE o.todo = {b}
  <2>1. PICK d : d = [w EXCEPT !.todo = {}]
    OBVIOUS
  <2>2. r = Calls!Done(d)
    BY <1>8, <2>1 DEF Calls!AfterSummary
  <2>3. /\ d \in Calls!Request /\ d.steps = o.steps /\ d.op = o.op /\ d.value = o.value
        /\ d.todo = {} /\ d.biss = w.biss /\ d.periods = o.periods
        /\ d.unsummed = w.unsummed /\ d.unread = o.unread
    BY <2>1 DEF Calls!Request
  <2>4. /\ r \in Calls!Request /\ r.steps = t /\ r.op = o.op /\ r.value = o.value
        /\ r.todo = {} /\ r.biss = w.biss /\ r.periods = o.periods
        /\ r.unsummed = w.unsummed /\ r.unread = o.unread
    BY <1>1, <1>2, <2>2, <2>3, CallsDone
  <2>5. CallsGood(r)
    BY <1>3, <2>4 DEF CallsGood
  <2>6. ASSUME CallsFound(o), o.op \in Totalled PROVE TotalsFound(r)
    <3>1. SummariesFound(r)
      BY <1>7, <1>8, <2>4, <2>6 DEF SummariesFound
    <3>2. PeriodsFound(r)
      BY <1>3, <1>6, <2>4, <2>6 DEF CallsFound, TotalsFound, PeriodsFound
    <3>3. WritesTo(r.steps, "none")
      BY <1>3, <2>4, <2>6 DEF CallsFound, TotalsFound
    <3> QED BY <3>1, <3>2, <3>3 DEF TotalsFound
  <2> QED BY <1>5, <2>4, <2>5, <2>6 DEF CallsFound, WriteFound, DataFound, TotalsFound, Rereading
<1>9. CASE o.todo # {b}
  <2>1. r = [w EXCEPT !.todo = o.todo \ {b}]
    BY <1>9 DEF Calls!AfterSummary
  <2>2. /\ r \in Calls!Request /\ r.steps = o.steps /\ r.op = o.op /\ r.value = o.value
        /\ r.todo = o.todo \ {b} /\ r.biss = w.biss /\ r.periods = o.periods
        /\ r.unsummed = w.unsummed /\ r.unread = o.unread
    BY <2>1 DEF Calls!Request
  <2>3. CallsGood(r)
    BY <1>1, <2>2 DEF CallsGood
  <2>4. ASSUME CallsFound(o), o.op \in Totalled PROVE TotalsFound(r)
    <3>1. SummariesFound(r)
      BY <1>7, <2>2, <2>4 DEF SummariesFound
    <3>2. PeriodsFound(r)
      BY <2>2, <2>4 DEF CallsFound, TotalsFound, PeriodsFound
    <3>3. WritesTo(r.steps, "none")
      BY <2>2, <2>4 DEF CallsFound, TotalsFound
    <3> QED BY <3>1, <3>2, <3>3 DEF TotalsFound
  <2> QED BY <1>5, <2>2, <2>3, <2>4 DEF CallsFound, WriteFound, DataFound, TotalsFound, Rereading
<1> QED BY <1>8, <1>9

\* A request begins with the steps of its operation.
LEMMA CallsBegin ==
  ASSUME CallsAssumption, CallsInv, NEW p \in Requests, Calls!Start(p)
  PROVE  CallsStep(p)
<1>1. ASSUME NEW op \in Ops, NEW v \in Calls!Value, op \in Calls!Writes => v \in Amounts,
             Calls!Begin(p, op, v)
      PROVE  CallsStep(p)
  <2>1. PICK i \in Calls!Request : i = Calls!Idle
    BY CallsNothing
  <2>2. PICK s : s = Calls!Steps(op)
    OBVIOUS
  <2>3. Tidy(s) /\ s # <<>> /\ s \in Seq(CallStep)
    BY <2>2, TidySteps DEF CallsAssumption, Tidy
  <2>4. s \in Seq(Calls!Step)
    <3>1. \A x \in CallStep : x \in Calls!Step
      BY DEF CallStep
    <3> QED BY <2>3, <3>1
  <2>5. PICK r : r = [i EXCEPT !.op = op, !.steps = s, !.value = v]
    OBVIOUS
  <2>6. r \in Calls!Request
    BY <2>4, <2>5 DEF Calls!Request
  <2>7. /\ r.op = op /\ r.steps = s /\ r.value = v /\ r.todo = {}
        /\ \A b \in Calls!Businesses : r.periods[b] = None
    BY <2>1, <2>5 DEF Calls!Request, Calls!Idle, Calls!NoTotals
  <2>8. CallsGood(r)
    BY <2>3, <2>6, <2>7 DEF CallsGood
  <2>9. /\ hReq' = [hReq EXCEPT ![p] = r]
        /\ hAns' = [hAns EXCEPT ![p] = Calls!NoAnswer]
        /\ UNCHANGED <<hHeld, hFiled, hAuthorised, hConnected, hScope>>
    BY <1>1, <2>1, <2>2, <2>5 DEF Calls!Begin
  <2>10. CallsRows'
    BY <2>9 DEF CallsInv, CallsRows
  <2>11. WriteFound(r)
    BY <1>1, <2>2, <2>7, WriteSteps DEF WriteFound
  <2>12. DataFound(r)
    <3>1. op \in Rereading => Simple(s, Target(op)) /\ LastStep(s) = Reread(op)
      BY <2>2, WriteSteps, ReadSteps DEF Rereading
    <3> QED BY <2>3, <2>7, <3>1 DEF DataFound, Simple
  <2>13. TotalsFound(r)
    <3> SUFFICES ASSUME op \in Totalled PROVE TotalsFound(r)
      BY <2>7 DEF TotalsFound
    <3>1. /\ WritesTo(s, "none") /\ HasStep(s, Calls!Check("each"))
          /\ op # "summary" =>
               \A b \in Calls!Businesses : HasStep(s, Calls!Read(b, "versions"))
      BY <2>2, TotalSteps
    <3> QED BY <2>7, <3>1 DEF TotalsFound, SummariesFound, PeriodsFound
  <2>14. CallsFound(r)'
    BY <2>9, <2>11, <2>12, <2>13, FoundStays DEF CallsFound
  <2>15. PICK a \in Calls!AnAnswer : a = Calls!NoAnswer /\ CallsTrue(a)
    BY CallsNothing
  <2>16. hAns' = [hAns EXCEPT ![p] = a] /\ CallsSerial(r, a)'
    BY <2>9, <2>14, <2>15, TrueStays DEF CallsSerial
  <2> QED BY <2>6, <2>8, <2>9, <2>10, <2>16 DEF CallsStep
<1>2. PICK op \in Ops : \/ op \in Calls!Writes /\ \E v \in Amounts : Calls!Begin(p, op, v)
                        \/ op \notin Calls!Writes /\ Calls!Begin(p, op, None)
  BY DEF Calls!Start
<1> QED BY <1>1, <1>2 DEF Calls!Value

\* A read that HMRC never answers.
LEMMA CallsReadFailed ==
  ASSUME CallsAssumption, CallsInv, NEW p \in Requests, Calls!Busy(p), Calls!Now(p).do = "read",
         Calls!FailedRead(p), UNCHANGED <<hHeld, hFiled, hAuthorised, hConnected, hScope>>
  PROVE  CallsStep(p)
<1>1. PICK o \in Calls!Request : o = hReq[p] /\ CallsGood(o)
  BY DEF CallsInv
<1>2. o.steps # <<>> /\ Head(o.steps).do = "read" /\ Tidy(o.steps) /\ o.todo = {}
  BY <1>1 DEF Calls!Busy, Calls!Now, CallsGood
<1>3. CallsRows'
  BY DEF CallsInv, CallsRows
<1>4. CASE Calls!Forgives(Head(o.steps).how)
  <2>1. PICK f : f = Calls!Unread(o)
    OBVIOUS
  <2>2. PICK r : r = Calls!WithData(f, None)
    OBVIOUS
  <2>3. Calls!GoesOn(p, r)
    BY <1>1, <1>4, <2>1, <2>2 DEF Calls!FailedRead, Calls!Now
  <2>4. /\ f \in Calls!Request /\ f.steps = o.steps /\ f.todo = {}
        /\ None \in Calls!Value
    <3>1. Head(o.steps) \in CallStep
      BY <1>2, Later
    <3>2. Head(o.steps).of \in Calls!Businesses
      BY <1>4, <3>1 DEF Calls!Forgives, CallStep
    <3>3. f = o \/ f = [o EXCEPT !.unread = o.unread \cup {Head(o.steps).of}]
      BY <2>1 DEF Calls!Unread
    <3> QED BY <1>2, <3>2, <3>3 DEF Calls!Request, Calls!Value
  <2>5. CallsGood(r) /\ ReadOf(f, None, r)
    BY <1>2, <2>2, <2>4, CallsReads
  <2>6. CallsFound(o) => CallsFound(r)
    BY <1>2, <1>4, <2>1, <2>5, CallsReadForgiven
  <2>7. CallsFound(r) => CallsFound(r)'
    BY FoundStays
  <2> QED BY <1>1, <1>2, <1>3, <2>3, <2>5, <2>6, <2>7, CallsMove DEF CallsSerial
<1>5. CASE ~Calls!Forgives(Head(o.steps).how)
  <2>1. Calls!Fails(p)
    BY <1>1, <1>5 DEF Calls!FailedRead, Calls!Now
  <2> QED BY <1>3, <2>1, CallsFail
<1> QED BY <1>4, <1>5

\* The steps of a request that only check, or read.
LEMMA CallsChecks ==
  ASSUME CallsAssumption, CallsInv, NEW p \in Requests,
         \/ Calls!PassCheck(p)
         \/ Calls!Validate(p)
         \/ Calls!ReadAnswered(p)
         \/ Calls!ReadFails(p)
  PROVE  CallsStep(p)
<1>1. PICK o \in Calls!Request : o = hReq[p] /\ CallsGood(o)
  BY DEF CallsInv
<1>2. /\ o.steps # <<>> /\ Calls!Busy(p) /\ Calls!Now(p) = Head(o.steps) /\ Tidy(o.steps)
      /\ UNCHANGED <<hHeld, hFiled, hAuthorised, hConnected, hScope>>
  BY <1>1 DEF Calls!PassCheck, Calls!Validate, Calls!ReadAnswered, Calls!ReadFails, Calls!Busy,
     Calls!Now, CallsGood
<1>3. CallsRows /\ CallsRows'
  BY <1>2 DEF CallsInv, CallsRows
<1>4. ASSUME NEW r, CallsFound(r) PROVE CallsFound(r)'
  BY <1>2, <1>4, FoundStays
<1>5. ASSUME NEW r, CallsGood(r), Calls!GoesOn(p, r), CallsFound(o) => CallsFound(r)
      PROVE  CallsStep(p)
  BY <1>1, <1>2, <1>3, <1>4, <1>5, CallsMove DEF CallsSerial
<1>6. CASE Calls!PassCheck(p) \/ Calls!Validate(p)
  <2>1. Head(o.steps).do \in {"gate", "token", "scope", "valid"}
    BY <1>2, <1>6 DEF Calls!PassCheck, Calls!Validate
  <2>2. PICK r : r = Calls!Done(o)
    OBVIOUS
  <2>3. CallsGood(r) /\ (CallsFound(o) => CallsFound(r))
    BY <1>1, <1>2, <2>1, <2>2, CallsPass
  <2>4. Calls!GoesOn(p, r) \/ Calls!Fails(p)
    BY <1>1, <1>6, <2>2 DEF Calls!PassCheck, Calls!Validate
  <2> QED BY <1>3, <1>5, <2>3, <2>4, CallsFail
<1>7. CASE Calls!ReadAnswered(p)
  <2>1. Head(o.steps).do = "read" /\ o.todo = {}
    BY <1>1, <1>2, <1>7 DEF Calls!ReadAnswered, CallsGood
  <2>2. PICK v \in Calls!Found(Head(o.steps).of) :
          Calls!Fails(p) \/ Calls!GoesOn(p, Calls!WithData(o, v))
    BY <1>1, <1>2, <1>7 DEF Calls!ReadAnswered
  <2>3. Head(o.steps).of \in Calls!Resources \cup Calls!Others
    BY <1>2, <2>1, Later DEF CallStep, Calls!Step
  <2>4. v \in Calls!Value
    BY <1>3, <2>3 DEF Calls!Found, CallsRows, Calls!Value, CallsAssumption
  <2>5. Head(o.steps).of \in Calls!Resources /\ ~(Sandbox /\ Head(o.steps).of = "codes")
          => v = hHeld[Head(o.steps).of]
    BY DEF Calls!Found, Calls!Resources, Calls!Businesses, Calls!Others
  <2>6. PICK r : r = Calls!WithData(o, v)
    OBVIOUS
  <2>7. CallsGood(r) /\ ReadOf(o, v, r)
    BY <1>2, <2>1, <2>4, <2>6, CallsReads
  <2>8. ASSUME CallsFound(o) PROVE CallsFound(r)
    BY <1>2, <1>3, <2>1, <2>4, <2>5, <2>7, <2>8, CallsReadTrue
  <2> QED BY <1>3, <1>5, <2>2, <2>6, <2>7, <2>8, CallsFail
<1>8. CASE Calls!ReadFails(p)
  BY <1>2, <1>8, CallsReadFailed DEF Calls!ReadFails
<1> QED BY <1>6, <1>7, <1>8

\* The steps of a request that write, and those that HMRC is too busy for.
LEMMA CallsWrites ==
  ASSUME CallsAssumption, CallsInv, NEW p \in Requests,
         \/ Calls!WriteAnswered(p)
         \/ Calls!WriteFails(p)
         \/ Calls!HmrcBusy(p)
  PROVE  CallsStep(p)
<1>1. PICK o \in Calls!Request : o = hReq[p] /\ CallsGood(o)
  BY DEF CallsInv
<1>2. o.steps # <<>> /\ Calls!Busy(p) /\ Calls!Now(p) = Head(o.steps) /\ Tidy(o.steps)
  BY <1>1 DEF Calls!WriteAnswered, Calls!WriteFails, Calls!HmrcBusy, Calls!Busy, Calls!Now,
     CallsGood
<1>3. CallsRows
  BY DEF CallsInv, CallsRows
<1>4. ASSUME hHeld' = [hHeld EXCEPT ![Head(o.steps).of] = o.value],
             hFiled' = hFiled + 1, hFiled < MaxWrites,
             UNCHANGED <<hAuthorised, hConnected, hScope>>
      PROVE  CallsRows'
  <2>1. o.value \in Calls!Value
    BY DEF Calls!Request
  <2>2. hHeld' \in [Calls!Resources -> Calls!Value]
    BY <1>3, <1>4, <2>1 DEF CallsRows
  <2>3. hFiled' \in 0..MaxWrites
    BY <1>3, <1>4 DEF CallsRows, CallsAssumption
  <2>4. {hAuthorised, hConnected, hScope}' \subseteq BOOLEAN
    BY <1>3, <1>4 DEF CallsRows
  <2> QED BY <2>2, <2>3, <2>4 DEF CallsRows
<1>5. CASE Calls!WriteAnswered(p)
  <2>1. PICK r : r = Calls!Done(o)
    OBVIOUS
  <2>2. /\ Head(o.steps).do = "write"
        /\ hHeld' = [hHeld EXCEPT ![Head(o.steps).of] = o.value]
        /\ hFiled' = hFiled + 1 /\ hFiled < MaxWrites
        /\ UNCHANGED <<hAuthorised, hConnected, hScope>>
        /\ Calls!GoesOn(p, r)
    BY <1>1, <1>2, <1>5, <2>1 DEF Calls!WriteAnswered, Calls!Written
  <2>3. /\ CallsGood(r)
        /\ CallsFound(o) => IF r.steps = <<>> THEN CallsFound(r) ELSE CallsFound(r)'
    BY <1>1, <1>2, <1>3, <2>1, <2>2, CallsWritten
  <2> QED BY <1>1, <1>2, <1>4, <2>2, <2>3, CallsMove DEF CallsSerial
<1>6. CASE Calls!WriteFails(p)
  <2>1. Calls!Fails(p) /\ UNCHANGED <<hAuthorised, hConnected, hScope>>
    BY <1>6 DEF Calls!WriteFails
  <2>2. CASE UNCHANGED <<hHeld, hFiled>>
    <3>1. CallsRows'
      BY <1>3, <2>1, <2>2 DEF CallsRows
    <3> QED BY <2>1, <3>1, CallsFail
  <2>3. CASE hFiled < MaxWrites /\ hHeld' = Calls!Written(p) /\ hFiled' = hFiled + 1
    <3>1. CallsRows'
      BY <1>1, <1>2, <1>4, <2>1, <2>3 DEF Calls!Written
    <3> QED BY <2>1, <3>1, CallsFail
  <2> QED BY <1>6, <2>2, <2>3 DEF Calls!WriteFails
<1>7. CASE Calls!HmrcBusy(p)
  <2>1. UNCHANGED <<hHeld, hFiled, hAuthorised, hConnected, hScope>>
    BY <1>7 DEF Calls!HmrcBusy
  <2>2. CallsRows'
    BY <1>3, <2>1 DEF CallsRows
  <2>3. CASE Calls!RetriesLeft(p)
    <3>1. PICK r : r = [o EXCEPT !.tries = o.tries + 1]
      OBVIOUS
    <3>2. o.tries + 1 \in 0..MaxRetries
      BY <1>1, <2>3 DEF Calls!RetriesLeft, Calls!Request, CallsAssumption
    <3>3. /\ r \in Calls!Request /\ r.steps = o.steps /\ r.op = o.op /\ r.value = o.value
          /\ r.data = o.data /\ r.todo = o.todo /\ r.biss = o.biss /\ r.periods = o.periods
          /\ r.unsummed = o.unsummed /\ r.unread = o.unread
      BY <3>1, <3>2 DEF Calls!Request
    <3>4. hReq' = [hReq EXCEPT ![p] = r] /\ hAns' = hAns
      BY <1>1, <1>7, <2>3, <3>1 DEF Calls!HmrcBusy, CallsInv
    <3>5. Calls!GoesOn(p, r)
      BY <1>2, <3>3, <3>4 DEF Calls!GoesOn
    <3>6. CallsGood(r)
      BY <1>1, <3>3 DEF CallsGood
    <3>7. CallsFound(o) => CallsFound(r)'
      <4>1. CallsFound(o) => CallsFound(r)
        BY <3>3 DEF CallsFound, WriteFound, DataFound, TotalsFound, SummariesFound, PeriodsFound
      <4> QED BY <2>1, <4>1, FoundStays
    <3> QED BY <1>1, <1>2, <2>2, <3>3, <3>5, <3>6, <3>7, CallsMove DEF CallsSerial
  <2>4. CASE ~Calls!RetriesLeft(p)
    <3>1. \/ Calls!Now(p).do = "read" /\ Calls!FailedRead(p)
          \/ Calls!Fails(p)
      BY <1>7, <2>4 DEF Calls!HmrcBusy
    <3> QED BY <1>2, <2>1, <2>2, <3>1, CallsReadFailed, CallsFail
  <2> QED BY <2>3, <2>4
<1> QED BY <1>5, <1>6, <1>7

\* The steps of a request for the summaries.
LEMMA CallsSummaries ==
  ASSUME CallsAssumption, CallsInv, NEW p \in Requests,
         \/ Calls!AskSummaries(p)
         \/ \E b \in Calls!Businesses : Calls!SummaryAnswered(p, b) \/ Calls!SummaryFails(p, b)
  PROVE  CallsStep(p)
<1>1. PICK o \in Calls!Request : o = hReq[p] /\ CallsGood(o)
  BY DEF CallsInv
<1>2. /\ o.steps # <<>> /\ Calls!Busy(p) /\ Calls!Now(p) = Head(o.steps) /\ Tidy(o.steps)
      /\ UNCHANGED <<hHeld, hFiled, hAuthorised, hConnected, hScope>>
  BY <1>1 DEF Calls!AskSummaries, Calls!SummaryAnswered, Calls!SummaryFails, Calls!Busy,
     Calls!Now, CallsGood
<1>3. CallsRows /\ CallsRows'
  BY <1>2 DEF CallsInv, CallsRows
<1>4. ASSUME NEW r, CallsFound(r) PROVE CallsFound(r)'
  BY <1>2, <1>4, FoundStays
<1>5. ASSUME NEW r, CallsGood(r), Calls!GoesOn(p, r), CallsFound(o) => CallsFound(r)
      PROVE  CallsStep(p)
  BY <1>1, <1>2, <1>3, <1>4, <1>5, CallsMove DEF CallsSerial
<1>6. CASE Calls!AskSummaries(p)
  <2>1. PICK r : r = [o EXCEPT !.todo = Calls!Businesses, !.biss = Calls!NoTotals,
                               !.unsummed = {}]
    OBVIOUS
  <2>2. /\ r \in Calls!Request /\ r.steps = o.steps /\ r.op = o.op /\ r.value = o.value
        /\ r.data = o.data /\ r.todo = Calls!Businesses /\ r.unsummed = {}
        /\ r.periods = o.periods /\ r.unread = o.unread
        /\ \A b \in Calls!Businesses : r.biss[b] = None
    BY <2>1 DEF Calls!Request, Calls!NoTotals, Calls!Totals, Calls!Value
  <2>3. /\ hReq' = [hReq EXCEPT ![p] = r] /\ hAns' = hAns
        /\ Head(o.steps).do = "each"
    BY <1>1, <1>2, <1>6, <2>1 DEF Calls!AskSummaries
  <2>4. Calls!GoesOn(p, r)
    BY <1>2, <2>2, <2>3 DEF Calls!GoesOn
  <2>5. CallsGood(r)
    BY <1>1, <1>2, <2>2, <2>3 DEF CallsGood
  <2>6. CallsFound(o) => CallsFound(r)
    <3>1. SummariesFound(r)
      BY <2>2 DEF SummariesFound
    <3>2. CallsFound(o) /\ o.op \in Totalled => PeriodsFound(r)
      BY <2>2 DEF CallsFound, TotalsFound, PeriodsFound
    <3> QED BY <1>2, <2>2, <3>1, <3>2 DEF CallsFound, WriteFound, DataFound, TotalsFound
  <2> QED BY <1>5, <2>4, <2>5, <2>6
<1>7. ASSUME NEW b \in Calls!Businesses, Calls!SummaryAnswered(p, b) PROVE CallsStep(p)
  <2>1. PICK q : q = [o.biss EXCEPT ![b] = hHeld[b]]
    OBVIOUS
  <2>2. PICK w : w = [o EXCEPT !.biss = q]
    OBVIOUS
  <2>3. PICK r : r = Calls!AfterSummary(w, b)
    OBVIOUS
  <2>4. b \in o.todo /\ Calls!GoesOn(p, r)
    BY <1>1, <1>7, <2>1, <2>2, <2>3 DEF Calls!SummaryAnswered, Calls!WithSummary
  <2>5. q \in Calls!Totals
    BY <1>3, <2>1 DEF CallsRows, Calls!Request, Calls!Totals, Calls!Resources
  <2>6. /\ w \in Calls!Request /\ w.op = o.op /\ w.value = o.value /\ w.steps = o.steps
        /\ w.todo = o.todo /\ w.periods = o.periods /\ w.unread = o.unread
        /\ w.unsummed = o.unsummed /\ w.biss = q
    BY <2>2, <2>5 DEF Calls!Request
  <2>7. CallsGood(r) /\ (CallsFound(o) => CallsFound(r))
    BY <1>1, <1>3, <2>1, <2>3, <2>4, <2>6, CallsSummary
  <2> QED BY <1>5, <2>4, <2>7
<1>8. ASSUME NEW b \in Calls!Businesses, Calls!SummaryFails(p, b) PROVE CallsStep(p)
  <2>1. PICK w : w = [o EXCEPT !.unsummed = o.unsummed \cup {b}]
    OBVIOUS
  <2>2. PICK r : r = Calls!AfterSummary(w, b)
    OBVIOUS
  <2>3. b \in o.todo /\ Calls!GoesOn(p, r)
    BY <1>1, <1>8, <2>1, <2>2 DEF Calls!SummaryFails
  <2>4. /\ w \in Calls!Request /\ w.op = o.op /\ w.value = o.value /\ w.steps = o.steps
        /\ w.todo = o.todo /\ w.periods = o.periods /\ w.unread = o.unread
        /\ w.unsummed = o.unsummed \cup {b} /\ w.biss = o.biss
    BY <2>1 DEF Calls!Request
  <2>5. CallsGood(r) /\ (CallsFound(o) => CallsFound(r))
    BY <1>1, <1>3, <2>2, <2>3, <2>4, CallsSummary
  <2> QED BY <1>5, <2>3, <2>5
<1> QED BY <1>6, <1>7, <1>8

\* Every step of a request.
LEMMA CallsSteps ==
  ASSUME CallsAssumption, CallsInv, NEW p \in Requests, Calls!Start(p) \/ Calls!Continue(p)
  PROVE  CallsStep(p)
BY CallsBegin, CallsChecks, CallsWrites, CallsSummaries DEF Calls!Continue

\* What happens elsewhere keeps the types, and what a request found, unless that is busy
\* while other software files figures, which the model leaves out.
LEMMA CallsElsewhere ==
  ASSUME CallsAssumption, CallsInv, Calls!Elsewhere
  PROVE  /\ CallsInv'
         /\ UNCHANGED <<hReq, hAns>>
         /\ (\A p \in Requests : ~Calls!Busy(p)) \/ hHeld' = hHeld
<1>1. CASE Calls!Authorise \/ Calls!Connect
  BY <1>1 DEF Calls!Authorise, Calls!Connect, CallsInv, CallsGood, Calls!Request
<1>2. ASSUME NEW b \in Calls!Businesses, NEW v \in Amounts, Calls!FileElsewhere(b, v)
      PROVE  /\ CallsInv' /\ UNCHANGED <<hReq, hAns>>
             /\ \A p \in Requests : ~Calls!Busy(p)
  <2>1. /\ \A p \in Requests : ~Calls!Busy(p)
        /\ hFiled < MaxWrites /\ hFiled' = hFiled + 1
        /\ hHeld' = [hHeld EXCEPT ![b] = v]
        /\ UNCHANGED <<hAuthorised, hConnected, hScope, hReq, hAns>>
    BY <1>2 DEF Calls!FileElsewhere
  <2>2. hHeld' \in [Calls!Resources -> Calls!Value]
    BY <2>1 DEF CallsInv, Calls!Value
  <2>3. hFiled' \in 0..MaxWrites
    BY <2>1 DEF CallsInv, CallsAssumption
  <2> QED BY <2>1, <2>2, <2>3 DEF CallsInv, CallsGood
<1> QED BY <1>1, <1>2 DEF Calls!Elsewhere

\* Every variable of HMRC's requests holds a value of its type (clients.service.ts).
LEMMA CallsTypes == CallsAssumption => (Calls!Spec => []CallsInv)
<1> SUFFICES ASSUME CallsAssumption
             PROVE  Calls!Spec => []CallsInv
  OBVIOUS
<1>1. Calls!Init => CallsInv
  <2> SUFFICES ASSUME Calls!Init PROVE CallsInv
    OBVIOUS
  <2>1. PICK i \in Calls!Request, a \in Calls!AnAnswer :
          i = Calls!Idle /\ a = Calls!NoAnswer /\ CallsGood(i)
    BY CallsNothing
  <2>2. hReq = [p \in Requests |-> i] /\ hAns = [p \in Requests |-> a]
    BY <2>1 DEF Calls!Init
  <2>3. hHeld \in [Calls!Resources -> Calls!Value]
    BY DEF Calls!Init, Calls!Value
  <2>4. hFiled \in 0..MaxWrites
    BY DEF Calls!Init, CallsAssumption
  <2>5. {hAuthorised, hConnected, hScope} \subseteq BOOLEAN
    BY DEF Calls!Init
  <2> QED BY <2>1, <2>2, <2>3, <2>4, <2>5 DEF CallsInv
<1>2. CallsInv /\ [Calls!Next]_(Calls!vars) => CallsInv'
  <2> SUFFICES ASSUME CallsInv, [Calls!Next]_(Calls!vars)
               PROVE  CallsInv'
    OBVIOUS
  <2>1. ASSUME NEW p \in Requests, Calls!Start(p) \/ Calls!Continue(p)
        PROVE  CallsInv'
    <3>1. PICK r \in Calls!Request, a \in Calls!AnAnswer :
            /\ CallsGood(r)
            /\ hReq' = [hReq EXCEPT ![p] = r]
            /\ hAns' = [hAns EXCEPT ![p] = a]
            /\ CallsRows'
      BY <2>1, CallsSteps DEF CallsStep
    <3>2. /\ hReq' \in [Requests -> Calls!Request]
          /\ hAns' \in [Requests -> Calls!AnAnswer]
          /\ \A q \in Requests : hReq'[q] = IF q = p THEN r ELSE hReq[q]
      BY <3>1 DEF CallsInv
    <3>3. \A q \in Requests : CallsGood(hReq'[q])
      BY <3>1, <3>2 DEF CallsInv
    <3> QED BY <3>1, <3>2, <3>3 DEF CallsInv, CallsRows, CallsGood
  <2>2. CASE Calls!Elsewhere
    BY <2>2, CallsElsewhere
  <2>3. CASE UNCHANGED Calls!vars
    BY <2>3 DEF CallsInv, CallsGood, Calls!vars
  <2> QED BY <2>1, <2>2, <2>3 DEF Calls!Next
<1> QED BY <1>1, <1>2, PTL DEF Calls!Spec

\* What a request that is alone has found of HMRC's data stays true until its answer.
LEMMA CallsInvariance ==
  ASSUME CallsAssumption, NEW CONSTANT p, Requests = {p}
  PROVE  Calls!Spec => []CallsSerial(hReq[p], hAns[p])
<1>1. Calls!Init => CallsSerial(hReq[p], hAns[p])
  BY CallsNothing DEF Calls!Init, CallsSerial
<1>2. CallsInv /\ CallsSerial(hReq[p], hAns[p]) /\ [Calls!Next]_(Calls!vars)
        => CallsSerial(hReq[p], hAns[p])'
  <2> SUFFICES ASSUME CallsInv, CallsSerial(hReq[p], hAns[p]), [Calls!Next]_(Calls!vars)
               PROVE  CallsSerial(hReq[p], hAns[p])'
    OBVIOUS
  <2>1. CASE Calls!Start(p) \/ Calls!Continue(p)
    <3>1. PICK r \in Calls!Request, a \in Calls!AnAnswer :
            /\ hReq' = [hReq EXCEPT ![p] = r]
            /\ hAns' = [hAns EXCEPT ![p] = a]
            /\ CallsSerial(r, a)'
      BY <2>1, CallsSteps DEF CallsStep
    <3>2. hReq'[p] = r /\ hAns'[p] = a
      BY <3>1 DEF CallsInv
    <3> QED BY <3>1, <3>2
  <2>2. ASSUME UNCHANGED <<hReq, hAns>>, ~Calls!Busy(p) \/ hHeld' = hHeld
        PROVE  CallsSerial(hReq[p], hAns[p])'
    <3>1. PICK o, a : o = hReq[p] /\ a = hAns[p]
      OBVIOUS
    <3>2. CallsTrue(a)'
      BY <3>1, TrueStays DEF CallsSerial
    <3>3. ASSUME o.steps # <<>> PROVE CallsFound(o)'
      <4>1. CallsFound(o) /\ hHeld' = hHeld
        BY <2>2, <3>1, <3>3 DEF CallsSerial, Calls!Busy
      <4> QED BY <4>1, FoundStays
    <3>4. hReq'[p] = o /\ hAns'[p] = a
      BY <2>2, <3>1
    <3> QED BY <3>2, <3>3, <3>4 DEF CallsSerial
  <2>3. CASE Calls!Elsewhere \/ UNCHANGED Calls!vars
    BY <2>2, <2>3, CallsElsewhere DEF Calls!vars
  <2> QED BY <2>1, <2>3 DEF Calls!Next
<1> QED BY <1>1, <1>2, CallsTypes, PTL DEF Calls!Spec

-----------------------------------------------------------------------------
(* The daily chase.  The clients of a page are ranked by how many come      *)
(* before them, and no two of the same firm have one rank.                  *)

\* What the chase needs of the constants: the days are those of two tax years, whose
\* quarters the module has.
ChaseAssumption ==
  /\ ChasedClients \subseteq Int
  /\ IsFiniteSet(ChasedClients)
  /\ ChasePage \in Nat \ {0}
  /\ FirstDay \in Nat
  /\ LastDay \in FirstDay..724

\* The rank of a client of a list.
Rank(S, c) == Cardinality({b \in S : b < c})

\* A client that comes before another has the lower rank.
LEMMA RankGrows ==
  ASSUME NEW S, S \subseteq Int, IsFiniteSet(S), NEW b \in S, NEW c \in S, b < c
  PROVE  Rank(S, b) < Rank(S, c)
<1> DEFINE B == {x \in S : x < b}
           C == {x \in S : x < c}
<1>1. B \subseteq C /\ b \in C /\ b \notin B
  <2>1. b \in Int /\ c \in Int /\ \A x \in S : x \in Int
    OBVIOUS
  <2>2. \A x \in S : x < b => x < c
    BY <2>1
  <2>3. ~(b < b)
    BY <2>1
  <2> QED BY <2>2, <2>3
<1>2. IsFiniteSet(C)
  BY FS_Subset
<1>3. /\ IsFiniteSet(B) /\ Cardinality(B) <= Cardinality(C)
      /\ Cardinality(C) = Cardinality(B) => C = B
  BY <1>1, <1>2, FS_Subset
<1>4. Cardinality(B) \in Nat /\ Cardinality(C) \in Nat
  BY <1>2, <1>3, FS_CardinalityType
<1>5. Cardinality(B) < Cardinality(C)
  BY <1>1, <1>3, <1>4
<1> QED BY <1>5 DEF Rank

\* The rank of a client is below the length of the list.
LEMMA RankBound ==
  ASSUME NEW S, IsFiniteSet(S), S \subseteq Int, NEW c \in S
  PROVE  Rank(S, c) \in 0..(Cardinality(S) - 1)
<1> DEFINE C == {x \in S : x < c}
<1>1. C \subseteq S /\ c \notin C
  OBVIOUS
<1>2. /\ IsFiniteSet(C) /\ Cardinality(C) <= Cardinality(S)
      /\ Cardinality(S) = Cardinality(C) => S = C
  BY <1>1, FS_Subset
<1>3. Cardinality(C) \in Nat /\ Cardinality(S) \in Nat
  BY <1>2, FS_CardinalityType
<1>4. Cardinality(C) \in 0..(Cardinality(S) - 1)
  BY <1>1, <1>2, <1>3
<1> QED BY <1>4 DEF Rank

\* A client has every rank below the length of the list.
LEMMA RankFound ==
  ASSUME NEW S, IsFiniteSet(S), S \subseteq Int, NEW i \in 0..(Cardinality(S) - 1)
  PROVE  \E c \in S : Rank(S, c) = i
<1> SUFFICES ASSUME \A c \in S : Rank(S, c) # i
             PROVE  FALSE
  OBVIOUS
<1>1. PICK n \in Nat : n = Cardinality(S)
  BY FS_CardinalityType
<1>2. PICK I : I = 0..(n - 1)
  OBVIOUS
<1>3. PICK T : T = I \ {i}
  OBVIOUS
<1>4. PICK f : f = [c \in S |-> Rank(S, c)]
  OBVIOUS
<1>5. IsFiniteSet(I) /\ Cardinality(I) = n /\ i \in I
  BY <1>1, <1>2, FS_Interval
<1>6. IsFiniteSet(T) /\ Cardinality(T) = n - 1
  BY <1>3, <1>5, FS_RemoveElement
<1>7. f \in [S -> T]
  BY <1>1, <1>2, <1>3, <1>4, RankBound
<1>8. Cardinality(T) < Cardinality(S)
  BY <1>1, <1>6
<1>9. PICK b, c \in S : b # c /\ f[b] = f[c]
  BY <1>6, <1>7, <1>8, FS_PigeonHole
<1>10. Rank(S, b) = Rank(S, c)
  BY <1>4, <1>9
<1>11. Rank(S, b) \in Int
  <2>1. Rank(S, b) \in 0..(Cardinality(S) - 1)
    BY <1>9, RankBound
  <2> QED BY <1>1, <2>1
<1>12. b < c \/ c < b
  BY <1>9
<1>13. ~(b < c)
  <2> SUFFICES ASSUME b < c PROVE FALSE
    OBVIOUS
  <2>1. Rank(S, b) < Rank(S, c)
    BY <1>9, RankGrows
  <2> QED BY <1>10, <1>11, <2>1
<1>14. ~(c < b)
  <2> SUFFICES ASSUME c < b PROVE FALSE
    OBVIOUS
  <2>1. Rank(S, c) < Rank(S, b)
    BY <1>9, RankGrows
  <2> QED BY <1>10, <1>11, <2>1
<1> QED BY <1>12, <1>13, <1>14

\* A list that is not empty has a first client, as a set of quarters has a first quarter.
LEMMA FirstFound ==
  ASSUME NEW S, S # {}, S \subseteq Int, IsFiniteSet(S)
  PROVE  \E k \in S : \A j \in S : k <= j
<1>1. Cardinality(S) \in Nat /\ Cardinality(S) # 0
  BY FS_CardinalityType, FS_EmptySet
<1>2. PICK k \in S : Rank(S, k) = 0
  <2>1. 0 \in 0..(Cardinality(S) - 1)
    BY <1>1
  <2> QED BY <2>1, RankFound
<1>3. {b \in S : b < k} \subseteq S
  OBVIOUS
<1>4. IsFiniteSet({b \in S : b < k})
  BY <1>3, FS_Subset
<1>5. {b \in S : b < k} = {}
  BY <1>2, <1>4, FS_EmptySet DEF Rank
<1>6. \A j \in S : k <= j
  BY <1>5
<1> QED BY <1>6

\* The calendar names one of the quarters (currentChaseQuarter).
LEMMA QuarterNamed ==
  ASSUME NEW d \in 0..724
  PROVE  Chase!ChaseQuarter(d) \in Chase!Quarters
<1>1. PICK y \in {0, 1} : y = Chase!TaxYearStart(d) /\ d < 365 * y + 360
  BY DEF Chase!TaxYearStart, Chase!Year
<1> DEFINE year == {4 * y + q : q \in 1..4}
           overdue == {k \in year : Chase!DaysOverdue(k, d) \in 1..Chase!OverdueWindow}
           ended == {k \in year : /\ Chase!DaysSincePeriodEnd(k, d) >= 1
                                  /\ Chase!DaysOverdue(k, d) <= 0}
           upcoming == {k \in year : Chase!DaysSincePeriodEnd(k, d) < 1}
<1>2. year \subseteq 1..8
  BY <1>1
<1>3. 4 * y + 4 \in year
  OBVIOUS
<1>4. Chase!DaysOverdue(4 * y + 4, d) <= 0 /\ Chase!DaysSincePeriodEnd(4 * y + 4, d) \in Int
  BY <1>1 DEF Chase!DaysOverdue, Chase!DaysSincePeriodEnd, Chase!Deadline, Chase!PeriodEnd,
     Chase!OfYear, Chase!YearOf, Chase!Year
<1>5. overdue # {} \/ ended # {} \/ upcoming # {}
  BY <1>3, <1>4
<1>6. ASSUME NEW S, S \subseteq 1..8, S # {}
      PROVE  Chase!First(S) \in 1..8
  <2>1. \E k \in S : \A j \in S : k <= j
    <3>1. PICK n \in Int : n = 8
      OBVIOUS
    <3>2. IsFiniteSet(1..n)
      BY FS_Interval
    <3>3. S \in SUBSET (1..n)
      BY <1>6, <3>1
    <3>4. IsFiniteSet(S)
      BY <3>2, <3>3, FS_Subset
    <3>5. S \subseteq Int
      BY <1>6
    <3> QED BY <1>6, <3>4, <3>5, FirstFound
  <2> QED BY <1>6, <2>1 DEF Chase!First
<1>7. /\ overdue # {} => Chase!First(overdue) \in 1..8
      /\ ended # {} => Chase!First(ended) \in 1..8
      /\ upcoming # {} => Chase!First(upcoming) \in 1..8
  BY <1>2, <1>6
<1> QED BY <1>1, <1>5, <1>7 DEF Chase!ChaseQuarter, Chase!Quarters

-----------------------------------------------------------------------------
(* The types of the chase.                                                 *)

\* A run, as the types say.
ChaseRuns ==
  [at : Chase!Place, page : Nat, total : Nat, clients : SUBSET ChasedClients,
   rows : Seq(Chase!Row), tpl : BOOLEAN]

\* The run that chases has rows left.
ChaseRowsLeft(r) == r.at \in {"templates", "seed", "reread", "rows"} => r.rows # <<>>

\* The variables other than the run hold values of their types.
ChaseKept ==
  /\ cDay \in Chase!Days
  /\ cRan \in BOOLEAN
  /\ cAuthorised \subseteq ChasedClients
  /\ cLogs \subseteq Chase!Log
  /\ IsFiniteSet(cLogs)
  /\ cDefaults \in Nat
  /\ cCustom \in BOOLEAN
  /\ cSeeding \in BOOLEAN
  /\ cMails \subseteq ChasedClients \X Chase!Quarters
  /\ cDelivered \subseteq ChasedClients \X Chase!Quarters

\* The inductive invariant of the types.
ChaseInv == ChaseKept /\ cRun \in ChaseRuns /\ ChaseRowsLeft(cRun)

\* The instance counts as the office does.
LEMMA ChaseCounts == \A S : Chase!Cardinality(S) = Cardinality(S)
BY DEF Chase!Cardinality, Cardinality

\* The rows of a page's clients, as the scheduler reads them.
RowsOf(S) ==
  [i \in 1..Chase!Cardinality(S) |->
     [client |-> CHOOSE c \in S : Chase!Cardinality({b \in S : b < c}) = i - 1,
      recent |-> Chase!LastChases(CHOOSE c \in S : Chase!Cardinality({b \in S : b < c}) = i - 1,
                                  Chase!NoBusiness, Chase!ChaseQuarter(cDay)) # {}]]

\* There is one row for every client of the page, with what the logs say.
LEMMA RowsRead ==
  ASSUME ChaseAssumption, NEW S, S \subseteq ChasedClients
  PROVE  /\ RowsOf(S) \in Seq(Chase!Row)
         /\ \A i \in 1..Len(RowsOf(S)) :
              /\ RowsOf(S)[i].client \in S
              /\ Rank(S, RowsOf(S)[i].client) = i - 1
              /\ RowsOf(S)[i].recent
                   = (Chase!LastChases(RowsOf(S)[i].client, Chase!NoBusiness,
                                       Chase!ChaseQuarter(cDay)) # {})
<1>1. IsFiniteSet(S) /\ S \subseteq Int
  BY FS_Subset DEF ChaseAssumption
<1>2. PICK n \in Nat : n = Cardinality(S) /\ n = Chase!Cardinality(S)
  BY <1>1, FS_CardinalityType, ChaseCounts
<1>3. PICK s : s = RowsOf(S)
  OBVIOUS
<1>4. DOMAIN s = 1..n
  BY <1>2, <1>3 DEF RowsOf
<1>5. ASSUME NEW i \in 1..n
      PROVE  /\ s[i] \in Chase!Row
             /\ s[i].client \in S
             /\ Rank(S, s[i].client) = i - 1
             /\ s[i].recent = (Chase!LastChases(s[i].client, Chase!NoBusiness,
                                                Chase!ChaseQuarter(cDay)) # {})
  <2>1. PICK d : d = CHOOSE c \in S : Chase!Cardinality({b \in S : b < c}) = i - 1
    OBVIOUS
  <2>2. i - 1 \in 0..(Cardinality(S) - 1)
    BY <1>2
  <2>3. d \in S /\ Rank(S, d) = i - 1
    <3>1. PICK e \in S : Rank(S, e) = i - 1
      BY <1>1, <2>2, RankFound
    <3>2. Chase!Cardinality({b \in S : b < e}) = i - 1
      BY <3>1, ChaseCounts DEF Rank
    <3>3. d \in S /\ Chase!Cardinality({b \in S : b < d}) = i - 1
      BY <2>1, <3>2
    <3> QED BY <3>3, ChaseCounts DEF Rank
  <2>4. s[i] = [client |-> d,
                recent |-> Chase!LastChases(d, Chase!NoBusiness, Chase!ChaseQuarter(cDay)) # {}]
    BY <1>2, <1>3, <2>1 DEF RowsOf
  <2> QED BY <2>3, <2>4 DEF Chase!Row
<1>6. s = [i \in 1..n |-> s[i]]
  BY <1>2, <1>3, <1>4 DEF RowsOf
<1>7. s \in Seq(Chase!Row) /\ Len(s) = n
  BY <1>5, <1>6
<1> QED BY <1>3, <1>5, <1>7

\* A run that has ended, or has yet to begin.
LEMMA ChaseIdle ==
  Chase!Idle \in ChaseRuns /\ ChaseRowsLeft(Chase!Idle) /\ Chase!Idle.at = "idle"
BY DEF Chase!Idle, ChaseRuns, ChaseRowsLeft, Chase!Place

\* A run moves on, and leaves the rest as it is of its type.
LEMMA ChaseGoes ==
  ASSUME ChaseKept', NEW r, r \in ChaseRuns, ChaseRowsLeft(r), cRun' = r
  PROVE  ChaseInv'
BY DEF ChaseInv

\* A chase adds a log and a mail of their types (ChaseLogsService.create).
LEMMA ChaseLogs ==
  ASSUME ChaseAssumption, ChaseKept, NEW c \in ChasedClients, NEW k \in Chase!Quarters,
         NEW b \in {} \cup {Chase!NoBusiness}, NEW auto \in BOOLEAN, Chase!Chased(c, b, k, auto)
  PROVE  /\ cLogs' \subseteq Chase!Log /\ IsFiniteSet(cLogs')
         /\ cMails' \subseteq ChasedClients \X Chase!Quarters
<1>1. PICK L : L = {l \in cLogs : Chase!SameKey(l, c, b, k)}
  OBVIOUS
<1>2. L \subseteq cLogs
  BY <1>1
<1>3. IsFiniteSet(L)
  BY <1>2, FS_Subset DEF ChaseKept
<1>4. PICK n \in Nat : n = Cardinality(L)
  BY <1>3, FS_CardinalityType
<1>5. PICK l : l = [client |-> c, business |-> b, quarter |-> k, day |-> cDay, auto |-> auto,
                    nth |-> 1 + n]
  OBVIOUS
<1>6. l = Chase!NewLog(c, b, k, auto)
  <2>1. Chase!Cardinality({m \in cLogs : Chase!SameKey(m, c, b, k)}) = n
    BY <1>1, <1>4, ChaseCounts
  <2> QED BY <1>5, <2>1, Zenon DEF Chase!NewLog
<1>7. l \in Chase!Log
  BY <1>4, <1>5 DEF ChaseKept, Chase!Log
<1>8. cLogs' = cLogs \cup {l} /\ cMails' = cMails \cup {<<c, k>>}
  BY <1>6 DEF Chase!Chased
<1>9. IsFiniteSet(cLogs')
  BY <1>8, FS_AddElement DEF ChaseKept
<1> QED BY <1>7, <1>8, <1>9 DEF ChaseKept

\* The number of pages of a list.
LEMMA ChasePages ==
  ASSUME ChaseAssumption, ChaseKept
  PROVE  Chase!Pages \in Nat \ {0}
<1>1. IsFiniteSet(cAuthorised)
  BY FS_Subset DEF ChaseAssumption, ChaseKept
<1>2. PICK n \in Nat : n = Cardinality(cAuthorised)
  BY <1>1, FS_CardinalityType
<1>3. CASE cAuthorised = {}
  BY <1>3 DEF Chase!Pages
<1>4. CASE cAuthorised # {}
  <2>1. n # 0
    BY <1>1, <1>2, <1>4, FS_EmptySet
  <2>2. PICK m \in Nat, k \in Nat \ {0} : m = n + ChasePage - 1 /\ k = ChasePage /\ m >= k
    BY <2>1 DEF ChaseAssumption
  <2>3. m \div k \in Nat \ {0}
    BY <2>2
  <2>4. (Chase!Cardinality(cAuthorised) + ChasePage - 1) \div ChasePage \in Nat \ {0}
    BY <1>2, <2>2, <2>3, ChaseCounts
  <2> QED BY <1>4, <2>4 DEF Chase!Pages
<1> QED BY <1>3, <1>4

\* The steps of the run keep the types.
LEMMA ChaseRunTypes ==
  ASSUME ChaseAssumption, ChaseInv, Chase!Run \/ Chase!SkipRow
  PROVE  ChaseInv'
<1>1. PICK o \in ChaseRuns : o = cRun /\ ChaseRowsLeft(o)
  BY DEF ChaseInv
<1>2. ChaseKept
  BY DEF ChaseInv
<1>3. CASE Chase!StartRun
  <2>1. PICK r : r = [Chase!Idle EXCEPT !.at = "clients", !.page = 1]
    OBVIOUS
  <2>2. r \in ChaseRuns /\ r.at = "clients"
    BY <2>1, ChaseIdle DEF ChaseRuns, Chase!Place
  <2>3. cRun' = r /\ ChaseKept'
    BY <1>2, <1>3, <2>1 DEF Chase!StartRun, ChaseKept
  <2> QED BY <2>2, <2>3, ChaseGoes DEF ChaseRowsLeft
<1>4. CASE Chase!ReadClients
  <2>1. PICK r : r = [o EXCEPT !.at = "logs",
                               !.clients = Chase!Page(Chase!SafePage(o.page)),
                               !.total = IF o.page = 1 THEN Chase!Pages ELSE @]
    OBVIOUS
  <2>2. /\ Chase!Page(Chase!SafePage(o.page)) \subseteq ChasedClients
        /\ Chase!Pages \in Nat
    BY <1>2, ChasePages DEF Chase!Page, ChaseKept
  <2>3. r \in ChaseRuns /\ r.at = "logs"
    BY <2>1, <2>2 DEF ChaseRuns, Chase!Place
  <2>4. cRun' = r /\ ChaseKept'
    BY <1>1, <1>2, <1>4, <2>1 DEF Chase!ReadClients, ChaseKept
  <2> QED BY <2>3, <2>4, ChaseGoes DEF ChaseRowsLeft
<1>5. CASE Chase!ReadLogs
  <2>1. PICK s \in Seq(Chase!Row) : s = RowsOf(o.clients)
    BY RowsRead DEF ChaseRuns
  <2>2. PICK w : w = [o EXCEPT !.rows = o.rows \o s]
    OBVIOUS
  <2>3. w \in ChaseRuns /\ w.rows = o.rows \o s
    <3>1. o.rows \in Seq(Chase!Row)
      BY DEF ChaseRuns
    <3>2. PICK t \in Seq(Chase!Row) : t = o.rows \o s
      BY <3>1, <2>1, ConcatProperties
    <3> QED BY <2>2, <3>2 DEF ChaseRuns
  <2>4. PICK r : r = Chase!AfterPages(w)
    OBVIOUS
  <2>5. r \in ChaseRuns /\ ChaseRowsLeft(r)
    <3>1. CASE w.page < w.total
      <4>1. r = [w EXCEPT !.at = "clients", !.page = w.page + 1]
        BY <2>4, <3>1 DEF Chase!AfterPages
      <4>2. w.page + 1 \in Nat
        BY <2>3 DEF ChaseRuns
      <4>3. "clients" \in Chase!Place
        BY DEF Chase!Place
      <4>4. r \in ChaseRuns /\ r.at = "clients"
        BY <2>3, <4>1, <4>2, <4>3 DEF ChaseRuns
      <4> QED BY <4>4 DEF ChaseRowsLeft
    <3>2. CASE ~(w.page < w.total) /\ w.rows = <<>>
      BY <2>4, <3>2, ChaseIdle DEF Chase!AfterPages
    <3>3. CASE ~(w.page < w.total) /\ w.rows # <<>>
      <4>1. r = [w EXCEPT !.at = "templates"]
        BY <2>4, <3>3 DEF Chase!AfterPages
      <4>2. r \in ChaseRuns /\ r.rows = w.rows
        BY <2>3, <4>1 DEF ChaseRuns, Chase!Place
      <4> QED BY <3>3, <4>2 DEF ChaseRowsLeft
    <3> QED BY <3>1, <3>2, <3>3
  <2>6. cRun' = r
    BY <1>1, <1>5, <2>1, <2>2, <2>4 DEF Chase!ReadLogs, RowsOf
  <2>7. cRan' \in BOOLEAN
    BY <1>2, <1>5 DEF Chase!ReadLogs, ChaseKept
  <2>8. ChaseKept'
    BY <1>2, <1>5, <2>7 DEF Chase!ReadLogs, ChaseKept
  <2> QED BY <2>5, <2>6, <2>8, ChaseGoes
<1>6. CASE Chase!ReadTemplates
  <2>0. PICK b \in BOOLEAN : b = (cDefaults > 0)
    <3>1. (cDefaults > 0) \in BOOLEAN
      BY <1>2 DEF ChaseKept
    <3> QED BY <3>1
  <2>1. PICK r : r = IF cDefaults = 0 /\ ~cCustom
                       THEN [o EXCEPT !.at = "seed"]
                       ELSE [o EXCEPT !.at = "rows", !.tpl = b]
    OBVIOUS
  <2>2. r \in ChaseRuns /\ r.rows = o.rows
    BY <2>1 DEF ChaseRuns, Chase!Place
  <2>3. cRun' = r /\ ChaseKept'
    BY <1>1, <1>2, <1>6, <2>0, <2>1 DEF Chase!ReadTemplates, ChaseKept
  <2>4. o.rows # <<>>
    BY <1>1, <1>6 DEF ChaseRowsLeft, Chase!ReadTemplates, Chase!At
  <2> QED BY <2>2, <2>3, <2>4, ChaseGoes DEF ChaseRowsLeft
<1>7. CASE Chase!Seed
  <2>1. PICK r : r = [o EXCEPT !.at = "reread"] /\ cRun' = r
    BY <1>1, <1>7 DEF Chase!Seed
  <2>2. r \in ChaseRuns /\ r.rows = o.rows
    BY <2>1 DEF ChaseRuns, Chase!Place
  <2>3. ChaseKept'
    BY <1>2, <1>7 DEF Chase!Seed, ChaseKept
  <2>4. o.rows # <<>>
    BY <1>1, <1>7 DEF ChaseRowsLeft, Chase!Seed, Chase!At
  <2> QED BY <2>1, <2>2, <2>3, <2>4, ChaseGoes DEF ChaseRowsLeft
<1>8. CASE Chase!ReadSeeded
  <2>0. PICK b \in BOOLEAN : b = (cDefaults > 0)
    <3>1. (cDefaults > 0) \in BOOLEAN
      BY <1>2 DEF ChaseKept
    <3> QED BY <3>1
  <2>1. PICK r : r = [o EXCEPT !.at = "rows", !.tpl = b]
    OBVIOUS
  <2>2. r \in ChaseRuns /\ r.rows = o.rows
    BY <2>1 DEF ChaseRuns, Chase!Place
  <2>3. cRun' = r /\ ChaseKept'
    BY <1>1, <1>2, <1>8, <2>0, <2>1 DEF Chase!ReadSeeded, ChaseKept
  <2>4. o.rows # <<>>
    BY <1>1, <1>8 DEF ChaseRowsLeft, Chase!ReadSeeded, Chase!At
  <2> QED BY <2>2, <2>3, <2>4, ChaseGoes DEF ChaseRowsLeft
<1>9. CASE Chase!ChaseRow \/ Chase!SkipRow
  <2>1. /\ o.at = "rows" /\ o.rows # <<>>
        /\ cRun' = Chase!NextRow
        /\ cRan' = (cRan \/ Chase!NextRow = Chase!Idle)
        /\ UNCHANGED <<cDay, cAuthorised, cDefaults, cCustom, cSeeding, cDelivered>>
    BY <1>1, <1>9 DEF Chase!ChaseRow, Chase!SkipRow, Chase!At, ChaseRowsLeft
  <2>2. o.rows \in Seq(Chase!Row) /\ Head(o.rows) \in Chase!Row
    BY <2>1 DEF ChaseRuns
  <2>3. PICK r : r = Chase!NextRow
    OBVIOUS
  <2>4. r \in ChaseRuns /\ ChaseRowsLeft(r)
    <3>1. CASE Len(o.rows) = 1
      BY <1>1, <2>3, <3>1, ChaseIdle DEF Chase!NextRow
    <3>2. CASE Len(o.rows) # 1
      <4>1. PICK t : t = Tail(o.rows)
        OBVIOUS
      <4>2. t \in Seq(Chase!Row) /\ t # <<>>
        <5>1. t \in Seq(Chase!Row) /\ Len(t) = Len(o.rows) - 1
          BY <2>1, <2>2, <4>1, HeadTailProperties
        <5>2. PICK n \in Nat \ {0} : n = Len(o.rows)
          BY <2>1, <2>2, EmptySeq
        <5>3. n # 1 /\ Len(t) = n - 1
          BY <3>2, <5>1, <5>2
        <5>4. Len(t) # 0
          BY <5>2, <5>3
        <5> QED BY <5>1, <5>4, EmptySeq
      <4>3. r = [o EXCEPT !.rows = t]
        BY <1>1, <2>3, <3>2, <4>1 DEF Chase!NextRow
      <4>4. r \in ChaseRuns /\ r.rows = t
        BY <4>2, <4>3 DEF ChaseRuns
      <4> QED BY <4>2, <4>4 DEF ChaseRowsLeft
    <3> QED BY <3>1, <3>2
  <2>5. /\ cLogs' \subseteq Chase!Log /\ IsFiniteSet(cLogs')
        /\ cMails' \subseteq ChasedClients \X Chase!Quarters
    <3>1. CASE UNCHANGED <<cLogs, cMails>>
      BY <1>2, <3>1 DEF ChaseKept
    <3>2. CASE Chase!Chased(Head(o.rows).client, Chase!NoBusiness, Chase!ChaseQuarter(cDay), TRUE)
      <4>1. cDay \in 0..724
        BY <1>2 DEF ChaseKept, Chase!Days, ChaseAssumption
      <4>2. Chase!ChaseQuarter(cDay) \in Chase!Quarters
        BY <4>1, QuarterNamed
      <4>3. Head(o.rows).client \in ChasedClients
        BY <2>2 DEF Chase!Row
      <4> QED BY <1>2, <3>2, <4>2, <4>3, ChaseLogs
    <3> QED BY <1>1, <1>9, <3>1, <3>2 DEF Chase!ChaseRow, Chase!SkipRow
  <2>6. cRan' \in BOOLEAN
    BY <1>2, <2>1 DEF ChaseKept
  <2>7. ChaseKept'
    BY <1>2, <2>1, <2>5, <2>6 DEF ChaseKept
  <2> QED BY <2>1, <2>3, <2>4, <2>7, ChaseGoes
<1> QED BY <1>3, <1>4, <1>5, <1>6, <1>7, <1>8, <1>9 DEF Chase!Run

\* The steps of the mails, of the firm and of the clock keep the types.
LEMMA ChaseFirmTypes ==
  ASSUME ChaseAssumption, ChaseInv,
         Chase!Dispatch \/ Chase!Stop \/ Chase!Firm \/ Chase!Tick
  PROVE  ChaseInv'
<1>1. ChaseKept /\ cRun \in ChaseRuns /\ ChaseRowsLeft(cRun)
  BY DEF ChaseInv
<1>2. CASE Chase!Dispatch
  BY <1>1, <1>2 DEF Chase!Dispatch, Chase!Deliver, Chase!LoseMail, ChaseInv, ChaseKept,
     ChaseRowsLeft
<1>3. CASE Chase!Stop
  <2>1. cRun' = Chase!Idle /\ ChaseKept'
    BY <1>1, <1>3 DEF Chase!Stop, ChaseKept
  <2> QED BY <2>1, ChaseIdle, ChaseGoes
<1>4. ASSUME NEW c \in ChasedClients, NEW k \in Chase!Quarters,
             NEW b \in {} \cup {Chase!NoBusiness}, Chase!Chase(c, b, k)
      PROVE  ChaseInv'
  <2>1. Chase!Chased(c, b, k, FALSE)
        /\ UNCHANGED <<cDay, cRan, cAuthorised, cDefaults, cCustom, cRun, cSeeding, cDelivered>>
    BY <1>4 DEF Chase!Chase
  <2>2. /\ cLogs' \subseteq Chase!Log /\ IsFiniteSet(cLogs')
        /\ cMails' \subseteq ChasedClients \X Chase!Quarters
    BY <1>1, <2>1, ChaseLogs
  <2>3. ChaseKept'
    BY <1>1, <2>1, <2>2 DEF ChaseKept
  <2> QED BY <1>1, <2>1, <2>3, ChaseGoes
<1>5. ASSUME \/ \E c \in ChasedClients : Chase!Authorise(c)
             \/ Chase!ListTemplates
             \/ Chase!SeedListed
             \/ Chase!CreateTemplate
             \/ Chase!DeleteTemplate
      PROVE  ChaseInv'
  <2>1. \/ cDefaults' = cDefaults
        \/ cDefaults' = cDefaults + 1
        \/ cDefaults > 0 /\ cDefaults' = cDefaults - 1
    BY <1>5 DEF Chase!Authorise, Chase!ListTemplates, Chase!SeedListed,
       Chase!CreateTemplate, Chase!DeleteTemplate
  <2>5. cDefaults' \in Nat
    BY <1>1, <2>1 DEF ChaseKept
  <2>6. cCustom' \in BOOLEAN /\ cSeeding' \in BOOLEAN
    BY <1>1, <1>5 DEF Chase!Authorise, Chase!ListTemplates, Chase!SeedListed,
       Chase!CreateTemplate, Chase!DeleteTemplate, ChaseKept
  <2>2. cAuthorised' \subseteq ChasedClients
    BY <1>1, <1>5 DEF Chase!Authorise, Chase!ListTemplates, Chase!SeedListed,
       Chase!CreateTemplate, Chase!DeleteTemplate, ChaseKept
  <2>3. UNCHANGED <<cDay, cRan, cLogs, cRun, cMails, cDelivered>>
    BY <1>5 DEF Chase!Authorise, Chase!ListTemplates, Chase!SeedListed,
       Chase!CreateTemplate, Chase!DeleteTemplate
  <2>4. ChaseKept'
    BY <1>1, <2>2, <2>3, <2>5, <2>6 DEF ChaseKept
  <2> QED BY <1>1, <2>3, <2>4, ChaseGoes
<1>6. CASE Chase!Tick
  <2>1. cDay' \in Chase!Days
    BY <1>1, <1>6 DEF Chase!Tick, ChaseKept, Chase!Days, ChaseAssumption
  <2>2. cLogs' \subseteq cLogs
    BY <1>6 DEF Chase!Tick
  <2>3. IsFiniteSet(cLogs')
    BY <1>1, <2>2, FS_Subset DEF ChaseKept
  <2>4. ChaseKept' /\ cRun' = cRun
    BY <1>1, <1>6, <2>1, <2>2, <2>3 DEF Chase!Tick, ChaseKept
  <2> QED BY <1>1, <2>4, ChaseGoes
<1> QED BY <1>2, <1>3, <1>4, <1>5, <1>6 DEF Chase!Firm

\* Every variable of the chase holds a value of its type, whatever fails
\* (chase-scheduler.service.ts, chase-logs.service.ts, chase-templates.service.ts).
LEMMA ChaseTypes == ChaseAssumption => (Chase!Spec => []ChaseInv)
<1> SUFFICES ASSUME ChaseAssumption
             PROVE  Chase!Spec => []ChaseInv
  OBVIOUS
<1>1. Chase!Init => ChaseInv
  <2> SUFFICES ASSUME Chase!Init PROVE ChaseInv
    OBVIOUS
  <2>1. IsFiniteSet({}) /\ FirstDay \in Chase!Days
    BY FS_EmptySet DEF Chase!Days, ChaseAssumption
  <2>2. ChaseKept
    BY <2>1 DEF Chase!Init, ChaseKept
  <2> QED BY <2>2, ChaseIdle DEF Chase!Init, ChaseInv
<1>2. ChaseInv /\ [Chase!Next]_(Chase!vars) => ChaseInv'
  <2> SUFFICES ASSUME ChaseInv, [Chase!Next]_(Chase!vars) PROVE ChaseInv'
    OBVIOUS
  <2>1. CASE UNCHANGED Chase!vars
    BY <2>1 DEF Chase!vars, ChaseInv, ChaseKept, ChaseRowsLeft
  <2> QED BY <2>1, ChaseRunTypes, ChaseFirmTypes DEF Chase!Next
<1> QED BY <1>1, <1>2, PTL DEF Chase!Spec

-----------------------------------------------------------------------------
(* The cooldown.  The rows the scheduler gathers are of clients that differ, *)
(* and what a row says of the logs stays true until the row is chased, as    *)
(* long as nobody acts meanwhile.                                            *)

\* What the rows say of the logs is true, and they are of different clients.
RowsTrue(rows) ==
  /\ \A i \in 1..Len(rows) :
       \/ rows[i].recent
       \/ Chase!LastChases(rows[i].client, Chase!NoBusiness, Chase!ChaseQuarter(cDay)) = {}
  /\ \A i, j \in 1..Len(rows) : rows[i].client = rows[j].client => i = j

\* The rows are of clients of the pages before this one.
PagesRead(rows, page) ==
  \A i \in 1..Len(rows) : \E k \in 1..(page - 1) : rows[i].client \in Chase!Page(k)

\* What the run holds is true.
RunTrue(r) ==
  /\ r.at # "idle" => RowsTrue(r.rows)
  /\ r.at \in {"clients", "logs"} => r.page \in 1..Chase!Pages /\ PagesRead(r.rows, r.page)
  /\ r.at = "logs" \/ (r.at = "clients" /\ r.page > 1) => r.total = Chase!Pages
  /\ r.at = "logs" => r.clients = Chase!Page(r.page)

\* The inductive invariant.
ChaseSerial == Chase!ChaseSpaced /\ RunTrue(cRun)

\* Nothing that the rows and the pages depend on changes.
LEMMA RunStays ==
  ASSUME NEW r, RunTrue(r), UNCHANGED <<cDay, cLogs, cAuthorised>>
  PROVE  RunTrue(r)'
BY DEF RunTrue, RowsTrue, PagesRead, Chase!LastChases, Chase!Page, Chase!Pages

\* No client is on two pages.
LEMMA PagesApart ==
  ASSUME NEW j \in Nat, NEW k \in Nat, NEW c, c \in Chase!Page(j), c \in Chase!Page(k)
  PROVE  j = k
<1>1. PICK n : n = Chase!Cardinality({b \in cAuthorised : b < c}) \div ChasePage
  OBVIOUS
<1>2. n = j - 1 /\ n = k - 1
  BY <1>1 DEF Chase!Page
<1> QED BY <1>2

\* The rows with those of one more page.
LEMMA RowsAdded ==
  ASSUME ChaseAssumption, ChaseInv, cRun.at = "logs", RunTrue(cRun),
         NEW w, w = cRun.rows \o RowsOf(cRun.clients)
  PROVE  RowsTrue(w) /\ PagesRead(w, cRun.page + 1)
<1>1. PICK t \in Seq(Chase!Row), page \in Nat : t = cRun.rows /\ page = cRun.page
  BY DEF ChaseInv, ChaseRuns
<1>2. PICK S : S = cRun.clients /\ S \subseteq ChasedClients
  BY DEF ChaseInv, ChaseRuns
<1>3. PICK s \in Seq(Chase!Row) :
        /\ s = RowsOf(S)
        /\ \A i \in 1..Len(s) :
             /\ s[i].client \in S
             /\ Rank(S, s[i].client) = i - 1
             /\ s[i].recent = (Chase!LastChases(s[i].client, Chase!NoBusiness,
                                                Chase!ChaseQuarter(cDay)) # {})
  <2>1. PICK s : s = RowsOf(S)
    OBVIOUS
  <2>2. s \in Seq(Chase!Row)
    BY <1>2, <2>1, RowsRead
  <2>3. \A i \in 1..Len(s) :
          /\ s[i].client \in S
          /\ Rank(S, s[i].client) = i - 1
          /\ s[i].recent = (Chase!LastChases(s[i].client, Chase!NoBusiness,
                                             Chase!ChaseQuarter(cDay)) # {})
    BY <1>2, <2>1, RowsRead
  <2> QED BY <2>1, <2>2, <2>3
<1>4. PICK n \in Nat, m \in Nat : n = Len(t) /\ m = Len(s)
  BY <1>1, <1>3
<1>5. /\ w = t \o s /\ Len(w) = n + m
      /\ \A i \in 1..(n + m) : w[i] = IF i <= n THEN t[i] ELSE s[i - n]
  <2>1. w = t \o s
    BY <1>1, <1>2, <1>3
  <2>2. /\ Len(t \o s) = Len(t) + Len(s)
        /\ \A i \in 1..Len(t) + Len(s) :
             (t \o s)[i] = IF i <= Len(t) THEN t[i] ELSE s[i - Len(t)]
    BY ConcatProperties
  <2> QED BY <1>4, <2>1, <2>2
<1>6. S = Chase!Page(page) /\ page >= 1 /\ RowsTrue(t) /\ PagesRead(t, page)
  BY <1>1, <1>2, ChasePages DEF RunTrue, ChaseInv
<1>7. ASSUME NEW i \in 1..(n + m), i <= n
      PROVE  /\ w[i] = t[i] /\ i \in 1..Len(t)
             /\ \E k \in 1..(page - 1) : w[i].client \in Chase!Page(k)
  BY <1>4, <1>5, <1>6, <1>7 DEF PagesRead
<1>8. ASSUME NEW i \in 1..(n + m), ~(i <= n)
      PROVE  /\ w[i] = s[i - n] /\ i - n \in 1..m
             /\ w[i].client \in Chase!Page(page)
             /\ Rank(S, w[i].client) = i - n - 1
  <2>1. i - n \in 1..m /\ w[i] = s[i - n]
    BY <1>5, <1>8
  <2> QED BY <1>3, <1>4, <1>6, <2>1
<1>9. ASSUME NEW i \in 1..(n + m)
      PROVE  \/ w[i].recent
             \/ Chase!LastChases(w[i].client, Chase!NoBusiness, Chase!ChaseQuarter(cDay)) = {}
  <2>1. CASE i <= n
    BY <1>6, <1>7, <2>1 DEF RowsTrue
  <2>2. CASE ~(i <= n)
    BY <1>3, <1>4, <1>8, <2>2
  <2> QED BY <2>1, <2>2
<1>10. ASSUME NEW i \in 1..(n + m), NEW j \in 1..(n + m), i <= n, ~(j <= n),
              w[i].client = w[j].client
       PROVE  FALSE
  <2>1. PICK k \in 1..(page - 1) : w[i].client \in Chase!Page(k)
    BY <1>7, <1>10
  <2>2. w[i].client \in Chase!Page(page)
    BY <1>8, <1>10
  <2>3. k \in Nat /\ k # page
    BY <2>1
  <2> QED BY <2>1, <2>2, <2>3, PagesApart
<1>11. ASSUME NEW i \in 1..(n + m), NEW j \in 1..(n + m), w[i].client = w[j].client
       PROVE  i = j
  <2>1. CASE i <= n /\ j <= n
    <3>1. w[i] = t[i] /\ w[j] = t[j] /\ i \in 1..Len(t) /\ j \in 1..Len(t)
      BY <1>7, <2>1
    <3> QED BY <1>6, <1>11, <3>1 DEF RowsTrue
  <2>2. CASE ~(i <= n) /\ ~(j <= n)
    <3>1. i - n - 1 = j - n - 1
      BY <1>8, <1>11, <2>2
    <3> QED BY <3>1
  <2> QED BY <1>10, <1>11, <2>1, <2>2
<1>12. RowsTrue(w)
  BY <1>5, <1>9, <1>11 DEF RowsTrue
<1>13. ASSUME NEW i \in 1..(n + m)
       PROVE  \E k \in 1..page : w[i].client \in Chase!Page(k)
  <2>1. CASE i <= n
    <3>1. PICK k \in 1..(page - 1) : w[i].client \in Chase!Page(k)
      BY <1>7, <2>1
    <3>2. k \in 1..page
      BY <3>1
    <3> QED BY <3>1, <3>2
  <2>2. CASE ~(i <= n)
    <3>1. page \in 1..page
      BY <1>6
    <3> QED BY <1>8, <2>2, <3>1
  <2> QED BY <2>1, <2>2
<1>14. (cRun.page + 1) - 1 = page
  BY <1>1
<1>15. PagesRead(w, cRun.page + 1)
  BY <1>5, <1>13, <1>14 DEF PagesRead
<1> QED BY <1>12, <1>15

\* The rows after the first is done, when a log of its client was added or not.
LEMMA RowsLeft ==
  ASSUME NEW s \in Seq(Chase!Row), s # <<>>, RowsTrue(s), UNCHANGED cDay, NEW N,
         cLogs' = cLogs \cup N, \A l \in N : l.client = Head(s).client
  PROVE  RowsTrue(Tail(s))'
<1>1. PICK n \in Nat \ {0} : n = Len(s)
  BY EmptySeq
<1>2. PICK t : /\ t = Tail(s) /\ Len(t) = n - 1
               /\ \A i \in 1..(n - 1) : t[i] = s[i + 1]
  <2>1. /\ Len(Tail(s)) = Len(s) - 1
        /\ \A i \in 1..Len(Tail(s)) : Tail(s)[i] = s[i + 1]
    BY HeadTailProperties
  <2> QED BY <1>1, <2>1
<1>3. Head(s) = s[1]
  OBVIOUS
<1>4. ASSUME NEW i \in 1..(n - 1) PROVE i + 1 \in 1..n /\ t[i] = s[i + 1] /\ i + 1 # 1
  BY <1>2
<1>5. ASSUME NEW i \in 1..(n - 1)
      PROVE  \/ t[i].recent
             \/ Chase!LastChases(t[i].client, Chase!NoBusiness, Chase!ChaseQuarter(cDay))' = {}
  <2>1. \/ t[i].recent
        \/ Chase!LastChases(t[i].client, Chase!NoBusiness, Chase!ChaseQuarter(cDay)) = {}
    BY <1>1, <1>4 DEF RowsTrue
  <2>2. t[i].client # Head(s).client
    <3>1. 1 \in 1..n
      OBVIOUS
    <3> QED BY <1>1, <1>3, <1>4, <3>1 DEF RowsTrue
  <2> QED BY <2>1, <2>2 DEF Chase!LastChases, Chase!SameKey
<1>6. ASSUME NEW i \in 1..(n - 1), NEW j \in 1..(n - 1), t[i].client = t[j].client
      PROVE  i = j
  <2>1. i + 1 = j + 1
    BY <1>1, <1>4, <1>6 DEF RowsTrue
  <2> QED BY <2>1
<1> QED BY <1>2, <1>5, <1>6 DEF RowsTrue

\* A step that adds no chase of the scheduler's keeps the cooldown.
LEMMA SpacedStays ==
  ASSUME Chase!ChaseSpaced, NEW N, cLogs' \subseteq cLogs \cup N, \A l \in N : l.auto => l.nth = 1
  PROVE  Chase!ChaseSpaced'
BY DEF Chase!ChaseSpaced

\* A row is done: it is skipped, or chased for the first time within the cooldown.
LEMMA RowDone ==
  ASSUME ChaseAssumption, ChaseInv, ChaseSerial, Chase!ChaseRow
  PROVE  ChaseSerial'
<1>1. PICK o \in ChaseRuns : o = cRun /\ o.at = "rows" /\ o.rows # <<>>
  BY DEF ChaseInv, ChaseRowsLeft, Chase!ChaseRow, Chase!At
<1>2. PICK s \in Seq(Chase!Row) : s = o.rows /\ s # <<>> /\ RowsTrue(s)
  BY <1>1 DEF ChaseRuns, ChaseSerial, RunTrue
<1>3. PICK h : h = Head(s)
  OBVIOUS
<1>4. h = s[1] /\ 1 \in 1..Len(s)
  <2>1. Len(s) \in Nat \ {0}
    BY <1>2, EmptySeq
  <2> QED BY <1>3, <2>1
<1>5. PICK N : /\ cLogs' = cLogs \cup N
               /\ \A l \in N : l.client = h.client
               /\ \A l \in N : l.auto => l.nth = 1
  <2>1. CASE ~Chase!Due(h)
    <3>1. cLogs' = cLogs
      BY <1>1, <1>2, <1>3, <2>1 DEF Chase!ChaseRow
    <3>2. PICK N : N = {}
      OBVIOUS
    <3>3. cLogs' = cLogs \cup N
      BY <3>1, <3>2
    <3>4. (\A l \in N : l.client = h.client) /\ \A l \in N : l.auto => l.nth = 1
      BY <3>2
    <3> QED BY <3>3, <3>4
  <2>2. CASE Chase!Due(h)
    <3>1. Chase!LastChases(h.client, Chase!NoBusiness, Chase!ChaseQuarter(cDay)) = {}
      BY <1>2, <1>4, <2>2 DEF Chase!Due, RowsTrue
    <3>2. PICK L : /\ L = {m \in cLogs : Chase!SameKey(m, h.client, Chase!NoBusiness,
                                                       Chase!ChaseQuarter(cDay))}
      OBVIOUS
    <3>3. Chase!Cardinality(L) = 0
      BY <3>1, <3>2, ChaseCounts, FS_EmptySet DEF Chase!LastChases
    <3>4. PICK l : l = Chase!NewLog(h.client, Chase!NoBusiness, Chase!ChaseQuarter(cDay), TRUE)
      OBVIOUS
    <3>5. l.client = h.client /\ l.nth = 1 + Chase!Cardinality(L)
      BY <3>2, <3>4, Zenon DEF Chase!NewLog
    <3>6. l.nth = 1
      BY <3>3, <3>5
    <3>7. Chase!Chased(h.client, Chase!NoBusiness, Chase!ChaseQuarter(cDay), TRUE)
      BY <1>1, <1>2, <1>3, <2>2 DEF Chase!ChaseRow
    <3>8. PICK N : N = {l}
      OBVIOUS
    <3>9. cLogs' = cLogs \cup N
      BY <3>4, <3>7, <3>8 DEF Chase!Chased
    <3>10. (\A m \in N : m.client = h.client) /\ \A m \in N : m.auto => m.nth = 1
      BY <3>5, <3>6, <3>8
    <3> QED BY <3>9, <3>10
  <2> QED BY <2>1, <2>2
<1>6. Chase!ChaseSpaced'
  BY <1>5, SpacedStays DEF ChaseSerial
<1>7. UNCHANGED cDay /\ cRun' = Chase!NextRow
  BY DEF Chase!ChaseRow
<1>8. PICK t : t = Tail(s)
  OBVIOUS
<1>9. RowsTrue(t)'
  BY <1>2, <1>3, <1>5, <1>7, <1>8, RowsLeft
<1>10. PICK r : r = cRun'
  OBVIOUS
<1>11. \/ r = Chase!Idle
       \/ r.at = "rows" /\ r.rows = t
  <2>1. CASE Len(o.rows) = 1
    BY <1>1, <1>7, <1>10, <2>1 DEF Chase!NextRow
  <2>2. CASE Len(o.rows) # 1
    <3>1. r = [o EXCEPT !.rows = t]
      BY <1>1, <1>2, <1>7, <1>8, <1>10, <2>2 DEF Chase!NextRow
    <3> QED BY <1>1, <3>1 DEF ChaseRuns
  <2> QED BY <2>1, <2>2
<1>12. RunTrue(r)'
  BY <1>9, <1>11, ChaseIdle DEF RunTrue
<1> QED BY <1>6, <1>10, <1>12 DEF ChaseSerial

\* The other steps of the run leave the logs as they are, and gather rows.
LEMMA RunGathers ==
  ASSUME ChaseAssumption, ChaseInv, ChaseSerial,
         \/ Chase!StartRun
         \/ Chase!ReadClients
         \/ Chase!ReadLogs
         \/ Chase!ReadTemplates
         \/ Chase!Seed
         \/ Chase!ReadSeeded
  PROVE  ChaseSerial'
<1>1. PICK o \in ChaseRuns : o = cRun /\ RunTrue(o)
  BY DEF ChaseInv, ChaseSerial
<1>2. UNCHANGED <<cDay, cLogs, cAuthorised>>
  BY DEF Chase!StartRun, Chase!ReadClients, Chase!ReadLogs, Chase!ReadTemplates, Chase!Seed,
     Chase!ReadSeeded
<1>3. Chase!ChaseSpaced'
  BY <1>2 DEF ChaseSerial, Chase!ChaseSpaced
<1>4. ASSUME NEW r, RunTrue(r), cRun' = r PROVE ChaseSerial'
  BY <1>2, <1>3, <1>4, RunStays DEF ChaseSerial
<1>5. CASE Chase!StartRun
  <2>1. PICK r : r = [Chase!Idle EXCEPT !.at = "clients", !.page = 1]
    OBVIOUS
  <2>2. r.at = "clients" /\ r.page = 1 /\ r.rows = <<>>
    BY <2>1 DEF Chase!Idle
  <2>3. Len(<<>>) = 0
    OBVIOUS
  <2>4. RunTrue(r)
    <3>1. 1 \in 1..Chase!Pages
      BY ChasePages DEF ChaseInv
    <3> QED BY <2>2, <2>3, <3>1 DEF RunTrue, RowsTrue, PagesRead
  <2>5. cRun' = r
    BY <1>5, <2>1 DEF Chase!StartRun
  <2> QED BY <1>4, <2>4, <2>5
<1>6. CASE Chase!ReadClients
  <2>1. PICK r : r = [o EXCEPT !.at = "logs",
                               !.clients = Chase!Page(Chase!SafePage(o.page)),
                               !.total = IF o.page = 1 THEN Chase!Pages ELSE @]
    OBVIOUS
  <2>2. /\ r.at = "logs" /\ r.page = o.page /\ r.rows = o.rows
        /\ r.clients = Chase!Page(Chase!SafePage(o.page))
        /\ r.total = IF o.page = 1 THEN Chase!Pages ELSE o.total
    BY <2>1 DEF ChaseRuns
  <2>3. o.at = "clients"
    BY <1>1, <1>6 DEF Chase!ReadClients, Chase!At
  <2>6. o.page \in 1..Chase!Pages /\ (o.page > 1 => o.total = Chase!Pages)
    BY <1>1, <2>3 DEF RunTrue
  <2>7. Chase!SafePage(o.page) = o.page
    BY <2>6, ChasePages DEF ChaseInv, Chase!SafePage
  <2>8. r.total = Chase!Pages
    BY <2>2, <2>6
  <2>4. RunTrue(r)
    BY <1>1, <2>2, <2>3, <2>7, <2>8 DEF RunTrue
  <2>5. cRun' = r
    BY <1>1, <1>6, <2>1 DEF Chase!ReadClients
  <2> QED BY <1>4, <2>4, <2>5
<1>7. CASE Chase!ReadLogs
  <2>1. PICK z : z = o.rows \o RowsOf(o.clients)
    OBVIOUS
  <2>2. RowsTrue(z) /\ PagesRead(z, o.page + 1) /\ o.page >= 1
    <3>1. cRun.at = "logs" /\ RunTrue(cRun) /\ cRun = o
      BY <1>1, <1>7 DEF Chase!ReadLogs, Chase!At
    <3>2. RowsTrue(z) /\ PagesRead(z, o.page + 1)
      BY <2>1, <3>1, RowsAdded
    <3>3. o.page \in 1..Chase!Pages /\ Chase!Pages \in Nat
      BY <3>1, ChasePages DEF RunTrue, ChaseInv
    <3> QED BY <3>2, <3>3
  <2>3. PICK w : w = [o EXCEPT !.rows = z]
    OBVIOUS
  <2>4. w.rows = z /\ w.page = o.page /\ w.page \in Nat /\ w.total = o.total
    BY <2>3 DEF ChaseRuns
  <2>8. o.total = Chase!Pages /\ Chase!Pages \in Nat
    BY <1>1, <1>7, ChasePages DEF Chase!ReadLogs, Chase!At, RunTrue, ChaseInv
  <2>5. PICK r : r = Chase!AfterPages(w)
    OBVIOUS
  <2>6. RunTrue(r)
    <3>1. CASE w.page < w.total
      <4>1. r = [w EXCEPT !.at = "clients", !.page = w.page + 1]
        BY <2>5, <3>1 DEF Chase!AfterPages
      <4>2. r.at = "clients" /\ r.page = w.page + 1 /\ r.rows = z
        BY <2>3, <2>4, <4>1 DEF ChaseRuns
      <4>3. r.page \in 1..Chase!Pages
        BY <2>4, <2>8, <3>1, <4>2
      <4>4. r.total = Chase!Pages
        BY <2>3, <2>8, <4>1 DEF ChaseRuns
      <4> QED BY <2>2, <2>4, <4>2, <4>3, <4>4 DEF RunTrue
    <3>2. CASE ~(w.page < w.total) /\ w.rows = <<>>
      BY <2>5, <3>2, ChaseIdle DEF Chase!AfterPages, RunTrue
    <3>3. CASE ~(w.page < w.total) /\ w.rows # <<>>
      <4>1. r = [w EXCEPT !.at = "templates"]
        BY <2>5, <3>3 DEF Chase!AfterPages
      <4>2. r.at = "templates" /\ r.rows = z
        BY <2>3, <2>4, <4>1 DEF ChaseRuns
      <4> QED BY <2>2, <4>2 DEF RunTrue
    <3> QED BY <3>1, <3>2, <3>3
  <2>7. cRun' = r
    BY <1>1, <1>7, <2>1, <2>3, <2>5 DEF Chase!ReadLogs, RowsOf
  <2> QED BY <1>4, <2>6, <2>7
<1>8. ASSUME NEW r, cRun' = r, r.rows = o.rows, o.at # "idle", r.at \in {"seed", "reread", "rows"}
      PROVE  ChaseSerial'
  BY <1>1, <1>4, <1>8 DEF RunTrue
<1>9. CASE Chase!ReadTemplates
  <2>1. PICK r : r = IF cDefaults = 0 /\ ~cCustom
                       THEN [o EXCEPT !.at = "seed"]
                       ELSE [o EXCEPT !.at = "rows", !.tpl = (cDefaults > 0)]
    OBVIOUS
  <2>2. cRun' = r
    BY <1>1, <1>9, <2>1 DEF Chase!ReadTemplates
  <2>3. r.rows = o.rows /\ r.at \in {"seed", "rows"}
    BY <2>1 DEF ChaseRuns
  <2>4. o.at # "idle"
    BY <1>1, <1>9 DEF Chase!ReadTemplates, Chase!At
  <2> QED BY <1>8, <2>2, <2>3, <2>4
<1>10. CASE Chase!Seed \/ Chase!ReadSeeded
  <2>1. PICK r \in {[o EXCEPT !.at = "reread"], [o EXCEPT !.at = "rows", !.tpl = (cDefaults > 0)]} :
          r = cRun'
    BY <1>1, <1>10 DEF Chase!Seed, Chase!ReadSeeded
  <2>2. r.rows = o.rows /\ r.at \in {"reread", "rows"}
    BY <2>1 DEF ChaseRuns
  <2>3. o.at # "idle"
    BY <1>1, <1>10 DEF Chase!Seed, Chase!ReadSeeded, Chase!At
  <2> QED BY <1>8, <2>1, <2>2, <2>3
<1> QED BY <1>5, <1>6, <1>7, <1>9, <1>10

\* Nobody but the scheduler chases for it, and while it runs nobody acts.
LEMMA OthersWait ==
  ASSUME ChaseInv, ChaseSerial, ~Faults,
         \/ Chase!SkipRow
         \/ Chase!Dispatch
         \/ Chase!Stop
         \/ (Faults \/ Chase!At("idle")) /\ Chase!Firm
         \/ Chase!Tick
  PROVE  ChaseSerial'
<1>1. PICK r : r = cRun
  OBVIOUS
<1>2. CASE Chase!SkipRow \/ Chase!Stop
  BY <1>2 DEF Chase!SkipRow, Chase!Stop
<1>3. CASE Chase!Dispatch
  <2>1. UNCHANGED <<cDay, cLogs, cAuthorised, cRun>>
    BY <1>3 DEF Chase!Dispatch, Chase!Deliver, Chase!LoseMail
  <2>2. Chase!ChaseSpaced' /\ RunTrue(r)'
    BY <1>1, <2>1, RunStays DEF ChaseSerial, Chase!ChaseSpaced
  <2> QED BY <1>1, <2>1, <2>2 DEF ChaseSerial
<1>4. CASE Chase!At("idle") /\ Chase!Firm
  <2>1. r.at = "idle" /\ cRun' = r
    BY <1>1, <1>4 DEF Chase!At, Chase!Firm, Chase!Authorise, Chase!Chase, Chase!ListTemplates,
       Chase!SeedListed, Chase!CreateTemplate, Chase!DeleteTemplate
  <2>2. PICK N : cLogs' = cLogs \cup N /\ \A l \in N : ~l.auto
    <3>1. ASSUME NEW c \in ChasedClients, NEW b \in {} \cup {Chase!NoBusiness},
                 NEW k \in Chase!Quarters, Chase!Chase(c, b, k)
          PROVE  \E N : cLogs' = cLogs \cup N /\ \A l \in N : ~l.auto
      <4>1. PICK l : l = Chase!NewLog(c, b, k, FALSE)
        OBVIOUS
      <4>2. ~l.auto
        BY <4>1 DEF Chase!NewLog
      <4>3. PICK N : N = {l}
        OBVIOUS
      <4>4. cLogs' = cLogs \cup N
        BY <3>1, <4>1, <4>3 DEF Chase!Chase, Chase!Chased
      <4> QED BY <4>2, <4>3, <4>4
    <3>2. CASE UNCHANGED cLogs
      <4>1. PICK N : N = {}
        OBVIOUS
      <4>2. cLogs' = cLogs \cup N
        BY <3>2, <4>1
      <4> QED BY <4>1, <4>2
    <3> QED BY <1>4, <3>1, <3>2 DEF Chase!Firm, Chase!Authorise, Chase!ListTemplates,
            Chase!SeedListed, Chase!CreateTemplate, Chase!DeleteTemplate
  <2>3. Chase!ChaseSpaced'
    BY <2>2 DEF ChaseSerial, Chase!ChaseSpaced
  <2>4. RunTrue(r)'
    BY <2>1 DEF RunTrue
  <2> QED BY <2>1, <2>3, <2>4 DEF ChaseSerial
<1>5. CASE Chase!Tick
  <2>1. r.at = "idle" /\ cRun' = r /\ cLogs' \subseteq cLogs
    BY <1>1, <1>5 DEF Chase!Tick, Chase!At
  <2>2. Chase!ChaseSpaced'
    BY <2>1 DEF ChaseSerial, Chase!ChaseSpaced
  <2>3. RunTrue(r)'
    BY <2>1 DEF RunTrue
  <2> QED BY <2>1, <2>2, <2>3 DEF ChaseSerial
<1> QED BY <1>2, <1>3, <1>4, <1>5

\* What the run has read stays true, when nobody acts while it runs.
LEMMA ChaseInvariance ==
  ASSUME ChaseAssumption, ~Faults
  PROVE  Chase!Spec => []ChaseSerial
<1>1. Chase!Init => ChaseSerial
  BY ChaseIdle DEF Chase!Init, ChaseSerial, Chase!ChaseSpaced, RunTrue
<1>2. ChaseInv /\ ChaseSerial /\ [Chase!Next]_(Chase!vars) => ChaseSerial'
  <2> SUFFICES ASSUME ChaseInv, ChaseSerial, [Chase!Next]_(Chase!vars) PROVE ChaseSerial'
    OBVIOUS
  <2>1. CASE UNCHANGED Chase!vars
    <3>1. PICK r : r = cRun
      OBVIOUS
    <3>2. UNCHANGED <<cDay, cLogs, cAuthorised, cRun>>
      BY <2>1 DEF Chase!vars
    <3>3. Chase!ChaseSpaced' /\ RunTrue(r)'
      BY <3>1, <3>2, RunStays DEF ChaseSerial, Chase!ChaseSpaced
    <3> QED BY <3>1, <3>2, <3>3 DEF ChaseSerial
  <2>2. CASE Chase!Run
    BY <2>2, RowDone, RunGathers DEF Chase!Run
  <2> QED BY <2>1, <2>2, OthersWait DEF Chase!Next
<1>3. Chase!Spec => []ChaseInv
  BY ChaseTypes
<1> QED BY <1>1, <1>2, <1>3, PTL DEF Chase!Spec

-----------------------------------------------------------------------------
(* What the modules of the chat, the invitations and the registration have  *)
(* proved, about the services of the office.                                *)

ChatP == INSTANCE PortalChat_proofs WITH
            chat <- mChat,
            viewed <- mViewed, disk <- mDisk, shown <- mShown,
            listed <- mListed, notices <- mNotices, req <- mReq
StaffP == INSTANCE StaffInvites_proofs WITH
            invite <- sInvite,
            issued <- sIssued, mailed <- sMailed, expired <- sExpired,
            staff <- sStaff, joined <- sJoined, removed <- sRemoved,
            req <- sReq, Firms <- StaffFirms, Emails <- StaffEmails
RegisteredP == INSTANCE Registration_proofs WITH
            tenant <- rTenant,
            created <- rCreated, user <- rUser, lock <- rLock,
            cleared <- rCleared, departed <- rDeparted, req <- rReq

\* The chat of the office is the one that PortalChat_proofs is about.
LEMMA SameChat ==
  /\ Chat!Spec => ChatP!Spec
  /\ ChatP!TypeOK => Chat!TypeOK
  /\ ChatP!ViewedWasListed => Chat!ViewedWasListed
BY PTL
   DEF
   Chat!talk, Chat!drops, Chat!vars, Chat!Files, Chat!Message, Chat!Request,
   Chat!Idle, Chat!Init, Chat!At, Chat!Goes, Chat!Appends, Chat!AgentSends,
   Chat!ClientReplies, Chat!Notify, Chat!Page, Chat!ClientMarks, Chat!OpenChat,
   Chat!Marked, Chat!MarkMessages, Chat!WriteFile, Chat!InsertFile, Chat!Unseen,
   Chat!ListFiles, Chat!MarksAll, Chat!Marks, Chat!MarkFiles, Chat!Stop,
   Chat!Continue, Chat!Next, Chat!Spec, Chat!TypeOK, Chat!ViewedWasListed, ChatP!talk,
   ChatP!drops, ChatP!vars, ChatP!Files, ChatP!Message, ChatP!Request, ChatP!Idle,
   ChatP!Init, ChatP!At, ChatP!Goes, ChatP!Appends, ChatP!AgentSends,
   ChatP!ClientReplies, ChatP!Notify, ChatP!Page, ChatP!ClientMarks, ChatP!OpenChat,
   ChatP!Marked, ChatP!MarkMessages, ChatP!WriteFile, ChatP!InsertFile, ChatP!Unseen,
   ChatP!ListFiles, ChatP!MarksAll, ChatP!Marks, ChatP!MarkFiles, ChatP!Stop,
   ChatP!Continue, ChatP!Next, ChatP!Spec, ChatP!TypeOK, ChatP!ViewedWasListed

\* The theorems of PortalChat_proofs (getFilesForAgent, listPortalMessages).
LEMMA ChatViewed ==
  /\ Chat!Spec => []Chat!ViewedWasListed
  /\ ChatP!ChatAssumption => (Chat!Spec => []Chat!TypeOK)
BY SameChat, ChatP!ViewedCorrect, ChatP!TypeCorrect, PTL

\* The invitations of the office are those that StaffInvites_proofs is about.
LEMMA SameStaff ==
  /\ Staff!Spec => StaffP!Spec
  /\ StaffP!TypeOK => Staff!TypeOK
  /\ StaffP!SpentStaysSpent => Staff!SpentStaysSpent
  /\ StaffP!RemovedStaysOut => Staff!RemovedStaysOut
BY PTL
   DEF
   Staff!rows, Staff!history, Staff!vars, Staff!Invites, Staff!Invite, Staff!NoInvite,
   Staff!Staff, Staff!Nobody, Staff!Place, Staff!Request, Staff!IdleAt, Staff!Idle,
   Staff!Init, Staff!At, Staff!Goes, Staff!Starts, Staff!Pending, Staff!InviteStaff,
   Staff!WithdrawnIfExpired, Staff!Withdrawn, Staff!RevokePending, Staff!SaveInvite,
   Staff!MailInvite, Staff!MailFails, Staff!DropInvite, Staff!AcceptInvite,
   Staff!CheckEmail, Staff!CreateStaff, Staff!AcceptedUnmarked, Staff!Accepted,
   Staff!SaveAccepted, Staff!CancelInvite, Staff!SaveRevoked, Staff!LoadStaff,
   Staff!SaveStaff, Staff!DeleteStaff, Staff!Expires, Staff!Stop, Staff!Begin,
   Staff!Continue, Staff!Next, Staff!Spec, Staff!TypeOK, Staff!SpentStaysSpent,
   Staff!RemovedStaysOut, StaffP!rows, StaffP!history, StaffP!vars, StaffP!Invites,
   StaffP!Invite, StaffP!NoInvite, StaffP!Staff, StaffP!Nobody, StaffP!Place,
   StaffP!Request, StaffP!IdleAt, StaffP!Idle, StaffP!Init, StaffP!At, StaffP!Goes,
   StaffP!Starts, StaffP!Pending, StaffP!InviteStaff, StaffP!WithdrawnIfExpired,
   StaffP!Withdrawn, StaffP!RevokePending, StaffP!SaveInvite, StaffP!MailInvite,
   StaffP!MailFails, StaffP!DropInvite, StaffP!AcceptInvite, StaffP!CheckEmail,
   StaffP!CreateStaff, StaffP!AcceptedUnmarked, StaffP!Accepted, StaffP!SaveAccepted,
   StaffP!CancelInvite, StaffP!SaveRevoked, StaffP!LoadStaff, StaffP!SaveStaff,
   StaffP!DeleteStaff, StaffP!Expires, StaffP!Stop, StaffP!Begin, StaffP!Continue,
   StaffP!Next, StaffP!Spec, StaffP!TypeOK, StaffP!SpentStaysSpent,
   StaffP!RemovedStaysOut

\* The theorems of StaffInvites_proofs that hold of any requests (acceptInvite, cancelInvite).
LEMMA StaffSpent ==
  ASSUME StaffP!StaffAssumption
  PROVE  (Staff!Spec => []Staff!TypeOK) /\ (Staff!Spec => Staff!SpentStaysSpent)
BY SameStaff, StaffP!TypeCorrect, StaffP!SpentCorrect, PTL

\* The theorem of StaffInvites_proofs about one request at a time (removeStaff).
LEMMA StaffRemoved ==
  ASSUME StaffP!StaffAssumption, NEW CONSTANT p, Requests = {p}, ~Faults
  PROVE  Staff!Spec => []Staff!RemovedStaysOut
BY SameStaff, StaffP!RemovedCorrect, PTL

\* The registrations of the office are those that Registration_proofs is about.
LEMMA SameRegistration ==
  /\ Registered!Spec => RegisteredP!Spec
  /\ RegisteredP!TypeOK => Registered!TypeOK
  /\ RegisteredP!OneTrialADomain => Registered!OneTrialADomain
  /\ RegisteredP!LockHasFirm => Registered!LockHasFirm
BY PTL
   DEF
   Registered!vars, Registered!Firms, Registered!Emails, Registered!Domain,
   Registered!NoFirm, Registered!Firm, Registered!User, Registered!NoUser,
   Registered!Place, Registered!Request, Registered!IdleAt, Registered!Idle,
   Registered!Init, Registered!At, Registered!Goes, Registered!GoesTo,
   Registered!Corporate, Registered!Register, Registered!CheckDomain,
   Registered!SaveTenant, Registered!LockedAgain, Registered!Locked,
   Registered!SaveLock, Registered!SaveTrial, Registered!LockLeft, Registered!Unlocked,
   Registered!UserMade, Registered!CreateUser, Registered!ClearDomain,
   Registered!RemoveLock, Registered!PurgeFirm, Registered!Purge, Registered!Join,
   Registered!DeleteAccount, Registered!Stop, Registered!Begin, Registered!Continue,
   Registered!Next, Registered!Spec, Registered!TypeOK, Registered!OneTrialADomain,
   Registered!LockHasFirm, RegisteredP!vars, RegisteredP!Firms, RegisteredP!Emails,
   RegisteredP!Domain, RegisteredP!NoFirm, RegisteredP!Firm, RegisteredP!User,
   RegisteredP!NoUser, RegisteredP!Place, RegisteredP!Request, RegisteredP!IdleAt,
   RegisteredP!Idle, RegisteredP!Init, RegisteredP!At, RegisteredP!Goes,
   RegisteredP!GoesTo, RegisteredP!Corporate, RegisteredP!Register,
   RegisteredP!CheckDomain, RegisteredP!SaveTenant, RegisteredP!LockedAgain,
   RegisteredP!Locked, RegisteredP!SaveLock, RegisteredP!SaveTrial,
   RegisteredP!LockLeft, RegisteredP!Unlocked, RegisteredP!UserMade, RegisteredP!CreateUser,
   RegisteredP!ClearDomain, RegisteredP!RemoveLock, RegisteredP!PurgeFirm,
   RegisteredP!Purge, RegisteredP!Join, RegisteredP!DeleteAccount, RegisteredP!Stop,
   RegisteredP!Begin, RegisteredP!Continue, RegisteredP!Next, RegisteredP!Spec,
   RegisteredP!TypeOK, RegisteredP!OneTrialADomain, RegisteredP!LockHasFirm

\* The theorems of Registration_proofs that hold of any requests (startTrialForNewTenant).
LEMMA RegisteredTrial ==
  ASSUME RegisteredP!RegistrationAssumption
  PROVE  /\ Registered!Spec => []Registered!TypeOK
         /\ Registered!Spec => []Registered!OneTrialADomain
BY SameRegistration, RegisteredP!TypeCorrect, RegisteredP!OneTrialCorrect, PTL

\* The theorem of Registration_proofs about one request at a time (register, deleteAccount).
LEMMA RegisteredLock ==
  ASSUME RegisteredP!RegistrationAssumption, NEW CONSTANT p, Requests = {p}, ~Faults
  PROVE  Registered!Spec => []Registered!LockHasFirm
BY SameRegistration, RegisteredP!LockCorrect, PTL

-----------------------------------------------------------------------------
(* The properties of the office.                                           *)

\* A file marked viewed was on a list of the agent's (getFilesForAgent).
THEOREM ViewedCorrect == OfficeSpec => []ViewedWasListed
<1>1. Chat!ViewedWasListed => ViewedWasListed
  BY DEF ViewedWasListed
<1> QED BY <1>1, EachService, ChatViewed, PTL

\* A spent invitation never works again (acceptInvite, cancelInvite).
THEOREM SpentCorrect ==
  ASSUME StaffP!StaffAssumption
  PROVE  OfficeSpec => SpentStaysSpent
<1>1. Staff!SpentStaysSpent => SpentStaysSpent
  BY DEF SpentStaysSpent
<1> QED BY <1>1, EachService, StaffSpent, PTL

\* Who was removed from a firm needs a newer invitation (removeStaff).
THEOREM RemovedCorrect ==
  ASSUME StaffP!StaffAssumption, NEW CONSTANT p, Requests = {p}, ~Faults
  PROVE  OfficeSpec => []RemovedStaysOut
<1>1. Staff!RemovedStaysOut => RemovedStaysOut
  BY DEF RemovedStaysOut
<1>2. Staff!Spec => []Staff!RemovedStaysOut
  BY StaffRemoved
<1> QED BY <1>1, <1>2, EachService, PTL

\* A company's domain has one free trial (startTrialForNewTenant).
THEOREM TrialCorrect ==
  ASSUME RegisteredP!RegistrationAssumption
  PROVE  OfficeSpec => []OneTrialADomain
<1>1. Registered!OneTrialADomain => OneTrialADomain
  BY DEF OneTrialADomain
<1> QED BY <1>1, EachService, RegisteredTrial, PTL

\* A domain's lock belongs to a firm somebody can reach (register).
THEOREM LockCorrect ==
  ASSUME RegisteredP!RegistrationAssumption, NEW CONSTANT p, Requests = {p}, ~Faults
  PROVE  OfficeSpec => []LockHasFirm
<1>1. Registered!LockHasFirm => LockHasFirm
  BY DEF LockHasFirm
<1>2. Registered!Spec => []Registered!LockHasFirm
  BY RegisteredLock
<1> QED BY <1>1, <1>2, EachService, PTL

\* An account is deleted only while its owner wants that (cancelDeletion).
THEOREM DeletionCorrect ==
  ASSUME MaxDeletions \in Nat, NEW CONSTANT p, Requests = {p}
  PROVE  OfficeSpec => []DeletedAsAsked
<1>1. DeletionSerial(dReq[p]) => DeletedAsAsked
  BY DEF DeletedAsAsked, Deletion!DeletedAsAsked, DeletionSerial, OneWish
<1>2. Deletion!Spec => []DeletionSerial(dReq[p])
  BY DeletionInvariance
<1> QED BY <1>1, <1>2, EachService, PTL

\* No portal session outlives the removal of the access (revokeAccess).
THEOREM RevokedCorrect ==
  ASSUME PortalAssumption, NEW CONSTANT p, Requests = {p}
  PROVE  OfficeSpec => []RevokedStaysOut
<1>1. PortalInv /\ PortalSerial(pReq[p]) => RevokedStaysOut
  BY PortalStaysOut DEF PortalSerial, RevokedStaysOut
<1>2. Portal!Spec => []PortalSerial(pReq[p])
  BY PortalInvariance
<1>3. Portal!Spec => []PortalInv
  BY PortalTypes
<1> QED BY <1>1, <1>2, <1>3, EachService, PTL

\* What the firm is answered of the figures of a business, of its totals and its coded-out
\* debts is what HMRC held when it answered the last read, in the sandbox as in production,
\* whatever is filed and whatever call fails (clients.service.ts).  What it leaves out is
\* in AnswersTrue: a self-employment is also called empty after a read of it that was lost,
\* totals lack what the calls about that very business failed to bring, the sandbox's
\* amount for none is shown as 0, and the sandbox's debts are not those it was given.
THEOREM AnswersCorrect ==
  ASSUME CallsAssumption, NEW CONSTANT p, Requests = {p}
  PROVE  OfficeSpec => []AnswersTrue
<1>1. CallsSerial(hReq[p], hAns[p]) => AnswersTrue
  BY DEF CallsSerial, CallsTrue, AnswersTrue, Calls!AnswersTrue
<1>2. Calls!Spec => []CallsSerial(hReq[p], hAns[p])
  BY CallsInvariance
<1> QED BY <1>1, <1>2, EachService, PTL

\* The scheduler chases nobody twice for a quarter within the cooldown (processTenant).
THEOREM SpacedCorrect ==
  ASSUME ChaseAssumption, ~Faults
  PROVE  OfficeSpec => []ChaseSpaced
<1>1. ChaseSerial => ChaseSpaced
  BY DEF ChaseSerial, ChaseSpaced
<1>2. Chase!Spec => []ChaseSerial
  BY ChaseInvariance
<1> QED BY <1>1, <1>2, EachService, PTL

\* Every variable of every service holds a value of its type, however many requests run and
\* whatever fails.
THEOREM TypesCorrect ==
  ASSUME PortalAssumption, ChatP!ChatAssumption, StaffP!StaffAssumption,
         MaxDeletions \in Nat, RegisteredP!RegistrationAssumption, ChaseAssumption,
         CallsAssumption
  PROVE  OfficeSpec => []AllTypesOK
<1>1. ChaseInv => Chase!TypeOK
  BY DEF ChaseInv, ChaseKept, ChaseRuns, Chase!TypeOK
<1>2. CallsInv => Calls!TypeOK
  BY DEF CallsInv, Calls!TypeOK
<1>3. PortalInv => Portal!TypeOK
  BY DEF PortalInv, PortalRows, PortalGood, Portal!TypeOK
<1>4. /\ Portal!Spec => []PortalInv
      /\ Chat!Spec => []Chat!TypeOK
      /\ Staff!Spec => []Staff!TypeOK
      /\ Deletion!Spec => []Deletion!TypeOK
      /\ Registered!Spec => []Registered!TypeOK
      /\ Chase!Spec => []ChaseInv
      /\ Calls!Spec => []CallsInv
  BY PortalTypes, ChatViewed, StaffSpent, DeletionTypes, RegisteredTrial, ChaseTypes, CallsTypes
<1>5. Spec => []TypeOK
  BY TypeCorrect
<1>6. /\ TypeOK
      /\ Portal!TypeOK
      /\ Chat!TypeOK
      /\ Staff!TypeOK
      /\ Deletion!TypeOK
      /\ Registered!TypeOK
      /\ Chase!TypeOK
      /\ Calls!TypeOK
      => AllTypesOK
  BY DEF AllTypesOK
<1> QED BY <1>1, <1>2, <1>3, <1>4, <1>5, <1>6, EachService, PTL
=============================================================================
