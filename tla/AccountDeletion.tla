-------------------------- MODULE AccountDeletion --------------------------
(***************************************************************************)
(* The deletion of an owner's account with all data of the firm: asked     *)
(* for, cancelled within seven days or carried out by an hourly job        *)
(* (account.service.ts), and the clearing of a firm's data that keeps the  *)
(* account (users.service.ts).                                             *)
(*                                                                         *)
(* Each action is what a request, or the job, does between two awaits; a   *)
(* transaction is one action.  The owner is the firm's only user.          *)
(***************************************************************************)
EXTENDS Naturals

CONSTANTS Requests,      \* slots for requests and runs of the job
          Clients,       \* ids of clients
          MaxDeletions,  \* bound on the deletions asked for
          Faults         \* TRUE when transactions fail and requests stop

VARIABLES user,     \* the owner: "active" or "deleted" (softly)
          client,   \* "none", "kept", or "removed" (softly, a portal customer)
          notes,    \* clients with notes and chase logs, no foreign key
          portal,   \* clients with messages and rows of files, cascading
          disk,     \* clients with files on disk
          firm,     \* does the firm have a connection, templates, ...
          status,   \* of the deletion_requests rows
          due,      \* those whose seven days are over
          wish,     \* what the owner was last told: "delete" or "keep"
          req       \* the requests, and runs of the job, in progress

data == <<client, notes, portal, disk, firm>>
vars == <<user, data, status, due, wish, req>>

-----------------------------------------------------------------------------
(* Types.                                                                  *)

Deletions == 1..MaxDeletions

Place == {"idle", "check", "saveRequest", "saveCancelled", "load", "wipe", "files"}

Request == [at   : Place,
            of   : 0..MaxDeletions,    \* 0: clearData, which is no deletion
            list : SUBSET Deletions,   \* still to be carried out by this run
            ids  : SUBSET Clients]     \* the clients it loaded

Idle == [at |-> "idle", of |-> 0, list |-> {}, ids |-> {}]

Init ==
  /\ user = "active"
  /\ client = [c \in Clients |-> "none"]
  /\ notes = {}
  /\ portal = {}
  /\ disk = {}
  /\ firm = FALSE
  /\ status = [n \in Deletions |-> "none"]
  /\ due = {}
  /\ wish = "keep"
  /\ req = [p \in Requests |-> Idle]

-----------------------------------------------------------------------------
(* Asking and cancelling.                                                  *)

At(p, place) == req[p].at = place

Goes(p, r) == req' = [req EXCEPT ![p] = r]

Pending == {n \in Deletions : status[n] = "pending"}

\* requestDeletion: the password and the authenticator's code fit.  Bound:
\* MaxDeletions.
RequestDeletion(p, n) ==
  /\ At(p, "idle")
  /\ user = "active"
  /\ status[n] = "none"
  /\ Goes(p, [Idle EXCEPT !.at = "check", !.of = n])
  /\ UNCHANGED <<user, data, status, due, wish>>

CheckPending(p) ==
  /\ At(p, "check")
  /\ Goes(p, IF Pending = {} THEN [req[p] EXCEPT !.at = "saveRequest"] ELSE Idle)
  /\ UNCHANGED <<user, data, status, due, wish>>

SaveRequest(p) ==
  /\ At(p, "saveRequest")
  /\ status' = [status EXCEPT ![req[p].of] = "pending"]
  /\ wish' = "delete"
  /\ Goes(p, Idle)
  /\ UNCHANGED <<user, data, due>>

\* cancelDeletion finds one that is pending.
CancelDeletion(p, n) ==
  /\ At(p, "idle")
  /\ user = "active"
  /\ n \in Pending
  /\ Goes(p, [Idle EXCEPT !.at = "saveCancelled", !.of = n])
  /\ UNCHANGED <<user, data, status, due, wish>>

\* Mutant: the status is left as it was.
CancelledNot(n) == status

Cancelled(n) == [status EXCEPT ![n] = "cancelled"]

SaveCancelled(p) ==
  /\ At(p, "saveCancelled")
  /\ status' = Cancelled(req[p].of)
  /\ wish' = "keep"
  /\ Goes(p, Idle)
  /\ UNCHANGED <<user, data, due>>

-----------------------------------------------------------------------------
(* The job, and clearData.                                                 *)

\* Mutant: those due are taken, but for the first.
DueButFirst == (due \cap Pending) \ {1}

DueNow == due \cap Pending

\* processPendingDeletions, every hour.
RunJob(p) ==
  /\ At(p, "idle")
  /\ DueNow # {}
  /\ \E n \in DueNow :
       Goes(p, [Idle EXCEPT !.at = "load", !.of = n, !.list = DueNow \ {n}])
  /\ UNCHANGED <<user, data, status, due, wish>>

ClearData(p) ==
  /\ At(p, "idle")
  /\ user = "active"
  /\ Goes(p, [Idle EXCEPT !.at = "load"])
  /\ UNCHANGED <<user, data, status, due, wish>>

\* executeAccountDeletion, clearData: the clients that are not softly removed.
LoadClients(p) ==
  /\ At(p, "load")
  /\ Goes(p, [req[p] EXCEPT !.at = "wipe", !.ids = {c \in Clients : client[c] = "kept"}])
  /\ UNCHANGED <<user, data, status, due, wish>>

\* With a client loaded, the rows of the clients loaded go, and then every
\* client of the firm, with what cascades.
Wiped(ids) ==
  /\ firm' = FALSE
  /\ IF ids = {}
       THEN UNCHANGED <<client, notes, portal>>
       ELSE /\ client' = [c \in Clients |-> "none"]
            /\ portal' = {}
            /\ notes' = notes \ ids

\* The transaction.
Wipe(p) ==
  LET r == req[p]
  IN /\ At(p, "wipe")
     /\ Wiped(r.ids)
     /\ user' = IF r.of = 0 THEN user ELSE "deleted"
     /\ status' = IF r.of = 0 THEN status ELSE [status EXCEPT ![r.of] = "completed"]
     /\ Goes(p, [r EXCEPT !.at = "files"])
     /\ UNCHANGED <<disk, due, wish>>

\* The next deletion of a run.
NextOf(r) ==
  IF r.list = {} THEN {Idle}
  ELSE {[r EXCEPT !.at = "load", !.of = n, !.list = @ \ {n}, !.ids = {}] : n \in r.list}

\* A failure is logged; the request stays pending.
WipeFails(p) ==
  /\ Faults
  /\ At(p, "wipe")
  /\ \E r \in NextOf(req[p]) : Goes(p, r)
  /\ UNCHANGED <<user, data, status, due, wish>>

RemoveFiles(p) ==
  /\ At(p, "files")
  /\ disk' = disk \ req[p].ids
  /\ \E r \in NextOf(req[p]) : Goes(p, r)
  /\ UNCHANGED <<user, client, notes, portal, firm, status, due, wish>>

-----------------------------------------------------------------------------
(* Other requests, each of one step here.                                  *)

AddClient(p, c) ==
  /\ At(p, "idle")
  /\ user = "active"
  /\ client[c] = "none"
  /\ c \notin disk \cup notes     \* an id is used once
  /\ client' = [client EXCEPT ![c] = "kept"]
  /\ firm' = TRUE
  /\ UNCHANGED <<user, notes, portal, disk, status, due, wish, req>>

\* createNote, uploadFile
AddContent(p, c) ==
  /\ At(p, "idle")
  /\ client[c] = "kept"
  /\ \/ notes' = notes \cup {c} /\ UNCHANGED <<portal, disk>>
     \/ portal' = portal \cup {c} /\ disk' = disk \cup {c} /\ UNCHANGED notes
  /\ UNCHANGED <<user, client, firm, status, due, wish, req>>

\* revokeAccess of a customer of the portal alone.
RemoveCustomer(p, c) ==
  /\ At(p, "idle")
  /\ client[c] = "kept"
  /\ client' = [client EXCEPT ![c] = "removed"]
  /\ UNCHANGED <<user, notes, portal, disk, firm, status, due, wish, req>>

DaysPass(n) ==
  /\ status[n] = "pending"
  /\ due' = due \cup {n}
  /\ UNCHANGED <<user, data, status, wish, req>>

\* The process stops, or the database fails the request.
Stop(p) ==
  /\ Faults
  /\ ~At(p, "idle")
  /\ Goes(p, Idle)
  /\ UNCHANGED <<user, data, status, due, wish>>

-----------------------------------------------------------------------------
(* The system.                                                             *)

Begin(p) ==
  \/ \E n \in Deletions : RequestDeletion(p, n) \/ CancelDeletion(p, n)
  \/ RunJob(p)
  \/ ClearData(p)
  \/ \E c \in Clients : AddClient(p, c) \/ AddContent(p, c) \/ RemoveCustomer(p, c)

Continue(p) ==
  \/ CheckPending(p)
  \/ SaveRequest(p)
  \/ SaveCancelled(p)
  \/ LoadClients(p)
  \/ Wipe(p)
  \/ RemoveFiles(p)

Next ==
  \/ \E p \in Requests : Begin(p) \/ Continue(p) \/ WipeFails(p) \/ Stop(p)
  \/ \E n \in Deletions : DaysPass(n)

Spec == Init /\ [][Next]_vars

\* A request in progress goes on, and the hour of the job comes however often
\* other requests run.
Fairness == \A p \in Requests : WF_vars(Continue(p)) /\ SF_vars(RunJob(p))

FairSpec == Spec /\ Fairness

-----------------------------------------------------------------------------
(* Properties.                                                             *)

\* Every variable holds a value of its type.
TypeOK ==
  /\ user \in {"active", "deleted"}
  /\ client \in [Clients -> {"none", "kept", "removed"}]
  /\ notes \subseteq Clients
  /\ portal \subseteq Clients
  /\ disk \subseteq Clients
  /\ firm \in BOOLEAN
  /\ status \in [Deletions -> {"none", "pending", "cancelled", "completed"}]
  /\ due \subseteq Deletions
  /\ wish \in {"delete", "keep"}
  /\ req \in [Requests -> Request]

\* An account is deleted only while its owner, by the last answer, wants that
\* (cancelDeletion: "your firm data remain intact"), as long as requests run one
\* at a time: two requests at once leave two rows pending, and one is cancelled;
\* the job may hold one that is cancelled while it runs.
DeletedAsAsked == user = "deleted" => wish = "delete"

\* A deletion that is due is carried out or cancelled, with the account when it
\* is carried out (processPendingDeletions).
DeletionCarriedOut ==
  \A n \in Deletions :
    status[n] = "pending" /\ n \in due
      ~> status[n] = "cancelled" \/ (status[n] = "completed" /\ user = "deleted")

\* What the mail that confirms the request says: "This will permanently delete
\* all your clients, notes, chase history, portal messages, and uploaded files".
NothingLeft ==
  user = "deleted" /\ (\A p \in Requests : At(p, "idle"))
    => notes = {} /\ portal = {} /\ disk = {}
=============================================================================
