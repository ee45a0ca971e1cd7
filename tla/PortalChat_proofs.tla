------------------------- MODULE PortalChat_proofs -------------------------
(***************************************************************************)
(* Proofs about PortalChat, for every number of requests, messages and     *)
(* files, with or without stops: what is marked viewed was listed, and     *)
(* every variable keeps its type.  The messages do not matter to the first.*)
(*                                                                         *)
(* ViewedWasListed is not inductive: the request that marks files must     *)
(* have listed them, and one that inserts a row must have written its file *)
(* (GoodRequest).                                                          *)
(***************************************************************************)
EXTENDS PortalChat, TLAPS

-----------------------------------------------------------------------------
(* The inductive invariant.                                                *)

\* What a request in progress holds.
GoodRequest(r) ==
  /\ r.at = "insertFile" => r.files \subseteq disk
  /\ r.at = "markFiles" => r.files \subseteq listed

\* The inductive invariant.
IInv ==
  /\ ViewedWasListed
  /\ req = [p \in Requests |-> req[p]]
  /\ \A p \in Requests : GoodRequest(req[p])

-----------------------------------------------------------------------------
(* Lemmas.                                                                 *)

\* A step of one request keeps the invariant when what it leaves is good, and what
\* was written and listed stays so.
LEMMA RequestStep ==
  ASSUME IInv, ViewedWasListed', disk \subseteq disk', listed \subseteq listed',
         NEW p \in Requests, NEW r, GoodRequest(r)', req' = [req EXCEPT ![p] = r]
  PROVE  IInv'
<1>1. req' = [q \in Requests |-> req'[q]]
  BY DEF IInv
<1>2. ASSUME NEW q \in Requests PROVE GoodRequest(req[q])'
  <2>1. CASE q = p
    <3>1. req'[q] = r
      BY <2>1 DEF IInv
    <3> QED BY <3>1 DEF GoodRequest
  <2>2. CASE q # p
    <3>1. req'[q] = req[q] /\ GoodRequest(req[q])
      BY <2>2 DEF IInv
    <3> QED BY <3>1 DEF GoodRequest
  <2> QED BY <2>1, <2>2
<1> QED BY <1>1, <1>2 DEF IInv

\* A step that leaves the files alone, of one request or of none.
LEMMA TalkStep ==
  ASSUME IInv, UNCHANGED drops, NEW p \in Requests, NEW r, Goes(p, r),
         r.at \notin {"insertFile", "markFiles"}
  PROVE  IInv'
<1>1. ViewedWasListed'
  BY DEF drops, IInv, ViewedWasListed
<1>2. GoodRequest(r)'
  BY DEF GoodRequest
<1> QED BY <1>1, <1>2, RequestStep DEF Goes, drops

\* A step that leaves all that it speaks of alone preserves it.
LEMMA StillStep ==
  ASSUME IInv, UNCHANGED drops, UNCHANGED req
  PROVE  IInv'
BY DEF IInv, drops, GoodRequest, ViewedWasListed

-----------------------------------------------------------------------------
(* The steps of the files.                                                 *)

\* WriteFile preserves the invariant.
LEMMA WriteFileStep ==
  ASSUME IInv, NEW p \in Requests, NEW f \in Files, WriteFile(p, f)
  PROVE  IInv'
<1> DEFINE r == [Idle EXCEPT !.at = "insertFile", !.files = {f}]
<1>1. r.at = "insertFile" /\ r.files = {f}
  BY DEF Idle
<1>2. disk' = disk \cup {f} /\ UNCHANGED <<viewed, listed>> /\ req' = [req EXCEPT ![p] = r]
  BY DEF WriteFile, Goes
<1>3. PICK s : s = r
  OBVIOUS
<1> HIDE DEF r
<1>4. GoodRequest(s)'
  BY <1>1, <1>2, <1>3 DEF GoodRequest
<1>5. ViewedWasListed'
  BY <1>2 DEF IInv, ViewedWasListed
<1> QED BY <1>2, <1>3, <1>4, <1>5, RequestStep

\* InsertFile preserves the invariant.
LEMMA InsertFileStep ==
  ASSUME IInv, NEW p \in Requests, InsertFile(p)
  PROVE  IInv'
<1>1. /\ viewed' = [f \in DOMAIN viewed \cup req[p].files |-> f \in DOMAIN viewed /\ viewed[f]]
      /\ UNCHANGED <<disk, listed>>
      /\ req' = [req EXCEPT ![p] = Idle]
  BY DEF InsertFile, Goes
<1>2. req[p].files \subseteq disk
  BY DEF InsertFile, At, IInv, GoodRequest
<1>3. ASSUME NEW f \in DOMAIN viewed' PROVE f \in disk' /\ (viewed'[f] => f \in listed')
  <2>1. f \in DOMAIN viewed \cup req[p].files
    BY <1>1
  <2>2. viewed'[f] => f \in DOMAIN viewed /\ viewed[f]
    BY <1>1, <2>1
  <2> QED BY <1>1, <1>2, <2>1, <2>2 DEF IInv, ViewedWasListed
<1>4. ViewedWasListed'
  BY <1>3 DEF ViewedWasListed
<1>5. GoodRequest(Idle)'
  BY DEF GoodRequest, Idle
<1> QED BY <1>1, <1>4, <1>5, RequestStep

\* ListFiles preserves the invariant.
LEMMA ListFilesStep ==
  ASSUME IInv, NEW p \in Requests, ListFiles(p)
  PROVE  IInv'
<1>1. listed' = listed \cup DOMAIN viewed /\ UNCHANGED <<viewed, disk>>
  BY DEF ListFiles
<1>2. ViewedWasListed'
  BY <1>1 DEF IInv, ViewedWasListed
<1>3. PICK s : /\ s = IF Unseen = {} THEN Idle
                                     ELSE [Idle EXCEPT !.at = "markFiles", !.files = Unseen]
               /\ req' = [req EXCEPT ![p] = s]
  BY DEF ListFiles, Goes
<1>4. s.at # "insertFile" /\ (s.at = "markFiles" => s.files = Unseen)
  BY <1>3 DEF Idle
<1>5. GoodRequest(s)'
  BY <1>1, <1>4 DEF GoodRequest, Unseen
<1> QED BY <1>1, <1>2, <1>3, <1>5, RequestStep

\* MarkFiles preserves the invariant.
LEMMA MarkFilesStep ==
  ASSUME IInv, NEW p \in Requests, MarkFiles(p)
  PROVE  IInv'
<1>1. /\ viewed' = [f \in DOMAIN viewed |-> viewed[f] \/ f \in req[p].files]
      /\ UNCHANGED <<disk, listed>>
      /\ req' = [req EXCEPT ![p] = Idle]
  BY DEF MarkFiles, Marks, Goes
<1>2. req[p].files \subseteq listed
  BY DEF MarkFiles, At, IInv, GoodRequest
<1>3. ASSUME NEW f \in DOMAIN viewed' PROVE f \in disk' /\ (viewed'[f] => f \in listed')
  <2>1. f \in DOMAIN viewed
    BY <1>1
  <2>2. viewed'[f] => viewed[f] \/ f \in req[p].files
    BY <1>1, <2>1
  <2> QED BY <1>1, <1>2, <2>1, <2>2 DEF IInv, ViewedWasListed
<1>4. ViewedWasListed'
  BY <1>3 DEF ViewedWasListed
<1>5. GoodRequest(Idle)'
  BY DEF GoodRequest, Idle
<1> QED BY <1>1, <1>4, <1>5, RequestStep

-----------------------------------------------------------------------------
(* The theorem.                                                            *)

\* No message and no file yet.
LEMMA InitGood == Init => IInv
BY DEF Init, IInv, ViewedWasListed, GoodRequest, Idle

\* Where a request that is over is.
LEMMA IdlePlace == Idle.at = "idle"
BY DEF Idle

\* Every step preserves the invariant.
LEMMA StepGood == IInv /\ [Next]_vars => IInv'
<1> SUFFICES ASSUME IInv, [Next]_vars PROVE IInv'
  OBVIOUS
<1>1. CASE AgentSends \/ (\E n \in DOMAIN chat : ClientMarks(n)) \/ UNCHANGED vars
  BY <1>1, StillStep DEF AgentSends, ClientMarks, vars, talk, drops
<1>2. ASSUME NEW p \in Requests, ClientReplies(p) PROVE IInv'
  <2>1. PICK r : r.at = "notify" /\ Goes(p, r)
    BY <1>2 DEF ClientReplies, Idle
  <2> QED BY <1>2, <2>1, TalkStep DEF ClientReplies
<1>3. ASSUME NEW p \in Requests, OpenChat(p) PROVE IInv'
  <2>1. PICK r : r.at = "markMessages" /\ Goes(p, r)
    BY <1>3 DEF OpenChat, Idle
  <2> QED BY <1>3, <2>1, TalkStep DEF OpenChat
<1>4. ASSUME NEW p \in Requests, Notify(p) \/ MarkMessages(p) \/ Stop(p) PROVE IInv'
  BY <1>4, IdlePlace, TalkStep DEF Notify, MarkMessages, Stop, talk
<1>5. ASSUME NEW p \in Requests, InsertFile(p) \/ MarkFiles(p) PROVE IInv'
  BY <1>5, InsertFileStep, MarkFilesStep
<1>6. ASSUME NEW p \in Requests, ListFiles(p) \/ \E f \in Files : WriteFile(p, f) PROVE IInv'
  BY <1>6, ListFilesStep, WriteFileStep
<1> QED BY <1>1, <1>2, <1>3, <1>4, <1>5, <1>6 DEF Next, Continue

\* However uploads and lists overlap or stop, a file is marked viewed only when the
\* agent had it on a list, and a row names a file that was written
\* (getFilesForAgent, uploadFile).
THEOREM ViewedCorrect == Spec => []ViewedWasListed
<1>1. IInv => ViewedWasListed
  BY DEF IInv
<1> QED BY <1>1, InitGood, StepGood, PTL DEF Spec

-----------------------------------------------------------------------------
(* The types.                                                              *)

\* What the types need of the constants.
ChatAssumption == MaxMessages \in Nat

\* A request that tells the firm of a message has sent it.
TypesInv ==
  /\ TypeOK
  /\ \A p \in Requests : At(p, "notify") => req[p].message \in DOMAIN chat

\* The messages stay of their type when one is added or some are marked.
LEMMA LongerChat ==
  ASSUME TypeOK, NEW c, c \in Seq(Message), Len(c) >= Len(chat)
  PROVE  DOMAIN chat \subseteq DOMAIN c
BY DEF TypeOK

\* A step of one request keeps the types when what it leaves is of its type and no
\* message is lost.
LEMMA TypedStep ==
  ASSUME TypesInv, NEW p \in Requests, NEW r \in Request, Goes(p, r),
         DOMAIN chat \subseteq DOMAIN chat', r.at = "notify" => r.message \in DOMAIN chat',
         chat' \in Seq(Message), Len(chat') <= MaxMessages,
         shown' \subseteq DOMAIN chat', notices' \subseteq DOMAIN chat',
         DOMAIN viewed' \subseteq Files, viewed' \in [DOMAIN viewed' -> BOOLEAN],
         disk' \subseteq Files, listed' \subseteq Files
  PROVE  TypesInv'
<1>1. req' = [req EXCEPT ![p] = r] /\ req \in [Requests -> Request]
  BY DEF Goes, TypesInv, TypeOK
<1>2. req' \in [Requests -> Request]
  BY <1>1
<1>3. ASSUME NEW q \in Requests, At(q, "notify")' PROVE req'[q].message \in DOMAIN chat'
  <2>1. req'[q] = IF q = p THEN r ELSE req[q]
    BY <1>1
  <2> QED BY <1>3, <2>1 DEF At, TypesInv
<1> QED BY <1>2, <1>3 DEF TypesInv, TypeOK

\* A message that is added, or marked.
LEMMA TypedMessages ==
  ASSUME ChatAssumption, TypesInv
  PROVE  /\ \A s \in {"agent", "client"} :
              Appends(s) => /\ chat' \in Seq(Message)
                            /\ Len(chat') = Len(chat) + 1
                            /\ Len(chat') <= MaxMessages
         /\ \A n \in DOMAIN chat :
              ClientMarks(n) => chat' \in Seq(Message) /\ Len(chat') = Len(chat)
         /\ \A p \in Requests :
              MarkMessages(p) => chat' \in Seq(Message) /\ Len(chat') = Len(chat)
<1>1. chat \in Seq(Message)
  BY DEF TypesInv, TypeOK
<1>2. ASSUME NEW s \in {"agent", "client"}, Appends(s)
      PROVE  chat' \in Seq(Message) /\ Len(chat') = Len(chat) + 1 /\ Len(chat') <= MaxMessages
  <2>1. [sender |-> s, read |-> FALSE] \in Message
    BY DEF Message
  <2>2. PICK m \in Message : m = [sender |-> s, read |-> FALSE]
    BY <2>1
  <2>3. Len(chat) < MaxMessages /\ chat' = Append(chat, m)
    BY <1>2, <2>2 DEF Appends
  <2>4. chat' \in Seq(Message) /\ Len(chat') = Len(chat) + 1 /\ Len(chat) \in Nat
    BY <1>1, <2>3
  <2> QED BY <2>3, <2>4 DEF ChatAssumption
<1>3. ASSUME NEW n \in DOMAIN chat, ClientMarks(n)
      PROVE  chat' \in Seq(Message) /\ Len(chat') = Len(chat)
  <2>1. PICK m : m = [chat[n] EXCEPT !.read = TRUE]
    OBVIOUS
  <2>2. m \in Message
    <3>1. PICK o \in Message : o = chat[n]
      BY <1>1
    <3> QED BY <2>1, <3>1 DEF Message
  <2>3. chat' = [chat EXCEPT ![n] = m]
    BY <1>3, <2>1 DEF ClientMarks
  <2> QED BY <1>1, <2>2, <2>3
<1>4. ASSUME NEW p \in Requests, MarkMessages(p)
      PROVE  chat' \in Seq(Message) /\ Len(chat') = Len(chat)
  <2>1. ASSUME NEW n \in DOMAIN chat PROVE Marked(chat[n]) \in Message
    <3>1. PICK m \in Message : m = chat[n]
      BY <1>1
    <3> QED BY <3>1 DEF Marked, Message
  <2>2. chat' = [n \in 1..Len(chat) |-> Marked(chat[n])]
    BY <1>1, <1>4 DEF MarkMessages
  <2>3. \A n \in 1..Len(chat) : Marked(chat[n]) \in Message
    BY <1>1, <2>1
  <2>4. Len(chat) \in Nat
    BY <1>1
  <2> QED BY <2>2, <2>3, <2>4
<1> QED BY <1>2, <1>3, <1>4

\* Every variable holds a value of its type, however many requests run and wherever
\* they stop (portal.service.ts).
THEOREM TypeCorrect == ChatAssumption => (Spec => []TypeOK)
<1> SUFFICES ASSUME ChatAssumption PROVE Spec => []TypeOK
  OBVIOUS
<1>1. Idle \in Request /\ Idle.at = "idle" /\ Idle.files = {}
  BY DEF Idle, Request, ChatAssumption
<1>2. Init => TypesInv
  <2> SUFFICES ASSUME Init PROVE TypesInv
    OBVIOUS
  <2>1. PICK i \in Request : i = Idle /\ i.at = "idle"
    BY <1>1
  <2>2. req = [p \in Requests |-> i]
    BY <2>1 DEF Init
  <2>3. Len(chat) <= MaxMessages /\ chat \in Seq(Message) /\ DOMAIN chat = {}
    BY DEF Init, ChatAssumption
  <2> QED BY <2>1, <2>2, <2>3 DEF Init, TypesInv, TypeOK, At
<1>3. TypesInv /\ [Next]_vars => TypesInv'
  <2> SUFFICES ASSUME TypesInv, [Next]_vars PROVE TypesInv'
    OBVIOUS
  <2>1. /\ chat \in Seq(Message) /\ Len(chat) <= MaxMessages
        /\ shown \subseteq DOMAIN chat /\ notices \subseteq DOMAIN chat
        /\ DOMAIN viewed \subseteq Files /\ viewed \in [DOMAIN viewed -> BOOLEAN]
        /\ disk \subseteq Files /\ listed \subseteq Files
    BY DEF TypesInv, TypeOK
  <2>2. CASE AgentSends \/ \E n \in DOMAIN chat : ClientMarks(n)
    <3>1. chat' \in Seq(Message) /\ Len(chat') >= Len(chat) /\ Len(chat') <= MaxMessages
      BY <2>1, <2>2, TypedMessages DEF AgentSends
    <3>2. DOMAIN chat \subseteq DOMAIN chat'
      BY <2>1, <3>1, LongerChat DEF TypesInv
    <3>3. UNCHANGED <<shown, notices, viewed, disk, listed, req>>
      BY <2>2 DEF AgentSends, ClientMarks, drops
    <3> QED BY <2>1, <3>1, <3>2, <3>3 DEF TypesInv, TypeOK, At
  <2>3. ASSUME NEW p \in Requests, ClientReplies(p) PROVE TypesInv'
    <3>1. chat' \in Seq(Message) /\ Len(chat') = Len(chat) + 1 /\ Len(chat') <= MaxMessages
      BY <2>3, TypedMessages DEF ClientReplies
    <3>2. DOMAIN chat \subseteq DOMAIN chat'
      BY <2>1, <3>1, LongerChat DEF TypesInv
    <3>3. PICK r : r = [Idle EXCEPT !.at = "notify", !.message = Len(chat) + 1]
      OBVIOUS
    <3>4. Len(chat) + 1 \in 0..MaxMessages /\ Len(chat) + 1 \in DOMAIN chat'
      BY <2>1, <3>1 DEF ChatAssumption
    <3>5. r \in Request /\ r.message = Len(chat) + 1
      BY <1>1, <3>3, <3>4 DEF Request
    <3>6. Goes(p, r) /\ UNCHANGED <<shown, notices, viewed, disk, listed>>
      BY <2>3, <3>3 DEF ClientReplies, drops
    <3> QED BY <2>1, <3>1, <3>2, <3>4, <3>5, <3>6, TypedStep
  <2>4. ASSUME NEW p \in Requests, Notify(p) PROVE TypesInv'
    <3>1. notices' \subseteq notices \cup {req[p].message} /\ req[p].message \in DOMAIN chat
      BY <2>4 DEF Notify, TypesInv
    <3>2. Goes(p, Idle) /\ UNCHANGED <<chat, shown, viewed, disk, listed>>
      BY <2>4 DEF Notify, drops
    <3> QED BY <1>1, <2>1, <3>1, <3>2, TypedStep
  <2>5. ASSUME NEW p \in Requests, MarkMessages(p) PROVE TypesInv'
    <3>1. chat' \in Seq(Message) /\ Len(chat') = Len(chat)
      BY <2>5, TypedMessages
    <3>2. DOMAIN chat \subseteq DOMAIN chat' /\ Len(chat') <= MaxMessages
      BY <2>1, <3>1, LongerChat DEF TypesInv
    <3>3. Goes(p, Idle) /\ UNCHANGED <<shown, notices, viewed, disk, listed>>
      BY <2>5 DEF MarkMessages, drops
    <3> QED BY <1>1, <2>1, <3>1, <3>2, <3>3, TypedStep
  <2>6. ASSUME NEW p \in Requests, OpenChat(p) PROVE TypesInv'
    <3>1. PICK r : r = [Idle EXCEPT !.at = "markMessages"]
      OBVIOUS
    <3>2. r \in Request /\ r.at = "markMessages"
      BY <1>1, <3>1 DEF Request
    <3>3. Goes(p, r) /\ shown' \subseteq DOMAIN chat
          /\ UNCHANGED <<chat, notices, viewed, disk, listed>>
      BY <2>1, <2>6, <3>1 DEF OpenChat, Page, drops
    <3> QED BY <2>1, <3>2, <3>3, TypedStep
  <2>7. ASSUME NEW p \in Requests, NEW f \in Files, WriteFile(p, f) PROVE TypesInv'
    <3>1. PICK r : r = [Idle EXCEPT !.at = "insertFile", !.files = {f}]
      OBVIOUS
    <3>2. r \in Request /\ r.at = "insertFile"
      BY <1>1, <3>1 DEF Request
    <3>3. Goes(p, r) /\ disk' = disk \cup {f}
          /\ UNCHANGED <<chat, shown, notices, viewed, listed>>
      BY <2>7, <3>1 DEF WriteFile, talk
    <3> QED BY <2>1, <3>2, <3>3, TypedStep
  <2>8. ASSUME NEW p \in Requests, InsertFile(p) PROVE TypesInv'
    <3>1. req[p].files \subseteq Files
      BY DEF TypesInv, TypeOK, Request
    <3>2. viewed' = [f \in DOMAIN viewed \cup req[p].files |-> f \in DOMAIN viewed /\ viewed[f]]
      BY <2>8 DEF InsertFile
    <3>3. DOMAIN viewed' \subseteq Files
      BY <2>1, <3>1, <3>2
    <3>4. viewed' \in [DOMAIN viewed' -> BOOLEAN]
      BY <2>1, <3>2
    <3>5. Goes(p, Idle) /\ UNCHANGED <<chat, shown, notices, disk, listed>>
      BY <2>8 DEF InsertFile, talk
    <3> QED BY <1>1, <2>1, <3>3, <3>4, <3>5, TypedStep
  <2>9. ASSUME NEW p \in Requests, ListFiles(p) PROVE TypesInv'
    <3>1. PICK r : r = [Idle EXCEPT !.at = "markFiles", !.files = Unseen]
      OBVIOUS
    <3>2. Unseen \subseteq Files
      BY <2>1 DEF Unseen
    <3>3. r \in Request /\ r.at = "markFiles"
      BY <1>1, <3>1, <3>2 DEF Request
    <3>4. PICK s \in {r, Idle} : Goes(p, s)
      BY <2>9, <3>1 DEF ListFiles
    <3>5. listed' = listed \cup DOMAIN viewed
          /\ UNCHANGED <<chat, shown, notices, viewed, disk>>
      BY <2>9 DEF ListFiles, talk
    <3> QED BY <1>1, <2>1, <3>3, <3>4, <3>5, TypedStep
  <2>10. ASSUME NEW p \in Requests, MarkFiles(p) PROVE TypesInv'
    <3>1. viewed' = [f \in DOMAIN viewed |-> viewed[f] \/ f \in req[p].files]
      BY <2>10 DEF MarkFiles, Marks
    <3>2. DOMAIN viewed' = DOMAIN viewed /\ viewed' \in [DOMAIN viewed' -> BOOLEAN]
      BY <2>1, <3>1
    <3>3. Goes(p, Idle) /\ UNCHANGED <<chat, shown, notices, disk, listed>>
      BY <2>10 DEF MarkFiles, talk
    <3> QED BY <1>1, <2>1, <3>2, <3>3, TypedStep
  <2>11. ASSUME NEW p \in Requests, Stop(p) PROVE TypesInv'
    <3>1. Goes(p, Idle) /\ UNCHANGED <<chat, shown, notices, viewed, disk, listed>>
      BY <2>11 DEF Stop, talk, drops
    <3> QED BY <1>1, <2>1, <3>1, TypedStep
  <2>12. CASE UNCHANGED vars
    BY <2>12 DEF TypesInv, TypeOK, At, vars, talk, drops
  <2> QED BY <2>2, <2>3, <2>4, <2>5, <2>6, <2>7, <2>8, <2>9, <2>10, <2>11, <2>12
          DEF Next, Continue
<1>4. TypesInv => TypeOK
  BY DEF TypesInv
<1> QED BY <1>2, <1>3, <1>4, PTL DEF Spec
=============================================================================
