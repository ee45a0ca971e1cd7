----------------------------- MODULE PortalChat -----------------------------
(***************************************************************************)
(* What a client and its accountant put before each other in the portal:   *)
(* the chat, with its marks of what was read, and the files the client     *)
(* drops, with their marks of what was viewed (portal.service.ts,          *)
(* portal.controller.ts, and the agent's calls in clients.controller.ts).  *)
(*                                                                         *)
(* The rows are those of one client; every query names the client.  A      *)
(* request runs alone between two awaits, and each action is one such      *)
(* stretch.                                                                *)
(***************************************************************************)
EXTENDS Naturals, Sequences

CONSTANTS Requests,     \* request slots: how many run at once
          PageSize,     \* how many messages a list returns at most
          MaxMessages,  \* bound on the messages sent
          MaxFiles,     \* bound on the files dropped
          Faults        \* TRUE when a request may stop at any await

VARIABLES chat,    \* the messages, oldest first
          viewed,  \* the portal_files rows: were they viewed by the agent?
          disk,    \* the files written to disk
          shown,   \* messages that a page of the agent's held
          listed,  \* files that a list of the agent's held
          notices, \* messages the firm was told of in the application
          req      \* the requests in progress

talk  == <<chat, shown, notices>>
drops == <<viewed, disk, listed>>
vars  == <<talk, drops, req>>

-----------------------------------------------------------------------------
(* Types.                                                                  *)

Files == 1..MaxFiles

Message == [sender : {"agent", "client"},
            read   : BOOLEAN]   \* read_at is set

\* A request remembers the files it works on, and the message it sent.
Request == [at      : {"idle", "notify", "markMessages", "markFiles", "insertFile"},
            files   : SUBSET Files,
            message : 0..MaxMessages]

Idle == [at |-> "idle", files |-> {}, message |-> 0]

Init ==
  /\ chat = <<>>
  /\ viewed = [f \in {} |-> FALSE]
  /\ disk = {}
  /\ shown = {}
  /\ listed = {}
  /\ notices = {}
  /\ req = [p \in Requests |-> Idle]

At(p, place) == req[p].at = place

Goes(p, r) == req' = [req EXCEPT ![p] = r]

-----------------------------------------------------------------------------
(* The chat.                                                               *)

\* Bound: MaxMessages.
Appends(sender) ==
  /\ Len(chat) < MaxMessages
  /\ chat' = Append(chat, [sender |-> sender, read |-> FALSE])

\* sendMessage; the mail that tells the client of it may fail.
AgentSends ==
  /\ Appends("agent")
  /\ UNCHANGED <<shown, notices, drops, req>>

\* replyFromClient, refused in the agent's preview, saves the message ...
ClientReplies(p) ==
  /\ At(p, "idle")
  /\ Appends("client")
  /\ Goes(p, [Idle EXCEPT !.at = "notify", !.message = Len(chat) + 1])
  /\ UNCHANGED <<shown, notices, drops>>

\* ... and tells the firm of it; a failure is logged.
Notify(p) ==
  /\ At(p, "notify")
  /\ notices' \in {notices \cup {req[p].message}} \cup (IF Faults THEN {notices} ELSE {})
  /\ Goes(p, Idle)
  /\ UNCHANGED <<chat, shown, drops>>

\* getMessages and getMessagesForAgent return the oldest messages.
Page == {n \in DOMAIN chat : n <= PageSize}

\* markMessageRead, in the client's session or in the agent's preview of it:
\* only the accountant's messages are marked.
ClientMarks(n) ==
  /\ n \in Page
  /\ chat[n].sender = "agent"
  /\ ~chat[n].read
  /\ chat' = [chat EXCEPT ![n].read = TRUE]
  /\ UNCHANGED <<shown, notices, drops, req>>

\* listPortalMessages reads the page ...
OpenChat(p) ==
  /\ At(p, "idle")
  /\ shown' = shown \cup Page
  /\ Goes(p, [Idle EXCEPT !.at = "markMessages"])
  /\ UNCHANGED <<chat, notices, drops>>

\* A message after markClientMessagesRead.
Marked(m) == [m EXCEPT !.read = @ \/ m.sender = "client"]

\* ... and marks every message of the client's, listed or not.
MarkMessages(p) ==
  /\ At(p, "markMessages")
  /\ chat' = [n \in DOMAIN chat |-> Marked(chat[n])]
  /\ Goes(p, Idle)
  /\ UNCHANGED <<shown, notices, drops>>

-----------------------------------------------------------------------------
(* The file drop.                                                          *)

\* uploadFile writes the file to disk in the stretch that found the client.
\* Bound: MaxFiles.
WriteFile(p, f) ==
  /\ At(p, "idle")
  /\ f \notin disk
  /\ disk' = disk \cup {f}
  /\ Goes(p, [Idle EXCEPT !.at = "insertFile", !.files = {f}])
  /\ UNCHANGED <<viewed, listed, talk>>

InsertFile(p) ==
  /\ At(p, "insertFile")
  /\ viewed' = [f \in DOMAIN viewed \cup req[p].files |->
                  f \in DOMAIN viewed /\ viewed[f]]
  /\ Goes(p, Idle)
  /\ UNCHANGED <<disk, listed, talk>>

Unseen == {f \in DOMAIN viewed : ~viewed[f]}

\* getFilesForAgent lists every file ...
ListFiles(p) ==
  /\ At(p, "idle")
  /\ listed' = listed \cup DOMAIN viewed
  /\ Goes(p, IF Unseen = {} THEN Idle
                            ELSE [Idle EXCEPT !.at = "markFiles", !.files = Unseen])
  /\ UNCHANGED <<viewed, disk, talk>>

\* Mutant: every file is marked, as every message is.
MarksAll(files, f) == TRUE

\* The files an update marks: those that were new when listed, by their ids.
Marks(files, f) == f \in files

\* ... and marks those that were new.
MarkFiles(p) ==
  /\ At(p, "markFiles")
  /\ viewed' = [f \in DOMAIN viewed |-> viewed[f] \/ Marks(req[p].files, f)]
  /\ Goes(p, Idle)
  /\ UNCHANGED <<disk, listed, talk>>

-----------------------------------------------------------------------------
(* The system.                                                             *)

\* The process stops, or the database fails the request.
Stop(p) ==
  /\ Faults
  /\ ~At(p, "idle")
  /\ Goes(p, Idle)
  /\ UNCHANGED <<talk, drops>>

Continue(p) == Notify(p) \/ MarkMessages(p) \/ InsertFile(p) \/ MarkFiles(p)

Next ==
  \/ AgentSends
  \/ \E n \in DOMAIN chat : ClientMarks(n)
  \/ \E p \in Requests : \/ ClientReplies(p)
                         \/ OpenChat(p)
                         \/ ListFiles(p)
                         \/ \E f \in Files : WriteFile(p, f)
                         \/ Continue(p)
                         \/ Stop(p)

Spec == Init /\ [][Next]_vars

-----------------------------------------------------------------------------
(* Properties.                                                             *)

\* Every variable holds a value of its type.
TypeOK ==
  /\ chat \in Seq(Message)
  /\ Len(chat) <= MaxMessages
  /\ shown \subseteq DOMAIN chat
  /\ notices \subseteq DOMAIN chat
  /\ DOMAIN viewed \subseteq Files
  /\ viewed \in [DOMAIN viewed -> BOOLEAN]
  /\ disk \subseteq Files
  /\ listed \subseteq Files
  /\ req \in [Requests -> Request]

\* A file is marked viewed only when a list of the agent's held it, however the
\* uploads and the lists overlap (getFilesForAgent), and a row names a file that
\* was written (uploadFile writes it first).
ViewedWasListed ==
  \A f \in DOMAIN viewed : f \in disk /\ (viewed[f] => f \in listed)
=============================================================================
