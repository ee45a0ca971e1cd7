--------------------------- MODULE OAuthConnection ---------------------------
(***************************************************************************)
(* One stored OAuth connection: a firm's with HMRC (hmrc.service.ts,       *)
(* hmrc-token-scheduler.service.ts) or an agent's mailbox at Gmail or      *)
(* Outlook (email-connections.service.ts), and the mail to a client that   *)
(* goes out by that mailbox or by the system's own (mail.service.ts).      *)
(*                                                                         *)
(* Each answer of a provider's token endpoint has a number, which names    *)
(* the access token, the refresh token and the dates it carries.  A        *)
(* request runs alone between two awaits, and each action is one such      *)
(* stretch.  A save writes back every column of the row as loaded, and     *)
(* inserts the row again when it is gone.                                  *)
(***************************************************************************)
EXTENDS Naturals, FiniteSets

CONSTANTS Requests,   \* request slots: how many run at once
          Kinds,      \* the connections looked at, of "hmrc" and "mail"
          Mailboxes,  \* the providers of mail, of "gmail" and "outlook"
          MaxAnswers, \* bound on the answers of the token endpoint
          MaxMails,   \* bound on the mails to clients
          Faults      \* TRUE when calls may fail and requests stop

ASSUME OAuthAssumption == /\ Kinds \subseteq {"hmrc", "mail"}
                          /\ Mailboxes \subseteq {"gmail", "outlook"}
                          /\ {MaxAnswers, MaxMails} \subseteq Nat
                          /\ Faults \in BOOLEAN

VARIABLES row,     \* the connection's row
          given,   \* number of answers the providers have given
          live,    \* refresh tokens that would be honoured
          spent,   \* refresh tokens of HMRC's that were used
          passed,  \* answers whose refresh date has passed
          age,     \* of the access token of each answer
          mails,   \* mails asked for and delivered
          req,     \* the requests in progress
          kind,    \* what is connected; never changes
          dated    \* do HMRC's answers say when a refresh token ends?  never changes

provider == <<given, live, spent, passed, age>>
world    == <<kind, dated>>
vars     == <<row, provider, mails, req, world>>

-----------------------------------------------------------------------------
(* Types.                                                                  *)

Answers == 1..MaxAnswers

Providers == {"hmrc", "gmail", "outlook"}

Row == [provider : Providers,
        access   : Answers,       \* the answer access_token is from
        refresh  : Answers,       \* the answer refresh_token is from
        date     : 0..MaxAnswers, \* that of refresh_token_expires_at, 0 is NULL
        status   : {"connected", "expired"},
        deleted  : BOOLEAN]       \* deletedAt is set

NoRow == [provider |-> "none"]

\* "for" says what a request wants the access token for.
Request == [at     : {"idle", "load", "ask", "profile", "find", "restore", "saveGrant",
                      "saveFresh", "saveRefused", "saveCopy", "remove", "mailbox", "smtp"},
            copy   : Row \cup {NoRow},
            answer : 0..MaxAnswers,
            from   : Providers \cup {"none"},   \* whose consent was given
            mail   : BOOLEAN]                   \* it is to send a mail

Idle == [at |-> "idle", copy |-> NoRow, answer |-> 0, from |-> "none", mail |-> FALSE]

Init ==
  /\ kind \in Kinds
  /\ dated \in IF kind = "hmrc" THEN BOOLEAN ELSE {FALSE}
  /\ row = NoRow
  /\ given = 0
  /\ live = {}
  /\ spent = {}
  /\ passed = {}
  /\ age = [n \in Answers |-> "fresh"]
  /\ mails = [asked |-> 0, delivered |-> 0]
  /\ req = [p \in Requests |-> Idle]

-----------------------------------------------------------------------------
(* Requests.                                                               *)

At(p, place) == req[p].at = place

Goes(p, r) == req' = [req EXCEPT ![p] = r]

\* A mailbox is removed by a mark, HMRC's row is deleted.
Present == row # NoRow /\ ~row.deleted

\* What a request does when it has no access token: a mail goes by SMTP.
Without(r) == IF r.mail THEN [Idle EXCEPT !.at = "smtp", !.mail = TRUE] ELSE Idle

\* ... and when it has one.
With(r) == IF r.mail THEN [Idle EXCEPT !.at = "mailbox", !.mail = TRUE] ELSE Idle

-----------------------------------------------------------------------------
(* Connecting.                                                             *)

Choices == IF kind = "hmrc" THEN {"hmrc"} ELSE Mailboxes

\* Bound: MaxAnswers.
Answer == given < MaxAnswers /\ given' = given + 1

\* exchangeCode turns the code of a consent just given into tokens.
Connect(p, from) ==
  /\ At(p, "idle")
  /\ Answer
  /\ live' = live \cup {given + 1}
  /\ Goes(p, [Idle EXCEPT !.at = IF kind = "hmrc" THEN "find" ELSE "profile",
                          !.from = from, !.answer = given + 1])
  /\ UNCHANGED <<row, spent, passed, age, mails, world>>

\* fetchMailboxEmail
FetchProfile(p) ==
  /\ At(p, "profile")
  /\ Goes(p, [req[p] EXCEPT !.at = "find"])
  /\ UNCHANGED <<row, provider, mails, world>>

\* The row is found even when it is marked deleted.
FindRow(p) ==
  /\ At(p, "find")
  /\ Goes(p, [req[p] EXCEPT !.at = IF row # NoRow /\ row.deleted THEN "restore"
                                                                 ELSE "saveGrant",
                            !.copy = row])
  /\ UNCHANGED <<row, provider, mails, world>>

RestoreRow(p) ==
  /\ At(p, "restore")
  /\ row' = [row EXCEPT !.deleted = FALSE]
  /\ Goes(p, [req[p] EXCEPT !.at = "saveGrant"])
  /\ UNCHANGED <<provider, mails, world>>

\* Does an answer of this provider's say when its refresh token ends?  The code
\* takes Outlook's ext_expires_in for that.
Dates(from) == from = "outlook" \/ (from = "hmrc" /\ dated)

\* Mutant: the refresh token of the answer is dropped.
AppliedOldRefresh(r, from) ==
  [r.copy EXCEPT !.access = r.answer, !.status = "connected",
                 !.date = IF Dates(from) THEN r.answer ELSE @]

\* applyTokenResponse, when the row was there.  Gmail's answer to a refresh
\* carries no refresh token.
Applied(r, from) ==
  [r.copy EXCEPT !.access = r.answer, !.status = "connected",
                 !.refresh = IF from = "gmail" /\ r.from = "none" THEN @ ELSE r.answer,
                 !.date = IF Dates(from) THEN r.answer ELSE @]

\* ... and when it was not.
Granted(r) == [provider |-> r.from, access |-> r.answer, refresh |-> r.answer,
               date |-> IF Dates(r.from) THEN r.answer ELSE 0,
               status |-> "connected", deleted |-> FALSE]

\* The second of two first connections fails: the tenant, or user, has one row.
SaveGrant(p) ==
  LET r == req[p]
  IN /\ At(p, "saveGrant")
     /\ row' = IF r.copy # NoRow
                 THEN [Applied(r, r.from) EXCEPT !.provider = r.from, !.deleted = FALSE]
                 ELSE IF row = NoRow THEN Granted(r) ELSE row
     /\ Goes(p, Idle)
     /\ UNCHANGED <<provider, mails, world>>

-----------------------------------------------------------------------------
(* Refreshing.                                                             *)

\* The button in the settings.
RefreshAsked(p) ==
  /\ At(p, "idle")
  /\ Present
  /\ Goes(p, [Idle EXCEPT !.at = "load"])
  /\ UNCHANGED <<row, provider, mails, world>>

\* Less than a minute left, or the last refresh was refused.
NeedsRefresh == age[row.access] = "stale" \/ row.status # "connected"

\* getValidAccessToken, before a call to HMRC.
TokenNeeded(p) ==
  /\ kind = "hmrc"
  /\ Present
  /\ NeedsRefresh
  /\ RefreshAsked(p)

\* Mutant: connections with time left are skipped, the rest refreshed.
DueWhenStale(r) == r.status = "connected" /\ age[r.access] = "stale"
                     /\ ~(r.date \in passed)

\* Less than an hour left, and the refresh token not past its date.
Due(r) == r.status = "connected" /\ age[r.access] \in {"soon", "stale"}
            /\ ~(r.date \in passed)

\* refreshExpiringTokens, every half hour.
Schedule(p) ==
  /\ kind = "hmrc"
  /\ Present
  /\ Due(row)
  /\ RefreshAsked(p)

\* refreshHmrcTokens, refreshTokens: the row is loaded, again.
LoadRow(p) ==
  /\ At(p, "load")
  /\ Goes(p, IF Present THEN [req[p] EXCEPT !.at = "ask", !.copy = row]
                        ELSE Without(req[p]))
  /\ UNCHANGED <<row, provider, mails, world>>

\* The provider honours the refresh token: HMRC's is used up by that, Outlook's
\* is not, Gmail gives no new one.
Honoured(p) ==
  LET r == req[p]
  IN /\ At(p, "ask")
     /\ r.copy.refresh \in live
     /\ Answer
     /\ live' = CASE kind = "hmrc" -> (live \ {r.copy.refresh}) \cup {given + 1}
                  [] r.copy.provider = "outlook" -> live \cup {given + 1}
                  [] OTHER -> live
     /\ spent' = spent \cup (IF kind = "hmrc" THEN {r.copy.refresh} ELSE {})
     /\ req' \in {[req EXCEPT ![p].at = "saveFresh", ![p].answer = given + 1]}
                 \cup (IF Faults THEN {[req EXCEPT ![p] = Without(r)]} ELSE {})
     /\ UNCHANGED <<row, passed, age, mails, world>>

\* Status 400 or 401 to a refresh.
Refused(copy) == [copy EXCEPT !.status = "expired"]

TokenRefused(p) ==
  /\ At(p, "ask")
  /\ req[p].copy.refresh \notin live
  /\ Goes(p, [req[p] EXCEPT !.at = "saveRefused", !.copy = Refused(@)])
  /\ UNCHANGED <<row, provider, mails, world>>

\* Mutant: a failure of the token endpoint is taken for a refusal.
UnansweredRefuses(r) == [r EXCEPT !.at = "saveRefused", !.copy = Refused(@)]

\* Any other failure leaves the row alone.
Unanswered(r) == Without(r)

NotAnswered(p) ==
  /\ Faults
  /\ At(p, "ask")
  /\ Goes(p, Unanswered(req[p]))
  /\ UNCHANGED <<row, provider, mails, world>>

SaveFresh(p) ==
  LET r == req[p]
  IN /\ At(p, "saveFresh")
     /\ row' = Applied(r, r.copy.provider)
     /\ Goes(p, With(r))
     /\ UNCHANGED <<provider, mails, world>>

SaveRefused(p) ==
  /\ At(p, "saveRefused")
  /\ row' = req[p].copy
  /\ Goes(p, Without(req[p]))
  /\ UNCHANGED <<provider, mails, world>>

-----------------------------------------------------------------------------
(* The other calls of the settings.                                        *)

\* getStatus marks a connection that neither token can carry.
GetStatus(p) ==
  /\ At(p, "idle")
  /\ Present
  /\ row.status = "connected"
  /\ age[row.access] = "stale"
  /\ row.date \in passed
  /\ Goes(p, [Idle EXCEPT !.at = "saveCopy", !.copy = Refused(row)])
  /\ UNCHANGED <<row, provider, mails, world>>

\* The agent reference number is set; the rest of the row goes back as loaded.
UpdateArn(p) ==
  /\ At(p, "idle")
  /\ kind = "hmrc"
  /\ Present
  /\ Goes(p, [Idle EXCEPT !.at = "saveCopy", !.copy = row])
  /\ UNCHANGED <<row, provider, mails, world>>

SaveCopy(p) ==
  /\ At(p, "saveCopy")
  /\ row' = req[p].copy
  /\ Goes(p, Idle)
  /\ UNCHANGED <<provider, mails, world>>

Disconnect(p) ==
  /\ At(p, "idle")
  /\ Present
  /\ Goes(p, [Idle EXCEPT !.at = "remove"])
  /\ UNCHANGED <<row, provider, mails, world>>

RemoveRow(p) ==
  /\ At(p, "remove")
  /\ row' = IF kind = "hmrc" \/ row = NoRow THEN NoRow ELSE [row EXCEPT !.deleted = TRUE]
  /\ Goes(p, Idle)
  /\ UNCHANGED <<provider, mails, world>>

-----------------------------------------------------------------------------
(* Mails to clients.                                                       *)

\* sendClientFacing, on behalf of the agent: sendAsAgent finds the mailbox.
\* Bound: MaxMails.
SendMail(p) ==
  /\ At(p, "idle")
  /\ kind = "mail"
  /\ mails.asked < MaxMails
  /\ mails' = [mails EXCEPT !.asked = @ + 1]
  /\ Goes(p, LET r == [Idle EXCEPT !.mail = TRUE]
             IN IF ~Present THEN Without(r)
                ELSE IF NeedsRefresh THEN [r EXCEPT !.at = "load"]
                ELSE With(r))
  /\ UNCHANGED <<row, provider, world>>

Delivers == mails' = [mails EXCEPT !.delivered = @ + 1]

\* Mutant: a mail that went out by the mailbox goes out by SMTP too.
SentByBoth(r) == [r EXCEPT !.at = "smtp"]

Sent(r) == Idle

SendByMailbox(p) ==
  /\ At(p, "mailbox")
  /\ Delivers
  /\ Goes(p, Sent(req[p]))
  /\ UNCHANGED <<row, provider, world>>

\* The mailbox's answer is an error, or is lost when the mail has gone out.
MailboxFails(p) ==
  /\ Faults
  /\ At(p, "mailbox")
  /\ Delivers \/ mails' = mails
  /\ Goes(p, Without(req[p]))
  /\ UNCHANGED <<row, provider, world>>

SendBySmtp(p) ==
  /\ At(p, "smtp")
  /\ Delivers
  /\ Goes(p, Idle)
  /\ UNCHANGED <<row, provider, world>>

-----------------------------------------------------------------------------
(* What the code does not decide.                                          *)

\* The process stops, or the database, SMTP or the profile call fails.
Stop(p) ==
  /\ Faults
  /\ ~At(p, "idle")
  /\ Goes(p, Idle)
  /\ UNCHANGED <<row, provider, mails, world>>

\* Answers that the row or a request holds; what becomes of the others is not seen.
Held == {n \in Answers :
           \/ row # NoRow /\ n \in {row.access, row.refresh, row.date}
           \/ \E p \in Requests :
                \/ req[p].answer = n
                \/ req[p].copy # NoRow
                   /\ n \in {req[p].copy.access, req[p].copy.refresh, req[p].copy.date}}

\* An access token has an hour left, then a minute.
Ages(n) ==
  /\ \/ age[n] = "fresh" /\ age' = [age EXCEPT ![n] = "soon"]
     \/ age[n] = "soon"  /\ age' = [age EXCEPT ![n] = "stale"]
  /\ UNCHANGED <<row, given, live, spent, passed, mails, req, world>>

\* The refresh date of an answer passes.  At HMRC its token ends with it; what
\* Outlook's answer gives is no such date.
DatePasses(n) ==
  /\ kind = "mail" \/ dated
  /\ passed' = passed \cup {n}
  /\ live' = IF kind = "hmrc" THEN live \ {n} ELSE live
  /\ UNCHANGED <<row, given, spent, age, mails, req, world>>

\* The consent is withdrawn at the provider.
Withdraw(n) ==
  /\ live' = live \ {n}
  /\ UNCHANGED <<row, given, spent, passed, age, mails, req, world>>

-----------------------------------------------------------------------------
(* The system.                                                             *)

Begin(p) ==
  \/ \E from \in Choices : Connect(p, from)
  \/ RefreshAsked(p)
  \/ TokenNeeded(p)
  \/ Schedule(p)
  \/ GetStatus(p)
  \/ UpdateArn(p)
  \/ Disconnect(p)
  \/ SendMail(p)

Continue(p) ==
  \/ FetchProfile(p)
  \/ FindRow(p)
  \/ RestoreRow(p)
  \/ SaveGrant(p)
  \/ LoadRow(p)
  \/ Honoured(p)
  \/ TokenRefused(p)
  \/ SaveFresh(p)
  \/ SaveRefused(p)
  \/ SaveCopy(p)
  \/ RemoveRow(p)
  \/ SendByMailbox(p)
  \/ SendBySmtp(p)

Next ==
  \/ \E p \in Requests : \/ Begin(p)
                         \/ Continue(p)
                         \/ NotAnswered(p)
                         \/ MailboxFails(p)
                         \/ Stop(p)
  \/ \E n \in Held : Ages(n) \/ DatePasses(n) \/ Withdraw(n)

Spec == Init /\ [][Next]_vars

\* A request in progress goes on, and the scheduler's turn comes however often
\* other requests run.
FairSpec ==
  /\ Spec
  /\ \A p \in Requests : WF_vars(Continue(p)) /\ SF_vars(Schedule(p))

-----------------------------------------------------------------------------
(* Properties.                                                             *)

\* Every variable holds a value of its type.
TypeOK ==
  /\ row \in Row \cup {NoRow}
  /\ given \in 0..MaxAnswers
  /\ live \subseteq Answers
  /\ spent \subseteq Answers
  /\ passed \subseteq Answers
  /\ age \in [Answers -> {"fresh", "soon", "stale"}]
  /\ mails \in [asked : 0..MaxMails, delivered : Nat]
  /\ req \in [Requests -> Request]
  /\ kind \in Kinds
  /\ dated \in BOOLEAN

\* A connection marked expired is one whose refresh token would be refused,
\* whatever requests overlap, fail or stop (refreshHmrcTokens "connection is
\* unusable, mark expired"; getStatus "only when both tokens are unusable").  It
\* is said of HMRC, and of a mailbox that holds no date of Outlook's.
ExpiredIsDead ==
  row # NoRow /\ row.status = "expired" /\ (kind = "hmrc" \/ row.date = 0)
    => row.refresh \notin live

\* HMRC uses a refresh token up: the row at rest never holds one that was used,
\* as long as requests run one at a time, no answer is lost and none stops.
NewestKept ==
  row # NoRow /\ (\A p \in Requests : At(p, "idle")) => row.refresh \notin spent

\* A mail to a client is delivered once, by the agent's mailbox or in its place
\* by the system's, whatever becomes of the connection (sendClientFacing), as
\* long as no call fails.
MailedOnce ==
  mails.asked = mails.delivered + Cardinality({p \in Requests : req[p].mail})

\* An access token of HMRC's does not stay due: the half-hourly job has it
\* refreshed, unless the connection is cut, refused or past its date, or
\* MaxAnswers is reached ("keeps Settings showing Active").
DueIsRefreshed ==
  \A n \in Answers :
    LET Waits == /\ kind = "hmrc"
                 /\ Present
                 /\ row.access = n
                 /\ row.status = "connected"
                 /\ age[n] # "fresh"
                 /\ row.date \notin passed
    IN Waits ~> ~Waits \/ given = MaxAnswers
=============================================================================
