----------------------- MODULE OAuthConnection_proofs -----------------------
(***************************************************************************)
(* Proofs about OAuthConnection, for every number of requests and answers, *)
(* for HMRC and for mailboxes, with or without faults.                     *)
(*                                                                         *)
(* ExpiredIsDead is not inductive: a request may hold a copy of the row    *)
(* marked expired and save it later.  So the invariant says of every copy  *)
(* what it says of the row; and a refresh token that was refused, or whose *)
(* date has passed, stays dead, as a new one has a new number (Grows).     *)
(*                                                                         *)
(* Then, without failures: every mail asked for was delivered or is in the *)
(* hands of one request (MailedOnce, for any finite number of requests);   *)
(* and a refresh token that HMRC has used up is stored only while the one  *)
(* request at work is about to save its successor (NewestKept).            *)
(***************************************************************************)
EXTENDS OAuthConnection, FiniteSetTheorems, TLAPS

USE OAuthAssumption

-----------------------------------------------------------------------------
(* The inductive invariant.                                                *)

\* A row marked expired holds a refresh token that would be refused.
Dead(c) ==
  c.status = "expired" /\ (kind = "hmrc" \/ c.date = 0) => c.refresh \notin live

\* What a row, stored or held, says is so.
GoodRow(c) ==
  /\ c \in Row
  /\ c.access <= given
  /\ c.refresh <= given
  /\ c.date <= given
  /\ kind = "hmrc" => /\ c.provider = "hmrc"
                      /\ ~c.deleted
                      /\ c.date = IF dated THEN c.refresh ELSE 0
  /\ Dead(c)

\* The places where a request holds the answer to a consent, and a copy of the row.
Granting == {"profile", "find", "restore", "saveGrant"}
Copying  == {"ask", "saveFresh", "saveRefused", "saveCopy"}

\* What a request in progress holds.
GoodRequest(r) ==
  /\ r \in Request
  /\ r.answer <= given
  /\ r.copy = NoRow \/ GoodRow(r.copy)
  /\ r.at \in Copying => r.copy # NoRow
  /\ r.at \in Granting => /\ r.answer # 0
                          /\ r.from \in Providers
                          /\ kind = "hmrc" => r.from = "hmrc"
  /\ r.at = "saveFresh" => r.answer # 0
  /\ r.at = "restore" => kind = "mail" /\ row # NoRow

\* A refresh token of HMRC's whose date has passed is not honoured.
GoodPassed ==
  /\ passed \subseteq Answers
  /\ \A n \in passed : n <= given /\ (kind = "hmrc" => n \notin live)

\* The variables whose type is preserved by itself.
OthersType ==
  /\ given \in 0..MaxAnswers
  /\ live \subseteq Answers
  /\ spent \subseteq Answers
  /\ age \in [Answers -> {"fresh", "soon", "stale"}]
  /\ mails \in [asked : 0..MaxMails, delivered : Nat]
  /\ kind \in Kinds
  /\ dated \in BOOLEAN

GoodStored == row = NoRow \/ GoodRow(row)

\* The inductive invariant.
IInv ==
  /\ GoodStored
  /\ GoodPassed
  /\ OthersType
  /\ req \in [Requests -> Request]
  /\ \A p \in Requests : GoodRequest(req[p])

\* Answers keep their numbers, a token that is dead stays so, and a mailbox's row
\* stays.
Grows ==
  /\ given <= given'
  /\ \A n \in 1..given : n \in live' => n \in live
  /\ kind' = kind
  /\ dated' = dated
  /\ kind = "mail" /\ row # NoRow => row' # NoRow

-----------------------------------------------------------------------------
(* Lemmas.                                                                 *)

\* No row is not a row.
LEMMA NoRowIsNone == NoRow \notin Row
BY DEF NoRow, Row

\* What a row says stays so while answers are given and tokens die.
LEMMA GoodRowGrows ==
  ASSUME Grows, OthersType, OthersType', NEW c, GoodRow(c)
  PROVE  GoodRow(c)'
<1>1. /\ c.access \in 1..MaxAnswers
      /\ c.refresh \in 1..MaxAnswers
      /\ c.date \in 0..MaxAnswers
  BY DEF GoodRow, Row, Answers
<1>2. c.access <= given' /\ c.refresh <= given' /\ c.date <= given'
  BY <1>1 DEF Grows, GoodRow, OthersType
<1>3. c.refresh \in 1..given
  BY <1>1 DEF GoodRow, OthersType
<1>4. Dead(c)'
  BY <1>3 DEF Grows, GoodRow, Dead
<1> QED BY <1>2, <1>4 DEF GoodRow, Grows

\* ... and so does what a request holds.
LEMMA GoodRequestGrows ==
  ASSUME Grows, OthersType, OthersType', NEW r, GoodRequest(r)
  PROVE  GoodRequest(r)'
<1>1. r.copy = NoRow \/ GoodRow(r.copy)'
  BY GoodRowGrows DEF GoodRequest
<1>2. r.answer <= given'
  BY DEF GoodRequest, Request, Grows, OthersType
<1> QED BY <1>1, <1>2 DEF GoodRequest, Grows

\* A step of one request keeps the invariant when what it leaves is good.
LEMMA RequestStep ==
  ASSUME IInv, Grows, OthersType', GoodPassed', GoodStored',
         NEW p \in Requests, NEW r, req' = [req EXCEPT ![p] = r], GoodRequest(r)'
  PROVE  IInv'
<1>1. req' \in [Requests -> Request]
  BY DEF IInv, GoodRequest
<1>2. ASSUME NEW q \in Requests PROVE GoodRequest(req[q])'
  <2>1. CASE q = p
    BY <2>1 DEF IInv
  <2>2. CASE q # p
    BY <2>2, GoodRequestGrows DEF IInv
  <2> QED BY <2>1, <2>2
<1> QED BY <1>1, <1>2 DEF IInv

\* The same for a step that leaves the row and the provider alone.
LEMMA QuietStep ==
  ASSUME IInv, UNCHANGED <<row, given, live, passed, age, spent, world>>,
         mails' \in [asked : 0..MaxMails, delivered : Nat],
         NEW p \in Requests, NEW r, req' = [req EXCEPT ![p] = r], GoodRequest(r)
  PROVE  IInv'
<1>1. Grows
  BY DEF Grows, IInv, OthersType, world
<1>2. OthersType' /\ GoodPassed'
  BY DEF IInv, OthersType, GoodPassed, world
<1>3. GoodStored'
  BY <1>1, <1>2, GoodRowGrows DEF IInv, GoodStored
<1>4. GoodRequest(r)'
  BY <1>1, <1>2, GoodRequestGrows DEF IInv
<1> QED BY <1>1, <1>2, <1>3, <1>4, RequestStep

\* A request that is over holds nothing.
LEMMA IdleGood == ASSUME IInv PROVE GoodRequest(Idle)
BY DEF IInv, OthersType, GoodRequest, Idle, Request, Granting, Copying, Providers

\* What a request does with or without an access token is only to send its mail.
LEMMA WithGood ==
  ASSUME IInv, NEW r
  PROVE  GoodRequest(With(r)) /\ GoodRequest(Without(r))
<1>1. GoodRequest(Idle)
  BY IdleGood
<1>2. ASSUME NEW place \in {"smtp", "mailbox"}
      PROVE  GoodRequest([Idle EXCEPT !.at = place, !.mail = TRUE])
  <2> DEFINE r1 == [Idle EXCEPT !.at = place, !.mail = TRUE]
  <2>1. Idle \in Request /\ Idle.copy = NoRow /\ Idle.answer = 0
    BY <1>1 DEF GoodRequest, Idle
  <2>2. r1 \in Request /\ r1.at = place /\ r1.copy = NoRow /\ r1.answer = 0
    BY <1>2, <2>1 DEF Request
  <2> QED BY <1>2, <2>2 DEF IInv, OthersType, GoodRequest, Granting, Copying
<1> QED BY <1>1, <1>2 DEF With, Without

\* The same for a step that saves a row, removes it, or finds none.
LEMMA SaveStep ==
  ASSUME IInv, UNCHANGED <<provider, mails, world>>, NEW c, row' = c,
         GoodRow(c) \/ (c = NoRow /\ (kind = "hmrc" \/ row = NoRow)),
         NEW p \in Requests, NEW r, req' = [req EXCEPT ![p] = r], GoodRequest(r)
  PROVE  IInv'
<1>1. Grows
  BY NoRowIsNone DEF Grows, IInv, OthersType, world, provider, GoodRow
<1>2. OthersType' /\ GoodPassed'
  BY DEF IInv, OthersType, GoodPassed, world, provider
<1>3. GoodStored'
  BY <1>1, <1>2, GoodRowGrows DEF IInv, GoodStored
<1>4. GoodRequest(r)'
  BY <1>1, <1>2, GoodRequestGrows DEF IInv
<1> QED BY <1>1, <1>2, <1>3, <1>4, RequestStep

\* What a request finds when it loads a row that is there.
LEMMA PresentGood ==
  ASSUME IInv, Present
  PROVE  row # NoRow /\ GoodRow(row)
BY DEF IInv, GoodStored, Present

\* A row that was refused is good when its refresh token is dead, or its date is
\* one of a mailbox's.
LEMMA RefusedGood ==
  ASSUME IInv, NEW c, GoodRow(c), c.refresh \notin live \/ (kind = "mail" /\ c.date # 0)
  PROVE  GoodRow(Refused(c))
<1>1. /\ Refused(c) \in Row
      /\ Refused(c).access = c.access
      /\ Refused(c).refresh = c.refresh
      /\ Refused(c).date = c.date
      /\ Refused(c).provider = c.provider
      /\ Refused(c).deleted = c.deleted
  BY DEF GoodRow, Row, Refused
<1> QED BY <1>1 DEF GoodRow, Dead

-----------------------------------------------------------------------------
(* The requests that only load.                                            *)

\* A request that begins with a place and nothing else.
LEMMA BegunGood ==
  ASSUME IInv, NEW place \in {"load", "remove"}
  PROVE  GoodRequest([Idle EXCEPT !.at = place])
<1>1. Idle \in Request /\ Idle.copy = NoRow /\ Idle.answer = 0
  BY IdleGood DEF GoodRequest, Idle
<1>2. [Idle EXCEPT !.at = place] \in Request
  BY <1>1 DEF Request
<1> QED BY <1>1, <1>2 DEF IInv, OthersType, GoodRequest, Granting, Copying, Request

\* RefreshAsked preserves the invariant.
LEMMA RefreshAskedStep ==
  ASSUME IInv, NEW p \in Requests, RefreshAsked(p)
  PROVE  IInv'
BY BegunGood, QuietStep DEF RefreshAsked, Goes, provider, IInv, OthersType

\* Disconnect preserves the invariant.
LEMMA DisconnectStep ==
  ASSUME IInv, NEW p \in Requests, Disconnect(p)
  PROVE  IInv'
BY BegunGood, QuietStep DEF Disconnect, Goes, provider, IInv, OthersType

\* FetchProfile preserves the invariant.
LEMMA FetchProfileStep ==
  ASSUME IInv, NEW p \in Requests, FetchProfile(p)
  PROVE  IInv'
<1> DEFINE r == [req[p] EXCEPT !.at = "find"]
<1>1. GoodRequest(req[p]) /\ req[p].at = "profile"
  BY DEF IInv, FetchProfile, At
<1>2. GoodRequest(r)
  BY <1>1 DEF GoodRequest, Request, Granting, Copying
<1> QED BY <1>2, QuietStep DEF FetchProfile, Goes, provider, IInv, OthersType

\* FindRow preserves the invariant.
LEMMA FindRowStep ==
  ASSUME IInv, NEW p \in Requests, FindRow(p)
  PROVE  IInv'
<1> DEFINE place == IF row # NoRow /\ row.deleted THEN "restore" ELSE "saveGrant"
           r == [req[p] EXCEPT !.at = place, !.copy = row]
<1>1. GoodRequest(req[p]) /\ req[p].at = "find"
  BY DEF IInv, FindRow, At
<1>2. row = NoRow \/ (row \in Row /\ GoodRow(row))
  BY DEF IInv, GoodStored, GoodRow
<1>3. place = "restore" => kind = "mail" /\ row # NoRow
  BY <1>2 DEF GoodRow, IInv, OthersType
<1>4. r \in Request /\ r.at = place /\ r.copy = row
      /\ r.answer = req[p].answer /\ r.from = req[p].from
  BY <1>1, <1>2 DEF GoodRequest, Request
<1>5. GoodRequest(r)
  BY <1>1, <1>2, <1>3, <1>4 DEF GoodRequest, Granting, Copying
<1> QED BY <1>5, QuietStep DEF FindRow, Goes, provider, IInv, OthersType

\* LoadRow preserves the invariant.
LEMMA LoadRowStep ==
  ASSUME IInv, NEW p \in Requests, LoadRow(p)
  PROVE  IInv'
<1> DEFINE r == [req[p] EXCEPT !.at = "ask", !.copy = row]
<1>1. GoodRequest(req[p])
  BY DEF IInv
<1>2. CASE Present
  <2>1. row # NoRow /\ row \in Row /\ GoodRow(row)
    BY <1>2, PresentGood DEF GoodRow
  <2>2. r \in Request /\ r.at = "ask" /\ r.copy = row /\ r.answer = req[p].answer
    BY <1>1, <2>1 DEF GoodRequest, Request
  <2>3. GoodRequest(r)
    BY <1>1, <2>1, <2>2 DEF GoodRequest, Granting, Copying
  <2> QED BY <1>2, <2>3, QuietStep DEF LoadRow, Goes, provider, IInv, OthersType
<1>3. CASE ~Present
  BY <1>3, WithGood, QuietStep DEF LoadRow, Goes, provider, IInv, OthersType
<1> QED BY <1>2, <1>3

\* NotAnswered preserves the invariant.
LEMMA NotAnsweredStep ==
  ASSUME IInv, NEW p \in Requests, NotAnswered(p)
  PROVE  IInv'
BY WithGood, QuietStep DEF NotAnswered, Unanswered, Goes, provider, IInv, OthersType

\* TokenRefused preserves the invariant.
LEMMA TokenRefusedStep ==
  ASSUME IInv, NEW p \in Requests, TokenRefused(p)
  PROVE  IInv'
<1> DEFINE r == [req[p] EXCEPT !.at = "saveRefused", !.copy = Refused(@)]
<1>1. /\ GoodRequest(req[p])
      /\ req[p].copy # NoRow
      /\ GoodRow(req[p].copy)
      /\ req[p].copy.refresh \notin live
  BY DEF IInv, TokenRefused, At, GoodRequest, Copying
<1>2. GoodRow(Refused(req[p].copy)) /\ Refused(req[p].copy) \in Row
  BY <1>1, RefusedGood DEF GoodRow
<1>3. /\ r \in Request
      /\ r.at = "saveRefused"
      /\ r.copy = Refused(req[p].copy)
      /\ r.answer = req[p].answer
  BY <1>1, <1>2 DEF GoodRequest, Request
<1>4. GoodRequest(r)
  BY <1>1, <1>2, <1>3, NoRowIsNone DEF GoodRequest, Granting, Copying
<1> QED BY <1>4, QuietStep DEF TokenRefused, Goes, provider, IInv, OthersType

\* A request that holds a copy of the row, to be saved.
LEMMA CopyGood ==
  ASSUME IInv, NEW c, GoodRow(c)
  PROVE  GoodRequest([Idle EXCEPT !.at = "saveCopy", !.copy = c])
<1> DEFINE r == [Idle EXCEPT !.at = "saveCopy", !.copy = c]
<1>1. Idle \in Request /\ Idle.copy = NoRow /\ Idle.answer = 0
  BY IdleGood DEF GoodRequest, Idle
<1>2. r \in Request /\ r.at = "saveCopy" /\ r.copy = c /\ r.answer = 0
  BY <1>1 DEF Request, GoodRow
<1> QED BY <1>2, NoRowIsNone DEF IInv, OthersType, GoodRequest, GoodRow, Granting, Copying

\* getStatus: HMRC's date is that of the refresh token, which is dead when it has
\* passed.
LEMMA GetStatusStep ==
  ASSUME IInv, NEW p \in Requests, GetStatus(p)
  PROVE  IInv'
<1>1. GoodRow(row) /\ row.date \in passed
  BY PresentGood DEF GetStatus
<1>2. row.date # 0
  BY <1>1 DEF IInv, GoodPassed, Answers
<1>3. row.refresh \notin live \/ (kind = "mail" /\ row.date # 0)
  BY <1>1, <1>2 DEF IInv, OthersType, GoodPassed, GoodRow
<1>4. GoodRow(Refused(row))
  BY <1>1, <1>3, RefusedGood
<1>5. GoodRequest([Idle EXCEPT !.at = "saveCopy", !.copy = Refused(row)])
  BY <1>4, CopyGood
<1> QED BY <1>5, QuietStep DEF GetStatus, Goes, provider, IInv, OthersType

\* UpdateArn preserves the invariant.
LEMMA UpdateArnStep ==
  ASSUME IInv, NEW p \in Requests, UpdateArn(p)
  PROVE  IInv'
<1>1. GoodRow(row)
  BY PresentGood DEF UpdateArn
<1>2. GoodRequest([Idle EXCEPT !.at = "saveCopy", !.copy = row])
  BY <1>1, CopyGood
<1> QED BY <1>2, QuietStep DEF UpdateArn, Goes, provider, IInv, OthersType

\* Stop preserves the invariant.
LEMMA StopStep ==
  ASSUME IInv, NEW p \in Requests, Stop(p)
  PROVE  IInv'
BY IdleGood, QuietStep DEF Stop, Goes, provider, IInv, OthersType

-----------------------------------------------------------------------------
(* The mails.                                                              *)

\* Each way the count of mails moves keeps its type.
LEMMA MailsType ==
  ASSUME IInv
  PROVE  /\ Delivers => mails' \in [asked : 0..MaxMails, delivered : Nat]
         /\ mails.asked < MaxMails /\ mails' = [mails EXCEPT !.asked = @ + 1]
            => mails' \in [asked : 0..MaxMails, delivered : Nat]
BY DEF IInv, OthersType, Delivers

\* SendMail preserves the invariant.
LEMMA SendMailStep ==
  ASSUME IInv, NEW p \in Requests, SendMail(p)
  PROVE  IInv'
<1> DEFINE m == [Idle EXCEPT !.mail = TRUE]
           r == IF ~Present THEN Without(m)
                ELSE IF NeedsRefresh THEN [m EXCEPT !.at = "load"]
                ELSE With(m)
<1>1. [m EXCEPT !.at = "load"] \in Request
      /\ [m EXCEPT !.at = "load"].at = "load"
      /\ [m EXCEPT !.at = "load"].copy = NoRow
      /\ [m EXCEPT !.at = "load"].answer = 0
  <2>1. Idle \in Request /\ Idle.copy = NoRow /\ Idle.answer = 0
    BY IdleGood DEF GoodRequest, Idle
  <2> QED BY <2>1 DEF Request
<1>2. GoodRequest([m EXCEPT !.at = "load"])
  BY <1>1 DEF IInv, OthersType, GoodRequest, Granting, Copying
<1>3. GoodRequest(r)
  BY <1>2, WithGood
<1>4. req' = [req EXCEPT ![p] = r]
  BY DEF SendMail, Goes
<1>5. mails' \in [asked : 0..MaxMails, delivered : Nat]
  BY MailsType DEF SendMail
<1> HIDE DEF r
<1> QED BY <1>3, <1>4, <1>5, QuietStep DEF SendMail, provider

\* SendByMailbox preserves the invariant.
LEMMA SendByMailboxStep ==
  ASSUME IInv, NEW p \in Requests, SendByMailbox(p)
  PROVE  IInv'
BY IdleGood, MailsType, QuietStep DEF SendByMailbox, Sent, Goes, provider

\* MailboxFails preserves the invariant.
LEMMA MailboxFailsStep ==
  ASSUME IInv, NEW p \in Requests, MailboxFails(p)
  PROVE  IInv'
<1>1. mails' \in [asked : 0..MaxMails, delivered : Nat]
  BY MailsType DEF MailboxFails, IInv, OthersType
<1> QED BY <1>1, WithGood, QuietStep DEF MailboxFails, Goes, provider

\* SendBySmtp preserves the invariant.
LEMMA SendBySmtpStep ==
  ASSUME IInv, NEW p \in Requests, SendBySmtp(p)
  PROVE  IInv'
BY IdleGood, MailsType, QuietStep DEF SendBySmtp, Goes, provider

-----------------------------------------------------------------------------
(* The saves.                                                              *)

\* A row takes an answer of its provider's, to a refresh or to a consent.
LEMMA AppliedGood ==
  ASSUME IInv, NEW r, GoodRequest(r), NEW from \in Providers, GoodRow(r.copy), r.answer # 0,
         kind = "hmrc" => from = "hmrc"
  PROVE  GoodRow(Applied(r, from))
<1> DEFINE c == r.copy
           d == Applied(r, from)
<1>1. r.answer \in Answers /\ r.answer <= given
  BY DEF GoodRequest, Request, Answers
<1>2. c \in Row
  BY DEF GoodRow
<1>3. /\ d \in Row
      /\ d.access = r.answer
      /\ d.status = "connected"
      /\ d.refresh \in {c.refresh, r.answer}
      /\ from = "hmrc" => d.refresh = r.answer
      /\ d.date = IF Dates(from) THEN r.answer ELSE c.date
      /\ d.provider = c.provider
      /\ d.deleted = c.deleted
  <2> DEFINE fresh == IF from = "gmail" /\ r.from = "none" THEN c.refresh ELSE r.answer
             date == IF Dates(from) THEN r.answer ELSE c.date
  <2>1. d = [c EXCEPT !.access = r.answer, !.status = "connected",
                      !.refresh = fresh, !.date = date]
    BY <1>2 DEF Applied, Row
  <2>2. /\ fresh \in {c.refresh, r.answer}
        /\ from = "hmrc" => fresh = r.answer
        /\ fresh \in Answers
        /\ date \in 0..MaxAnswers
    BY <1>1, <1>2 DEF Row, Answers
  <2>3. date = IF Dates(from) THEN r.answer ELSE c.date
    OBVIOUS
  <2> HIDE DEF fresh, date, d, c
  <2> QED BY <1>1, <1>2, <2>1, <2>2, <2>3 DEF Row
<1>4. d.access <= given /\ d.refresh <= given /\ d.date <= given
  BY <1>1, <1>3 DEF GoodRow
<1>5. kind = "hmrc" => /\ d.provider = "hmrc"
                       /\ ~d.deleted
                       /\ d.date = IF dated THEN d.refresh ELSE 0
  BY <1>3 DEF GoodRow, Dates
<1>6. Dead(d)
  BY <1>3 DEF Dead
<1> HIDE DEF d
<1> QED BY <1>3, <1>4, <1>5, <1>6 DEF GoodRow, d

\* A row that goes to another mailbox, or comes back.
LEMMA RenamedGood ==
  ASSUME IInv, NEW c, GoodRow(c), NEW from \in Providers, kind = "hmrc" => from = "hmrc"
  PROVE  GoodRow([c EXCEPT !.provider = from, !.deleted = FALSE])
<1> DEFINE d == [c EXCEPT !.provider = from, !.deleted = FALSE]
<1>1. /\ d \in Row
      /\ d.provider = from
      /\ d.deleted = FALSE
      /\ d.access = c.access
      /\ d.refresh = c.refresh
      /\ d.date = c.date
      /\ d.status = c.status
  BY DEF GoodRow, Row
<1> HIDE DEF d
<1>2. GoodRow(d)
  BY <1>1 DEF GoodRow, Dead
<1> QED BY <1>2 DEF d

\* The row a first consent makes is good.
LEMMA GrantedGood ==
  ASSUME IInv, NEW r, GoodRequest(r), r.answer # 0, r.from \in Providers,
         kind = "hmrc" => r.from = "hmrc"
  PROVE  GoodRow(Granted(r))
<1>1. r.answer \in Answers /\ r.answer <= given
  BY DEF GoodRequest, Request, Answers
<1>2. /\ Granted(r) \in Row
      /\ Granted(r).access = r.answer
      /\ Granted(r).refresh = r.answer
      /\ Granted(r).date = IF Dates(r.from) THEN r.answer ELSE 0
      /\ Granted(r).status = "connected"
      /\ Granted(r).provider = r.from
      /\ Granted(r).deleted = FALSE
  BY <1>1 DEF Granted, Row, Answers
<1>3. given \in Nat
  BY DEF IInv, OthersType
<1> QED BY <1>1, <1>2, <1>3 DEF GoodRow, Dead, Dates

\* RestoreRow preserves the invariant.
LEMMA RestoreRowStep ==
  ASSUME IInv, NEW p \in Requests, RestoreRow(p)
  PROVE  IInv'
<1> DEFINE c == [row EXCEPT !.deleted = FALSE]
           r == [req[p] EXCEPT !.at = "saveGrant"]
<1>1. GoodRequest(req[p]) /\ req[p].at = "restore" /\ row # NoRow /\ GoodRow(row)
  BY DEF IInv, GoodStored, RestoreRow, At, GoodRequest
<1>2. /\ c \in Row
      /\ c.provider = row.provider
      /\ c.deleted = FALSE
      /\ c.access = row.access
      /\ c.refresh = row.refresh
      /\ c.date = row.date
      /\ c.status = row.status
  BY <1>1 DEF GoodRow, Row
<1>3. row' = c
  BY DEF RestoreRow
<1> HIDE DEF c
<1>4. GoodRow(c)
  BY <1>1, <1>2 DEF GoodRow, Dead
<1>5. GoodRequest(r)
  BY <1>1 DEF GoodRequest, Request, Granting, Copying
<1> QED BY <1>3, <1>4, <1>5, SaveStep DEF RestoreRow, Goes

\* SaveGrant preserves the invariant.
LEMMA SaveGrantStep ==
  ASSUME IInv, NEW p \in Requests, SaveGrant(p)
  PROVE  IInv'
<1> DEFINE r == req[p]
           c == IF r.copy # NoRow
                  THEN [Applied(r, r.from) EXCEPT !.provider = r.from, !.deleted = FALSE]
                  ELSE IF row = NoRow THEN Granted(r) ELSE row
<1>1. /\ GoodRequest(r)
      /\ r.answer # 0
      /\ r.from \in Providers
      /\ kind = "hmrc" => r.from = "hmrc"
      /\ r.copy = NoRow \/ GoodRow(r.copy)
  BY DEF IInv, SaveGrant, At, GoodRequest, Granting
<1>2. CASE r.copy # NoRow
  <2>1. GoodRow(Applied(r, r.from))
    BY <1>1, <1>2, AppliedGood
  <2> QED BY <1>1, <1>2, <2>1, RenamedGood, IdleGood, SaveStep DEF SaveGrant, Goes
<1>3. CASE r.copy = NoRow /\ row = NoRow
  BY <1>1, <1>3, GrantedGood, IdleGood, SaveStep DEF SaveGrant, Goes
<1>4. CASE r.copy = NoRow /\ row # NoRow
  BY <1>4, IdleGood, SaveStep DEF SaveGrant, Goes, IInv, GoodStored
<1> QED BY <1>2, <1>3, <1>4

\* SaveFresh preserves the invariant.
LEMMA SaveFreshStep ==
  ASSUME IInv, NEW p \in Requests, SaveFresh(p)
  PROVE  IInv'
<1> DEFINE r == req[p]
<1>1. /\ GoodRequest(r)
      /\ r.answer # 0
      /\ GoodRow(r.copy)
  BY DEF IInv, SaveFresh, At, GoodRequest, Copying
<1>2. r.copy.provider \in Providers /\ (kind = "hmrc" => r.copy.provider = "hmrc")
  BY <1>1 DEF GoodRow, Row
<1>3. GoodRow(Applied(r, r.copy.provider))
  BY <1>1, <1>2, AppliedGood
<1> QED BY <1>3, WithGood, SaveStep DEF SaveFresh, Goes

\* SaveRefused preserves the invariant.
LEMMA SaveRefusedStep ==
  ASSUME IInv, NEW p \in Requests, SaveRefused(p)
  PROVE  IInv'
<1>1. GoodRow(req[p].copy)
  BY DEF IInv, SaveRefused, At, GoodRequest, Copying
<1> QED BY <1>1, WithGood, SaveStep DEF SaveRefused, Goes

\* SaveCopy preserves the invariant.
LEMMA SaveCopyStep ==
  ASSUME IInv, NEW p \in Requests, SaveCopy(p)
  PROVE  IInv'
<1>1. GoodRow(req[p].copy)
  BY DEF IInv, SaveCopy, At, GoodRequest, Copying
<1> QED BY <1>1, IdleGood, SaveStep DEF SaveCopy, Goes

\* RemoveRow preserves the invariant.
LEMMA RemoveRowStep ==
  ASSUME IInv, NEW p \in Requests, RemoveRow(p)
  PROVE  IInv'
<1>1. CASE kind = "hmrc" \/ row = NoRow
  BY <1>1, IdleGood, SaveStep DEF RemoveRow, Goes
<1>2. CASE kind # "hmrc" /\ row # NoRow
  <2> DEFINE c == [row EXCEPT !.deleted = TRUE]
  <2>1. GoodRow(row)
    BY <1>2 DEF IInv, GoodStored
  <2>2. /\ c \in Row
        /\ c.access = row.access
        /\ c.refresh = row.refresh
        /\ c.date = row.date
        /\ c.status = row.status
    BY <2>1 DEF GoodRow, Row
  <2>3. row' = c
    BY <1>2 DEF RemoveRow
  <2> HIDE DEF c
  <2>4. GoodRow(c)
    BY <1>2, <2>1, <2>2 DEF GoodRow, Dead
  <2> QED BY <2>3, <2>4, IdleGood, SaveStep DEF RemoveRow, Goes
<1> QED BY <1>1, <1>2

-----------------------------------------------------------------------------
(* The provider.                                                           *)

\* A new answer changes nothing of what was said of the old ones.
LEMMA AnswerGrows ==
  ASSUME IInv, Answer, UNCHANGED <<row, passed, age, mails, world>>,
         live' \subseteq live \cup {given + 1},
         spent' \subseteq Answers
  PROVE  Grows /\ OthersType' /\ GoodPassed' /\ GoodStored'
<1>1. given \in Nat /\ given + 1 \in Answers /\ given' = given + 1
  BY DEF IInv, OthersType, Answer, Answers
<1>2. Grows
  BY <1>1 DEF Grows, world
<1>3. OthersType'
  BY <1>1 DEF IInv, OthersType, world, Answers
<1>4. GoodPassed'
  BY <1>1 DEF IInv, GoodPassed, world, Answers
<1>5. GoodStored'
  BY <1>2, <1>3, GoodRowGrows DEF IInv, GoodStored
<1> QED BY <1>2, <1>3, <1>4, <1>5

\* A request that goes on with the new answer, or without it.
LEMMA AnswerStep ==
  ASSUME IInv, Grows, OthersType', GoodPassed', GoodStored', given' = given + 1,
         NEW p \in Requests, NEW r, req' = [req EXCEPT ![p] = r],
         \/ GoodRequest(r)
         \/ /\ r \in Request
            /\ r.answer = given + 1
            /\ \/ /\ r.at \in {"find", "profile"}
                  /\ r.copy = NoRow
                  /\ r.from \in Providers
                  /\ kind = "hmrc" => r.from = "hmrc"
               \/ /\ r.at = "saveFresh"
                  /\ r.copy # NoRow
                  /\ GoodRow(r.copy)
  PROVE  IInv'
<1>1. CASE GoodRequest(r)
  <2>1. GoodRequest(r)'
    BY <1>1, GoodRequestGrows DEF IInv
  <2> QED BY <2>1, RequestStep
<1>2. CASE ~GoodRequest(r)
  <2>1. GoodRow(r.copy) => GoodRow(r.copy)'
    BY GoodRowGrows DEF IInv
  <2>2. given \in Nat /\ kind' = kind
    BY DEF IInv, OthersType, Grows
  <2>3. GoodRequest(r)'
    BY <1>2, <2>1, <2>2 DEF GoodRequest, Granting, Copying
  <2> QED BY <2>3, RequestStep
<1> QED BY <1>1, <1>2

\* Connect preserves the invariant.
LEMMA ConnectStep ==
  ASSUME IInv, NEW p \in Requests, NEW from \in Choices, Connect(p, from)
  PROVE  IInv'
<1> DEFINE place == IF kind = "hmrc" THEN "find" ELSE "profile"
           next == given + 1
           r == [Idle EXCEPT !.at = place, !.from = from, !.answer = next]
<1>1. Grows /\ OthersType' /\ GoodPassed' /\ GoodStored'
  BY AnswerGrows DEF Connect, IInv, OthersType
<1>2. given \in Nat /\ given' = given + 1 /\ next \in 0..MaxAnswers
  BY DEF IInv, OthersType, Connect, Answer
<1>3. from \in Providers /\ (kind = "hmrc" => from = "hmrc")
  BY DEF Choices, Providers
<1>4. Idle \in Request /\ Idle.copy = NoRow
  BY IdleGood DEF GoodRequest, Idle
<1>5. place \in {"find", "profile"}
  OBVIOUS
<1> HIDE DEF place, next
<1>6. /\ r \in Request
      /\ r.at \in {"find", "profile"}
      /\ r.from = from
      /\ r.answer = next
      /\ r.copy = NoRow
  BY <1>2, <1>3, <1>4, <1>5 DEF Request
<1>7. req' = [req EXCEPT ![p] = r]
  BY DEF Connect, Goes, place, next
<1> HIDE DEF r
<1> QED BY <1>1, <1>2, <1>3, <1>6, <1>7, AnswerStep DEF next

\* Honoured preserves the invariant.
LEMMA HonouredStep ==
  ASSUME IInv, NEW p \in Requests, Honoured(p)
  PROVE  IInv'
<1> DEFINE next == given + 1
           r == [req[p] EXCEPT !.at = "saveFresh", !.answer = next]
<1>1. /\ GoodRequest(req[p])
      /\ req[p] \in Request
      /\ req[p].copy # NoRow
      /\ GoodRow(req[p].copy)
  BY DEF IInv, Honoured, At, GoodRequest, Copying
<1>2. live' \subseteq live \cup {given + 1} /\ spent' \subseteq Answers
  BY <1>1 DEF Honoured, IInv, OthersType, GoodRow, Row
<1>3. Grows /\ OthersType' /\ GoodPassed' /\ GoodStored'
  BY <1>2, AnswerGrows DEF Honoured
<1>4. given \in Nat /\ given' = given + 1 /\ next \in 0..MaxAnswers
  BY DEF IInv, OthersType, Honoured, Answer
<1> HIDE DEF next
<1>5. /\ r \in Request
      /\ r.at = "saveFresh"
      /\ r.copy = req[p].copy
      /\ r.answer = next
  BY <1>1, <1>4 DEF Request
<1>6. CASE req' = [req EXCEPT ![p].at = "saveFresh", ![p].answer = given + 1]
  <2>1. req' = [req EXCEPT ![p] = r]
    BY <1>6 DEF IInv, next
  <2> HIDE DEF r
  <2> QED BY <1>1, <1>3, <1>4, <1>5, <2>1, AnswerStep DEF next
<1>7. CASE req' = [req EXCEPT ![p] = Without(req[p])]
  BY <1>3, <1>4, <1>7, WithGood, AnswerStep
<1> QED BY <1>6, <1>7 DEF Honoured

\* What the code does not decide takes tokens from those that live.
LEMMA OutsideStep ==
  ASSUME IInv, UNCHANGED <<row, given, spent, mails, req, world>>, live' \subseteq live,
         age' \in [Answers -> {"fresh", "soon", "stale"}], GoodPassed'
  PROVE  IInv'
<1>1. Grows
  BY DEF Grows, world, IInv, OthersType
<1>2. OthersType'
  BY DEF IInv, OthersType, world
<1>3. GoodStored'
  BY <1>1, <1>2, GoodRowGrows DEF IInv, GoodStored
<1>4. \A p \in Requests : GoodRequest(req[p])'
  BY <1>1, <1>2, GoodRequestGrows DEF IInv
<1> QED BY <1>1, <1>2, <1>3, <1>4 DEF IInv

\* Ages preserves the invariant.
LEMMA AgesStep ==
  ASSUME IInv, NEW n \in Held, Ages(n)
  PROVE  IInv'
<1>1. age' \in [Answers -> {"fresh", "soon", "stale"}]
  BY DEF Ages, IInv, OthersType, Held
<1>2. GoodPassed'
  BY DEF Ages, IInv, GoodPassed, world
<1> QED BY <1>1, <1>2, OutsideStep DEF Ages

\* Withdraw preserves the invariant.
LEMMA WithdrawStep ==
  ASSUME IInv, NEW n \in Held, Withdraw(n)
  PROVE  IInv'
<1>1. GoodPassed'
  BY DEF Withdraw, IInv, GoodPassed, world
<1> QED BY <1>1, OutsideStep DEF Withdraw, IInv, OthersType

\* Only an answer that was given is held.
LEMMA HeldGiven ==
  ASSUME IInv, NEW n \in Held
  PROVE  n \in Answers /\ n <= given
BY DEF Held, IInv, GoodStored, GoodRow, GoodRequest

\* DatePasses preserves the invariant.
LEMMA DatePassesStep ==
  ASSUME IInv, NEW n \in Held, DatePasses(n)
  PROVE  IInv'
<1>1. n \in Answers /\ n <= given
  BY HeldGiven
<1>2. GoodPassed'
  BY <1>1 DEF DatePasses, IInv, GoodPassed, world
<1> QED BY <1>2, OutsideStep DEF DatePasses, IInv, OthersType

-----------------------------------------------------------------------------
(* The theorems.                                                           *)

\* No connection, and no answer given yet.
LEMMA InitGood == Init => IInv
<1> SUFFICES ASSUME Init PROVE IInv
  OBVIOUS
<1>1. GoodStored /\ GoodPassed
  BY DEF Init, GoodStored, GoodPassed
<1>2. OthersType
  <2>1. dated \in BOOLEAN
    BY DEF Init
  <2>2. mails \in [asked : 0..MaxMails, delivered : Nat]
    BY DEF Init
  <2>3. age \in [Answers -> {"fresh", "soon", "stale"}]
    BY DEF Init
  <2> QED BY <2>1, <2>2, <2>3 DEF Init, OthersType
<1>3. GoodRequest(Idle)
  BY <1>2 DEF OthersType, GoodRequest, Idle, Request, Granting, Copying, Providers
<1> QED BY <1>1, <1>2, <1>3 DEF Init, IInv, GoodRequest

\* Every step preserves the invariant.
LEMMA StepGood == IInv /\ [Next]_vars => IInv'
<1> SUFFICES ASSUME IInv, [Next]_vars PROVE IInv'
  OBVIOUS
<1>1. ASSUME NEW p \in Requests, Begin(p) PROVE IInv'
  BY <1>1, ConnectStep, RefreshAskedStep, GetStatusStep, UpdateArnStep, DisconnectStep,
     SendMailStep DEF Begin, TokenNeeded, Schedule
<1>2. ASSUME NEW p \in Requests, Continue(p) PROVE IInv'
  BY <1>2, FetchProfileStep, FindRowStep, RestoreRowStep, SaveGrantStep, LoadRowStep,
     HonouredStep, TokenRefusedStep, SaveFreshStep, SaveRefusedStep, SaveCopyStep,
     RemoveRowStep, SendByMailboxStep, SendBySmtpStep DEF Continue
<1>3. ASSUME NEW p \in Requests, NotAnswered(p) \/ MailboxFails(p) \/ Stop(p) PROVE IInv'
  BY <1>3, NotAnsweredStep, MailboxFailsStep, StopStep
<1>4. ASSUME NEW n \in Held, Ages(n) \/ DatePasses(n) \/ Withdraw(n) PROVE IInv'
  BY <1>4, AgesStep, DatePassesStep, WithdrawStep
<1>5. CASE UNCHANGED vars
  <2>1. Grows /\ OthersType' /\ GoodPassed' /\ GoodStored'
    BY <1>5 DEF vars, provider, world, Grows, IInv, OthersType, GoodPassed, GoodStored,
                GoodRow, Dead
  <2> QED BY <1>5, <2>1, GoodRequestGrows DEF IInv, vars
<1> QED BY <1>1, <1>2, <1>3, <1>4, <1>5 DEF Next

\* What a row at rest, or held by a request, says is so, whatever overlaps, fails or
\* stops (hmrc.service.ts, email-connections.service.ts).
THEOREM Invariance == Spec => []IInv
BY InitGood, StepGood, PTL DEF Spec

\* Every variable of the connection model keeps its type.
THEOREM TypeCorrect == Spec => []TypeOK
<1>1. IInv => TypeOK
  BY DEF IInv, TypeOK, GoodStored, GoodRow, GoodPassed, OthersType
<1> QED BY <1>1, Invariance, PTL

\* A connection is marked expired only when its refresh token would be refused
\* (refreshHmrcTokens, getStatus).
THEOREM ExpiredCorrect == Spec => []ExpiredIsDead
<1>1. IInv => ExpiredIsDead
  BY DEF IInv, GoodStored, GoodRow, Dead, ExpiredIsDead
<1> QED BY <1>1, Invariance, PTL

-----------------------------------------------------------------------------
(* No failures: any finite number of requests for the mails, one request at *)
(* a time for HMRC's tokens.                                                *)

\* The places a mail to a client may wait in.
Carrying == {"load", "ask", "saveFresh", "saveRefused", "mailbox", "smtp"}

\* A request that sends has a mail, and one that has a mail is in one of them.
MailPlace(r) ==
  /\ r.mail => r.at \in Carrying
  /\ r.at \in {"mailbox", "smtp"} => r.mail

\* Every mail asked for was delivered or is some request's.
MailsInv == MailedOnce /\ \A p \in Requests : MailPlace(req[p])

\* A used refresh token is stored only while its successor is about to be
\* saved, and no answer about to be saved was used.
TokensInv(r) ==
  /\ kind = "mail" => spent = {}
  /\ \A n \in spent : n <= given
  /\ r.at # "saveFresh" => /\ row # NoRow => row.refresh \notin spent
                           /\ r.copy # NoRow => r.copy.refresh \notin spent
  /\ r.at \in Granting \cup {"saveFresh"} => r.answer \notin spent

-----------------------------------------------------------------------------
(* Mails.                                                                  *)

\* A request that goes on with or without an access token keeps its mail.
LEMMA MailKept ==
  ASSUME IInv, NEW o \in Request, MailPlace(o)
  PROVE  /\ With(o) \in Request /\ With(o).mail = o.mail /\ MailPlace(With(o))
         /\ Without(o) \in Request /\ Without(o).mail = o.mail /\ MailPlace(Without(o))
<1>1. Idle \in Request /\ Idle.mail = FALSE /\ Idle.at = "idle"
  BY IdleGood DEF GoodRequest, Idle
<1>2. ASSUME NEW place \in {"smtp", "mailbox"}
      PROVE  /\ [Idle EXCEPT !.at = place, !.mail = TRUE] \in Request
             /\ [Idle EXCEPT !.at = place, !.mail = TRUE].mail = TRUE
             /\ [Idle EXCEPT !.at = place, !.mail = TRUE].at = place
  BY <1>1, <1>2 DEF Request
<1>3. With(o) \in Request /\ Without(o) \in Request
  BY <1>1, <1>2 DEF With, Without
<1>4. CASE o.mail
  BY <1>2, <1>3, <1>4 DEF With, Without, MailPlace, Carrying, Request
<1>5. CASE ~o.mail
  BY <1>1, <1>3, <1>5 DEF With, Without, MailPlace, Carrying, Request
<1> QED BY <1>3, <1>4, <1>5

\* A request goes to r: it asks for a mail, delivers its own, or does neither.
Asks(o, r)      == ~o.mail /\ r.mail /\ mails' = [mails EXCEPT !.asked = @ + 1]
Delivered(o, r) == o.mail /\ ~r.mail /\ mails' = [mails EXCEPT !.delivered = @ + 1]
Neither(o, r)   == (r.mail <=> o.mail) /\ mails' = mails

\* What a step of request p does to the mails.
MailStep(p) ==
  \E r \in Request :
    /\ Goes(p, r)
    /\ MailPlace(r)
    /\ Asks(req[p], r) \/ Delivered(req[p], r) \/ Neither(req[p], r)

\* The requests that begin.
LEMMA BeginMails ==
  ASSUME IInv, NEW p \in Requests, MailPlace(req[p]), Begin(p)
  PROVE  MailStep(p)
<1>1. PICK o \in Request : o = req[p]
  BY DEF IInv
<1>2. o.at = "idle" /\ ~o.mail
  BY <1>1 DEF Begin, Connect, RefreshAsked, TokenNeeded, Schedule, GetStatus, UpdateArn,
              Disconnect, SendMail, At, MailPlace, Carrying
<1>3. Idle \in Request /\ Idle.mail = FALSE /\ Idle.at = "idle"
  BY IdleGood DEF GoodRequest, Idle
<1>4. ASSUME NEW r \in Request, Goes(p, r), r.mail = FALSE, mails' = mails,
             r.at \notin {"mailbox", "smtp"}
      PROVE  MailStep(p)
  BY <1>1, <1>2, <1>4 DEF MailStep, MailPlace, Neither
<1>5. PICK g \in Nat : g = given + 1
  BY DEF IInv, OthersType
<1>6. CASE \E from \in Choices : Connect(p, from)
  <2>1. PICK from \in Choices : Connect(p, from)
    BY <1>6
  <2>2. PICK place \in {"find", "profile"} :
          place = IF kind = "hmrc" THEN "find" ELSE "profile"
    OBVIOUS
  <2>3. PICK r : r = [Idle EXCEPT !.at = place, !.from = from, !.answer = g]
    OBVIOUS
  <2>4. from \in Providers /\ g \in 0..MaxAnswers
    BY <1>5, <2>1 DEF Choices, Providers, Connect, Answer, IInv, OthersType
  <2>5. r \in Request /\ r.mail = FALSE /\ r.at = place
    BY <1>3, <2>3, <2>4 DEF Request
  <2> QED BY <1>4, <1>5, <2>1, <2>2, <2>3, <2>5 DEF Connect
<1>7. ASSUME NEW place \in {"load", "remove"}, Goes(p, [Idle EXCEPT !.at = place]),
             mails' = mails
      PROVE  MailStep(p)
  <2>1. PICK r : r = [Idle EXCEPT !.at = place]
    OBVIOUS
  <2>2. r \in Request /\ r.mail = FALSE /\ r.at = place
    BY <1>3, <2>1 DEF Request
  <2> QED BY <1>4, <1>7, <2>1, <2>2
<1>8. CASE RefreshAsked(p) \/ TokenNeeded(p) \/ Schedule(p) \/ Disconnect(p)
  BY <1>7, <1>8 DEF RefreshAsked, TokenNeeded, Schedule, Disconnect
<1>9. ASSUME NEW c \in Row, Goes(p, [Idle EXCEPT !.at = "saveCopy", !.copy = c]),
             mails' = mails
      PROVE  MailStep(p)
  <2>1. PICK r : r = [Idle EXCEPT !.at = "saveCopy", !.copy = c]
    OBVIOUS
  <2>2. r \in Request /\ r.mail = FALSE /\ r.at = "saveCopy"
    BY <1>3, <2>1 DEF Request
  <2> QED BY <1>4, <1>9, <2>1, <2>2
<1>10. CASE GetStatus(p)
  <2>1. row \in Row
    BY <1>10, PresentGood DEF GetStatus, GoodRow
  <2>2. Refused(row) \in Row
    BY <2>1 DEF Refused, Row
  <2> QED BY <1>9, <1>10, <2>2 DEF GetStatus
<1>11. CASE UpdateArn(p)
  <2>1. row \in Row
    BY <1>11, PresentGood DEF UpdateArn, GoodRow
  <2> QED BY <1>9, <1>11, <2>1 DEF UpdateArn
<1>12. CASE SendMail(p)
  <2>1. PICK m : m = [Idle EXCEPT !.mail = TRUE]
    OBVIOUS
  <2>2. m \in Request /\ m.mail = TRUE
    BY <1>3, <2>1 DEF Request
  <2>3. PICK l : l = [m EXCEPT !.at = "load"]
    OBVIOUS
  <2>4. l \in Request /\ l.mail = TRUE /\ l.at = "load"
    BY <2>2, <2>3 DEF Request
  <2>5. /\ With(m) = [Idle EXCEPT !.at = "mailbox", !.mail = TRUE]
        /\ Without(m) = [Idle EXCEPT !.at = "smtp", !.mail = TRUE]
    BY <2>2 DEF With, Without
  <2>6. ASSUME NEW place \in {"mailbox", "smtp"}
        PROVE  /\ [Idle EXCEPT !.at = place, !.mail = TRUE] \in Request
               /\ [Idle EXCEPT !.at = place, !.mail = TRUE].mail = TRUE
               /\ [Idle EXCEPT !.at = place, !.mail = TRUE].at = place
    BY <1>3, <2>6 DEF Request
  <2>7. PICK r : /\ r \in {Without(m), l, With(m)}
                 /\ Goes(p, r)
    BY <1>12, <2>1, <2>3 DEF SendMail
  <2>8. r \in Request /\ r.mail = TRUE /\ r.at \in Carrying
    BY <2>4, <2>5, <2>6, <2>7 DEF Carrying
  <2>9. mails' = [mails EXCEPT !.asked = @ + 1]
    BY <1>12 DEF SendMail
  <2> QED BY <1>1, <1>2, <2>7, <2>8, <2>9 DEF MailStep, MailPlace, Asks
<1> QED BY <1>6, <1>8, <1>10, <1>11, <1>12 DEF Begin

\* The requests that go on, when nothing fails.
LEMMA ContinueMails ==
  ASSUME IInv, ~Faults, NEW p \in Requests, MailPlace(req[p]), Continue(p)
  PROVE  MailStep(p)
<1>1. PICK o \in Request : o = req[p]
  BY DEF IInv
<1>2. MailPlace(o) /\ GoodRequest(o) /\ o.mail \in BOOLEAN
  BY <1>1 DEF IInv, Request
<1>3. /\ Idle \in Request /\ Idle.mail = FALSE /\ Idle.at = "idle"
  BY IdleGood DEF GoodRequest, Idle
<1>4. /\ With(o) \in Request /\ With(o).mail = o.mail /\ MailPlace(With(o))
      /\ Without(o) \in Request /\ Without(o).mail = o.mail /\ MailPlace(Without(o))
  BY <1>2, MailKept
\* One that keeps its mail.
<1>5. ASSUME NEW r \in Request, Goes(p, r), MailPlace(r), r.mail = o.mail, mails' = mails
      PROVE  MailStep(p)
  BY <1>1, <1>5 DEF MailStep, Neither
\* One that has none and is done.
<1>6. ASSUME ~o.mail, Goes(p, Idle), mails' = mails
      PROVE  MailStep(p)
  BY <1>2, <1>3, <1>5, <1>6 DEF MailPlace
\* One that has none and goes on.
<1>7. CASE FetchProfile(p)
  <2>1. o.at = "profile"
    BY <1>1, <1>7 DEF FetchProfile, At
  <2>2. PICK r : r = [o EXCEPT !.at = "find"]
    OBVIOUS
  <2>3. r \in Request /\ r.mail = o.mail /\ r.at = "find"
    BY <2>2 DEF Request
  <2> QED BY <1>1, <1>2, <1>5, <1>7, <2>1, <2>2, <2>3 DEF FetchProfile, MailPlace, Carrying
<1>8. CASE FindRow(p)
  <2>1. o.at = "find" /\ row \in Row \cup {NoRow}
    BY <1>1, <1>8 DEF FindRow, At, IInv, GoodStored, GoodRow
  <2>2. PICK place \in {"restore", "saveGrant"} :
          place = IF row # NoRow /\ row.deleted THEN "restore" ELSE "saveGrant"
    OBVIOUS
  <2>3. PICK r : r = [o EXCEPT !.at = place, !.copy = row]
    OBVIOUS
  <2>4. r \in Request /\ r.mail = o.mail /\ r.at = place
    BY <2>1, <2>3 DEF Request
  <2> QED BY <1>1, <1>2, <1>5, <1>8, <2>1, <2>2, <2>3, <2>4 DEF FindRow, MailPlace, Carrying
<1>9. CASE RestoreRow(p)
  <2>1. o.at = "restore"
    BY <1>1, <1>9 DEF RestoreRow, At
  <2>2. PICK r : r = [o EXCEPT !.at = "saveGrant"]
    OBVIOUS
  <2>3. r \in Request /\ r.mail = o.mail /\ r.at = "saveGrant"
    BY <2>2 DEF Request
  <2> QED BY <1>1, <1>2, <1>5, <1>9, <2>1, <2>2, <2>3 DEF RestoreRow, MailPlace, Carrying
<1>10. CASE SaveGrant(p) \/ SaveCopy(p) \/ RemoveRow(p)
  BY <1>1, <1>2, <1>6, <1>10 DEF SaveGrant, SaveCopy, RemoveRow, At, MailPlace, Carrying
<1>11. CASE LoadRow(p)
  <2>1. CASE Present
    <3>1. row \in Row
      BY <2>1, PresentGood DEF GoodRow
    <3>2. PICK r : r = [o EXCEPT !.at = "ask", !.copy = row]
      OBVIOUS
    <3>3. r \in Request /\ r.mail = o.mail /\ r.at = "ask"
      BY <3>1, <3>2 DEF Request
    <3> QED BY <1>1, <1>5, <1>11, <2>1, <3>2, <3>3 DEF LoadRow, MailPlace, Carrying
  <2>2. CASE ~Present
    BY <1>1, <1>4, <1>5, <1>11, <2>2 DEF LoadRow
  <2> QED BY <2>1, <2>2
<1>12. CASE Honoured(p)
  <2>1. PICK g \in 0..MaxAnswers : g = given + 1
    BY <1>12 DEF Honoured, Answer, IInv, OthersType
  <2>2. PICK r : r = [o EXCEPT !.at = "saveFresh", !.answer = g]
    OBVIOUS
  <2>3. r \in Request /\ r.mail = o.mail /\ r.at = "saveFresh"
    BY <2>1, <2>2 DEF Request
  <2>4. req' = [req EXCEPT ![p].at = "saveFresh", ![p].answer = given + 1]
    BY <1>12 DEF Honoured
  <2>5. Goes(p, r)
    BY <1>1, <2>1, <2>2, <2>4 DEF Goes, IInv
  <2> QED BY <1>5, <1>12, <2>3, <2>5 DEF Honoured, MailPlace, Carrying
<1>13. CASE TokenRefused(p)
  <2>1. PICK c \in Row : c = o.copy
    BY <1>1, <1>2, <1>13 DEF TokenRefused, At, GoodRequest, Copying, GoodRow
  <2>2. PICK d \in Row : d = Refused(c)
    BY DEF Refused, Row
  <2>3. PICK r : r = [o EXCEPT !.at = "saveRefused", !.copy = d]
    OBVIOUS
  <2>4. r \in Request /\ r.mail = o.mail /\ r.at = "saveRefused"
    BY <2>3 DEF Request
  <2>5. Goes(p, r)
    BY <1>1, <1>13, <2>1, <2>2, <2>3 DEF TokenRefused
  <2> QED BY <1>5, <1>13, <2>4, <2>5 DEF TokenRefused, MailPlace, Carrying
<1>14. CASE SaveFresh(p) \/ SaveRefused(p)
  BY <1>1, <1>4, <1>5, <1>14 DEF SaveFresh, SaveRefused
<1>15. CASE SendByMailbox(p) \/ SendBySmtp(p)
  BY <1>1, <1>2, <1>3, <1>15
  DEF SendByMailbox, SendBySmtp, Sent, Delivers, At, MailStep, MailPlace, Delivered
<1> QED BY <1>7, <1>8, <1>9, <1>10, <1>11, <1>12, <1>13, <1>14, <1>15 DEF Continue

\* The count follows each step.
LEMMA MailStepCounts ==
  ASSUME IInv, MailsInv, IsFiniteSet(Requests), NEW p \in Requests, MailStep(p)
  PROVE  MailsInv'
<1>1. PICK r \in Request :
        /\ Goes(p, r)
        /\ MailPlace(r)
        /\ Asks(req[p], r) \/ Delivered(req[p], r) \/ Neither(req[p], r)
  BY DEF MailStep
<1>2. /\ req'[p] = r
      /\ \A q \in Requests : q # p => req'[q] = req[q]
  BY <1>1 DEF Goes, IInv
<1>3. \A q \in Requests : MailPlace(req[q])'
  BY <1>1, <1>2 DEF MailsInv, MailPlace
<1> DEFINE having == {q \in Requests : req[q].mail}
           next   == {q \in Requests : req'[q].mail}
<1>4. IsFiniteSet(having) /\ Cardinality(having) \in Nat
  BY FS_Subset, FS_CardinalityType
<1>5. mails \in [asked : 0..MaxMails, delivered : Nat]
  BY DEF IInv, OthersType
<1>6. mails.asked = mails.delivered + Cardinality(having)
  BY DEF MailsInv, MailedOnce
<1>7. mails'.asked = mails'.delivered + Cardinality(next)
  <2>1. CASE Asks(req[p], r)
    <3>1. next = having \cup {p} /\ p \notin having
      BY <1>2, <2>1 DEF Asks
    <3>2. Cardinality(next) = Cardinality(having) + 1
      BY <1>4, <3>1, FS_AddElement
    <3>3. mails'.asked = mails.asked + 1 /\ mails'.delivered = mails.delivered
      BY <1>5, <2>1 DEF Asks
    <3> HIDE DEF having, next
    <3> QED BY <1>4, <1>5, <1>6, <3>2, <3>3
  <2>2. CASE Delivered(req[p], r)
    <3>1. next = having \ {p} /\ p \in having
      BY <1>2, <2>2 DEF Delivered
    <3>2. Cardinality(next) = Cardinality(having) - 1
      BY <1>4, <3>1, FS_RemoveElement
    <3>3. mails'.asked = mails.asked /\ mails'.delivered = mails.delivered + 1
      BY <1>5, <2>2 DEF Delivered
    <3> HIDE DEF having, next
    <3> QED BY <1>4, <1>5, <1>6, <3>2, <3>3
  <2>3. CASE Neither(req[p], r)
    <3>1. next = having
      BY <1>2, <2>3 DEF Neither
    <3> QED BY <1>6, <2>3, <3>1 DEF Neither
  <2> QED BY <1>1, <2>1, <2>2, <2>3
<1> QED BY <1>3, <1>7 DEF MailsInv, MailedOnce

-----------------------------------------------------------------------------
(* HMRC's tokens.                                                          *)

\* A step that uses no token up: for HMRC, what is stored and what will be was
\* not used.
LEMMA TokensKept ==
  ASSUME IInv, NEW o, TokensInv(o), UNCHANGED <<given, spent, kind>>,
         NEW c, row' = c, NEW r,
         kind = "hmrc" =>
           /\ r.at # "saveFresh" => /\ c # NoRow => c.refresh \notin spent
                                    /\ r.copy # NoRow => r.copy.refresh \notin spent
           /\ r.at \in Granting \cup {"saveFresh"} => r.answer \notin spent
  PROVE  TokensInv(r)'
<1>1. kind \in {"hmrc", "mail"}
  BY DEF IInv, OthersType
<1>2. CASE kind = "hmrc"
  BY <1>2 DEF TokensInv
<1>3. CASE kind = "mail"
  BY <1>3 DEF TokensInv
<1> QED BY <1>1, <1>2, <1>3

\* The request's mail goes out, or it is done: it holds no copy.
LEMMA HoldsNothing ==
  ASSUME NEW o
  PROVE  /\ Idle.copy = NoRow /\ Idle.at \notin Granting \cup {"saveFresh"}
         /\ With(o).copy = NoRow /\ With(o).at \notin Granting \cup {"saveFresh"}
         /\ Without(o).copy = NoRow /\ Without(o).at \notin Granting \cup {"saveFresh"}
  BY DEF With, Without, Idle, Granting

\* A step of request p keeps the invariant on tokens.
TokenStep(p) == \E r \in Request : Goes(p, r) /\ TokensInv(r)'

\* The requests that begin.
LEMMA BeginTokens ==
  ASSUME IInv, NEW p \in Requests, TokensInv(req[p]), Begin(p)
  PROVE  TokenStep(p)
<1>1. PICK o \in Request : o = req[p]
  BY DEF IInv
<1>2. /\ TokensInv(o) /\ o.at = "idle"
      /\ row # NoRow => row.refresh \notin spent
  BY <1>1 DEF TokensInv, Begin, Connect, RefreshAsked, TokenNeeded, Schedule, GetStatus,
              UpdateArn, Disconnect, SendMail, At
<1>3. Idle \in Request /\ Idle.copy = NoRow /\ Idle.mail = FALSE
  BY IdleGood DEF GoodRequest, Idle
<1>4. PICK c : c = row
  OBVIOUS
<1>5. ASSUME NEW r \in Request, Goes(p, r), UNCHANGED <<row, given, spent, kind>>,
             r.at \notin Granting \cup {"saveFresh"},
             r.copy # NoRow => r.copy.refresh \notin spent
      PROVE  TokenStep(p)
  BY <1>2, <1>4, <1>5, TokensKept DEF TokenStep
<1>6. CASE \E from \in Choices : Connect(p, from)
  <2>1. PICK from \in Choices : Connect(p, from)
    BY <1>6
  <2>2. PICK g \in 0..MaxAnswers : g = given + 1
    BY <2>1 DEF Connect, Answer, IInv, OthersType
  <2>3. PICK place \in {"find", "profile"} :
          place = IF kind = "hmrc" THEN "find" ELSE "profile"
    OBVIOUS
  <2>4. PICK r : r = [Idle EXCEPT !.at = place, !.from = from, !.answer = g]
    OBVIOUS
  <2>5. r \in Request /\ r.copy = NoRow /\ r.at = place /\ r.answer = g
    <3>1. from \in Providers
      BY DEF Choices, Providers
    <3> QED BY <1>3, <2>4, <3>1 DEF Request
  <2>6. /\ given' = g /\ UNCHANGED <<row, spent, kind>> /\ Goes(p, r)
    BY <2>1, <2>2, <2>3, <2>4 DEF Connect, Answer, world
  <2>7. \A n \in spent : n \in Nat /\ n <= given /\ n < g
    BY <1>2, <2>2 DEF TokensInv, IInv, OthersType, Answers
  <2>8. TokensInv(r)'
    BY <1>2, <2>2, <2>5, <2>6, <2>7 DEF TokensInv, IInv, OthersType
  <2> QED BY <2>5, <2>6, <2>8 DEF TokenStep
<1>7. ASSUME NEW place \in {"load", "remove"}, Goes(p, [Idle EXCEPT !.at = place]),
             UNCHANGED <<row, given, spent, kind>>
      PROVE  TokenStep(p)
  <2>1. PICK r : r = [Idle EXCEPT !.at = place]
    OBVIOUS
  <2>2. r \in Request /\ r.copy = NoRow /\ r.at = place
    BY <1>3, <2>1 DEF Request
  <2> QED BY <1>5, <1>7, <2>1, <2>2 DEF Granting
<1>8. CASE RefreshAsked(p) \/ TokenNeeded(p) \/ Schedule(p) \/ Disconnect(p)
  BY <1>7, <1>8 DEF RefreshAsked, TokenNeeded, Schedule, Disconnect, provider, world
<1>9. ASSUME NEW d \in Row, Goes(p, [Idle EXCEPT !.at = "saveCopy", !.copy = d]),
             d.refresh = row.refresh, row # NoRow, UNCHANGED <<row, given, spent, kind>>
      PROVE  TokenStep(p)
  <2>1. PICK r : r = [Idle EXCEPT !.at = "saveCopy", !.copy = d]
    OBVIOUS
  <2>2. r \in Request /\ r.copy = d /\ r.at = "saveCopy"
    BY <1>3, <2>1 DEF Request
  <2> QED BY <1>2, <1>5, <1>9, <2>1, <2>2 DEF Granting
<1>10. CASE GetStatus(p)
  <2>1. row \in Row /\ row # NoRow
    BY <1>10, PresentGood DEF GetStatus, GoodRow
  <2>2. Refused(row) \in Row /\ Refused(row).refresh = row.refresh
    BY <2>1 DEF Refused, Row
  <2> QED BY <1>9, <1>10, <2>1, <2>2 DEF GetStatus, provider, world
<1>11. CASE UpdateArn(p)
  <2>1. row \in Row /\ row # NoRow
    BY <1>11, PresentGood DEF UpdateArn, GoodRow
  <2> QED BY <1>9, <1>11, <2>1 DEF UpdateArn, provider, world
<1>12. CASE SendMail(p)
  <2>1. PICK m : m = [Idle EXCEPT !.mail = TRUE]
    OBVIOUS
  <2>2. m \in Request /\ m.copy = NoRow /\ m.mail = TRUE
    BY <1>3, <2>1 DEF Request
  <2>3. PICK l : l = [m EXCEPT !.at = "load"]
    OBVIOUS
  <2>4. l \in Request /\ l.copy = NoRow /\ l.at = "load"
    BY <2>2, <2>3 DEF Request
  <2>5. /\ With(m) = [Idle EXCEPT !.at = "mailbox", !.mail = TRUE]
        /\ Without(m) = [Idle EXCEPT !.at = "smtp", !.mail = TRUE]
    BY <2>2 DEF With, Without
  <2>6. With(m) \in Request /\ Without(m) \in Request
    BY <1>3, <2>5 DEF Request
  <2>7. PICK r : /\ r \in {Without(m), l, With(m)}
                 /\ Goes(p, r)
    BY <1>12, <2>1, <2>3 DEF SendMail
  <2>8. r \in Request /\ r.copy = NoRow /\ r.at \notin Granting \cup {"saveFresh"}
    BY <2>4, <2>6, <2>7, HoldsNothing DEF Granting
  <2> QED BY <1>5, <1>12, <2>7, <2>8 DEF SendMail, provider, world
<1> QED BY <1>6, <1>8, <1>10, <1>11, <1>12 DEF Begin

\* The requests that go on.
LEMMA ContinueTokens ==
  ASSUME IInv, ~Faults, NEW p \in Requests, TokensInv(req[p]), MailPlace(req[p]),
         Continue(p)
  PROVE  TokenStep(p)
<1>1. PICK o \in Request : o = req[p]
  BY DEF IInv
<1>2. TokensInv(o) /\ GoodRequest(o) /\ MailPlace(o)
  BY <1>1 DEF IInv
<1>3. /\ Idle \in Request /\ With(o) \in Request /\ Without(o) \in Request
      /\ Idle.copy = NoRow /\ Idle.at \notin Granting \cup {"saveFresh"}
      /\ With(o).copy = NoRow /\ With(o).at \notin Granting \cup {"saveFresh"}
      /\ Without(o).copy = NoRow /\ Without(o).at \notin Granting \cup {"saveFresh"}
  BY <1>2, IdleGood, MailKept, HoldsNothing DEF GoodRequest
<1>4. PICK c : c = row
  OBVIOUS
\* One that leaves the row.
<1>5. ASSUME NEW r \in Request, Goes(p, r), UNCHANGED <<row, given, spent, kind>>,
             o.at # "saveFresh", r.at # "saveFresh",
             r.at \in Granting => o.at \in Granting /\ r.answer = o.answer,
             r.copy # NoRow => r.copy.refresh \notin spent
      PROVE  TokenStep(p)
  BY <1>2, <1>4, <1>5, TokensKept DEF TokenStep, TokensInv
\* One that saves it and holds no copy.
<1>6. ASSUME NEW r \in {Idle, With(o), Without(o)}, Goes(p, r),
             UNCHANGED <<given, spent, kind>>,
             NEW d, row' = d, kind = "hmrc" /\ d # NoRow => d.refresh \notin spent
      PROVE  TokenStep(p)
  BY <1>2, <1>3, <1>6, TokensKept DEF TokenStep
<1>7. CASE FetchProfile(p)
  <2>1. PICK r : r = [o EXCEPT !.at = "find"]
    OBVIOUS
  <2>2. /\ r \in Request /\ r.at = "find" /\ r.copy = o.copy /\ r.answer = o.answer
        /\ o.at = "profile"
    BY <1>1, <1>7, <2>1 DEF Request, FetchProfile, At
  <2> QED BY <1>1, <1>2, <1>5, <1>7, <2>1, <2>2
          DEF FetchProfile, TokensInv, Granting, provider, world
<1>8. CASE FindRow(p)
  <2>1. o.at = "find" /\ row \in Row \cup {NoRow}
    BY <1>1, <1>8 DEF FindRow, At, IInv, GoodStored, GoodRow
  <2>2. PICK place \in {"restore", "saveGrant"} :
          place = IF row # NoRow /\ row.deleted THEN "restore" ELSE "saveGrant"
    OBVIOUS
  <2>3. PICK r : r = [o EXCEPT !.at = place, !.copy = row]
    OBVIOUS
  <2>4. r \in Request /\ r.at = place /\ r.copy = row /\ r.answer = o.answer
    BY <2>1, <2>3 DEF Request
  <2> QED BY <1>1, <1>2, <1>5, <1>8, <2>1, <2>2, <2>3, <2>4
          DEF FindRow, TokensInv, Granting, provider, world
<1>9. CASE RestoreRow(p)
  <2>1. PICK r : r = [o EXCEPT !.at = "saveGrant"]
    OBVIOUS
  <2>2. r \in Request /\ kind = "mail"
    BY <1>1, <1>2, <1>9, <2>1 DEF Request, RestoreRow, At, GoodRequest
  <2>3. PICK d : d = row'
    OBVIOUS
  <2>4. UNCHANGED <<given, spent, kind>>
    BY <1>9 DEF RestoreRow, provider, world
  <2>5. TokensInv(r)'
    BY <1>2, <2>2, <2>4 DEF TokensInv
  <2> QED BY <1>1, <1>9, <2>1, <2>2, <2>5 DEF RestoreRow, TokenStep
<1>10. CASE SaveGrant(p)
  <2>1. /\ o.at = "saveGrant" /\ o.answer \notin spent /\ o.from \in Providers
        /\ kind = "hmrc" => o.from = "hmrc"
        /\ row # NoRow => row.refresh \notin spent
    BY <1>1, <1>2, <1>10 DEF SaveGrant, At, TokensInv, GoodRequest, Granting
  <2>2. UNCHANGED <<given, spent, kind>> /\ Goes(p, Idle)
    BY <1>10 DEF SaveGrant, provider, world
  <2>3. CASE o.copy # NoRow
    <3>1. PICK a : a = Applied(o, o.from)
      OBVIOUS
    <3>2. o.copy \in Row
      BY <1>2, <2>3 DEF GoodRequest, GoodRow
    <3>3. kind = "hmrc" => a.refresh = o.answer
      BY <2>1, <3>1, <3>2 DEF Applied, Row
    <3>4. PICK d : d = [a EXCEPT !.provider = o.from, !.deleted = FALSE]
      OBVIOUS
    <3>5. "refresh" \in DOMAIN a
      BY <3>1, <3>2 DEF Applied, Row
    <3>6. kind = "hmrc" => d.refresh = o.answer
      BY <3>3, <3>4, <3>5
    <3>7. row' = d
      BY <1>1, <1>10, <2>3, <3>1, <3>4 DEF SaveGrant
    <3> QED BY <1>6, <2>1, <2>2, <3>6, <3>7
  <2>4. CASE o.copy = NoRow /\ row = NoRow
    <3>1. PICK d : d = Granted(o)
      OBVIOUS
    <3>2. d.refresh = o.answer
      BY <3>1 DEF Granted
    <3>3. row' = d
      BY <1>1, <1>10, <2>4, <3>1 DEF SaveGrant
    <3> QED BY <1>6, <2>1, <2>2, <3>2, <3>3
  <2>5. CASE o.copy = NoRow /\ row # NoRow
    <3>1. row' = c
      BY <1>1, <1>4, <1>10, <2>5 DEF SaveGrant
    <3> QED BY <1>4, <1>6, <2>1, <2>2, <3>1
  <2> QED BY <2>3, <2>4, <2>5
<1>11. CASE LoadRow(p)
  <2>1. o.at = "load"
    BY <1>1, <1>11 DEF LoadRow, At
  <2>2. CASE Present
    <3>1. row \in Row /\ row # NoRow
      BY <2>2, PresentGood DEF GoodRow
    <3>2. PICK r : r = [o EXCEPT !.at = "ask", !.copy = row]
      OBVIOUS
    <3>3. r \in Request /\ r.at = "ask" /\ r.copy = row
      BY <3>1, <3>2 DEF Request
    <3> QED BY <1>1, <1>2, <1>5, <1>11, <2>1, <2>2, <3>2, <3>3
            DEF LoadRow, TokensInv, Granting, provider, world
  <2>3. CASE ~Present
    BY <1>1, <1>3, <1>5, <1>11, <2>1, <2>3 DEF LoadRow, provider, world
  <2> QED BY <2>2, <2>3
<1>12. CASE Honoured(p)
  <2>1. PICK g \in 0..MaxAnswers : g = given + 1
    BY <1>12 DEF Honoured, Answer, IInv, OthersType
  <2>2. PICK r : r = [o EXCEPT !.at = "saveFresh", !.answer = g]
    OBVIOUS
  <2>3. r \in Request /\ r.at = "saveFresh" /\ r.answer = g
    BY <2>1, <2>2 DEF Request
  <2>4. Goes(p, r)
    <3>1. req' = [req EXCEPT ![p].at = "saveFresh", ![p].answer = given + 1]
      BY <1>12 DEF Honoured
    <3> QED BY <1>1, <2>1, <2>2, <3>1 DEF Goes, IInv
  <2>5. PICK t : t = o.copy.refresh
    OBVIOUS
  <2>6. t \in Nat /\ t <= given
    <3>1. GoodRow(o.copy)
      BY <1>1, <1>2, <1>12 DEF Honoured, At, GoodRequest, Copying
    <3> QED BY <2>5, <3>1 DEF GoodRow, Row, Answers
  <2>7. /\ given' = g /\ kind' = kind
        /\ spent' = spent \cup (IF kind = "hmrc" THEN {t} ELSE {})
    BY <1>1, <1>12, <2>1, <2>5 DEF Honoured, Answer, world
  <2>8. \A n \in spent' : n \in Nat /\ n <= given /\ n < g
    BY <1>2, <2>1, <2>6, <2>7 DEF TokensInv, IInv, OthersType, Answers
  <2>9. kind' = "mail" => spent' = {}
    BY <1>2, <2>7 DEF TokensInv
  <2>10. TokensInv(r)'
    BY <2>1, <2>3, <2>7, <2>8, <2>9 DEF TokensInv, IInv, OthersType
  <2> QED BY <2>3, <2>4, <2>10 DEF TokenStep
<1>13. CASE TokenRefused(p)
  <2>1. o.at = "ask"
    BY <1>1, <1>13 DEF TokenRefused, At
  <2>2. PICK d \in Row : d = o.copy /\ d # NoRow
    BY <1>2, <2>1 DEF GoodRequest, Copying, GoodRow
  <2>3. PICK e \in Row : e = Refused(d) /\ e.refresh = d.refresh
    <3>1. Refused(d) \in Row /\ Refused(d).refresh = d.refresh
      BY DEF Refused, Row
    <3> QED BY <3>1
  <2>4. PICK r : r = [o EXCEPT !.at = "saveRefused", !.copy = e]
    OBVIOUS
  <2>5. r \in Request /\ r.at = "saveRefused" /\ r.copy = e
    BY <2>4 DEF Request
  <2>6. Goes(p, r) /\ UNCHANGED <<row, given, spent, kind>>
    BY <1>1, <1>13, <2>2, <2>3, <2>4 DEF TokenRefused, provider, world
  <2> QED BY <1>2, <1>5, <2>1, <2>2, <2>3, <2>5, <2>6 DEF TokensInv, Granting
<1>14. CASE SaveFresh(p)
  <2>1. o.at = "saveFresh" /\ o.answer \notin spent /\ o.copy # NoRow
    BY <1>1, <1>2, <1>14 DEF SaveFresh, At, TokensInv, GoodRequest, Copying
  <2>2. o.copy \in Row /\ (kind = "hmrc" => o.copy.provider = "hmrc")
    BY <1>2, <2>1 DEF GoodRequest, GoodRow
  <2>3. PICK d : d = Applied(o, o.copy.provider)
    OBVIOUS
  <2>4. kind = "hmrc" => d.refresh = o.answer
    BY <2>2, <2>3 DEF Applied, Row
  <2>5. row' = d /\ Goes(p, With(o)) /\ UNCHANGED <<given, spent, kind>>
    BY <1>1, <1>14, <2>3 DEF SaveFresh, provider, world
  <2> QED BY <1>6, <2>1, <2>4, <2>5
<1>15. CASE SaveRefused(p) \/ SaveCopy(p)
  <2>1. o.at \in {"saveRefused", "saveCopy"}
    BY <1>1, <1>15 DEF SaveRefused, SaveCopy, At
  <2>2. PICK d : d = o.copy
    OBVIOUS
  <2>3. d # NoRow => d.refresh \notin spent
    BY <1>2, <2>1, <2>2 DEF TokensInv
  <2>4. /\ row' = d /\ (Goes(p, Idle) \/ Goes(p, Without(o)))
        /\ UNCHANGED <<given, spent, kind>>
    BY <1>1, <1>15, <2>2 DEF SaveRefused, SaveCopy, provider, world
  <2> QED BY <1>6, <2>3, <2>4
<1>16. CASE RemoveRow(p)
  <2>1. PICK d : d = row'
    OBVIOUS
  <2>2. Goes(p, Idle) /\ UNCHANGED <<given, spent, kind>>
    BY <1>16 DEF RemoveRow, provider, world
  <2>3. kind = "hmrc" => row' = NoRow
    BY <1>16 DEF RemoveRow
  <2>4. TokensInv(Idle)'
    <3>1. CASE kind = "hmrc"
      <4>1. PICK e : e = NoRow
        OBVIOUS
      <4> QED BY <1>2, <1>3, <2>2, <2>3, <3>1, <4>1, TokensKept
    <3>2. CASE kind # "hmrc"
      BY <1>2, <2>2, <3>2 DEF TokensInv, IInv, OthersType
    <3> QED BY <3>1, <3>2
  <2> QED BY <1>3, <2>2, <2>4 DEF TokenStep
<1>17. CASE SendByMailbox(p) \/ SendBySmtp(p)
  <2>1. o.at \in {"mailbox", "smtp"}
    BY <1>1, <1>17 DEF SendByMailbox, SendBySmtp, At
  <2> QED BY <1>3, <1>5, <1>17, <2>1
          DEF SendByMailbox, SendBySmtp, Sent, provider, world
<1> QED BY <1>7, <1>8, <1>9, <1>10, <1>11, <1>12, <1>13, <1>14, <1>15, <1>16, <1>17
        DEF Continue

-----------------------------------------------------------------------------
(* The theorems.                                                           *)

\* The provider's moves leave the mails, the requests and the used tokens.
LEMMA OutsideKept ==
  ASSUME IInv, (\E n \in Held : Ages(n) \/ DatePasses(n) \/ Withdraw(n)) \/ UNCHANGED vars
  PROVE  UNCHANGED <<row, given, spent, kind, mails, req>>
  BY DEF Ages, DatePasses, Withdraw, vars, provider, world

\* Every mail is accounted for as long as no call fails, however many requests
\* run at once.
THEOREM MailsInvariance ==
  ASSUME IsFiniteSet(Requests), ~Faults
  PROVE  Spec => []MailsInv
<1>1. Init => MailsInv
  <2> SUFFICES ASSUME Init PROVE MailsInv
    OBVIOUS
  <2>1. {p \in Requests : req[p].mail} = {}
    BY DEF Init, Idle
  <2>2. Cardinality({p \in Requests : req[p].mail}) = 0
    BY <2>1, FS_EmptySet
  <2>3. mails.asked = 0 /\ mails.delivered = 0
    BY DEF Init
  <2>4. \A p \in Requests : MailPlace(req[p])
    BY DEF Init, Idle, MailPlace
  <2> QED BY <2>2, <2>3, <2>4 DEF MailsInv, MailedOnce
<1>2. IInv /\ MailsInv /\ [Next]_vars => MailsInv'
  <2> SUFFICES ASSUME IInv, MailsInv, [Next]_vars PROVE MailsInv'
    OBVIOUS
  <2>1. ASSUME NEW p \in Requests, Begin(p) \/ Continue(p) PROVE MailsInv'
    <3>1. MailPlace(req[p])
      BY DEF MailsInv
    <3>2. MailStep(p)
      BY <2>1, <3>1, BeginMails, ContinueMails
    <3> QED BY <3>2, MailStepCounts
  <2>2. CASE (\E n \in Held : Ages(n) \/ DatePasses(n) \/ Withdraw(n)) \/ UNCHANGED vars
    <3>1. mails' = mails /\ req' = req
      BY <2>2, OutsideKept
    <3> QED BY <3>1 DEF MailsInv, MailedOnce, MailPlace
  <2>3. ASSUME NEW p \in Requests PROVE ~(NotAnswered(p) \/ MailboxFails(p) \/ Stop(p))
    BY DEF NotAnswered, MailboxFails, Stop
  <2> QED BY <2>1, <2>2, <2>3 DEF Next
<1> QED BY <1>1, <1>2, Invariance, PTL DEF Spec

\* A mail to a client is delivered once, by the mailbox or in its place by the
\* system's SMTP, however the requests overlap (sendClientFacing).
THEOREM MailedCorrect ==
  ASSUME IsFiniteSet(Requests), ~Faults
  PROVE  Spec => []MailedOnce
<1>1. MailsInv => MailedOnce
  BY DEF MailsInv
<1> QED BY <1>1, MailsInvariance, PTL

\* One request at a time, whose answers are not lost: a token of HMRC's that was
\* used is replaced before anything else reads the row.
THEOREM TokensInvariance ==
  ASSUME NEW CONSTANT p, Requests = {p}, ~Faults
  PROVE  Spec => []TokensInv(req[p])
<1>1. IsFiniteSet(Requests)
  BY FS_Singleton
<1>2. Spec => []MailsInv
  BY <1>1, MailsInvariance
<1>3. Init => TokensInv(req[p])
  BY DEF Init, Idle, Granting, TokensInv
<1>4. IInv /\ MailsInv /\ TokensInv(req[p]) /\ [Next]_vars => TokensInv(req[p])'
  <2> SUFFICES ASSUME IInv, MailsInv, TokensInv(req[p]), [Next]_vars
               PROVE  TokensInv(req[p])'
    OBVIOUS
  <2>1. CASE Begin(p) \/ Continue(p)
    <3>1. MailPlace(req[p])
      BY DEF MailsInv
    <3>2. PICK r \in Request : Goes(p, r) /\ TokensInv(r)'
      BY <2>1, <3>1, BeginTokens, ContinueTokens DEF TokenStep
    <3>3. req'[p] = r
      BY <3>2 DEF Goes, IInv
    <3> QED BY <3>2, <3>3
  <2>2. CASE (\E n \in Held : Ages(n) \/ DatePasses(n) \/ Withdraw(n)) \/ UNCHANGED vars
    BY <2>2, OutsideKept DEF TokensInv
  <2>3. ~(NotAnswered(p) \/ MailboxFails(p) \/ Stop(p))
    BY DEF NotAnswered, MailboxFails, Stop
  <2> QED BY <2>1, <2>2, <2>3 DEF Next
<1> QED BY <1>2, <1>3, <1>4, Invariance, PTL DEF Spec

\* The row at rest never holds a refresh token that HMRC has used up.
THEOREM NewestCorrect ==
  ASSUME NEW CONSTANT p, Requests = {p}, ~Faults
  PROVE  Spec => []NewestKept
<1>1. TokensInv(req[p]) => NewestKept
  BY DEF TokensInv, NewestKept, At
<1> QED BY <1>1, TokensInvariance, PTL

=============================================================================
