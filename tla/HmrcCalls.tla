------------------------------ MODULE HmrcCalls -----------------------------
(***************************************************************************)
(* The firm's requests to HMRC about one authorised client: the figures it *)
(* files for each business, the debts coded out through the tax code, the  *)
(* obligations and the account (clients.service.ts over hmrc-api.client).  *)
(*                                                                         *)
(* A request is the list of its steps, of which one is taken between two   *)
(* awaits.  HMRC is external; it may be busy, refuse, or answer too late.  *)
(***************************************************************************)
EXTENDS Naturals, Sequences, FiniteSets

CONSTANTS None,        \* for no value
          Requests,    \* request slots: how many run at once
          Ops,         \* the operations users call
          Amounts,     \* amounts of a figure
          Huge,        \* the amount HMRC's sandbox puts for none
          Sandbox,     \* TRUE in HMRC's sandbox
          MaxRetries,  \* retries of a call to a busy HMRC (3 in the code)
          MaxWrites,   \* bound on the figures filed
          Faults       \* TRUE when HMRC may fail

VARIABLES held,        \* what HMRC holds, by resource
          filed,       \* number of figures filed
          authorised,  \* the client has authorised the firm
          connected,   \* the firm's HMRC connection gives a token
          scope,       \* ... and that token may file
          req,         \* the requests in progress
          ans          \* the answer to the latest request of a slot

vars == <<held, filed, authorised, connected, scope, req, ans>>

-----------------------------------------------------------------------------
(* The steps of a request.                                                 *)

Businesses == {"se", "uk"}

\* What HMRC holds that the firm's requests change: the figures of a business, the
\* debts coded out, and whether the client opted out of coding out.
Resources == Businesses \cup {"codes", "opted"}

\* Reads of what only HMRC changes.
Others == {"list", "details", "annual", "obligations", "account", "itsa", "year"}

Check(what) == [do |-> what, of |-> "none", how |-> "none"]
Read(of, how) == [do |-> "read", of |-> of, how |-> how]
Write(of) == [do |-> "write", of |-> of, how |-> "none"]

Gate == <<Check("gate"), Check("token")>>

Listed == Gate \o <<Read("list", "strict")>>

\* The business is a self-employment, or the request is refused.
SeListed == Listed \o <<Check("valid")>>

SeRead == SeListed \o <<Read("se", "optional")>>

SePut == SeListed \o <<Check("scope"), Check("valid"), Write("se")>> \o SeRead

\* ... is a property in the UK.
UkListed == Listed \o <<Check("valid")>>

UkRead == UkListed \o <<Read("uk", "property")>>

UkPut == UkListed \o <<Check("scope"), Check("valid"), Write("uk")>> \o UkRead

UkFigures == UkListed \o <<Read("uk", "property"), Read("annual", "property")>>

\* The tax years before 2025-26 have their figures by period.
LegacyUkFigures ==
  UkListed \o <<Read("uk", "periods"), Read("uk", "versions"), Read("annual", "property")>>

Summary == Listed \o <<Check("each")>>

\* Tax years from 2025-26 on have one cumulative summary.
Cumulative == <<Read("se", "versions"), Read("uk", "versions")>>

\* Bound: one period of a business, listed and then read.
Legacy == <<Read("se", "periods"), Read("se", "versions"),
            Read("uk", "periods"), Read("uk", "versions")>>

SubmittedFigures == Summary \o Listed \o Cumulative

LegacyFigures == Summary \o Listed \o Legacy

Obligations == Gate \o <<Check("valid"), Read("obligations", "strict")>>

Crystallisation == Gate \o <<Read("obligations", "strict")>>

Balance == Gate \o <<Check("valid"), Read("account", "strict")>>

Payments == Gate \o <<Read("account", "strict")>>

Charges == <<Check("valid")>> \o Payments

Penalties == Payments

CodesRead == <<Check("valid")>> \o Gate \o <<Read("codes", "strict")>>

CodesPut == <<Check("valid")>> \o Gate \o <<Write("codes")>> \o CodesRead

CodesDelete == <<Check("valid")>> \o Gate \o <<Write("codes")>>

StatusRead == <<Check("valid")>> \o Gate \o <<Read("opted", "strict")>>

Opt == <<Check("valid")>> \o Gate \o <<Write("opted")>> \o StatusRead

ItsaStatus == Gate \o <<Read("itsa", "strict")>>

Details == Gate \o <<Read("details", "strict")>>

\* The client's portal and the lists of clients have no error to show: whatever is
\* missing or fails, they are answered with a message, or an empty list.
Shy(of) == <<[Check("gate") EXCEPT !.how = "shy"], [Check("token") EXCEPT !.how = "shy"],
             Read(of, "shy")>>

Sources == Shy("list")

PortalObligations == Shy("obligations")

PortalStatus == Shy("itsa")

PortalSubmissions == Shy("year")

PortalLiabilities == Shy("account")

Steps(op) ==
  CASE op = "se read"         -> SeRead
    [] op = "se put"          -> SePut
    [] op = "uk read"         -> UkRead
    [] op = "uk put"          -> UkPut
    [] op = "uk figures"      -> UkFigures
    [] op = "legacy uk figures" -> LegacyUkFigures
    [] op = "summary"         -> Summary
    [] op = "figures"         -> SubmittedFigures
    [] op = "legacy figures"  -> LegacyFigures
    [] op = "obligations"     -> Obligations
    [] op = "crystallisation" -> Crystallisation
    [] op = "balance"         -> Balance
    [] op = "payments"        -> Payments
    [] op = "charges"         -> Charges
    [] op = "penalties"       -> Penalties
    [] op = "codes read"      -> CodesRead
    [] op = "codes put"       -> CodesPut
    [] op = "codes delete"    -> CodesDelete
    [] op = "status"          -> StatusRead
    [] op = "opt"             -> Opt
    [] op = "itsa status"     -> ItsaStatus
    [] op = "businesses"      -> Listed
    [] op = "details"         -> Details
    [] op = "sources"         -> Sources
    [] op = "portal obligations" -> PortalObligations
    [] op = "portal status"      -> PortalStatus
    [] op = "portal submissions" -> PortalSubmissions
    [] op = "portal liabilities" -> PortalLiabilities

-----------------------------------------------------------------------------
(* Types.                                                                  *)

Value == Amounts \cup {None}

Totals == [Businesses -> Value]

NoTotals == [b \in Businesses |-> None]

\* "value" is what the request writes, "data" the figures or debts it read last, "todo"
\* the businesses whose summaries are under way, "biss" and "periods" what it found of
\* each; "unsummed" and "unread" are the businesses whose summary, and whose figures,
\* were lost to calls that failed without failing the request.
Idle == [op |-> None, steps |-> <<>>, value |-> None, data |-> None, tries |-> 0,
         version |-> 1, todo |-> {}, biss |-> NoTotals, periods |-> NoTotals,
         unsummed |-> {}, unread |-> {}]

\* "total" is the year's total, "held" what HMRC held when it answered the last read.
NoAnswer == [op |-> None, source |-> None, value |-> None, wanted |-> None,
             biss |-> NoTotals, periods |-> NoTotals, total |-> 0,
             unsummed |-> {}, unread |-> {}, held |-> NoTotals]

Init ==
  /\ held = [r \in Resources |-> None]
  /\ filed = 0
  /\ authorised = FALSE
  /\ connected = FALSE
  /\ scope = FALSE
  /\ req = [p \in Requests |-> Idle]
  /\ ans = [p \in Requests |-> NoAnswer]

-----------------------------------------------------------------------------
(* Helpers.                                                                *)

Busy(p) == req[p].steps # <<>>

Now(p) == Head(req[p].steps)

\* sanitizeHmrcAmount and the "?? 0" after it.
Shown(v) == IF v = Huge THEN 0 ELSE v

\* The operations that answer with the figures of a business.
FiguresOf(b) == IF b = "se" THEN {"se read", "se put"} ELSE {"uk read", "uk put"}

Figures == UNION {FiguresOf(b) : b \in Businesses}

\* What an answer calls its data.  The sandbox answers for a property that has nothing
\* but zeros, too, when HMRC gives no date of submission with them.
SourcesOf(op, data) ==
  IF op \notin Figures THEN {"hmrc"}
  ELSE IF data = None THEN {IF Sandbox THEN "test" ELSE "empty"}
  ELSE IF Sandbox /\ op \in FiguresOf("uk") /\ Shown(data) = 0 THEN {"test", "hmrc"}
  ELSE {"hmrc"}

\* Figures are shown without the sandbox's amount for none, debts as they are.
ValueShown(op, v) == IF op \in Figures /\ v # None THEN Shown(v) ELSE v

\* The sum of what was found of the businesses.
Total(found) ==
  LET of(b) == IF found[b] = None THEN 0 ELSE found[b]
  IN of("se") + of("uk")

\* Without a summary of any business the totals are those of the periods.
TotalOf(r) == Total(IF r.biss = NoTotals THEN r.periods ELSE r.biss)

Answer(r, source) ==
  [op       |-> r.op,
   source   |-> source,
   value    |-> IF source = "hmrc" THEN ValueShown(r.op, r.data) ELSE None,
   wanted   |-> r.value,
   biss     |-> r.biss,
   periods  |-> r.periods,
   total    |-> TotalOf(r),
   unsummed |-> r.unsummed,
   unread   |-> r.unread,
   held     |-> [b \in Businesses |-> held[b]]]

\* The request is answered with an error, or a message in its place.
Fails(p) ==
  /\ req' = [req EXCEPT ![p] = Idle]
  /\ ans' = [ans EXCEPT ![p] =
               [NoAnswer EXCEPT !.op = req[p].op,
                                !.source = IF Now(p).how = "shy" THEN "message"
                                                                  ELSE "error"]]

\* The request goes on with its steps, or has its answer.
GoesOn(p, r) ==
  IF r.steps = <<>>
    THEN /\ req' = [req EXCEPT ![p] = Idle]
         /\ \E source \in SourcesOf(r.op, r.data) :
              ans' = [ans EXCEPT ![p] = Answer(r, source)]
    ELSE /\ req' = [req EXCEPT ![p] = r]
         /\ UNCHANGED ans

Done(r) == [r EXCEPT !.steps = Tail(@), !.tries = 0, !.version = 1]

-----------------------------------------------------------------------------
(* The steps.                                                              *)

Begin(p, op, v) ==
  /\ ~Busy(p)
  /\ req' = [req EXCEPT ![p] = [Idle EXCEPT !.op = op, !.steps = Steps(op), !.value = v]]
  /\ ans' = [ans EXCEPT ![p] = NoAnswer]
  /\ UNCHANGED <<held, filed, authorised, connected, scope>>

\* ensureClientAuthorisedForMtd, getValidAccessToken and the filing scope.
Holds(what) ==
  CASE what = "gate"  -> authorised
    [] what = "token" -> connected
    [] what = "scope" -> connected /\ scope

PassCheck(p) ==
  /\ Busy(p)
  /\ Now(p).do \in {"gate", "token", "scope"}
  /\ IF Holds(Now(p).do) THEN GoesOn(p, Done(req[p])) ELSE Fails(p)
  /\ UNCHANGED <<held, filed, authorised, connected, scope>>

\* The input of the request is valid, or is not.
Validate(p) ==
  /\ Busy(p)
  /\ Now(p).do = "valid"
  /\ GoesOn(p, Done(req[p])) \/ Fails(p)
  /\ UNCHANGED <<held, filed, authorised, connected, scope>>

\* What a request finds at HMRC, which has something to say of the others, no
\* matter what; the sandbox tells nothing of the debts that were
\* coded out, whose read does not ask for its stateful store.
Found(of) ==
  IF of \in Others THEN {CHOOSE v \in Amounts : TRUE}
  ELSE IF of = "codes" /\ Sandbox THEN Value ELSE {held[of]}

\* Summaries of periods without amounts are left out.
Kept(v) == IF v = None \/ Shown(v) = 0 THEN None ELSE Shown(v)

\* Two versions of HMRC's interface are tried for periods.
Again(r) == Head(r.steps).how \in {"periods", "versions"} /\ r.version = 1

\* The request with the answer to its read.  A period's list only counts when it is
\* empty, as then there is no period to read.
WithData(r, v) ==
  LET of == Head(r.steps).of
      how == Head(r.steps).how
  IN CASE v = None /\ Again(r)          -> [r EXCEPT !.version = 2, !.tries = 0]
       [] how = "periods" /\ v = None /\ ~Again(r) -> Done(Done(r))
       [] how = "periods" /\ v # None   -> Done(r)
       [] how = "versions" /\ ~(v = None /\ Again(r)) -> Done([r EXCEPT !.periods[of] = Kept(v)])
       [] how \notin {"periods", "versions"} ->
            Done(IF of \in Others THEN r ELSE [r EXCEPT !.data = v])

\* Mutant: the property reads use fetchHmrcOptionalJson too.
ForgivesProperty(how) == how \in {"optional", "versions", "periods", "property"}

\* fetchHmrcOptionalJson answers any failure like no data.
Forgives(how) == how \in {"optional", "versions", "periods"}

\* A call that failed for good, like no data; without a version left to try, what
\* HMRC holds of the business is lost to this request.
Unread(r) == IF Again(r) THEN r ELSE [r EXCEPT !.unread = @ \cup {Head(r.steps).of}]

FailedRead(p) ==
  IF Forgives(Now(p).how) THEN GoesOn(p, WithData(Unread(req[p]), None)) ELSE Fails(p)

\* HMRC answers a read; that it holds nothing is a 404, an error to a strict one.
ReadAnswered(p) ==
  /\ Busy(p)
  /\ Now(p).do = "read"
  /\ \E v \in Found(Now(p).of) :
       IF v = None /\ Now(p).how \in {"strict", "shy"}
         THEN Fails(p)
         ELSE GoesOn(p, WithData(req[p], v))
  /\ UNCHANGED <<held, filed, authorised, connected, scope>>

ReadFails(p) ==
  /\ Faults
  /\ Busy(p)
  /\ Now(p).do = "read"
  /\ FailedRead(p)
  /\ UNCHANGED <<held, filed, authorised, connected, scope>>

\* HMRC takes what the request puts.  Bound: MaxWrites.
Written(p) == [held EXCEPT ![Now(p).of] = req[p].value]

WriteAnswered(p) ==
  /\ Busy(p)
  /\ Now(p).do = "write"
  /\ filed < MaxWrites
  /\ filed' = filed + 1
  /\ held' = Written(p)
  /\ GoesOn(p, Done(req[p]))
  /\ UNCHANGED <<authorised, connected, scope>>

\* HMRC refuses, or the connection breaks before or after HMRC took the figures.
WriteFails(p) ==
  /\ Faults
  /\ Busy(p)
  /\ Now(p).do = "write"
  /\ \/ UNCHANGED <<held, filed>>
     \/ filed < MaxWrites /\ held' = Written(p) /\ filed' = filed + 1
  /\ Fails(p)
  /\ UNCHANGED <<authorised, connected, scope>>

\* Mutant: the last retry is followed by one more.
RetriesLeftAfterLast(p) == req[p].tries <= MaxRetries

RetriesLeft(p) == req[p].tries < MaxRetries

\* retryWithBackoff: a busy HMRC is asked again, a write too, until the retries
\* are used up and the answer stands.
HmrcBusy(p) ==
  /\ Faults
  /\ Busy(p)
  /\ Now(p).do \in {"read", "write"}
  /\ IF RetriesLeft(p)
       THEN req' = [req EXCEPT ![p].tries = @ + 1] /\ UNCHANGED ans
       ELSE IF Now(p).do = "read" THEN FailedRead(p) ELSE Fails(p)
  /\ UNCHANGED <<held, filed, authorised, connected, scope>>

\* getIncomeSummary asks for the summaries of all businesses at once, and adds up anew.
AskSummaries(p) ==
  /\ Busy(p)
  /\ Now(p).do = "each"
  /\ req[p].todo = {}
  /\ req' = [req EXCEPT ![p].todo = Businesses, ![p].biss = NoTotals, ![p].unsummed = {}]
  /\ UNCHANGED <<held, filed, authorised, connected, scope, ans>>

AfterSummary(r, b) ==
  IF r.todo = {b} THEN Done([r EXCEPT !.todo = {}]) ELSE [r EXCEPT !.todo = @ \ {b}]

WithSummary(r, b) == [r EXCEPT !.biss[b] = held[b]]

\* The answers come in any order.
SummaryAnswered(p, b) ==
  /\ Busy(p)
  /\ b \in req[p].todo
  /\ GoesOn(p, AfterSummary(WithSummary(req[p], b), b))
  /\ UNCHANGED <<held, filed, authorised, connected, scope>>

\* A summary that fails is left out, whatever the failure.
SummaryFails(p, b) ==
  /\ Faults
  /\ Busy(p)
  /\ b \in req[p].todo
  /\ GoesOn(p, AfterSummary([req[p] EXCEPT !.unsummed = @ \cup {b}], b))
  /\ UNCHANGED <<held, filed, authorised, connected, scope>>

-----------------------------------------------------------------------------
(* What the rest of the system does.                                       *)

\* ClientRow; an authorisation is never taken back.
Authorise ==
  /\ ~authorised
  /\ authorised' = TRUE
  /\ UNCHANGED <<held, filed, connected, scope, req, ans>>

\* OAuthConnection.
Connect ==
  /\ connected' = ~connected
  /\ scope' \in BOOLEAN
  /\ UNCHANGED <<held, filed, authorised, req, ans>>

\* Other software files figures of the client, while no request runs.
FileElsewhere(b, v) ==
  /\ \A p \in Requests : ~Busy(p)
  /\ filed < MaxWrites
  /\ filed' = filed + 1
  /\ held' = [held EXCEPT ![b] = v]
  /\ UNCHANGED <<authorised, connected, scope, req, ans>>

-----------------------------------------------------------------------------
(* The system.                                                             *)

Writes == {"se put", "uk put", "codes put", "opt"}

Start(p) ==
  \E op \in Ops :
    \/ op \in Writes /\ \E v \in Amounts : Begin(p, op, v)
    \/ op \notin Writes /\ Begin(p, op, None)

Continue(p) ==
  \/ PassCheck(p)
  \/ Validate(p)
  \/ ReadAnswered(p)
  \/ ReadFails(p)
  \/ WriteAnswered(p)
  \/ WriteFails(p)
  \/ HmrcBusy(p)
  \/ AskSummaries(p)
  \/ \E b \in Businesses : SummaryAnswered(p, b) \/ SummaryFails(p, b)

Elsewhere ==
  \/ Authorise
  \/ Connect
  \/ \E b \in Businesses, v \in Amounts : FileElsewhere(b, v)

Next == Elsewhere \/ \E p \in Requests : Start(p) \/ Continue(p)

Spec == Init /\ [][Next]_vars

-----------------------------------------------------------------------------
(* Properties.                                                             *)

Step == [do  : {"gate", "token", "scope", "valid", "each", "read", "write"},
         of  : Resources \cup Others \cup {"none"},
         how : {"none", "shy", "strict", "optional", "property", "versions", "periods"}]

Request == [op : Ops \cup {None}, steps : Seq(Step),
            value : Value, data : Value, tries : 0..MaxRetries, version : 1..2,
            todo : SUBSET Businesses, biss : Totals, periods : Totals,
            unsummed : SUBSET Businesses, unread : SUBSET Businesses]

AnAnswer == [op : Ops \cup {None}, source : {None, "hmrc", "empty", "test", "error", "message"},
             value : Value \cup {0}, wanted : Value, biss : Totals, periods : Totals,
             total : Nat,
             unsummed : SUBSET Businesses, unread : SUBSET Businesses, held : Totals]

\* Every variable holds a value of its type.
TypeOK ==
  /\ held \in [Resources -> Value]
  /\ filed \in 0..MaxWrites
  /\ {authorised, connected, scope} \subseteq BOOLEAN
  /\ req \in [Requests -> Request]
  /\ ans \in [Requests -> AnAnswer]

\* A property is answered as empty only when HMRC holds nothing of it, whatever fails
\* (fetchHmrcPropertyOptionalJson), and with the sandbox's test figures only when what
\* is held is shown as 0.  For a self-employment both also come of a read that was lost
\* (fetchHmrcOptionalJson), and of nothing else.
EmptyIsEmpty(a) ==
  /\ a.op \in FiguresOf("uk") /\ a.source = "empty" => a.held["uk"] = None
  /\ a.op \in FiguresOf("uk") /\ a.source = "test" =>
       a.held["uk"] = None \/ Shown(a.held["uk"]) = 0
  /\ a.op \in FiguresOf("se") /\ a.source \in {"empty", "test"} =>
       a.held["se"] = None \/ "se" \in a.unread

\* Figures given as HMRC's are those that HMRC holds.
FiguresHeld(a) ==
  \A b \in Businesses :
    a.op \in FiguresOf(b) /\ a.source = "hmrc" =>
      a.held[b] # None /\ a.value = Shown(a.held[b])

\* After a put that is answered without an error, once or again after "busy", HMRC holds
\* the figures it put, be the answer "empty" or not.
PutHeld(a) ==
  \A b \in Businesses :
    a.op \in FiguresOf(b) \cap Writes /\ a.source \in {"hmrc", "empty", "test"} =>
      a.held[b] = a.wanted

\* The answer to a coding-out write, whose read has no "empty", is what was written;
\* the sandbox's debts are read from another store (getCodingOutUnderpayments).
CodingShown(a) ==
  a.op \in Writes \ Figures /\ a.source = "hmrc" /\ ~(Sandbox /\ a.op = "codes put") =>
    a.value = a.wanted

\* Totals: what is shown of a business is what HMRC holds of it, unless the calls about
\* that very business failed; a failure of one takes nothing from the other.  The year's
\* total is HMRC's when no summary failed, and the periods' when all of them did.
TotalsComplete(a) ==
  a.op \in {"summary", "figures", "legacy figures"} /\ a.source = "hmrc" =>
    /\ \A b \in Businesses \ a.unsummed : a.biss[b] = a.held[b]
    /\ a.unsummed = {} => a.total = Total(a.held)
    /\ a.op # "summary" =>
         /\ \A b \in Businesses \ a.unread : a.periods[b] = Kept(a.held[b])
         /\ a.unsummed = Businesses /\ a.unread = {} =>
              a.total = Total([b \in Businesses |-> Kept(a.held[b])])

\* As long as requests run one at a time, what the firm is answered about the figures of
\* a business, its totals and its coded-out debts is what HMRC held when it answered
\* the last read, with the exceptions above and no others.
AnswersTrue ==
  \A p \in Requests :
    /\ EmptyIsEmpty(ans[p])
    /\ FiguresHeld(ans[p])
    /\ PutHeld(ans[p])
    /\ CodingShown(ans[p])
    /\ TotalsComplete(ans[p])
=============================================================================
