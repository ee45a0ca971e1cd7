------------------------------ MODULE ChaseRun ------------------------------
(***************************************************************************)
(* The daily chase: every morning the scheduler walks a firm's authorised  *)
(* clients page by page, takes the quarter the calendar names, and mails   *)
(* each client that was not chased for it within the last days; agents     *)
(* chase by hand meanwhile (chase-scheduler, chase, chase-logs and         *)
(* chase-templates services).                                              *)
(*                                                                         *)
(* The scheduler has no browser behind it, so HMRC is never asked and the  *)
(* calendar decides.  A day is counted from 6 April of the first tax year, *)
(* of 365 days.                                                            *)
(***************************************************************************)
EXTENDS Integers, Sequences, FiniteSets

CONSTANTS Clients,     \* 1..n, in the order of their names
          Businesses,  \* business ids HMRC gives a client
          PageSize,    \* clients a page holds (5 in the code)
          FirstDay,    \* the days of the model
          LastDay,
          Faults       \* TRUE when users act during a run, the process may stop
                       \* and a mail may get lost

VARIABLES day,         \* today
          ran,         \* the scheduler has run today
          authorised,  \* clients with an authorisedAt
          logs,        \* the chase logs of the last days
          defaults,    \* number of times the default templates are there
          custom,      \* the firm has a template of its own
          run,         \* the scheduler's run
          seeding,     \* a user's list of templates found none and seeds them
          mails,       \* dispatches under way
          delivered    \* clients mailed, and for which quarter

vars == <<day, ran, authorised, logs, defaults, custom, run, seeding, mails, delivered>>

-----------------------------------------------------------------------------
(* The calendar (chase-template-vars.util.ts).  Quarter 4y + q is the qth  *)
(* of tax year y; the days are those of its end and of its deadline.       *)

Year == 365

Quarters == 1..8

YearOf(k) == (k - 1) \div 4

OfYear(k, days) == YearOf(k) * Year + days[((k - 1) % 4) + 1]

PeriodEnd(k) == OfYear(k, <<90, 182, 274, 364>>)
Deadline(k) == OfYear(k, <<123, 215, 307, 396>>)

DaysOverdue(k, d) == d - Deadline(k)
DaysSincePeriodEnd(k, d) == d - PeriodEnd(k)

\* taxYearStart: the year turns on 1 April, five days before the tax year.
TaxYearStart(d) == IF d % Year >= 360 THEN d \div Year + 1 ELSE d \div Year

OverdueWindow == 180

First(S) == CHOOSE k \in S : \A j \in S : k <= j

\* currentChaseQuarter: of this tax year's quarters the oldest overdue one, else
\* the oldest that has ended, else the next to end.
ChaseQuarter(d) ==
  LET year == {4 * TaxYearStart(d) + q : q \in 1..4}
      overdue == {k \in year : DaysOverdue(k, d) \in 1..OverdueWindow}
      ended == {k \in year : DaysSincePeriodEnd(k, d) >= 1 /\ DaysOverdue(k, d) <= 0}
      upcoming == {k \in year : DaysSincePeriodEnd(k, d) < 1}
  IN CASE overdue # {} -> First(overdue)
       [] overdue = {} /\ ended # {} -> First(ended)
       [] overdue = {} /\ ended = {} -> First(upcoming)

PERIOD_END_TRIGGER_DAYS == 1

\* The condition of processTenant.
Triggered(d) ==
  LET k == ChaseQuarter(d)
  IN DaysOverdue(k, d) >= 1 \/ DaysSincePeriodEnd(k, d) >= PERIOD_END_TRIGGER_DAYS

CHASE_COOLDOWN_DAYS == 6

-----------------------------------------------------------------------------
(* Types.                                                                  *)

Days == FirstDay..LastDay

NoBusiness == "none"

\* "nth" counts the chases of one key among the logs kept.
Log == [client   : Clients,
        business : Businesses \cup {NoBusiness},
        quarter  : Quarters,
        day      : Days,
        auto     : BOOLEAN,
        nth      : Nat]

Row == [client : Clients, recent : BOOLEAN]

Place == {"idle", "clients", "logs", "templates", "seed", "reread", "rows"}

\* "page" and "total" of the list, its clients, and the rows gathered.
Idle == [at |-> "idle", page |-> 0, total |-> 0, clients |-> {}, rows |-> <<>>, tpl |-> FALSE]

Init ==
  /\ day = FirstDay
  /\ ran = FALSE
  /\ authorised = {}
  /\ logs = {}
  /\ defaults = 0
  /\ custom = FALSE
  /\ run = Idle
  /\ seeding = FALSE
  /\ mails = {}
  /\ delivered = {}

-----------------------------------------------------------------------------
(* Helpers.                                                                *)

At(place) == run.at = place

\* The page of the clients sorted by name.
Page(page) ==
  {c \in authorised : Cardinality({b \in authorised : b < c}) \div PageSize = page - 1}

\* An empty list has one page.
Pages ==
  IF authorised = {} THEN 1 ELSE (Cardinality(authorised) + PageSize - 1) \div PageSize

\* safePage: a page past the last is the last.
SafePage(page) == IF page <= Pages THEN page ELSE Pages

SameKey(l, c, b, k) == l.client = c /\ l.business = b /\ l.quarter = k

\* Mutant: only today's chases are looked up.
LastToday(c, b, k) == {l \in logs : SameKey(l, c, b, k) /\ l.day = day}

\* summaryForPeriods: an empty businessId matches only logs without one.
LastChases(c, b, k) == {l \in logs : SameKey(l, c, b, k)}

NewLog(c, b, k, auto) ==
  [client |-> c, business |-> b, quarter |-> k, day |-> day, auto |-> auto,
   nth |-> 1 + Cardinality({l \in logs : SameKey(l, c, b, k)})]

\* ChaseLogsService.create saves the log as sent, and dispatches without waiting.
Chased(c, b, k, auto) ==
  /\ logs' = logs \cup {NewLog(c, b, k, auto)}
  /\ mails' = mails \cup {<<c, k>>}

-----------------------------------------------------------------------------
(* The scheduler's run.                                                    *)

\* runDailyChase, of one firm.
StartRun ==
  /\ At("idle")
  /\ Faults \/ ~seeding
  /\ run' = [Idle EXCEPT !.at = "clients", !.page = 1]
  /\ UNCHANGED <<day, ran, authorised, logs, defaults, custom, seeding, mails, delivered>>

\* listNeedsChasing: the clients; the first page says how many pages to read.
ReadClients ==
  /\ At("clients")
  /\ run' = [run EXCEPT !.at = "logs",
                        !.clients = Page(SafePage(run.page)),
                        !.total = IF run.page = 1 THEN Pages ELSE @]
  /\ UNCHANGED <<day, ran, authorised, logs, defaults, custom, seeding, mails, delivered>>

\* The scheduler goes on with the templates, unless nobody needs chasing.
AfterPages(r) ==
  IF r.page < r.total THEN [r EXCEPT !.at = "clients", !.page = @ + 1]
  ELSE IF r.rows = <<>> THEN Idle ELSE [r EXCEPT !.at = "templates"]

\* The rows of the page; the order among them is of no consequence.
ReadLogs ==
  LET row(c) == [client |-> c, recent |-> LastChases(c, NoBusiness, ChaseQuarter(day)) # {}]
      rows == [i \in 1..Cardinality(run.clients) |->
                 row(CHOOSE c \in run.clients :
                       Cardinality({b \in run.clients : b < c}) = i - 1)]
      after == AfterPages([run EXCEPT !.rows = @ \o rows])
  IN /\ At("logs")
     /\ run' = after
     /\ ran' = (ran \/ after = Idle)
     /\ UNCHANGED <<day, authorised, logs, defaults, custom, seeding, mails, delivered>>

\* ChaseTemplatesService.list: the defaults are seeded when there is no template.
ReadTemplates ==
  /\ At("templates")
  /\ run' = IF defaults = 0 /\ ~custom
              THEN [run EXCEPT !.at = "seed"]
              ELSE [run EXCEPT !.at = "rows", !.tpl = (defaults > 0)]
  /\ UNCHANGED <<day, ran, authorised, logs, defaults, custom, seeding, mails, delivered>>

\* seedDefaults.  Two lists at once seed twice.
Seed ==
  /\ At("seed")
  /\ defaults' = defaults + 1
  /\ run' = [run EXCEPT !.at = "reread"]
  /\ UNCHANGED <<day, ran, authorised, logs, custom, seeding, mails, delivered>>

ReadSeeded ==
  /\ At("reread")
  /\ run' = [run EXCEPT !.at = "rows", !.tpl = (defaults > 0)]
  /\ UNCHANGED <<day, ran, authorised, logs, defaults, custom, seeding, mails, delivered>>

NextRow == IF Len(run.rows) = 1 THEN Idle ELSE [run EXCEPT !.rows = Tail(@)]

\* Mutant: a quarter is chased once it is overdue.
DueWhenOverdue(row) ==
  DaysOverdue(ChaseQuarter(day), day) >= 1 /\ ~row.recent /\ run.tpl

\* A row is chased when its period has ended, it has no recent chase and there is
\* a default template.
Due(row) == Triggered(day) /\ ~row.recent /\ run.tpl

ChaseRow ==
  LET row == Head(run.rows)
  IN /\ At("rows")
     /\ IF Due(row)
          THEN Chased(row.client, NoBusiness, ChaseQuarter(day), TRUE)
          ELSE UNCHANGED <<logs, mails>>
     /\ run' = NextRow
     /\ ran' = (ran \/ NextRow = Idle)
     /\ UNCHANGED <<day, authorised, defaults, custom, seeding, delivered>>

\* Saving the log fails: the row is skipped.
SkipRow ==
  /\ Faults
  /\ At("rows")
  /\ run' = NextRow
  /\ ran' = (ran \/ NextRow = Idle)
  /\ UNCHANGED <<day, authorised, logs, defaults, custom, seeding, mails, delivered>>

-----------------------------------------------------------------------------
(* The dispatches.                                                         *)

\* dispatch
Deliver(m) ==
  /\ m \in mails
  /\ mails' = mails \ {m}
  /\ delivered' = delivered \cup {m}
  /\ UNCHANGED <<day, ran, authorised, logs, defaults, custom, run, seeding>>

\* The client has no address, or the mail fails: an entry of the server's log.
LoseMail(m) ==
  /\ Faults
  /\ m \in mails
  /\ mails' = mails \ {m}
  /\ UNCHANGED <<day, ran, authorised, logs, defaults, custom, run, seeding, delivered>>

\* The process stops: the run and the dispatches are lost.
Stop ==
  /\ Faults
  /\ run' = Idle
  /\ ran' = TRUE
  /\ seeding' = FALSE
  /\ mails' = {}
  /\ UNCHANGED <<day, authorised, logs, defaults, custom, delivered>>

-----------------------------------------------------------------------------
(* The firm.                                                               *)

\* Bound: agents chase for the calendar's quarter and for those that ended within
\* the overdue window, and once per key as long as its log is kept.
ChasedByHand(c, b, k) ==
  /\ k = ChaseQuarter(day) \/ DaysSincePeriodEnd(k, day) \in 1..OverdueWindow
  /\ LastChases(c, b, k) = {}

\* Agents chase by hand, whatever client, business and period they send:
\* create looks nothing up.
Chase(c, b, k) ==
  /\ ChasedByHand(c, b, k)
  /\ Chased(c, b, k, FALSE)
  /\ UNCHANGED <<day, ran, authorised, defaults, custom, run, seeding, delivered>>

\* The templates' page lists them, which seeds the defaults.
ListTemplates ==
  /\ ~seeding
  /\ defaults = 0
  /\ ~custom
  /\ seeding' = TRUE
  /\ UNCHANGED <<day, ran, authorised, logs, defaults, custom, run, mails, delivered>>

SeedListed ==
  /\ seeding
  /\ defaults' = defaults + 1
  /\ seeding' = FALSE
  /\ UNCHANGED <<day, ran, authorised, logs, custom, run, mails, delivered>>

\* ChaseTemplatesService.create
CreateTemplate ==
  /\ ~custom
  /\ custom' = TRUE
  /\ UNCHANGED <<day, ran, authorised, logs, defaults, run, seeding, mails, delivered>>

\* ChaseTemplatesService.delete; the defaults are deleted like any other.
DeleteTemplate ==
  /\ \/ custom /\ custom' = FALSE /\ UNCHANGED defaults
     \/ defaults > 0 /\ defaults' = defaults - 1 /\ UNCHANGED custom
  /\ UNCHANGED <<day, ran, authorised, logs, run, seeding, mails, delivered>>

\* A client accepts the firm's invitation (ClientRow).
Authorise(c) ==
  /\ c \notin authorised
  /\ authorised' = authorised \cup {c}
  /\ UNCHANGED <<day, ran, logs, defaults, custom, run, seeding, mails, delivered>>

\* A log older than the cooldown is forgotten: no lookup tells it from none.
\* Bound: a run and its mails take less than a day.
Tick ==
  /\ day < LastDay
  /\ ran
  /\ At("idle")
  /\ mails = {}
  /\ day' = day + 1
  /\ ran' = FALSE
  /\ logs' = {l \in logs : day + 1 - l.day < CHASE_COOLDOWN_DAYS}
  /\ UNCHANGED <<authorised, defaults, custom, run, seeding, mails, delivered>>

-----------------------------------------------------------------------------
(* The system.                                                             *)

Run ==
  \/ StartRun
  \/ ReadClients
  \/ ReadLogs
  \/ ReadTemplates
  \/ Seed
  \/ ReadSeeded
  \/ ChaseRow

Dispatch == \E m \in mails : Deliver(m) \/ LoseMail(m)

Firm ==
  \/ \E c \in Clients :
       \/ Authorise(c)
       \/ \E b \in Businesses \cup {NoBusiness}, k \in Quarters : Chase(c, b, k)
  \/ ListTemplates
  \/ SeedListed
  \/ CreateTemplate
  \/ DeleteTemplate

\* Without faults the firm waits for the run to end.
Next ==
  \/ Run
  \/ SkipRow
  \/ Dispatch
  \/ Stop
  \/ (Faults \/ At("idle")) /\ Firm
  \/ Tick

\* What is under way goes on; the clock and the users need not.
Fairness == WF_vars(Run) /\ WF_vars(SeedListed) /\ WF_vars(\E m \in mails : Deliver(m))

Spec == Init /\ [][Next]_vars

FairSpec == Spec /\ Fairness

-----------------------------------------------------------------------------
(* Properties.                                                             *)

\* Every variable holds a value of its type.
TypeOK ==
  /\ day \in Days
  /\ ran \in BOOLEAN
  /\ authorised \subseteq Clients
  /\ logs \subseteq Log
  /\ defaults \in Nat
  /\ custom \in BOOLEAN
  /\ run \in [at : Place, page : Nat, total : Nat, clients : SUBSET Clients,
              rows : Seq(Row), tpl : BOOLEAN]
  /\ seeding \in BOOLEAN
  /\ mails \subseteq Clients \X Quarters
  /\ delivered \subseteq Clients \X Quarters

\* The scheduler never chases a client for a quarter it was chased for, under the
\* same key, within the cooldown, however often it runs, unless a client
\* authorised meanwhile shifts the pages or a chase by hand overlaps the run.
ChaseSpaced == \A l \in logs : l.auto => l.nth = 1

\* A client authorised before the day's run gets a mail about the calendar's
\* quarter once it has ended, unless the firm has no default template left.
ChaseArrives ==
  \A c \in Clients :
    At("idle") /\ ~ran /\ c \in authorised /\ Triggered(day)
    ~> <<c, ChaseQuarter(day)>> \in delivered \/ defaults = 0

\* When the day's run is over, a client it chased was chased for every quarter that
\* is overdue, from the first day after its deadline (chase-scheduler.service.ts:51,
\* "Overdue (daysOverdue >= 1): send on day 1").
OverdueChased ==
  \A l \in logs :
    l.auto /\ At("idle")
           => \A k \in Quarters :
                DaysOverdue(k, l.day) \in 1..OverdueWindow
                => \E m \in logs : m.client = l.client /\ m.quarter = k
=============================================================================
