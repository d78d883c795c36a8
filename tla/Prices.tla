------------------------------- MODULE Prices -------------------------------
(***************************************************************************)
(* The price index: live sales (queries/live-sales.ts), user reports and   *)
(* moderation (queries/pricing.ts, queries/moderation.ts, routes/admin.ts),*)
(* pulls taken from the breaks, and the nightly job that turns them into   *)
(* observations and publishes a day (jobs.ts, rollupJob), with the         *)
(* arithmetic of packages/core/src/pricing.ts.                             *)
(*                                                                         *)
(* One printing in one condition and currency: other groups never mix with *)
(* it.  Time is a clock of DayLength ticks a day; row timestamps that only *)
(* say "set or not" are Booleans.  The nightly job is a process with a step*)
(* per statement, and a second one may run beside it: the server's timer   *)
(* and the workstation command run the same code.                          *)
(*                                                                         *)
(* The count and the insert of a report or a sale are one step here; that  *)
(* racing requests pass a counted cap is checked in Breaks.                *)
(***************************************************************************)
EXTENDS Integers, FiniteSets, FiniteSetsExt, Sequences

CONSTANTS
    Sale, Report, Pull,     \* ids of live sales, price reports and logged pulls
    FreeText,               \* the sales that name no catalogued card
    Job, Server,            \* concurrent runs of the rollup job; the server's own
    Cents, Typical,         \* prices a sale is made at; those of reports and pulls
    DayLength, MaxTime,     \* ticks in a day; bound on the clock
    MinObservations,        \* MIN_OBSERVATIONS
    BatchSize,              \* the batch ingestLiveSales reads
    MaxPending, MaxPerDay,  \* MAX_PENDING_REPORTS_PER_USER, MAX_LIVE_SALES_PER_DAY
    None, Deleted           \* SQL null; a row that has been deleted

ASSUME PricesAssumption ==
    /\ Server \in Job
    /\ FreeText \subseteq Sale /\ Cents \subseteq Nat /\ Typical \subseteq Cents
    /\ DayLength \in Nat \ {0} /\ MaxTime \in Nat
    /\ MinObservations \in Nat \ {0} /\ BatchSize \in Nat \ {0}
    /\ Sale \cap Report = {} /\ Sale \cap Pull = {} /\ Report \cap Pull = {}

VARIABLES
    now,        \* the clock
    sales,      \* [Sale -> row, None before it, Deleted after]: live_sales
    pulls,      \* [Pull -> row or None]: what the worker may read of break_pulls
    obs,        \* [id -> row], for the ids inserted: price_observations
    index,      \* [day -> the observations counted, or None]: price_index_daily
    job         \* [Job -> what a run holds between statements]

vars == <<now, sales, pulls, obs, index, job>>
-----------------------------------------------------------------------------
\* packages/core/src/pricing.ts.
Weight(source) == IF source = "user_report" THEN 1 ELSE 3

\* applySourceWeights and the sort: the expanded sample in ascending order,
\* where the k-th entry is the least price that k entries do not exceed.
Weigh(ids) == SumFunction([i \in ids |-> Weight(obs[i].source)])
Sorted(ids) ==
    LET UpTo(v) == Weigh({i \in ids : obs[i].cents =< v})
        values == {obs[i].cents : i \in ids}
    IN  [k \in 1 .. Weigh(ids) |->
           CHOOSE v \in values : UpTo(v) >= k /\ \A w \in values : UpTo(w) >= k => v =< w]

Least(a, b) == IF a < b THEN a ELSE b
TrimCount(n) == IF n =< 2 THEN 0 ELSE Least(n \div 10, (n - 1) \div 2)
Kept(s) == LET drop == TrimCount(Len(s)) IN SubSeq(s, drop + 1, Len(s) - drop)

\* percentileCents(s, quarters / 4): linear interpolation, rounded half up.
Percentile(s, quarters) ==
    LET position == (Len(s) - 1) * quarters
        low  == s[position \div 4 + 1]
        high == IF position % 4 = 0 THEN low ELSE s[position \div 4 + 2]
    IN  (4 * low + (high - low) * (position % 4) + 2) \div 4

Summary(ids) ==
    LET s == Sorted(ids)
    IN  [low |-> s[1], p25 |-> Percentile(Kept(s), 1), median |-> Percentile(Kept(s), 2),
         p75 |-> Percentile(Kept(s), 3), high |-> s[Len(s)]]

\* isOutlier, with OUTLIER_IQR_MULTIPLIER = 3.
IsOutlier(cents, spread) ==
    LET iqr == spread.p75 - spread.p25
        margin == IF iqr = 0 THEN 0 ELSE 3 * iqr
    IN  cents < spread.p25 - margin \/ cents > spread.p75 + margin
-----------------------------------------------------------------------------
Day(t) == t \div DayLength
Days == 0 .. Day(MaxTime)
Origin == Sale \cup Report \cup Pull
ObsId == Origin \X (1 .. 2)
ObsRow == [source : {"break_pull", "live_sale", "user_report"}, at : 0 .. MaxTime,
           cents : Cents, approved : BOOLEAN, rejected : BOOLEAN, flagged : BOOLEAN]
SaleRow == [at : 0 .. MaxTime, cents : Cents, link : ObsId \cup {None}]
\* A value typed in for a named card, one filled in from the index, or a pull
\* of no catalogued card.
Kind == {"typed", "filled", "unnamed"}
PullLogged == [at : 0 .. MaxTime, cents : Typical, kind : Kind]

ASSUME RowsAssumption == None \notin SaleRow \cup ObsId /\ Deleted \notin SaleRow

PricesTypeOK ==
    /\ now \in 0 .. MaxTime
    /\ sales \in [Sale -> SaleRow \cup {None, Deleted}]
    /\ pulls \in [Pull -> PullLogged \cup {None}]
    /\ DOMAIN obs \subseteq ObsId /\ obs \in [DOMAIN obs -> ObsRow]
    /\ index \in [Days -> (SUBSET DOMAIN obs) \cup {None}]

Init ==
    /\ now = 0
    /\ sales = [s \in Sale |-> None]
    /\ pulls = [p \in Pull |-> None]
    /\ obs = <<>>
    /\ index = [d \in Days |-> None]
    /\ job = [j \in Job |-> [at |-> "idle"]]

Tick ==
    /\ now < MaxTime
    /\ now' = now + 1
    /\ UNCHANGED <<sales, pulls, obs, index, job>>
-----------------------------------------------------------------------------
\* The id of the next observation made from one origin, and an insert.
Fresh(from) == <<from, 1 + Cardinality({i \in DOMAIN obs : i[1] = from})>>
Inserted(ids, Row(_)) == [i \in DOMAIN obs \cup ids |-> IF i \in ids THEN Row(i[1]) ELSE obs[i]]
Taken == {i[1] : i \in DOMAIN obs}

IsRow(s) == sales[s] # None /\ sales[s] # Deleted

\* logLiveSale: a seller may say it was sold earlier than now.
LogLiveSale(s, at, cents) ==
    /\ sales[s] = None
    /\ at =< now
    /\ Cardinality({t \in Sale : IsRow(t) /\ sales[t].at >= now - DayLength}) < MaxPerDay
    /\ sales' = [sales EXCEPT ![s] = [at |-> at, cents |-> cents, link |-> None]]
    /\ UNCHANGED <<now, pulls, obs, index, job>>

\* deleteLiveSale, under live_sales_delete_own_unpublished.
DeleteLiveSale(s) ==
    /\ IsRow(s) /\ sales[s].link = None
    /\ sales' = [sales EXCEPT ![s] = Deleted]
    /\ UNCHANGED <<now, pulls, obs, index, job>>

\* A pull logged in a break that has started (module Breaks).
PullIsLogged(p, cents, kind) ==
    /\ pulls[p] = None
    /\ pulls' = [pulls EXCEPT ![p] = [at |-> now, cents |-> cents, kind |-> kind]]
    /\ UNCHANGED <<now, sales, obs, index, job>>

\* reportPrice: unapproved, whatever the web role would write.
Waiting(o) == o.source = "user_report" /\ ~o.approved /\ ~o.rejected
ReportPrice(r, at, cents) ==
    /\ r \notin Taken
    /\ at =< now
    /\ Cardinality({i \in DOMAIN obs : Waiting(obs[i])}) < MaxPending
    /\ LET Row(x) == [source |-> "user_report", at |-> at, cents |-> cents,
                      approved |-> FALSE, rejected |-> FALSE, flagged |-> FALSE]
       IN  obs' = Inserted({Fresh(r)}, Row)
    /\ UNCHANGED <<now, sales, pulls, index, job>>

\* decideReport: POST /v1/admin/reports/:id/decision, 409 when already decided.
ModerateObservation(i, decision) ==
    /\ Waiting(obs[i])
    /\ obs' = [obs EXCEPT ![i] = [@ EXCEPT !.approved = (decision = "approve"),
                                           !.rejected = (decision = "reject")]]
    /\ UNCHANGED <<now, sales, pulls, index, job>>

\* decideFlag: POST /v1/admin/flags/:id/decision.
ReviewFlaggedObservation(i, decision) ==
    /\ obs[i].flagged
    /\ obs' = [obs EXCEPT ![i] = [@ EXCEPT !.flagged = FALSE,
                                           !.rejected = (decision = "reject"),
                                           !.approved = (decision # "reject")]]
    /\ UNCHANGED <<now, sales, pulls, index, job>>
-----------------------------------------------------------------------------
\* rollupJob.  First ingestBreakPulls, one statement: every pull of a named
\* card with a typed value that is not an observation yet.
FromPull(p) == [source |-> "break_pull", at |-> pulls[p].at, cents |-> pulls[p].cents,
                approved |-> TRUE, rejected |-> FALSE, flagged |-> FALSE]
Evidence(p) == pulls[p].kind = "typed"
JobStarts(j) ==
    /\ job[j].at = "idle"
    /\ obs' = Inserted({Fresh(p) : p \in {p \in Pull \ Taken : pulls[p] # None /\ Evidence(p)}},
                       FromPull)
    /\ job' = [job EXCEPT ![j] = [at |-> "ingesting"]]
    /\ UNCHANGED <<now, sales, pulls, index>>

\* The spread a sale is measured against: the latest published day.
Published == {d \in Days : index[d] # None}
Latest == CHOOSE d \in Published : \A e \in Published : e =< d
Flagged(cents) == Published # {} /\ IsOutlier(cents, Summary(index[Latest]))

\* ingestLiveSales reads the oldest pending sales, free-text ones included,
\* and which of them are outliers now.
PendingOfToday == {s \in Sale : IsRow(s) /\ sales[s].link = None /\ Day(sales[s].at) = Day(now)}
Pending == {s \in Sale : IsRow(s) /\ sales[s].link = None}
Before(s, t) == sales[s].at < sales[t].at
Batches == {b \in SUBSET Pending :
              /\ Cardinality(b) = Least(BatchSize, Cardinality(Pending))
              /\ \A s \in b, t \in Pending \ b : ~Before(t, s)}
JobReadsBatch(j) ==
    /\ job[j].at = "ingesting"
    /\ \E b \in Batches :
         job' = [job EXCEPT ![j] =
                   [at |-> "linking", batch |-> b \ FreeText,
                    flag |-> {s \in b \ FreeText : Flagged(sales[s].cents)}]]
    /\ UNCHANGED <<now, sales, pulls, obs, index>>

\* One sale of the batch: the observation and the link in one transaction,
\* rolled back when the sale was linked by another run or deleted meanwhile.
LinkableAgain(s) == IsRow(s)
Linkable(s) == IsRow(s) /\ sales[s].link = None
JobLinks(j, s) ==
    /\ job[j].at = "linking" /\ s \in job[j].batch
    /\ IF Linkable(s)
       THEN LET Row(x) == [source |-> "live_sale", at |-> sales[s].at,
                           cents |-> sales[s].cents, approved |-> TRUE,
                           rejected |-> FALSE, flagged |-> s \in job[j].flag]
            IN  /\ obs' = Inserted({Fresh(s)}, Row)
                /\ sales' = [sales EXCEPT ![s].link = Fresh(s)]
       ELSE UNCHANGED <<obs, sales>>
    /\ job' = [job EXCEPT ![j].batch = @ \ {s}]
    /\ UNCHANGED <<now, pulls, index>>

\* rollUpDay reads a day's window, both midnights included.
InWindow(t, d) == t >= d * DayLength /\ t =< (d + 1) * DayLength
Counts(o) == o.approved /\ ~o.flagged
Eligible(d) == {i \in DOMAIN obs : InWindow(obs[i].at, d) /\ Counts(obs[i])}

\* The server recomputes today; the workstation command may go further back.
Targets == {<<Day(now)>>} \cup {<<d, Day(now)>> : d \in 0 .. Day(now) - 1}
JobReadsDay(j) ==
    \/ /\ job[j].at = "linking" /\ job[j].batch = {}
       /\ \E targets \in Targets :
            job' = [job EXCEPT ![j] = [at |-> "publishing", targets |-> targets,
                                       ids |-> Eligible(targets[1])]]
       /\ UNCHANGED <<now, sales, pulls, obs, index>>
    \/ /\ job[j].at = "next"
       /\ job' = [job EXCEPT ![j] = [at |-> "publishing", targets |-> job[j].targets,
                                     ids |-> Eligible(job[j].targets[1])]]
       /\ UNCHANGED <<now, sales, pulls, obs, index>>

\* ... and publishes what it read, or nothing below the floor.
EnoughWeighted(ids) == Weigh(ids) >= MinObservations
Enough(ids) == Cardinality(ids) >= MinObservations
JobPublishes(j) ==
    /\ job[j].at = "publishing"
    /\ index' = IF Enough(job[j].ids)
                THEN [index EXCEPT ![Head(job[j].targets)] = job[j].ids] ELSE index
    /\ job' = [job EXCEPT ![j] = IF Len(job[j].targets) = 1 THEN [at |-> "idle"]
                                 ELSE [at |-> "next", targets |-> Tail(job[j].targets)]]
    /\ UNCHANGED <<now, sales, pulls, obs>>

\* The container is stopped between statements; each one has committed.
JobDies(j) ==
    /\ job[j].at # "idle"
    /\ job' = [job EXCEPT ![j] = [at |-> "idle"]]
    /\ UNCHANGED <<now, sales, pulls, obs, index>>

JobStep(j) ==
    \/ JobStarts(j) \/ JobReadsBatch(j) \/ JobReadsDay(j) \/ JobPublishes(j)
    \/ \E s \in Sale : JobLinks(j, s)

Next ==
    \/ Tick
    \/ \E s \in Sale : \/ \E at \in 0 .. now, c \in Cents : LogLiveSale(s, at, c)
                       \/ DeleteLiveSale(s)
    \/ \E p \in Pull, c \in Typical, k \in Kind : PullIsLogged(p, c, k)
    \/ \E r \in Report, at \in 0 .. now, c \in Typical : ReportPrice(r, at, c)
    \/ \E i \in DOMAIN obs : \/ \E d \in {"approve", "reject"} : ModerateObservation(i, d)
                             \/ \E d \in {"clear", "reject"} : ReviewFlaggedObservation(i, d)
    \/ \E j \in Job : JobStep(j) \/ JobDies(j)

\* The server's timer starts its job every night, and a run that is stopped
\* is not stopped at the same statement every night: hence strong fairness.
\* Nothing is assumed of the workstation's runs, sellers, reporters or
\* reviewers.
Spec == Init /\ [][Next]_vars
Fairness == /\ WF_vars(JobStarts(Server) \/ JobReadsDay(Server) \/ JobPublishes(Server))
            /\ SF_vars(JobReadsBatch(Server))
            /\ SF_vars(\E s \in Sale : JobLinks(Server, s))
FairSpec == Spec /\ Fairness
-----------------------------------------------------------------------------
\* What is published is evidence: every observation a day counts was approved
\* and is not held for review, was observed in that day, and is a typed value
\* when it came from a pull; there are at least MIN_OBSERVATIONS of them, not
\* of their weighted copies; and the figures are in order, so the table's
\* CHECKs never refuse a row (rollUpDay, price_index_daily_ordered), though a
\* decision or another run may come between a run's read and its write.
CountsEvidence(d) ==
    /\ Cardinality(index[d]) >= MinObservations
    /\ \A i \in index[d] :
         /\ obs[i].approved /\ ~obs[i].flagged /\ ~obs[i].rejected
         /\ InWindow(obs[i].at, d)
         /\ obs[i].source = "break_pull" => Evidence(i[1])
InOrder(s) == s.low =< s.p25 /\ s.p25 =< s.median /\ s.median =< s.p75 /\ s.p75 =< s.high
IndexIsHonest == \A d \in Published : CountsEvidence(d) /\ InOrder(Summary(index[d]))

\* A sale, a pull and a report each count once: no two observations come from
\* the same one, whichever runs of the job raced or were stopped half way,
\* and a sale points at the observation it became (ingestLiveSales).
CountedOnce ==
    /\ \A i, k \in DOMAIN obs : i[1] = k[1] => i = k
    /\ \A i \in DOMAIN obs : obs[i].source = "live_sale" =>
         IsRow(i[1]) /\ sales[i[1]].link = i

\* A decision stands: an observation that counts goes on counting, one that
\* was rejected never counts, and none is both (moderateObservation,
\* reviewFlaggedObservation, price_observations_not_both_decisions).
DecisionsStand ==
    [][\A i \in DOMAIN obs :
         /\ Counts(obs[i]) => Counts(obs'[i])
         /\ obs[i].rejected => obs'[i].rejected /\ ~obs'[i].approved]_vars

\* A logged sale of a catalogued card becomes an observation in the end,
\* unless its seller takes it back.
SalesAreIngested ==
    \A s \in Sale \ FreeText : IsRow(s) ~> (~IsRow(s) \/ sales[s].link # None)

\* "a missed night is picked up by the next one" (job-rollup.ts): when a run
\* of the server's job ends, no earlier day is left unpublished with enough
\* observations to publish.
MissedNightIsPickedUp ==
    [][\A j \in Job :
         job[j].at = "publishing" /\ job'[j].at = "idle" =>
           \A d \in 0 .. Day(now) : Enough(Eligible(d)) => index'[d] # None]_vars
=============================================================================
