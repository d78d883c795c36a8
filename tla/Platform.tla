------------------------------ MODULE Platform ------------------------------
(***************************************************************************)
(* What stands in front of the public API and beside it: the kill switch   *)
(* and its cached reader (queries/flags.ts, plugins/kill-switch.ts), API   *)
(* keys and their quota (queries/api-keys.ts, plugins/api-key.ts,          *)
(* plugins/quota.ts, consumeApiKeyQuota), and the watchdog that tells the  *)
(* operators (jobs.ts, queries/ops-alerts.ts, migration 0038).             *)
(*                                                                         *)
(* One API process, one switch, one key: nothing is shared between keys or *)
(* between switches.  A request and a run of the watchdog have a step per  *)
(* await.  Time is what it ends: the cache's ten seconds, the minute, the  *)
(* process's 24-hour window, the UTC day, an alert's repeat interval.      *)
(***************************************************************************)
EXTENDS Integers, FiniteSets

CONSTANTS
    Request,            \* requests in flight, reused
    Watcher,            \* runs of the watchdog
    PerMinute, PerDay,  \* FREE_TIER_LIMITS
    MaxUncounted,       \* bound: counts a day that the database fails to make
    None

ASSUME PlatformAssumption ==
    PerMinute \in Nat \ {0} /\ PerDay \in Nat \ {0} /\ MaxUncounted \in Nat

VARIABLES
    off,        \* the stored override says off: feature_flags
    flip,       \* the console's request is between storing it and refreshing
    cache,      \* the reader: what it last read, and whether that has expired
    load,       \* the read in flight: None, "asked", or what it found
    call,        \* [Request -> where it is]
    key,        \* the key's row: revoked, and its count for a UTC day
    minute,     \* the process's minute window
    day,        \* the process's day window
    today,      \* what happened this UTC day: served, and calls not counted
    trouble,    \* something is wrong: a backlog, a silent scanner, a spike
    spoken,     \* [Finding -> "never", "recent" or "old"]: ops_alert_state
    watcher     \* [Watcher -> where a run is]

platformVars == <<off, flip, cache, load, call, key, minute, day, today, trouble, spoken, watcher>>
flagVars == <<off, flip, cache, load>>
quotaVars == <<key, minute, day, today>>
watchVars == <<trouble, spoken, watcher>>
-----------------------------------------------------------------------------
Finding == {"trouble", "flag.off", "heartbeat"}
NoWindow == [count |-> 0, crossed |-> FALSE]
ReqState == {"idle", "asking", "waiting", "keyed", "counting", "consuming"}
Quiet == [at |-> "idle", counted |-> 0]

PlatformInit ==
    /\ off = FALSE
    /\ flip = FALSE
    /\ cache = [off |-> FALSE, age |-> "never"]
    /\ load = None
    /\ call = [r \in Request |-> Quiet]
    /\ key = [revoked |-> FALSE, used |-> 0, today |-> FALSE]
    /\ minute = 0
    /\ day = NoWindow
    /\ today = [served |-> 0, uncounted |-> 0]
    /\ trouble = FALSE
    /\ spoken = [f \in Finding |-> "never"]
    /\ watcher = [w \in Watcher |-> [at |-> "idle"]]

\* GET a public route, with the key.
Goes(r, at) == call' = [call EXCEPT ![r].at = at]
Arrives(r) ==
    /\ call[r].at = "idle"
    /\ Goes(r, "asking")
    /\ UNCHANGED <<flagVars, quotaVars, watchVars>>

\* killSwitchPlugin: 503, or on to the key.
Verdict == IF cache.off THEN "idle" ELSE "keyed"

\* isEnabled: an answer in memory is used while it is fresh; an expired one
\* is read again, once however many requests wait for it.
ExpiredOnce == cache.age = "never"
Expired == cache.age # "fresh"
AsksFresh(r) ==
    /\ call[r].at = "asking" /\ ~Expired
    /\ Goes(r, Verdict)
    /\ UNCHANGED <<flagVars, quotaVars, watchVars>>

AsksExpired(r) ==
    /\ call[r].at = "asking" /\ Expired
    /\ load' = IF load = None THEN "asked" ELSE load
    /\ Goes(r, "waiting")
    /\ UNCHANGED <<off, flip, cache, quotaVars, watchVars>>

\* listFlagOverrides runs in the database ...
LoadReads ==
    /\ load = "asked"
    /\ load' = IF off THEN "off" ELSE "on"
    /\ UNCHANGED <<off, flip, cache, call, quotaVars, watchVars>>

\* ... and its answer wakes everyone who waits; a failed read keeps what was
\* known.  Either counts as read now.
Waiting == {r \in Request : call[r].at = "waiting"}
LoadReturns ==
    /\ load \in {"on", "off"}
    /\ cache' = [off |-> load = "off", age |-> "fresh"]
    /\ load' = None
    /\ call' = [r \in Request |-> IF r \in Waiting
                 THEN [call[r] EXCEPT !.at = IF load = "off" THEN "idle" ELSE "keyed"]
                 ELSE call[r]]
    /\ UNCHANGED <<off, flip, quotaVars, watchVars>>

LoadFails ==
    /\ load # None
    /\ cache' = [cache EXCEPT !.age = "fresh"]
    /\ load' = None
    /\ call' = [r \in Request |-> IF r \in Waiting THEN [call[r] EXCEPT !.at = Verdict] ELSE call[r]]
    /\ UNCHANGED <<off, flip, quotaVars, watchVars>>

CacheExpires ==
    /\ cache.age = "fresh"
    /\ cache' = [cache EXCEPT !.age = "stale"]
    /\ UNCHANGED <<off, flip, load, call, quotaVars, watchVars>>

\* POST /v1/admin/flags/:key: setFlag stores it, the audit row is written, and
\* only then does the process that made the change forget what it had read.
SetFlag ==
    /\ ~flip
    /\ off' = ~off
    /\ flip' = TRUE
    /\ UNCHANGED <<cache, load, call, quotaVars, watchVars>>

Refresh ==
    /\ flip
    /\ flip' = FALSE
    /\ cache' = [cache EXCEPT !.age = "never"]
    /\ UNCHANGED <<off, load, call, quotaVars, watchVars>>

\* The audit row could not be written: 500, and no refresh.
FlagRequestFails ==
    /\ flip
    /\ flip' = FALSE
    /\ UNCHANGED <<off, cache, load, call, quotaVars, watchVars>>
-----------------------------------------------------------------------------
\* authenticateApiKey; a revoked key is answered 401.
Authenticates(r) ==
    /\ call[r].at = "keyed"
    /\ Goes(r, IF key.revoked THEN "idle" ELSE "counting")
    /\ UNCHANGED <<flagVars, quotaVars, watchVars>>

\* revokeUserApiKey; the owner makes another (createUserApiKey).
RevokeUserApiKey ==
    /\ ~key.revoked
    /\ key' = [key EXCEPT !.revoked = TRUE]
    /\ UNCHANGED <<flagVars, call, minute, day, today, watchVars>>
CreateUserApiKey ==
    /\ key.revoked /\ \A r \in Request : call[r].at \notin {"counting", "consuming"}
    /\ key' = [revoked |-> FALSE, used |-> 0, today |-> FALSE]
    /\ minute' = 0 /\ day' = NoWindow /\ today' = [served |-> 0, uncounted |-> 0]
    /\ UNCHANGED <<flagVars, call, watchVars>>

\* consumeApiKeyQuota: the count of this UTC day, starting again with it.
Cap(n) == IF n > PerDay + 1 THEN PerDay + 1 ELSE n
Consumed == IF key.today THEN Cap(key.used + 1) ELSE 1

\* decide: the larger of the two day counts.
DayUsedInMemory(durable, counted) == counted
DayUsed(durable, counted) == IF durable > counted THEN durable ELSE counted
Allows(durable, counted) == DayUsed(durable, counted) =< PerDay

\* quotaPlugin: both windows in memory; the minute refuses by itself, before
\* the database is asked.
Counts(r) ==
    /\ call[r].at = "counting"
    /\ minute' = IF minute > PerMinute THEN minute ELSE minute + 1
    /\ day' = [day EXCEPT !.count = Cap(@ + 1)]
    /\ call' = [call EXCEPT ![r] = IF minute' > PerMinute THEN Quiet
                                ELSE [at |-> "consuming", counted |-> day'.count]]
    /\ UNCHANGED <<flagVars, key, today, watchVars>>

\* Then the day from the database, or without it; 429, or served.
Answers(r, durable) ==
    /\ call' = [call EXCEPT ![r] = Quiet]
    /\ today' = IF Allows(durable, call[r].counted)
                THEN [served |-> today.served + 1,
                      uncounted |-> today.uncounted + (IF durable = 0 THEN 1 ELSE 0)]
                ELSE today
Consumes(r) ==
    /\ call[r].at = "consuming"
    /\ key' = [key EXCEPT !.used = Consumed, !.today = TRUE]
    /\ Answers(r, Consumed)
    /\ UNCHANGED <<flagVars, minute, day, watchVars>>
ConsumeFails(r) ==
    /\ call[r].at = "consuming"
    /\ today.uncounted < MaxUncounted
    /\ Answers(r, 0)
    /\ UNCHANGED <<flagVars, key, minute, day, watchVars>>

MinutePasses ==
    /\ minute > 0
    /\ minute' = 0
    /\ UNCHANGED <<flagVars, call, key, day, today, watchVars>>

\* The process's window is 24 hours from its first call: midnight falls into
\* it once, and it ends after that and before the next.
DayWindowEnds ==
    /\ day.crossed
    /\ day' = NoWindow
    /\ UNCHANGED <<flagVars, call, key, minute, today, watchVars>>

Midnight ==
    /\ ~day.crossed
    /\ day' = [day EXCEPT !.crossed = day.count > 0]
    /\ key' = [key EXCEPT !.today = FALSE]
    /\ today' = [served |-> 0, uncounted |-> 0]
    /\ UNCHANGED <<flagVars, call, minute, watchVars>>

\* The process restarts: everything in memory is gone, requests included.
Restarts ==
    /\ cache' = [off |-> FALSE, age |-> "never"]
    /\ load' = None
    /\ call' = [r \in Request |-> Quiet]
    /\ flip' = FALSE
    /\ minute' = 0 /\ day' = NoWindow
    /\ UNCHANGED <<off, key, today, watchVars>>
-----------------------------------------------------------------------------
SetTrouble ==
    /\ trouble' = ~trouble
    /\ UNCHANGED <<flagVars, call, quotaVars, spoken, watcher>>

\* watchdogJob reads everything first; decideAlerts says the heartbeat always.
Findings == {"heartbeat"} \cup (IF trouble THEN {"trouble"} ELSE {})
                          \cup (IF off THEN {"flag.off"} ELSE {})
Looks(w) ==
    /\ watcher[w].at = "idle"
    /\ watcher' = [watcher EXCEPT ![w] = [at |-> "claim", left |-> Findings]]
    /\ UNCHANGED <<flagVars, call, quotaVars, trouble, spoken>>

\* claim_ops_alert: at most one run of any speaks in an interval.
ClaimableOnce(f) == spoken[f] = "never"
Claimable(f) == spoken[f] # "recent"
Next1(left) == CHOOSE f \in left : \A g \in left : g = "heartbeat" \/ f # "heartbeat"
Claims(w) ==
    /\ watcher[w].at = "claim" /\ watcher[w].left # {}
    /\ LET f == Next1(watcher[w].left)
           rest == watcher[w].left \ {f}
       IN  IF Claimable(f)
           THEN /\ spoken' = [spoken EXCEPT ![f] = "recent"]
                /\ watcher' = [watcher EXCEPT ![w] = [at |-> "notify", finding |-> f, left |-> rest]]
           ELSE /\ spoken' = spoken
                /\ watcher' = [watcher EXCEPT ![w].left = rest]
    /\ UNCHANGED <<flagVars, call, quotaVars, trouble>>

\* The notifier is asked, and answers or not: nothing is undone when it fails.
Notifies(w) ==
    /\ watcher[w].at = "notify"
    /\ watcher' = [watcher EXCEPT ![w] = [at |-> "claim", left |-> watcher[w].left]]
    /\ UNCHANGED <<flagVars, call, quotaVars, trouble, spoken>>

\* A run is over, or dies, its claim made and nothing said.
WatcherEnds(w) ==
    /\ watcher[w].at = "claim" /\ watcher[w].left = {}
    /\ watcher' = [watcher EXCEPT ![w] = [at |-> "idle"]]
    /\ UNCHANGED <<flagVars, call, quotaVars, trouble, spoken>>
WatcherDies(w) ==
    /\ watcher[w].at = "notify"
    /\ watcher' = [watcher EXCEPT ![w] = [at |-> "idle"]]
    /\ UNCHANGED <<flagVars, call, quotaVars, trouble, spoken>>

\* The repeat interval is an hour or more, and no claim waits so long to be said.
IntervalEnds(f) ==
    /\ spoken[f] = "recent"
    /\ \A w \in Watcher : watcher[w].at = "notify" => watcher[w].finding # f
    /\ spoken' = [spoken EXCEPT ![f] = "old"]
    /\ UNCHANGED <<flagVars, call, quotaVars, trouble, watcher>>
-----------------------------------------------------------------------------
RequestStep(r) ==
    \/ Arrives(r) \/ AsksFresh(r) \/ AsksExpired(r) \/ Authenticates(r)
    \/ Counts(r) \/ Consumes(r) \/ ConsumeFails(r)
WatcherStep(w) == Looks(w) \/ Claims(w) \/ Notifies(w) \/ WatcherEnds(w) \/ WatcherDies(w)

FlipNext == SetFlag \/ Refresh \/ FlagRequestFails
FrontNext ==
    \/ \E r \in Request : RequestStep(r)
    \/ LoadReads \/ LoadReturns \/ LoadFails \/ CacheExpires
    \/ RevokeUserApiKey \/ CreateUserApiKey
    \/ MinutePasses \/ DayWindowEnds \/ Midnight \/ Restarts
WatchNext ==
    \/ SetTrouble \/ (\E w \in Watcher : WatcherStep(w)) \/ (\E f \in Finding : IntervalEnds(f))

PlatformNext == FlipNext \/ FrontNext \/ WatchNext

PlatformSpec == PlatformInit /\ [][PlatformNext]_platformVars

\* The cache's ten seconds and the repeat intervals pass, an unbroken database
\* answers, the timer starts the watchdog, and a run that is started again and
\* again is not killed every time before it has spoken.
FrontFairness ==
    /\ WF_platformVars(CacheExpires) /\ SF_platformVars(LoadReads) /\ SF_platformVars(LoadReturns)
WatchFairness ==
    /\ \A f \in Finding : WF_platformVars(IntervalEnds(f))
    /\ \A w \in Watcher :
         /\ WF_platformVars(Looks(w) \/ Claims(w) \/ WatcherEnds(w))
         /\ \A f \in Finding : SF_platformVars(Notifies(w) /\ watcher[w].finding = f)

FairSpec == PlatformSpec /\ FrontFairness /\ WatchFairness
-----------------------------------------------------------------------------
(***************************************************************************)
(* What must hold                                                          *)
(***************************************************************************)
\* The public API stops answering once the switch is off for good, whatever
\* was cached, was being read or was restarted at the time -- if the reads do
\* not go on failing (createFlagReader, "Fails on").
Passes(r) == call[r].at # "keyed" /\ call'[r].at = "keyed"
SwitchIsObeyed ==
    (<>[]off /\ <>[][~LoadFails]_platformVars) => <>[][\A r \in Request : ~Passes(r)]_platformVars

\* A key is served no more than its day's allowance in a UTC day, restarts
\* included, beyond the calls the database failed to count (quota.ts,
\* consumeApiKeyQuota).
QuotaHolds == today.served =< PerDay + today.uncounted

\* Trouble that stays is said, and said again, although a run claims before it
\* speaks and may die in between (watchdogJob, claim_ops_alert); and so is the
\* heartbeat.
Said(f) == \E w \in Watcher : Notifies(w) /\ watcher[w].finding = f
FindingIsHeard ==
    /\ []<><<Said("heartbeat")>>_platformVars
    /\ <>[]trouble => []<><<Said("trouble")>>_platformVars

\* A key that has used less than its allowance today is served (migration 0040:
\* "A day also becomes a day"; quota.ts: "with the database up its count
\* always leads").
FreshDayIsServed ==
    [][\A r \in Request :
         Consumes(r) /\ Consumed =< PerDay => today'.served = today.served + 1]_platformVars
=============================================================================
