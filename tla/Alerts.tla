------------------------------- MODULE Alerts -------------------------------
(***************************************************************************)
(* Restock alerts: the scanner's reports (routes/ingest.ts,                *)
(* queries/ingest.ts), the fan-out that follows a restock inside the same  *)
(* request (alerts/dispatcher.ts), the job that sends what is still owed   *)
(* (alerts/retry.ts, job-alert-retry.ts), the transports, the watches      *)
(* (queries/watches.ts) and one-click unsubscribe (routes/unsubscribe.ts). *)
(*                                                                         *)
(* One listing.  A scanner request and a run of the job are processes with *)
(* a step per statement and per message; either may die between two steps. *)
(* A message sent is what its reader gets, so it is never taken back.      *)
(* Time is two facts: a delivery has sat for two minutes (stale), and an   *)
(* event is a day old (old).  A message carries the price and time of one  *)
(* event, so a message is the number of that event.                        *)
(***************************************************************************)
EXTENDS Integers, FiniteSets, Sequences

CONSTANTS
    Watch,              \* watch ids
    Channel,            \* alert_channel
    Supported,          \* the channels that have a transport that can send
    Scanner, Run,       \* scanner requests, and runs of the retry job
    MaxAttempts,        \* maxAttempts
    MaxWatches,         \* MAX_WATCHES_PER_USER (one user's watches)
    Prompt,             \* whether a fan-out is over before its deliveries are stale
    MaxReports,         \* bound: reports made
    MaxEvents,          \* bound: restocks among them
    MaxFaults,          \* bound: processes that die and answers that are lost
    None

ASSUME AlertsAssumption ==
    /\ Supported \subseteq Channel
    /\ Prompt \in BOOLEAN
    /\ MaxAttempts \in Nat \ {0} /\ MaxWatches \in Nat
    /\ MaxReports \in Nat /\ MaxEvents \in Nat /\ MaxFaults \in Nat

VARIABLES
    enabled,        \* the flag alerts.enabled
    watch,          \* [Watch -> its channels, None before it, {} after it]
    snapshots,      \* stock_snapshots committed
    reports,        \* reports begun, which stamps checked_at
    event,          \* [1..n -> row]: restock_events, in order of insertion
    delivery,       \* [Key -> row or None]: alert_deliveries
    told,           \* [Key -> sequence of messages its reader was sent]
    scan,           \* [Scanner -> what a request holds]
    run,            \* [Run -> what a run of the job holds]
    faults          \* processes that died and answers that were lost so far

vars == <<enabled, watch, snapshots, reports, event, delivery, told, scan, run, faults>>
stock == <<snapshots, reports, event>>
-----------------------------------------------------------------------------
Event == 1 .. MaxEvents
Key == Event \X Watch \X Channel
KeyEvent(k) == k[1]
KeyWatch(k) == k[2]
KeyChannel(k) == k[3]
Idle == [at |-> "idle"]

\* What a transport says of a message, and whether its reader has it: an
\* answer that times out may follow a message that was delivered.
Outcome == {[says |-> "ok", arrived |-> TRUE],
            [says |-> "retryable", arrived |-> FALSE],
            [says |-> "retryable", arrived |-> TRUE],
            [says |-> "refused", arrived |-> FALSE]}
Lost(o) == o.says = "retryable" /\ o.arrived
Outcomes(channel) ==
    IF channel \in Supported THEN {o \in Outcome : Lost(o) => faults < MaxFaults}
                             ELSE {[says |-> "skipped", arrived |-> FALSE]}

Init ==
    /\ enabled = TRUE
    /\ watch = [w \in Watch |-> None]
    /\ snapshots = {} /\ reports = 0 /\ event = <<>>
    /\ delivery = [k \in Key |-> None]
    /\ told = [k \in Key |-> <<>>]
    /\ scan = [s \in Scanner |-> Idle]
    /\ run = [r \in Run |-> Idle]
    /\ faults = 0
-----------------------------------------------------------------------------
\* createWatch; deleteWatch, whose deliveries go with it (on delete cascade).
Channels(row) == IF row = None THEN {} ELSE row
Watched == {w \in Watch : Channels(watch[w]) # {}}
CreateWatch(w, channels) ==
    /\ watch[w] = None
    /\ Cardinality(Watched) < MaxWatches
    /\ watch' = [watch EXCEPT ![w] = channels]
    /\ UNCHANGED <<enabled, snapshots, reports, event, delivery, told, scan, run, faults>>

WithoutWatch(w) == [k \in Key |-> IF KeyWatch(k) = w THEN None ELSE delivery[k]]
DeleteWatch(w) ==
    /\ w \in Watched
    /\ watch' = [watch EXCEPT ![w] = {}]
    /\ delivery' = WithoutWatch(w)
    /\ UNCHANGED <<enabled, snapshots, reports, event, told, scan, run, faults>>

\* unsubscribeEmail: the channel goes, and with the last channel the watch.
UnsubscribeEmail(w) ==
    /\ "email" \in Channels(watch[w])
    /\ watch' = [watch EXCEPT ![w] = @ \ {"email"}]
    /\ delivery' = IF watch[w] = {"email"} THEN WithoutWatch(w) ELSE delivery
    /\ UNCHANGED <<enabled, snapshots, reports, event, told, scan, run, faults>>

SetAlertsEnabled(on) ==
    /\ enabled # on
    /\ enabled' = on
    /\ UNCHANGED <<watch, snapshots, reports, event, delivery, told, scan, run, faults>>
-----------------------------------------------------------------------------
\* recordStockReport: the transaction starts, and reads the newest snapshot ...
Newest == CHOOSE p \in snapshots : \A q \in snapshots : q.stamp =< p.stamp
RestockedAnyway(inStock) == inStock /\ snapshots # {}
Restocked(inStock) == inStock /\ snapshots # {} /\ ~Newest.inStock
ReportReads(s, inStock) ==
    /\ scan[s] = Idle /\ reports < MaxReports /\ Len(event) < MaxEvents
    /\ reports' = reports + 1
    /\ scan' = [scan EXCEPT ![s] =
                  [at |-> "report", stamp |-> reports + 1, inStock |-> inStock,
                   alerts |-> Restocked(inStock)]]
    /\ UNCHANGED <<enabled, watch, snapshots, event, delivery, told, run, faults>>

\* ... then inserts its own, and an event when the listing came back.
ReportCommits(s) ==
    /\ scan[s].at = "report"
    /\ snapshots' = snapshots \cup {[stamp |-> scan[s].stamp, inStock |-> scan[s].inStock]}
    /\ IF scan[s].alerts
       THEN /\ event' = Append(event, [old |-> FALSE, stamp |-> scan[s].stamp])
            /\ scan' = [scan EXCEPT ![s] = [at |-> "event", event |-> Len(event) + 1]]
       ELSE /\ event' = event
            /\ scan' = [scan EXCEPT ![s] = Idle]
    /\ UNCHANGED <<enabled, watch, reports, delivery, told, run, faults>>

\* The switch, the message and everyone who watches the listing.
FanOutReads(s) ==
    /\ scan[s].at = "event"
    /\ scan' = [scan EXCEPT ![s] =
                  IF enabled THEN [at |-> "claim", event |-> scan[s].event, targets |-> watch]
                  ELSE Idle]
    /\ UNCHANGED <<enabled, watch, stock, delivery, told, run, faults>>

\* claimDeliveries: one insert of every row, which fails as a whole, and the
\* request with it, when a watch it names has been deleted.
Slots(e, targets) == {k \in Key : KeyEvent(k) = e /\ KeyChannel(k) \in Channels(targets[KeyWatch(k)])}
NewDelivery == [status |-> "pending", attempts |-> 0, stale |-> FALSE]
FanOutClaims(s) ==
    /\ scan[s].at = "claim"
    /\ LET slots == Slots(scan[s].event, scan[s].targets)
       IN  IF \A k \in slots : KeyWatch(k) \in Watched
           THEN /\ delivery' = [k \in Key |-> IF k \in slots THEN NewDelivery ELSE delivery[k]]
                /\ scan' = [scan EXCEPT ![s] = [at |-> "send", queue |-> slots]]
           ELSE /\ delivery' = delivery
                /\ scan' = [scan EXCEPT ![s] = Idle]
    /\ UNCHANGED <<enabled, watch, stock, told, run, faults>>

\* One delivery of the fan-out: the message goes out, and then is recorded.
Tell(k, message, outcome) ==
    /\ told' = IF outcome.arrived THEN [told EXCEPT ![k] = Append(@, message)] ELSE told
    /\ faults' = IF Lost(outcome) THEN faults + 1 ELSE faults
FanOutSends(s, k) ==
    /\ scan[s].at = "send" /\ k \in scan[s].queue
    /\ \E o \in Outcomes(KeyChannel(k)) :
         /\ Tell(k, KeyEvent(k), o)
         /\ scan' = [scan EXCEPT ![s] = [at |-> "mark", queue |-> scan[s].queue \ {k},
                                         key |-> k, says |-> o.says]]
    /\ UNCHANGED <<enabled, watch, stock, delivery, run>>

\* markDeliverySent and markDeliveryFailed, by id: a row that has gone with
\* its watch is not written.
Mark(k, status) ==
    delivery' = IF delivery[k] = None THEN delivery
                ELSE [delivery EXCEPT ![k].status = status, ![k].attempts = @ + 1]
FanOutStatus(says) ==
    CASE says = "ok" -> "sent"
      [] says = "skipped" -> "skipped"
      [] says = "retryable" -> "pending"
      [] says = "refused" -> "failed"
FanOutMarks(s) ==
    /\ scan[s].at = "mark"
    /\ Mark(scan[s].key, FanOutStatus(scan[s].says))
    /\ scan' = [scan EXCEPT ![s] = [at |-> "send", queue |-> scan[s].queue]]
    /\ UNCHANGED <<enabled, watch, stock, told, run, faults>>

RequestEnds(s) ==
    /\ scan[s].at = "send" /\ scan[s].queue = {}
    /\ scan' = [scan EXCEPT ![s] = Idle]
    /\ UNCHANGED <<enabled, watch, stock, delivery, told, run, faults>>

RequestDies(s) ==
    /\ scan[s] # Idle
    /\ faults < MaxFaults /\ faults' = faults + 1
    /\ scan' = [scan EXCEPT ![s] = Idle]
    /\ UNCHANGED <<enabled, watch, stock, delivery, told, run>>
-----------------------------------------------------------------------------
\* claimRetryableDeliveries.  The rows are locked by a statement of its own,
\* so the lock is gone by the time they are sent.
OwedOnceTried(k) ==
    /\ delivery[k] # None
    /\ delivery[k].status = "pending" /\ delivery[k].attempts \in 1 .. MaxAttempts - 1
    /\ delivery[k].stale /\ ~event[KeyEvent(k)].old
Owed(k) ==
    /\ delivery[k] # None
    /\ delivery[k].status = "pending" /\ delivery[k].attempts < MaxAttempts
    /\ delivery[k].stale /\ ~event[KeyEvent(k)].old
OwedNow == {k \in Key : Owed(k)}
RunStarts(r) ==
    /\ run[r] = Idle
    /\ enabled
    /\ OwedNow # {}
    /\ run' = [run EXCEPT ![r] =
                  [at |-> "look", owed |-> [k \in OwedNow |-> delivery[k].attempts]]]
    /\ UNCHANGED <<enabled, watch, stock, delivery, told, scan, faults>>

\* For the listing's first delivery: the message, and who watches it now.
\* Both are kept for the deliveries of the same listing that follow.
First(owed) == {k \in DOMAIN owed : \A l \in DOMAIN owed : KeyEvent(k) =< KeyEvent(l)}
Without(owed, k) == [l \in DOMAIN owed \ {k} |-> owed[l]]
RunLooks(r) ==
    /\ run[r].at = "look"
    /\ \E k \in First(run[r].owed) :
         run' = [run EXCEPT ![r] = [at |-> "send", owed |-> run[r].owed,
                                    message |-> KeyEvent(k), targets |-> watch]]
    /\ UNCHANGED <<enabled, watch, stock, delivery, told, scan, faults>>

\* A delivery whose watch is gone is abandoned, which counts no attempt ...
RunAbandons(r, k) ==
    /\ run[r].at = "send" /\ k \in First(run[r].owed)
    /\ Channels(run[r].targets[KeyWatch(k)]) = {}
    /\ delivery' = IF delivery[k] = None THEN delivery
                   ELSE [delivery EXCEPT ![k].status = "failed"]
    /\ run' = [run EXCEPT ![r].owed = Without(@, k)]
    /\ UNCHANGED <<enabled, watch, stock, told, scan, faults>>

\* ... and any other is sent.
RunSends(r, k) ==
    /\ run[r].at = "send" /\ k \in First(run[r].owed)
    /\ Channels(run[r].targets[KeyWatch(k)]) # {}
    /\ \E o \in Outcomes(KeyChannel(k)) :
         /\ Tell(k, run[r].message, o)
         /\ run' = [run EXCEPT ![r] = [at |-> "mark", owed |-> Without(run[r].owed, k), key |-> k,
                      message |-> run[r].message, targets |-> run[r].targets,
                      says |-> o.says, attempts |-> run[r].owed[k]]]
    /\ UNCHANGED <<enabled, watch, stock, delivery, scan>>

WorthAnotherAlways(says, attempts) == says = "retryable"
WorthAnother(says, attempts) == says = "retryable" /\ attempts + 1 < MaxAttempts
RunStatus(says, attempts) ==
    IF says = "ok" THEN "sent"
    ELSE IF WorthAnother(says, attempts) THEN "pending" ELSE "failed"
RunMarks(r) ==
    /\ run[r].at = "mark"
    /\ Mark(run[r].key, RunStatus(run[r].says, run[r].attempts))
    /\ run' = [run EXCEPT ![r] = [at |-> "send", owed |-> run[r].owed,
                                  message |-> run[r].message, targets |-> run[r].targets]]
    /\ UNCHANGED <<enabled, watch, stock, told, scan, faults>>

RunEnds(r) ==
    /\ run[r].at = "send" /\ DOMAIN run[r].owed = {}
    /\ run' = [run EXCEPT ![r] = Idle]
    /\ UNCHANGED <<enabled, watch, stock, delivery, told, scan, faults>>

RunDies(r) ==
    /\ run[r] # Idle
    /\ faults < MaxFaults /\ faults' = faults + 1
    /\ run' = [run EXCEPT ![r] = Idle]
    /\ UNCHANGED <<enabled, watch, stock, delivery, told, scan>>
-----------------------------------------------------------------------------
HandledBy(s, k) ==
    \/ scan[s].at = "send" /\ k \in scan[s].queue
    \/ scan[s].at = "mark" /\ k \in scan[s].queue \cup {scan[s].key}
Ages(k) ==
    /\ delivery[k] # None /\ ~delivery[k].stale
    /\ Prompt => \A s \in Scanner : ~HandledBy(s, k)
    /\ delivery' = [delivery EXCEPT ![k].stale = TRUE]
    /\ UNCHANGED <<enabled, watch, stock, told, scan, run, faults>>

EventAges(e) ==
    /\ ~event[e].old
    /\ event' = [event EXCEPT ![e].old = TRUE]
    /\ UNCHANGED <<enabled, watch, snapshots, reports, delivery, told, scan, run, faults>>

ScanWorks(s) ==
    \/ ReportCommits(s) \/ FanOutReads(s) \/ FanOutClaims(s)
    \/ \E k \in Key : FanOutSends(s, k)
    \/ FanOutMarks(s) \/ RequestEnds(s)

RunWorks(r) ==
    \/ RunLooks(r)
    \/ \E k \in Key : RunAbandons(r, k) \/ RunSends(r, k)
    \/ RunMarks(r) \/ RunEnds(r)

Next ==
    \/ \E w \in Watch : \/ \E channels \in SUBSET Channel \ {{}} : CreateWatch(w, channels)
                        \/ DeleteWatch(w) \/ UnsubscribeEmail(w)
    \/ \E on \in BOOLEAN : SetAlertsEnabled(on)
    \/ \E s \in Scanner : \/ \E inStock \in BOOLEAN : ReportReads(s, inStock)
                          \/ ScanWorks(s) \/ RequestDies(s)
    \/ \E r \in Run : RunStarts(r) \/ RunWorks(r) \/ RunDies(r)
    \/ \E k \in Key : Ages(k)
    \/ \E e \in DOMAIN event : EventAges(e)

Spec == Init /\ [][Next]_vars

\* Time passes, requests go on, and the timer starts the job again and again.
\* Nothing is assumed of scanners, watchers, operators or transports.
Fairness ==
    /\ \A k \in Key : WF_vars(Ages(k))
    /\ \A s \in Scanner : WF_vars(ScanWorks(s))
    /\ \A r \in Run : SF_vars(RunStarts(r)) /\ WF_vars(RunWorks(r))
FairSpec == Spec /\ Fairness
-----------------------------------------------------------------------------
InFlight(k) ==
    \/ \E s \in Scanner : scan[s].at = "mark" /\ scan[s].key = k
    \/ \E r \in Run : run[r].at = "mark" /\ run[r].key = k

\* What a delivery says is what happened: one that is marked sent was sent;
\* its reader is told once, and once more at most for every process that
\* died or answer that was lost on the way; without such a fault a message
\* that was sent is marked so; and one that is still owed has attempts left,
\* so that no delivery waits for a run that will never take it (retry.ts).
DeliveriesAreTrue ==
    \A k \in Key : delivery[k] # None =>
      /\ delivery[k].status = "sent" => told[k] # <<>>
      /\ Len(told[k]) =< 1 + faults
      /\ faults = 0 /\ told[k] # <<>> => delivery[k].status = "sent" \/ InFlight(k)
      /\ delivery[k].status = "pending" => delivery[k].attempts < MaxAttempts

\* An alert is owed only until it is settled: whatever died after the claim,
\* a pending delivery is in the end sent or given up, unless its watch goes,
\* its event is a day old, or alerts are switched off (dispatcher.ts,
\* claimRetryableDeliveries, retryOwedDeliveries).
OwedIsSettled ==
    \A k \in Key :
      LET pending == delivery[k] # None /\ delivery[k].status = "pending"
      IN  pending ~> (~pending \/ event[KeyEvent(k)].old \/ ~enabled)

\* With one scanner, a restock is announced once: between two events of a
\* listing it was seen out of stock, and a first sighting never alerts
\* (recordStockReport).
OneAlertPerRestock ==
    \A e \in DOMAIN event : \E p \in snapshots :
      /\ ~p.inStock /\ p.stamp < event[e].stamp
      /\ e > 1 => p.stamp > event[e - 1].stamp

\* Every message says what its event says ("so a retry says what the first
\* attempt would have said").
MessageIsAboutItsEvent ==
    \A k \in Key : \A i \in DOMAIN told[k] : told[k][i] = KeyEvent(k)

\* A run that starts after a reader unsubscribed from email sends them none.
UnsubscribedMeansNoMail ==
    \A r \in Run : run[r].at = "mark" =>
      KeyChannel(run[r].key) \in Channels(run[r].targets[KeyWatch(run[r].key)])
=============================================================================
