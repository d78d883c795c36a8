----------------------------- MODULE AccountData -----------------------------
(***************************************************************************)
(* What happens to a person's rows when the account is deleted, and after  *)
(* a backup that still holds them is restored (queries/account-data.ts,    *)
(* queries/deletions.ts, migration 0033, cli/reapply-deletions.ts and the  *)
(* runbook it belongs to).                                                 *)
(*                                                                         *)
(* A database is one record, so that a dump is a copy of it.  A deletion   *)
(* is a transaction, whose now() is when it began.  While a restore is     *)
(* being made good nothing is served.                                      *)
(***************************************************************************)
EXTENDS Integers, FiniteSets

CONSTANTS
    Person,         \* account ids; none is ever given out again
    MaxTime,        \* bound
    MaxRestores,    \* bound: restores made
    Straddles,      \* whether a dump's second may fall inside a deletion
    Never

ASSUME AccountDataAssumption ==
    /\ MaxTime \in Nat /\ MaxRestores \in Nat /\ Straddles \in BOOLEAN
    /\ Never \notin Nat /\ \A P \in SUBSET Person : Never # P

VARIABLES
    db,         \* the live database
    dump,       \* the last backup: a copy, and its time
    deleting,   \* [Person -> when the deletion's transaction began, or Never]
    told,       \* those who were told that their account is gone
    repair,     \* the deletions still to be applied to a restored database, or Never
    restores,
    now

dataVars == <<db, dump, deleting, told, repair, restores, now>>
-----------------------------------------------------------------------------
Report == {"none", "pending", "approved", "anonymous"}

DataInit ==
    /\ db = [people |-> Person, ordered |-> {},
             report |-> [p \in Person |-> "none"], log |-> [p \in Person |-> Never]]
    /\ dump = Never
    /\ deleting = [p \in Person |-> Never]
    /\ told = {}
    /\ repair = Never
    /\ restores = 0
    /\ now = 0

Serving == repair = Never

\* What the rest of the platform does with a person's rows: an order names its
\* parties for good, and a price report is pending until it is approved.
PlacesOrder(p) ==
    /\ Serving /\ p \in db.people
    /\ db' = [db EXCEPT !.ordered = @ \cup {p}]
    /\ UNCHANGED <<dump, deleting, told, repair, restores, now>>

ReportsPrice(p) ==
    /\ Serving /\ p \in db.people
    /\ db.report[p] \in {"none", "pending"}
    /\ db' = [db EXCEPT !.report[p] = IF @ = "none" THEN "pending" ELSE "approved"]
    /\ UNCHANGED <<dump, deleting, told, repair, restores, now>>

\* app.delete_account: reports never approved are deleted, the person is, and
\* foreign keys do the rest: cascade, set null, or -- an order's -- refuse.
Refused(d, p) == p \in d.ordered
Without(d, p) ==
    [d EXCEPT !.people = @ \ {p},
              !.report[p] = CASE @ \in {"none", "pending"} -> "none" [] OTHER -> "anonymous"]

\* deleteAccount: the deletion and its audit row, in one transaction.
DeletionBegins(p) ==
    /\ Serving /\ p \in db.people /\ deleting[p] = Never
    /\ deleting' = [deleting EXCEPT ![p] = now]
    /\ UNCHANGED <<db, dump, told, repair, restores, now>>

DeletionCommits(p) ==
    /\ Serving /\ deleting[p] # Never /\ p \in db.people /\ ~Refused(db, p)
    /\ db' = [Without(db, p) EXCEPT !.log[p] = deleting[p]]
    /\ deleting' = [deleting EXCEPT ![p] = Never]
    /\ told' = told \cup {p}
    /\ UNCHANGED <<dump, repair, restores, now>>

\* A foreign key refuses it, or the connection is lost: nothing happened.
DeletionFails(p) ==
    /\ deleting[p] # Never
    /\ deleting' = [deleting EXCEPT ![p] = Never]
    /\ UNCHANGED <<db, dump, told, repair, restores, now>>
-----------------------------------------------------------------------------
TakesDump ==
    /\ Serving
    /\ dump' = [db |-> db, at |-> now]
    /\ UNCHANGED <<db, deleting, told, repair, restores, now>>

\* listDeletionsSince(audit, since): the newest log, the dump's time.
SinceAfter(log, since) == {p \in Person : log[p] # Never /\ log[p] > since}
Since(log, since) == {p \in Person : log[p] # Never /\ log[p] >= since}

\* The dump becomes the database; the log comes from the one it replaces.
Restores ==
    /\ Serving /\ dump # Never /\ restores < MaxRestores
    /\ db' = dump.db
    /\ repair' = Since(db.log, dump.at)
    /\ deleting' = [p \in Person |-> Never]
    /\ restores' = restores + 1
    /\ UNCHANGED <<dump, told, now>>

\* reapplyDeletion: the same function, once for each; "absent" does nothing.
Reapplies(p) ==
    /\ repair # Never /\ p \in repair
    /\ db' = IF p \in db.people THEN Without(db, p) ELSE db
    /\ repair' = repair \ {p}
    /\ UNCHANGED <<dump, deleting, told, restores, now>>

ServesAgain ==
    /\ repair = {}
    /\ repair' = Never
    /\ UNCHANGED <<db, dump, deleting, told, restores, now>>

TimePasses ==
    /\ Serving /\ now < MaxTime
    /\ Straddles \/ \A p \in Person : deleting[p] = Never
    /\ now' = now + 1
    /\ UNCHANGED <<db, dump, deleting, told, repair, restores>>

DataNext ==
    \/ \E p \in Person :
         \/ PlacesOrder(p) \/ ReportsPrice(p)
         \/ DeletionBegins(p) \/ DeletionCommits(p) \/ DeletionFails(p) \/ Reapplies(p)
    \/ TakesDump \/ Restores \/ ServesAgain \/ TimePasses

DataSpec == DataInit /\ [][DataNext]_dataVars
-----------------------------------------------------------------------------
(***************************************************************************)
(* What must hold                                                          *)
(***************************************************************************)
\* Whoever was told that the account is gone stays gone while the site is
\* served, and nothing names them: no report but an anonymous one
\* (deletions.ts: "every deletion writes one append-only row ... exactly
\* enough to repeat the deletion").
GoneStaysGone ==
    Serving => \A p \in told :
                 p \notin db.people /\ db.report[p] \in {"none", "anonymous"}
=============================================================================
