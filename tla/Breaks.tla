------------------------------- MODULE Breaks -------------------------------
(***************************************************************************)
(* Pack breaks (packages/db/src/queries/breaks.ts) and commit-reveal       *)
(* (packages/db/src/queries/fairness.ts) with the row constraints and the  *)
(* row policies they lean on (schema/breaks.ts, migrations 0011, 0020 and  *)
(* 0026).                                                                  *)
(*                                                                         *)
(* A handler that decides from what it read earlier is a request with a    *)
(* step per statement: other requests run between its reads and its write. *)
(* A handler that is one statement is one action.  A transaction that only *)
(* updates one row is visible when it commits, and another update of that  *)
(* row waits for it, so its update and commit are one step; an inserted    *)
(* pull is kept apart from a committed one, because a break may end in     *)
(* between.  All requests are the owner's: the row policies turn everyone  *)
(* else's into "not found".                                                *)
(*                                                                         *)
(* Left out: titles, costs, products, and the wording of a pull's label.   *)
(***************************************************************************)
EXTENDS Shuffle

CONSTANTS
    Break,          \* break ids
    Request,        \* requests in flight, reused
    Card,           \* card variants a pull may name
    Value,          \* values a creator types, or the index publishes
    ClientSeed,     \* seeds an audience may give
    PackCount,      \* pack counts a creator may record
    VodLink,        \* VOD links a creator may set
    Offset,         \* offsets into a VOD
    MaxBreaks,      \* MAX_BREAKS_PER_CREATOR
    MaxPulls,       \* MAX_PULLS_PER_BREAK
    MaxVersion,     \* bound: overlay token versions
    MaxSlots,       \* slots of the largest break
    Words,          \* values a word of the byte stream can have
    None            \* SQL null, and the state of a request slot not in use

ASSUME ShuffleAssumption == MaxSlots \in Nat /\ Words \in Nat /\ MaxSlots =< Words

VARIABLES
    brk,            \* [Break -> row or None]: the breaks table
    pulls,          \* [Break -> set of committed break_pulls rows]
    commitment,     \* [Break -> row or None]: break_commitments
    evidence,       \* [Break -> [seq -> offset or None]]: pull_evidence
    req             \* [Request -> what a handler holds between statements]

vars == <<brk, pulls, commitment, evidence, req>>
-----------------------------------------------------------------------------
Status == {"draft", "live", "ended"}
BreakRow == [status : Status, started : BOOLEAN, ended : BOOLEAN,
             packs : PackCount \cup {None}, vod : VodLink \cup {None},
             version : 1 .. MaxVersion]

\* breaks_timestamps_follow_status.
RowAllowedAlways(row) == row.status \in Status
RowAllowed(row) ==
    \/ row.status = "draft" /\ ~row.started /\ ~row.ended
    \/ row.status = "live"  /\  row.started /\ ~row.ended
    \/ row.status = "ended" /\  row.started /\  row.ended

\* The six fields the chain commits to; the label and the clock are abstracted.
Source == {"manual", "index"}
Body == [seq : Nat \ {0}, card : Card \cup {None}, value : Value \cup {0}, source : Source]
PullRow == [body : Body, prevHash : Seq(Body), rowHash : Seq(Body)]

CommitRow == [seed : Request, client : ClientSeed \cup {None},
              revealed : Request \cup {None}]

\* What an insert would write for a pull that names card c and carries the
\* typed value v (None when omitted): a typed value wins, the index fills a
\* blank only for a named card, and an unpriced card is recorded as 0.
Priced(c, v) ==
    IF v # None THEN {[card |-> c, value |-> v, source |-> "manual"]}
    ELSE IF c # None
         THEN {[card |-> c, value |-> x, source |-> "index"] : x \in Value \cup {0}}
         ELSE {[card |-> c, value |-> 0, source |-> "manual"]}

PullInput == UNION {Priced(c, v) : c \in Card \cup {None}, v \in Value \cup {None}}

\* A request in flight.
Op == {"create", "live", "ended", "pull", "commit", "reveal"}
Idle == None

\* No log is longer than this (LimitsNearlyHold).
SeqBound == MaxPulls + Cardinality(Request)
Held == [op : {"create"}, b : Break]
   \cup [op : {"live", "ended", "commit", "reveal"}, b : Break]
   \cup [op : {"pull"}, b : Break, at : {"counted"}, input : PullInput]
   \cup [op : {"pull"}, b : Break, at : {"linked", "inserted"}, row : PullRow]

ASSUME BreaksAssumption ==
    /\ MaxBreaks \in Nat \ {0} /\ MaxPulls \in Nat \ {0} /\ MaxVersion \in Nat \ {0}
    /\ IsFiniteSet(Request)
    /\ Value \subseteq Nat
    /\ None \notin Card \cup Value \cup Request \cup ClientSeed
    /\ None \notin PackCount \cup VodLink \cup Offset
    /\ None \notin BreakRow \cup CommitRow \cup Held

BreaksTypeOK ==
    /\ brk \in [Break -> BreakRow \cup {None}]
    /\ pulls \in [Break -> SUBSET PullRow]
    /\ commitment \in [Break -> CommitRow \cup {None}]
    /\ evidence \in [Break -> [1 .. SeqBound -> Offset \cup {None}]]
    /\ req \in [Request -> Held \cup {Idle}]

BreaksInit ==
    /\ brk = [b \in Break |-> None]
    /\ pulls = [b \in Break |-> {}]
    /\ commitment = [b \in Break |-> None]
    /\ evidence = [b \in Break |-> [seq \in 1 .. SeqBound |-> None]]
    /\ req = [r \in Request |-> Idle]
-----------------------------------------------------------------------------
Created == {b \in Break : brk[b] # None}
Is(b, status) == brk[b] # None /\ brk[b].status = status
Finish(r) == req' = [req EXCEPT ![r] = Idle]
Seqs(b) == {p.body.seq : p \in pulls[b]}
Tip(b) == CHOOSE p \in pulls[b] : \A q \in pulls[b] : q.body.seq =< p.body.seq

\* createBreak counts the creator's breaks, then inserts a draft.
CreateCounts(r, b) ==
    /\ req[r] = Idle /\ brk[b] = None
    /\ \A q \in Request : req[q] # [op |-> "create", b |-> b]     \* a fresh uuid
    /\ Cardinality(Created) < MaxBreaks
    /\ req' = [req EXCEPT ![r] = [op |-> "create", b |-> b]]
    /\ UNCHANGED <<brk, pulls, commitment, evidence>>

CreateInserts(r) ==
    /\ req[r] # Idle /\ req[r].op = "create"
    /\ brk' = [brk EXCEPT ![req[r].b] =
                 [status |-> "draft", started |-> FALSE, ended |-> FALSE,
                  packs |-> None, vod |-> None, version |-> 1]]
    /\ Finish(r)
    /\ UNCHANGED <<pulls, commitment, evidence>>

\* setBreakStatus reads the row and judges the move ...
Allowed(current, next) == current = (IF next = "live" THEN "draft" ELSE "live")
StatusReads(r, b, next) ==
    /\ req[r] = Idle
    /\ brk[b] # None /\ Allowed(brk[b].status, next)
    /\ req' = [req EXCEPT ![r] = [op |-> next, b |-> b]]
    /\ UNCHANGED <<brk, pulls, commitment, evidence>>

\* ... then updates it whatever its status is by then; the table's CHECK may
\* refuse the row that results, and the request fails with nothing written.
Moved(row, next) ==
    IF next = "live" THEN [row EXCEPT !.status = "live", !.started = TRUE]
                     ELSE [row EXCEPT !.status = "ended", !.ended = TRUE]
StatusWrites(r) ==
    /\ req[r] # Idle /\ req[r].op \in {"live", "ended"}
    /\ LET row == Moved(brk[req[r].b], req[r].op)
       IN  brk' = IF RowAllowed(row) THEN [brk EXCEPT ![req[r].b] = row] ELSE brk
    /\ Finish(r)
    /\ UNCHANGED <<pulls, commitment, evidence>>
-----------------------------------------------------------------------------
\* logPull, first statements: the break is live and below its cap.
PullCountsUncapped(r, b, input) ==
    /\ req[r] = Idle
    /\ Is(b, "live")
    /\ req' = [req EXCEPT ![r] = [op |-> "pull", b |-> b, at |-> "counted", input |-> input]]
    /\ UNCHANGED <<brk, pulls, commitment, evidence>>
PullCounts(r, b, input) ==
    /\ req[r] = Idle
    /\ Is(b, "live")
    /\ Cardinality(pulls[b]) < MaxPulls
    /\ req' = [req EXCEPT ![r] = [op |-> "pull", b |-> b, at |-> "counted", input |-> input]]
    /\ UNCHANGED <<brk, pulls, commitment, evidence>>

\* logPull reads the tip and links the new row to it.
Linked(b, input) ==
    LET seq  == IF pulls[b] = {} THEN 1 ELSE Tip(b).body.seq + 1
        prev == IF pulls[b] = {} THEN Genesis ELSE Tip(b).rowHash
        body == [seq |-> seq, card |-> input.card, value |-> input.value,
                 source |-> input.source]
    IN  [body |-> body, prevHash |-> prev, rowHash |-> HashPull(prev, body)]
PullLinks(r) ==
    /\ req[r] # Idle /\ req[r].op = "pull" /\ req[r].at = "counted"
    /\ req' = [req EXCEPT ![r] = [op |-> "pull", b |-> req[r].b, at |-> "linked",
                                  row |-> Linked(req[r].b, req[r].input)]]
    /\ UNCHANGED <<brk, pulls, commitment, evidence>>

\* The insert: the policy asks that the break be live now, and the unique
\* index refuses a sequence number already committed and waits for one that
\* another transaction has inserted and not committed.
Inserting(r) == req[r] # Idle /\ req[r].op = "pull" /\ req[r].at = "inserted"
MayInsertUnindexed(b, seq) == Is(b, "live")
MayInsert(b, seq) == Is(b, "live") /\ seq \notin Seqs(b)
PullInserts(r) ==
    /\ req[r] # Idle /\ req[r].op = "pull" /\ req[r].at = "linked"
    /\ \A q \in Request : Inserting(q) /\ req[q].b = req[r].b
                            => req[q].row.body.seq # req[r].row.body.seq
    /\ req' = [req EXCEPT ![r] =
                 IF MayInsert(req[r].b, req[r].row.body.seq)
                 THEN [req[r] EXCEPT !.at = "inserted"] ELSE Idle]
    /\ UNCHANGED <<brk, pulls, commitment, evidence>>

PullCommits(r) ==
    /\ Inserting(r)
    /\ pulls' = [pulls EXCEPT ![req[r].b] = @ \cup {req[r].row}]
    /\ Finish(r)
    /\ UNCHANGED <<brk, commitment, evidence>>
-----------------------------------------------------------------------------
\* commitBreak draws a seed, reads that the break is a draft ...
CommitReads(r, b) ==
    /\ req[r] = Idle
    /\ Is(b, "draft")
    /\ req' = [req EXCEPT ![r] = [op |-> "commit", b |-> b]]
    /\ UNCHANGED <<brk, pulls, commitment, evidence>>

\* ... and inserts the commitment, which a commitment already there absorbs.
CommitInserts(r) ==
    /\ req[r] # Idle /\ req[r].op = "commit"
    /\ commitment' = IF commitment[req[r].b] = None
                     THEN [commitment EXCEPT ![req[r].b] =
                             [seed |-> r, client |-> None, revealed |-> None]]
                     ELSE commitment
    /\ Finish(r)
    /\ UNCHANGED <<brk, pulls, evidence>>

\* setClientSeed: one UPDATE ... WHERE client_seed IS NULL.
SetClientSeed(b, seed) ==
    /\ commitment[b] # None /\ commitment[b].client = None
    /\ commitment' = [commitment EXCEPT ![b].client = seed]
    /\ UNCHANGED <<brk, pulls, evidence, req>>

\* revealBreak: ended, committed and seeded, read in one transaction ...
RevealReads(r, b) ==
    /\ req[r] = Idle
    /\ Is(b, "ended")
    /\ commitment[b] # None /\ commitment[b].client # None
    /\ req' = [req EXCEPT ![r] = [op |-> "reveal", b |-> b]]
    /\ UNCHANGED <<brk, pulls, commitment, evidence>>

\* ... the seed read back by the worker role and published by an UPDATE ...
\* WHERE revealed_seed IS NULL, under break_commitments_client_seed_first.
RevealWrites(r) ==
    /\ req[r] # Idle /\ req[r].op = "reveal"
    /\ LET b == req[r].b
       IN  commitment' = IF commitment[b].revealed = None
                         THEN [commitment EXCEPT ![b].revealed = commitment[b].seed]
                         ELSE commitment
    /\ Finish(r)
    /\ UNCHANGED <<brk, pulls, evidence>>
-----------------------------------------------------------------------------
\* Single statements on the row, in any status.
SetPacksOpened(b) ==
    /\ brk[b] # None
    /\ \E n \in PackCount \cup {None} : brk' = [brk EXCEPT ![b].packs = n]
    /\ UNCHANGED <<pulls, commitment, evidence, req>>

SetBreakVodUrl(b) ==
    /\ brk[b] # None
    /\ \E link \in VodLink \cup {None} : brk' = [brk EXCEPT ![b].vod = link]
    /\ UNCHANGED <<pulls, commitment, evidence, req>>

\* The stored hash is replaced, so the version before never matches again.
RotateOverlayToken(b) ==
    /\ brk[b] # None /\ brk[b].version < MaxVersion
    /\ brk' = [brk EXCEPT ![b].version = @ + 1]
    /\ UNCHANGED <<pulls, commitment, evidence, req>>

\* setPullEvidence upserts and clearPullEvidence deletes a pull's timestamp;
\* neither touches the pull.
SetPullEvidence(b, seq) ==
    /\ seq \in Seqs(b)
    /\ \E o \in Offset : evidence' = [evidence EXCEPT ![b][seq] = o]
    /\ UNCHANGED <<brk, pulls, commitment, req>>

ClearPullEvidence(b, seq) ==
    /\ evidence[b][seq] # None
    /\ evidence' = [evidence EXCEPT ![b][seq] = None]
    /\ UNCHANGED <<brk, pulls, commitment, req>>

\* A handler dies between statements and its transaction rolls back.
RequestDies(r) ==
    /\ req[r] # Idle
    /\ Finish(r)
    /\ UNCHANGED <<brk, pulls, commitment, evidence>>

RequestStep(r) ==
    \/ \E b \in Break :
         \/ CreateCounts(r, b)
         \/ \E next \in {"live", "ended"} : StatusReads(r, b, next)
         \/ \E input \in PullInput : PullCounts(r, b, input)
         \/ CommitReads(r, b)
         \/ RevealReads(r, b)
    \/ CreateInserts(r) \/ StatusWrites(r)
    \/ PullLinks(r) \/ PullInserts(r) \/ PullCommits(r)
    \/ CommitInserts(r) \/ RevealWrites(r) \/ RequestDies(r)

BreakStep(b) ==
    \/ \E seed \in ClientSeed : SetClientSeed(b, seed)
    \/ SetPacksOpened(b) \/ SetBreakVodUrl(b) \/ RotateOverlayToken(b)
    \/ \E seq \in Seqs(b) : SetPullEvidence(b, seq) \/ ClearPullEvidence(b, seq)

BreaksNext == (\E r \in Request : RequestStep(r)) \/ (\E b \in Break : BreakStep(b))
BreaksSpec == BreaksInit /\ [][BreaksNext]_vars
-----------------------------------------------------------------------------
\* What a viewer verifies: the log in order.
Log(b) == [i \in 1 .. Cardinality(pulls[b]) |->
             CHOOSE p \in pulls[b] : p.body.seq = i]

\* The committed log of a break is one chain: its sequence numbers are 1, 2,
\* 3, ... with no gap, no two pulls share one, and every row links to the row
\* before it and hashes to what it says, whatever requests raced (logPull,
\* break_pulls_break_seq_key, verifyChain).
LogIsOneChain ==
    \A b \in Break :
      /\ \A p, q \in pulls[b] : p.body.seq = q.body.seq => p = q
      /\ Seqs(b) = 1 .. Cardinality(pulls[b])
      /\ BrokenAt(Log(b)) = 0

\* A published seed is the one committed to, of a break that ended, with the
\* audience's seed recorded first; and what is published about a break never
\* runs backwards: a break is not restarted, a logged pull is not rewritten
\* or removed, a commitment, the audience's seed and a published seed stay.
Rank(status) == CASE status = "draft" -> 0 [] status = "live" -> 1 [] status = "ended" -> 2
OneWay ==
    [][\A b \in Break :
         /\ brk[b] # None => brk'[b] # None /\ Rank(brk[b].status) =< Rank(brk'[b].status)
         /\ pulls[b] \subseteq pulls'[b]
         /\ commitment[b] # None =>
              /\ commitment'[b].seed = commitment[b].seed
              /\ commitment[b].client # None => commitment'[b].client = commitment[b].client
              /\ commitment[b].revealed # None => commitment'[b].revealed = commitment[b].revealed
         /\ commitment'[b] # None /\ commitment'[b].revealed # None =>
              /\ commitment'[b].revealed = commitment'[b].seed
              /\ commitment'[b].client # None
              /\ Is(b, "ended")]_vars

\* The caps are counted before the insert and not enforced by the table, so
\* racing requests pass them, but by no more than the requests in flight.
LimitsNearlyHold ==
    /\ Cardinality(Created) < MaxBreaks + Cardinality(Request)
    /\ \A b \in Break : Cardinality(pulls[b]) < MaxPulls + Cardinality(Request)

\* A break gains no pull once it has ended (migration 0011's policy).
NoPullAfterTheEnd ==
    [][\A b \in Break : Is(b, "ended") => pulls'[b] = pulls[b]]_vars

\* A commitment is written before the break starts (schema/breaks.ts).
CommittedBeforeTheStart ==
    [][\A b \in Break : commitment[b] = None /\ commitment'[b] # None => Is(b, "draft")]_vars

\* Wherever a seed has been published, its assignment can be trusted: for every
\* number of slots, each assignment comes from exactly one sequence of draws and
\* each draw is even (deriveShuffle, randomBelow): it favours nobody.
Uniform == \A n \in 1 .. MaxSlots : FairAssignment(n) /\ FairDraw(Words, n)
ShuffleIsUniform ==
    (\E b \in Break : commitment[b] # None /\ commitment[b].revealed # None) => Uniform
=============================================================================
