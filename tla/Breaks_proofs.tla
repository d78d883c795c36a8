---------------------------- MODULE Breaks_proofs ----------------------------
(***************************************************************************)
(* The pull log and commit-reveal, for any number of breaks and requests.  *)
(* No handler holds a lock from its reads to its write, so the induction   *)
(* says what is still true, by the time it writes, of what it read: a row  *)
(* linked to a tip links to a row that stays, an inserted row is the next  *)
(* of its break, and a break a reveal was granted for has ended for good.  *)
(***************************************************************************)
EXTENDS Overlay, FoldTheorems

Doing(r, op) == req[r] # Idle /\ req[r].op = op
Pulling(r) == Doing(r, "pull") /\ req[r].at \in {"linked", "inserted"}

\* breaks_timestamps_follow_status.
RowsAllowed == \A b \in Break : brk[b] # None => RowAllowed(brk[b])

\* What a request read of its break, as far as it stays true.
Standing ==
    /\ \A r \in Request : Doing(r, "create") => brk[req[r].b] = None
    /\ \A r, q \in Request :
         Doing(r, "create") /\ Doing(q, "create") /\ req[r].b = req[q].b => r = q
    /\ \A r \in Request :
         Doing(r, "live") \/ Doing(r, "ended") => brk[req[r].b] # None
    /\ \A r \in Request : Doing(r, "reveal") =>
         /\ Is(req[r].b, "ended")
         /\ commitment[req[r].b] # None /\ commitment[req[r].b].client # None

\* A published seed is the committed one, published in its turn.
Published ==
    \A b \in Break : commitment[b] # None /\ commitment[b].revealed # None =>
      /\ commitment[b].revealed = commitment[b].seed
      /\ commitment[b].client # None
      /\ Is(b, "ended")

\* A row that hashes to what it says and links to the row before it.
Links(row, log) ==
    /\ row.rowHash = HashPull(row.prevHash, row.body)
    /\ row.body.seq = 1 => row.prevHash = Genesis
    /\ row.body.seq # 1 => \E q \in log : /\ q.body.seq = row.body.seq - 1
                                          /\ row.prevHash = q.rowHash

Numbers(log) == {p.body.seq : p \in log}
Chained(log) ==
    /\ IsFiniteSet(log)
    /\ Numbers(log) = 1 .. Cardinality(log)
    /\ \A p, q \in log : p.body.seq = q.body.seq => p = q
    /\ \A p \in log : Links(p, log)

\* A row on its way links into the log, and an inserted one is next.
OnTheWay ==
    /\ \A r \in Request : Pulling(r) =>
         /\ Links(req[r].row, pulls[req[r].b])
         /\ req[r].row.body.seq \in 1 .. Cardinality(pulls[req[r].b]) + 1
    /\ \A r \in Request : Inserting(r) => req[r].row.body.seq \notin Numbers(pulls[req[r].b])
    /\ \A r, q \in Request :
         /\ Inserting(r) /\ Inserting(q) /\ req[r].b = req[q].b
         /\ req[r].row.body.seq = req[q].row.body.seq
         => r = q

Chains == (\A b \in Break : Chained(pulls[b])) /\ OnTheWay

BreaksInv == BreaksTypeOK /\ RowsAllowed /\ Standing /\ Published /\ Chains
-----------------------------------------------------------------------------
(***************************************************************************)
(* Types                                                                   *)
(***************************************************************************)
LEMMA InputsTyped ==
  PullInput \subseteq [card : Card \cup {None}, value : Value \cup {0}, source : Source]
BY DEF PullInput, Priced, Source

\* What the request slots hold, by the statement each is at.
LEMMA Holding ==
  ASSUME BreaksTypeOK, NEW r \in Request, req[r] # Idle
  PROVE  /\ req[r] \in Held /\ req[r].b \in Break
         /\ req[r].op \in Op
         /\ req[r].op = "pull" =>
              /\ req[r].at \in {"counted", "linked", "inserted"}
              /\ req[r].at = "counted" => req[r].input \in PullInput
              /\ req[r].at # "counted" =>
                   /\ req[r].row \in PullRow
                   /\ req[r] = [op |-> "pull", b |-> req[r].b, at |-> req[r].at,
                                row |-> req[r].row]
<1>1. req[r] \in Held  BY DEF BreaksTypeOK
<1>2. CASE req[r] \in [op : {"create"}, b : Break]  BY <1>1, <1>2 DEF Op
<1>3. CASE req[r] \in [op : {"live", "ended", "commit", "reveal"}, b : Break]
  BY <1>1, <1>3 DEF Op
<1>4. CASE req[r] \in [op : {"pull"}, b : Break, at : {"counted"}, input : PullInput]
  BY <1>1, <1>4 DEF Op
<1>5. CASE req[r] \in [op : {"pull"}, b : Break, at : {"linked", "inserted"}, row : PullRow]
  BY <1>1, <1>5 DEF Op
<1>. QED  BY <1>1, <1>2, <1>3, <1>4, <1>5 DEF Held

\* No record is None.
LEMMA NoneIsNoRecord ==
    /\ None \notin BreakRow /\ None \notin CommitRow /\ None \notin Held
    /\ None \notin Request /\ None \notin ClientSeed
BY BreaksAssumption

\* Hashing a typed body.
LEMMA LinkTyped ==
  ASSUME NEW seq \in Nat \ {0}, NEW prev \in Seq(Body), NEW input \in PullInput
  PROVE  LET body == [seq |-> seq, card |-> input.card, value |-> input.value,
                      source |-> input.source]
         IN  [body |-> body, prevHash |-> prev, rowHash |-> HashPull(prev, body)] \in PullRow
<1>. DEFINE body == [seq |-> seq, card |-> input.card, value |-> input.value,
                     source |-> input.source]
<1>1. body \in Body  BY InputsTyped DEF Body
<1>2. HashPull(prev, body) \in Seq(Body)  BY <1>1 DEF HashPull
<1>. QED  BY <1>1, <1>2 DEF PullRow
-----------------------------------------------------------------------------
(***************************************************************************)
(* The tip of a log                                                        *)
(***************************************************************************)
LEMMA TipIsLast ==
  ASSUME BreaksTypeOK, NEW b \in Break, Chained(pulls[b]), pulls[b] # {}
  PROVE  /\ Tip(b) \in pulls[b]
         /\ Tip(b).body.seq = Cardinality(pulls[b])
         /\ Cardinality(pulls[b]) \in Nat \ {0}
<1>. DEFINE n == Cardinality(pulls[b])
<1>1. n \in Nat \ {0}  BY FS_EmptySet, FS_CardinalityType DEF Chained
<1>2. PICK p \in pulls[b] : p.body.seq = n
  <2>1. n \in Numbers(pulls[b])  BY <1>1 DEF Chained
  <2>. QED  BY <2>1 DEF Numbers
<1>3. \A q \in pulls[b] : q.body.seq \in 1 .. n  BY DEF Chained, Numbers
<1>4. \A q \in pulls[b] : q.body.seq =< p.body.seq  BY <1>1, <1>2, <1>3
<1>5. /\ Tip(b) \in pulls[b]
      /\ \A q \in pulls[b] : q.body.seq =< Tip(b).body.seq
  BY <1>4 DEF Tip
<1>. QED  BY <1>1, <1>2, <1>3, <1>5

LEMMA LinkedRow ==
  ASSUME BreaksTypeOK, NEW b \in Break, Chained(pulls[b]), NEW input \in PullInput
  PROVE  /\ Linked(b, input) \in PullRow
         /\ Links(Linked(b, input), pulls[b])
         /\ Linked(b, input).body.seq = Cardinality(pulls[b]) + 1
         /\ Cardinality(pulls[b]) \in Nat
<1>1. CASE pulls[b] = {}
  <2>1. Genesis \in Seq(Body)  BY DEF Genesis
  <2>2. Linked(b, input) \in PullRow
    <3>1. Linked(b, input) = [body |-> [seq |-> 1, card |-> input.card,
                                        value |-> input.value, source |-> input.source],
                              prevHash |-> Genesis,
                              rowHash |-> HashPull(Genesis,
                                            [seq |-> 1, card |-> input.card,
                                             value |-> input.value, source |-> input.source])]
      BY <1>1 DEF Linked
    <3>2. 1 \in Nat \ {0}  OBVIOUS
    <3>. QED  BY <2>1, <3>1, <3>2, LinkTyped
  <2>3. Cardinality(pulls[b]) = 0  BY <1>1, FS_EmptySet
  <2>4. /\ Linked(b, input).body.seq = 1
        /\ Linked(b, input).prevHash = Genesis
        /\ Linked(b, input).rowHash = HashPull(Linked(b, input).prevHash, Linked(b, input).body)
    BY <1>1 DEF Linked
  <2>. QED  BY <2>2, <2>3, <2>4 DEF Links
<1>2. CASE pulls[b] # {}
  <2>. DEFINE t == Tip(b)
  <2>1. t \in pulls[b] /\ t.body.seq = Cardinality(pulls[b]) /\ t.body.seq \in Nat \ {0}
    BY <1>2, TipIsLast
  <2>2. t.rowHash \in Seq(Body)  BY <2>1 DEF BreaksTypeOK, PullRow
  <2>3. t.body.seq + 1 \in Nat \ {0}  BY <2>1
  <2>. HIDE DEF t
  <2>4. Linked(b, input) = [body |-> [seq |-> t.body.seq + 1, card |-> input.card,
                                      value |-> input.value, source |-> input.source],
                            prevHash |-> t.rowHash,
                            rowHash |-> HashPull(t.rowHash,
                                          [seq |-> t.body.seq + 1, card |-> input.card,
                                           value |-> input.value, source |-> input.source])]
    BY <1>2 DEF Linked, t
  <2>5. Linked(b, input) \in PullRow  BY <2>2, <2>3, <2>4, LinkTyped
  <2>6. /\ Linked(b, input).body.seq = t.body.seq + 1
        /\ Linked(b, input).prevHash = t.rowHash
        /\ Linked(b, input).rowHash = HashPull(Linked(b, input).prevHash, Linked(b, input).body)
    BY <2>4
  <2>7. Linked(b, input).body.seq - 1 = t.body.seq /\ Linked(b, input).body.seq # 1
    BY <2>1, <2>6
  <2>. QED  BY <2>1, <2>5, <2>6, <2>7 DEF Links
<1>. QED  BY <1>1, <1>2
-----------------------------------------------------------------------------
(***************************************************************************)
(* The first state                                                         *)
(***************************************************************************)
LEMMA BreaksInitially == BreaksInit => BreaksInv
<1>. SUFFICES ASSUME BreaksInit PROVE BreaksInv  OBVIOUS
<1>1. BreaksTypeOK  BY DEF BreaksInit, BreaksTypeOK
<1>2. RowsAllowed /\ Standing /\ Published
  BY DEF BreaksInit, RowsAllowed, Standing, Published, Doing
<1>3. ASSUME NEW b \in Break  PROVE Chained(pulls[b])
  <2>1. pulls[b] = {} /\ Numbers(pulls[b]) = {}  BY DEF BreaksInit, Numbers
  <2>. QED  BY <2>1, FS_EmptySet DEF Chained, Numbers
<1>4. OnTheWay  BY DEF BreaksInit, OnTheWay, Pulling, Doing, Inserting
<1>. QED  BY <1>1, <1>2, <1>3, <1>4 DEF BreaksInv, Chains
-----------------------------------------------------------------------------
(***************************************************************************)
(* A request that reads, or is over: it writes only its own slot           *)
(***************************************************************************)
\* What remains when a slot takes a value that is not a pull's row.
LEMMA SlotTakes ==
  ASSUME BreaksInv, NEW r \in Request, NEW held \in Held \cup {Idle},
         req' = [req EXCEPT ![r] = held],
         UNCHANGED <<brk, pulls, commitment, evidence>>,
         held # Idle /\ held.op = "pull" => held.at = "counted",
         held # Idle /\ held.op = "create" =>
           /\ brk[held.b] = None
           /\ \A q \in Request : ~ (Doing(q, "create") /\ req[q].b = held.b),
         held # Idle /\ held.op \in {"live", "ended"} => brk[held.b] # None,
         held # Idle /\ held.op = "reveal" =>
           /\ Is(held.b, "ended")
           /\ commitment[held.b] # None /\ commitment[held.b].client # None
  PROVE  BreaksInv'
<1>1. req' \in [Request -> Held \cup {Idle}] /\ req'[r] = held
      /\ \A q \in Request : q # r => req'[q] = req[q]
  BY DEF BreaksInv, BreaksTypeOK
<1>2. BreaksTypeOK' /\ RowsAllowed' /\ Published'
  BY <1>1 DEF BreaksInv, BreaksTypeOK, RowsAllowed, Published, Is
<1>3. Standing'
  BY <1>1 DEF BreaksInv, Standing, Doing, Is
<1>4. \A b \in Break : Chained(pulls[b])'
  BY DEF BreaksInv, Chains
<1>5. \A q \in Request : Pulling(q)' => q # r /\ Pulling(q)
  BY <1>1 DEF Pulling, Doing
<1>6. \A q \in Request : Inserting(q)' => q # r /\ Inserting(q)
  BY <1>1 DEF Inserting
<1>7. OnTheWay'
  BY <1>1, <1>5, <1>6 DEF BreaksInv, Chains, OnTheWay
<1>. QED  BY <1>2, <1>3, <1>4, <1>7 DEF BreaksInv, Chains

\* The first statements of the handlers, and their end.
LEMMA RequestsRead ==
  ASSUME BreaksInv, NEW r \in Request,
         \/ RequestDies(r)
         \/ \E b \in Break :
              \/ CreateCounts(r, b)
              \/ \E next \in {"live", "ended"} : StatusReads(r, b, next)
              \/ \E input \in PullInput : PullCounts(r, b, input)
              \/ CommitReads(r, b)
              \/ RevealReads(r, b)
  PROVE  BreaksInv'
<1>1. CASE RequestDies(r)
  BY <1>1, SlotTakes DEF RequestDies, Finish
<1>2. ASSUME NEW b \in Break, CreateCounts(r, b)  PROVE BreaksInv'
  <2>. DEFINE held == [op |-> "create", b |-> b]
  <2>1. held \in Held /\ held.op = "create" /\ held.b = b  BY DEF Held
  <2>2. \A q \in Request : ~ (Doing(q, "create") /\ req[q].b = b)
    <3>. SUFFICES ASSUME NEW q \in Request, Doing(q, "create"), req[q].b = b  PROVE FALSE
      OBVIOUS
    <3>1. req[q] \in Held  BY Holding DEF Doing, BreaksInv
    <3>2. req[q] = [op |-> "create", b |-> b]  BY <3>1 DEF Held, Doing
    <3>. QED  BY <1>2, <3>2 DEF CreateCounts
  <2>3. brk[b] = None /\ req' = [req EXCEPT ![r] = held]
        /\ UNCHANGED <<brk, pulls, commitment, evidence>>
    BY <1>2 DEF CreateCounts
  <2>. HIDE DEF held
  <2>. QED  BY <2>1, <2>2, <2>3, SlotTakes
<1>3. ASSUME NEW b \in Break, NEW next \in {"live", "ended"}, StatusReads(r, b, next)
      PROVE BreaksInv'
  <2>. DEFINE held == [op |-> next, b |-> b]
  <2>1. held \in Held /\ held.op \in {"live", "ended"} /\ held.b = b  BY DEF Held
  <2>2. brk[b] # None /\ req' = [req EXCEPT ![r] = held]
        /\ UNCHANGED <<brk, pulls, commitment, evidence>>
    BY <1>3 DEF StatusReads
  <2>. HIDE DEF held
  <2>. QED  BY <2>1, <2>2, SlotTakes
<1>4. ASSUME NEW b \in Break, NEW input \in PullInput, PullCounts(r, b, input)
      PROVE BreaksInv'
  <2>. DEFINE held == [op |-> "pull", b |-> b, at |-> "counted", input |-> input]
  <2>1. held \in Held /\ held.op = "pull" /\ held.at = "counted"  BY DEF Held
  <2>2. req' = [req EXCEPT ![r] = held] /\ UNCHANGED <<brk, pulls, commitment, evidence>>
    BY <1>4 DEF PullCounts
  <2>. HIDE DEF held
  <2>. QED  BY <2>1, <2>2, SlotTakes
<1>5. ASSUME NEW b \in Break, CommitReads(r, b)  PROVE BreaksInv'
  <2>. DEFINE held == [op |-> "commit", b |-> b]
  <2>1. held \in Held /\ held.op = "commit"  BY DEF Held
  <2>2. req' = [req EXCEPT ![r] = held] /\ UNCHANGED <<brk, pulls, commitment, evidence>>
    BY <1>5 DEF CommitReads
  <2>. HIDE DEF held
  <2>. QED  BY <2>1, <2>2, SlotTakes
<1>6. ASSUME NEW b \in Break, RevealReads(r, b)  PROVE BreaksInv'
  <2>. DEFINE held == [op |-> "reveal", b |-> b]
  <2>1. held \in Held /\ held.op = "reveal" /\ held.b = b  BY DEF Held
  <2>2. /\ Is(b, "ended") /\ commitment[b] # None /\ commitment[b].client # None
        /\ req' = [req EXCEPT ![r] = held]
        /\ UNCHANGED <<brk, pulls, commitment, evidence>>
    BY <1>6 DEF RevealReads
  <2>. HIDE DEF held
  <2>. QED  BY <2>1, <2>2, SlotTakes
<1>. QED  BY <1>1, <1>2, <1>3, <1>4, <1>5, <1>6
-----------------------------------------------------------------------------
(***************************************************************************)
(* The rows of breaks                                                      *)
(***************************************************************************)
\* A break's row appears as a draft or stays; an ended break stays ended.
RowsMove ==
    \A b \in Break : brk[b] # None =>
      /\ brk'[b] # None
      /\ Rank(brk[b].status) =< Rank(brk'[b].status)
      /\ Is(b, "ended") => Is(b, "ended")'

\* A step on the rows alone keeps what is said of everything else.
LEMMA RowStep ==
  ASSUME BreaksInv, brk' \in [Break -> BreakRow \cup {None}], RowsAllowed', RowsMove,
         UNCHANGED <<pulls, commitment, evidence>>,
         \/ UNCHANGED req
         \/ \E r \in Request : req' = [req EXCEPT ![r] = Idle],
         \A q \in Request : Doing(q, "create")' => brk'[req[q].b] = None
  PROVE  BreaksInv'
<1>1. req' \in [Request -> Held \cup {Idle}]  BY DEF BreaksInv, BreaksTypeOK
<1>2. \A q \in Request : req'[q] # Idle => req'[q] = req[q]
  BY DEF BreaksInv, BreaksTypeOK
<1>3. BreaksTypeOK'  BY <1>1 DEF BreaksInv, BreaksTypeOK
<1>4. \A q \in Request : req[q] # Idle => req[q].b \in Break
  BY Holding DEF BreaksInv
<1>5. Standing'
  <2>1. \A r \in Request : Doing(r, "create")' => brk'[req'[r].b] = None
    BY <1>2 DEF Doing
  <2>2. \A r, q \in Request : Doing(r, "create")' /\ Doing(q, "create")'
                              /\ req'[r].b = req'[q].b => r = q
    BY <1>2 DEF BreaksInv, Standing, Doing
  <2>3. \A r \in Request :
          Doing(r, "live")' \/ Doing(r, "ended")' => brk'[req'[r].b] # None
    BY <1>2, <1>4 DEF BreaksInv, Standing, Doing, RowsMove
  <2>4. \A r \in Request : Doing(r, "reveal")' =>
         /\ Is(req[r].b, "ended")'
         /\ commitment[req[r].b] # None /\ commitment[req[r].b].client # None
    BY <1>2, <1>4 DEF BreaksInv, Standing, Doing, RowsMove, Is
  <2>. QED  BY <1>2, <2>1, <2>2, <2>3, <2>4 DEF Standing, Doing, Is
<1>6. Published'
  BY DEF BreaksInv, Published, RowsMove, Is
<1>7. \A b \in Break : Chained(pulls[b])'
  BY DEF BreaksInv, Chains
<1>8. OnTheWay'
  BY <1>2 DEF BreaksInv, Chains, OnTheWay, Pulling, Doing, Inserting
<1>. QED  BY <1>3, <1>5, <1>6, <1>7, <1>8 DEF BreaksInv, Chains

LEMMA BreakCreated ==
  ASSUME BreaksInv, NEW r \in Request, CreateInserts(r)
  PROVE  BreaksInv' /\ RowsMove
<1>. DEFINE b == req[r].b
            row == [status |-> "draft", started |-> FALSE, ended |-> FALSE,
                    packs |-> None, vod |-> None, version |-> 1]
<1>1. /\ b \in Break /\ brk[b] = None /\ Doing(r, "create")
      /\ \A q \in Request : Doing(q, "create") /\ req[q].b = b => q = r
  BY Holding DEF CreateInserts, BreaksInv, Standing, Doing
<1>2. row \in BreakRow  BY BreaksAssumption DEF BreakRow, Status
<1>3. brk' = [brk EXCEPT ![b] = row] /\ req' = [req EXCEPT ![r] = Idle]
      /\ UNCHANGED <<pulls, commitment, evidence>>
  BY DEF CreateInserts, Finish
<1>4. brk' \in [Break -> BreakRow \cup {None}]  BY <1>2, <1>3 DEF BreaksInv, BreaksTypeOK
<1>5. RowsAllowed'
  BY <1>1, <1>3 DEF BreaksInv, BreaksTypeOK, RowsAllowed, RowAllowed
<1>6. \A d \in Break : brk[d] # None => brk'[d] = brk[d]
  BY <1>1, <1>3 DEF BreaksInv, BreaksTypeOK
<1>7. RowsMove
  BY <1>6 DEF RowsMove, Is, Rank, BreaksInv, BreaksTypeOK, BreakRow, Status
<1>8. \A q \in Request : Doing(q, "create")' => brk'[req[q].b] = None
  <2>. SUFFICES ASSUME NEW q \in Request, Doing(q, "create")'  PROVE brk'[req[q].b] = None
    OBVIOUS
  <2>1. q # r /\ Doing(q, "create")
    BY <1>3 DEF Doing, BreaksInv, BreaksTypeOK
  <2>2. req[q].b # b /\ req[q].b \in Break /\ brk[req[q].b] = None
    BY <1>1, <2>1, Holding DEF BreaksInv, Standing, Doing
  <2>. QED  BY <1>3, <2>2 DEF BreaksInv, BreaksTypeOK
<1>. QED  BY <1>3, <1>4, <1>5, <1>7, <1>8, RowStep

\* setBreakStatus: the CHECK stops the update that its read did not foresee.
LEMMA StatusMoved ==
  ASSUME BreaksInv, NEW r \in Request, StatusWrites(r)
  PROVE  BreaksInv' /\ RowsMove
<1>. DEFINE b == req[r].b
            row == Moved(brk[b], req[r].op)
<1>1. b \in Break /\ brk[b] # None /\ req[r].op \in {"live", "ended"}
  BY Holding DEF StatusWrites, BreaksInv, Standing, Doing
<1>2. brk[b] \in BreakRow /\ RowAllowed(brk[b])
  BY <1>1 DEF BreaksInv, BreaksTypeOK, RowsAllowed
<1>3. row \in BreakRow /\ row # None
  BY <1>1, <1>2, NoneIsNoRecord DEF Moved, BreakRow, Status
<1>4. RowAllowed(row) => /\ Rank(brk[b].status) =< Rank(row.status)
                         /\ brk[b].status = "ended" => row.status = "ended"
  BY <1>1, <1>2 DEF Moved, RowAllowed, BreakRow, Status, Rank
<1>. HIDE DEF row
<1>5. brk' = (IF RowAllowed(row) THEN [brk EXCEPT ![b] = row] ELSE brk)
      /\ req' = [req EXCEPT ![r] = Idle] /\ UNCHANGED <<pulls, commitment, evidence>>
  BY DEF StatusWrites, Finish, row
<1>6. \A d \in Break : brk'[d] = brk[d] \/ (d = b /\ brk'[d] = row /\ RowAllowed(row))
  <2>1. brk \in [Break -> BreakRow \cup {None}]  BY DEF BreaksInv, BreaksTypeOK
  <2>2. CASE RowAllowed(row)  BY <1>5, <2>1, <2>2
  <2>3. CASE ~ RowAllowed(row)  BY <1>5, <2>3
  <2>. QED  BY <2>2, <2>3
<1>7. brk' \in [Break -> BreakRow \cup {None}]  BY <1>3, <1>5 DEF BreaksInv, BreaksTypeOK
<1>8. RowsAllowed'  BY <1>6 DEF BreaksInv, RowsAllowed, RowAllowed
<1>9. RowsMove
  BY <1>1, <1>3, <1>4, <1>6 DEF RowsMove, Is, Rank, BreaksInv, BreaksTypeOK, BreakRow, Status
<1>10. \A q \in Request : Doing(q, "create")' => brk'[req[q].b] = None
  BY <1>1, <1>5, <1>6, Holding DEF BreaksInv, BreaksTypeOK, Standing, Doing
<1>. QED  BY <1>5, <1>7, <1>8, <1>9, <1>10, RowStep

LEMMA RowEdited ==
  ASSUME BreaksInv, NEW b \in Break,
         SetPacksOpened(b) \/ SetBreakVodUrl(b) \/ RotateOverlayToken(b)
  PROVE  BreaksInv' /\ RowsMove
<1>1. brk[b] # None /\ brk[b] \in BreakRow /\ UNCHANGED <<pulls, commitment, evidence, req>>
  BY DEF SetPacksOpened, SetBreakVodUrl, RotateOverlayToken, BreaksInv, BreaksTypeOK
<1>2. \E row \in BreakRow :
        /\ brk' = [brk EXCEPT ![b] = row]
        /\ row.status = brk[b].status /\ row.started = brk[b].started
        /\ row.ended = brk[b].ended
  <2>1. CASE SetPacksOpened(b)
    <3>1. PICK n \in PackCount \cup {None} : brk' = [brk EXCEPT ![b].packs = n]
      BY <2>1 DEF SetPacksOpened
    <3>2. [brk[b] EXCEPT !.packs = n] \in BreakRow  BY <1>1 DEF BreakRow
    <3>. WITNESS [brk[b] EXCEPT !.packs = n] \in BreakRow
    <3>. QED  BY <1>1, <3>1 DEF BreakRow, BreaksInv, BreaksTypeOK
  <2>2. CASE SetBreakVodUrl(b)
    <3>1. PICK link \in VodLink \cup {None} : brk' = [brk EXCEPT ![b].vod = link]
      BY <2>2 DEF SetBreakVodUrl
    <3>2. [brk[b] EXCEPT !.vod = link] \in BreakRow  BY <1>1 DEF BreakRow
    <3>. WITNESS [brk[b] EXCEPT !.vod = link] \in BreakRow
    <3>. QED  BY <1>1, <3>1 DEF BreakRow, BreaksInv, BreaksTypeOK
  <2>3. CASE RotateOverlayToken(b)
    <3>1. brk' = [brk EXCEPT ![b].version = @ + 1] /\ brk[b].version < MaxVersion
      BY <2>3 DEF RotateOverlayToken
    <3>2. brk[b].version + 1 \in 1 .. MaxVersion
      BY <1>1, <3>1, BreaksAssumption DEF BreakRow
    <3>3. [brk[b] EXCEPT !.version = @ + 1] \in BreakRow  BY <1>1, <3>2 DEF BreakRow
    <3>. WITNESS [brk[b] EXCEPT !.version = @ + 1] \in BreakRow
    <3>. QED  BY <1>1, <3>1 DEF BreakRow, BreaksInv, BreaksTypeOK
  <2>. QED  BY <2>1, <2>2, <2>3
<1>3. PICK row \in BreakRow :
        /\ brk' = [brk EXCEPT ![b] = row]
        /\ row.status = brk[b].status /\ row.started = brk[b].started
        /\ row.ended = brk[b].ended
  BY <1>2
<1>4. brk' \in [Break -> BreakRow \cup {None}] /\ row # None
  BY <1>3, NoneIsNoRecord DEF BreaksInv, BreaksTypeOK
<1>5. brk'[b] = row /\ \A d \in Break : d # b => brk'[d] = brk[d]
  <2>1. brk \in [Break -> BreakRow \cup {None}]  BY DEF BreaksInv, BreaksTypeOK
  <2>. QED  BY <1>3, <2>1
<1>6. RowsAllowed'
  BY <1>1, <1>3, <1>5 DEF BreaksInv, RowsAllowed, RowAllowed
<1>7. RowsMove
  BY <1>1, <1>3, <1>4, <1>5 DEF RowsMove, Is, Rank, BreaksInv, BreaksTypeOK, BreakRow, Status
<1>8. \A q \in Request : Doing(q, "create")' => brk'[req[q].b] = None
  BY <1>1, <1>5, Holding DEF BreaksInv, Standing, Doing
<1>. QED  BY <1>1, <1>4, <1>6, <1>7, <1>8, RowStep
-----------------------------------------------------------------------------
(***************************************************************************)
(* Commit and reveal                                                       *)
(***************************************************************************)
\* A commitment appears once; what is in it stays.
CommitmentsMove ==
    \A b \in Break : commitment[b] # None =>
      /\ commitment'[b] # None
      /\ commitment'[b].seed = commitment[b].seed
      /\ commitment[b].client # None => commitment'[b].client = commitment[b].client
      /\ commitment[b].revealed # None => commitment'[b].revealed = commitment[b].revealed

LEMMA CommitmentStep ==
  ASSUME BreaksInv, commitment' \in [Break -> CommitRow \cup {None}],
         Published', CommitmentsMove,
         UNCHANGED <<brk, pulls, evidence>>,
         \/ UNCHANGED req
         \/ \E r \in Request : req' = [req EXCEPT ![r] = Idle]
  PROVE  BreaksInv'
<1>1. req' \in [Request -> Held \cup {Idle}]  BY DEF BreaksInv, BreaksTypeOK
<1>2. \A q \in Request : req'[q] # Idle => req'[q] = req[q]
  BY DEF BreaksInv, BreaksTypeOK
<1>3. BreaksTypeOK' /\ RowsAllowed'
  BY <1>1 DEF BreaksInv, BreaksTypeOK, RowsAllowed
<1>4. \A q \in Request : req[q] # Idle => req[q].b \in Break
  BY Holding DEF BreaksInv
<1>5. Standing'
  BY <1>2, <1>4 DEF BreaksInv, Standing, Doing, CommitmentsMove, Is
<1>6. \A b \in Break : Chained(pulls[b])'
  BY DEF BreaksInv, Chains
<1>7. OnTheWay'
  BY <1>2 DEF BreaksInv, Chains, OnTheWay, Pulling, Doing, Inserting
<1>. QED  BY <1>3, <1>5, <1>6, <1>7 DEF BreaksInv, Chains

LEMMA Committed ==
  ASSUME BreaksInv, NEW r \in Request, CommitInserts(r)
  PROVE  BreaksInv' /\ CommitmentsMove
<1>. DEFINE b == req[r].b
            row == [seed |-> r, client |-> None, revealed |-> None]
<1>1. b \in Break  BY Holding DEF CommitInserts, BreaksInv
<1>2. row \in CommitRow  BY DEF CommitRow
<1>3. /\ UNCHANGED <<brk, pulls, evidence>> /\ req' = [req EXCEPT ![r] = Idle]
      /\ commitment' = IF commitment[b] = None THEN [commitment EXCEPT ![b] = row]
                                               ELSE commitment
  BY DEF CommitInserts, Finish
<1>4. commitment \in [Break -> CommitRow \cup {None}]  BY DEF BreaksInv, BreaksTypeOK
<1>5. commitment' \in [Break -> CommitRow \cup {None}]  BY <1>2, <1>3, <1>4
<1>6. \A d \in Break : commitment'[d] = commitment[d] \/ (commitment[d] = None /\ commitment'[d] = row)
  BY <1>1, <1>3, <1>4
<1>7. CommitmentsMove  BY <1>6 DEF CommitmentsMove
<1>8. Published'  BY <1>3, <1>6 DEF BreaksInv, Published, Is
<1>. QED  BY <1>3, <1>5, <1>7, <1>8, CommitmentStep

LEMMA Seeded ==
  ASSUME BreaksInv, NEW b \in Break, NEW seed \in ClientSeed, SetClientSeed(b, seed)
  PROVE  BreaksInv' /\ CommitmentsMove
<1>1. /\ commitment[b] # None /\ commitment[b].client = None
      /\ commitment' = [commitment EXCEPT ![b].client = seed]
      /\ UNCHANGED <<brk, pulls, evidence, req>>
  BY DEF SetClientSeed
<1>2. commitment \in [Break -> CommitRow \cup {None}]  BY DEF BreaksInv, BreaksTypeOK
<1>3. commitment[b] \in CommitRow  BY <1>1, <1>2
<1>. DEFINE row == [commitment[b] EXCEPT !.client = seed]
<1>4. /\ row \in CommitRow /\ row # None /\ row.seed = commitment[b].seed
      /\ row.client # None /\ row.revealed = commitment[b].revealed
  BY <1>3, NoneIsNoRecord DEF CommitRow
<1>5. commitment' = [commitment EXCEPT ![b] = row]  BY <1>1
<1>. HIDE DEF row
<1>6. /\ commitment' \in [Break -> CommitRow \cup {None}]
      /\ commitment'[b] = row /\ \A d \in Break : d # b => commitment'[d] = commitment[d]
  BY <1>2, <1>4, <1>5
<1>7. CommitmentsMove  BY <1>1, <1>4, <1>6 DEF CommitmentsMove
<1>8. Published'  BY <1>1, <1>4, <1>6 DEF BreaksInv, Published, Is
<1>. QED  BY <1>1, <1>6, <1>7, <1>8, CommitmentStep

LEMMA Revealed ==
  ASSUME BreaksInv, NEW r \in Request, RevealWrites(r)
  PROVE  BreaksInv' /\ CommitmentsMove
<1>. DEFINE b == req[r].b
            row == [commitment[b] EXCEPT !.revealed = commitment[b].seed]
<1>1. /\ b \in Break /\ Is(b, "ended") /\ commitment[b] # None /\ commitment[b].client # None
  BY Holding DEF RevealWrites, BreaksInv, Standing, Doing
<1>2. commitment \in [Break -> CommitRow \cup {None}]  BY DEF BreaksInv, BreaksTypeOK
<1>3. commitment[b] \in CommitRow  BY <1>1, <1>2
<1>4. /\ row \in CommitRow /\ row # None /\ row.seed = commitment[b].seed
      /\ row.client = commitment[b].client /\ row.revealed = row.seed
  BY <1>3, NoneIsNoRecord DEF CommitRow
<1>5. /\ UNCHANGED <<brk, pulls, evidence>> /\ req' = [req EXCEPT ![r] = Idle]
      /\ commitment' = IF commitment[b].revealed = None THEN [commitment EXCEPT ![b] = row]
                                                        ELSE commitment
  BY DEF RevealWrites, Finish
<1>. HIDE DEF row
<1>6. /\ commitment' \in [Break -> CommitRow \cup {None}]
      /\ \A d \in Break :
           \/ commitment'[d] = commitment[d]
           \/ d = b /\ commitment[b].revealed = None /\ commitment'[d] = row
  BY <1>1, <1>2, <1>4, <1>5
<1>7. CommitmentsMove  BY <1>1, <1>4, <1>6 DEF CommitmentsMove
<1>8. Published'  BY <1>1, <1>4, <1>5, <1>6 DEF BreaksInv, Published, Is
<1>. QED  BY <1>5, <1>6, <1>7, <1>8, CommitmentStep
-----------------------------------------------------------------------------
(***************************************************************************)
(* The log                                                                 *)
(***************************************************************************)
\* A pull's slot takes its row: linked to the tip, or inserted.
LEMMA RowOnTheWay ==
  ASSUME BreaksInv, NEW r \in Request, NEW at \in {"linked", "inserted"}, NEW b \in Break,
         NEW row \in PullRow,
         req' = [req EXCEPT ![r] = [op |-> "pull", b |-> b, at |-> at, row |-> row]],
         UNCHANGED <<brk, pulls, commitment, evidence>>,
         Links(row, pulls[b]), row.body.seq \in 1 .. Cardinality(pulls[b]) + 1,
         at = "inserted" =>
           /\ row.body.seq \notin Numbers(pulls[b])
           /\ \A q \in Request : Inserting(q) /\ req[q].b = b
                                   => req[q].row.body.seq # row.body.seq
  PROVE  BreaksInv'
<1>. DEFINE held == [op |-> "pull", b |-> b, at |-> at, row |-> row]
<1>1. /\ held \in Held /\ held # Idle /\ held.op = "pull" /\ held.b = b
      /\ held.at = at /\ held.row = row
  BY NoneIsNoRecord DEF Held, Idle
<1>2. req' = [req EXCEPT ![r] = held]  OBVIOUS
<1>. HIDE DEF held
<1>3. req' \in [Request -> Held \cup {Idle}] /\ req'[r] = held
      /\ \A q \in Request : q # r => req'[q] = req[q]
  BY <1>1, <1>2 DEF BreaksInv, BreaksTypeOK
<1>4. BreaksTypeOK' /\ RowsAllowed' /\ Published'
  BY <1>3 DEF BreaksInv, BreaksTypeOK, RowsAllowed, Published, Is
<1>5. Standing'
  BY <1>1, <1>3 DEF BreaksInv, Standing, Doing, Is
<1>6. \A d \in Break : Chained(pulls[d])'
  BY DEF BreaksInv, Chains
<1>7. \A q \in Request : q # r => (Pulling(q)' <=> Pulling(q)) /\ (Inserting(q)' <=> Inserting(q))
  BY <1>3 DEF Pulling, Doing, Inserting
<1>8. /\ Pulling(r)' /\ (Inserting(r)' <=> at = "inserted")
  BY <1>1, <1>3 DEF Pulling, Doing, Inserting
<1>9. OnTheWay'
  <2>1. \A q \in Request : Pulling(q)' =>
          /\ Links(req'[q].row, pulls[req'[q].b])
          /\ req'[q].row.body.seq \in 1 .. Cardinality(pulls[req'[q].b]) + 1
    BY <1>1, <1>3, <1>7 DEF BreaksInv, Chains, OnTheWay
  <2>2. \A q \in Request : Inserting(q)' => req'[q].row.body.seq \notin Numbers(pulls[req'[q].b])
    BY <1>1, <1>3, <1>7, <1>8 DEF BreaksInv, Chains, OnTheWay
  <2>3. \A p, q \in Request :
         /\ Inserting(p)' /\ Inserting(q)' /\ req'[p].b = req'[q].b
         /\ req'[p].row.body.seq = req'[q].row.body.seq
         => p = q
    BY <1>1, <1>3, <1>7, <1>8 DEF BreaksInv, Chains, OnTheWay
  <2>. QED  BY <2>1, <2>2, <2>3 DEF OnTheWay
<1>. QED  BY <1>4, <1>5, <1>6, <1>9 DEF BreaksInv, Chains

LEMMA PullsLink ==
  ASSUME BreaksInv, NEW r \in Request, PullLinks(r)
  PROVE  BreaksInv'
<1>. DEFINE b == req[r].b
            row == Linked(b, req[r].input)
<1>1. b \in Break /\ req[r].input \in PullInput
  BY Holding DEF PullLinks, BreaksInv
<1>2. row \in PullRow /\ Links(row, pulls[b]) /\ row.body.seq \in 1 .. Cardinality(pulls[b]) + 1
  BY <1>1, LinkedRow DEF BreaksInv, Chains
<1>3. /\ req' = [req EXCEPT ![r] = [op |-> "pull", b |-> b, at |-> "linked", row |-> row]]
      /\ UNCHANGED <<brk, pulls, commitment, evidence>>
  BY DEF PullLinks
<1>. HIDE DEF row, b
<1>. QED  BY <1>1, <1>2, <1>3, RowOnTheWay

LEMMA PullsInsert ==
  ASSUME BreaksInv, NEW r \in Request, PullInserts(r)
  PROVE  BreaksInv'
<1>. DEFINE b == req[r].b
            row == req[r].row
<1>1. /\ req[r] # Idle /\ req[r].op = "pull" /\ req[r].at = "linked"
      /\ UNCHANGED <<brk, pulls, commitment, evidence>>
  BY DEF PullInserts
<1>2. /\ b \in Break /\ row \in PullRow
      /\ req[r] = [op |-> "pull", b |-> b, at |-> "linked", row |-> row]
  BY <1>1, Holding DEF BreaksInv
<1>3. CASE MayInsert(b, row.body.seq)
  <2>1. req' = [req EXCEPT ![r] = [op |-> "pull", b |-> b, at |-> "inserted", row |-> row]]
    <3>1. [req[r] EXCEPT !.at = "inserted"]
            = [op |-> "pull", b |-> b, at |-> "inserted", row |-> row]
      BY <1>2
    <3>. QED  BY <1>3, <3>1 DEF PullInserts
  <2>2. /\ Links(row, pulls[b]) /\ row.body.seq \in 1 .. Cardinality(pulls[b]) + 1
    BY <1>1 DEF BreaksInv, Chains, OnTheWay, Pulling, Doing
  <2>3. /\ row.body.seq \notin Numbers(pulls[b])
        /\ \A q \in Request : Inserting(q) /\ req[q].b = b => req[q].row.body.seq # row.body.seq
    BY <1>3 DEF MayInsert, PullInserts, Seqs, Numbers
  <2>. HIDE DEF row, b
  <2>. QED  BY <1>1, <1>2, <2>1, <2>2, <2>3, RowOnTheWay
<1>4. CASE ~ MayInsert(b, row.body.seq)
  <2>1. req' = [req EXCEPT ![r] = Idle]  BY <1>4 DEF PullInserts
  <2>. QED  BY <1>1, <2>1, SlotTakes
<1>. QED  BY <1>3, <1>4

\* The next row of a chain makes a longer chain.
LEMMA ChainGrows ==
  ASSUME NEW log, Chained(log), NEW row, Links(row, log),
         row.body.seq \in 1 .. Cardinality(log) + 1, row.body.seq \notin Numbers(log)
  PROVE  /\ Chained(log \cup {row})
         /\ Cardinality(log) \in Nat
         /\ Cardinality(log \cup {row}) = Cardinality(log) + 1
         /\ row.body.seq = Cardinality(log) + 1
<1>. DEFINE n == Cardinality(log)
            longer == log \cup {row}
<1>1. IsFiniteSet(log) /\ n \in Nat  BY FS_CardinalityType DEF Chained
<1>2. row.body.seq = n + 1  BY <1>1 DEF Chained
<1>3. row \notin log  BY DEF Numbers
<1>4. IsFiniteSet(longer) /\ Cardinality(longer) = n + 1  BY <1>1, <1>3, FS_AddElement
<1>5. Numbers(longer) = 1 .. n + 1
  <2>1. Numbers(longer) = Numbers(log) \cup {n + 1}  BY <1>2 DEF Numbers
  <2>2. Numbers(log) = 1 .. n  BY DEF Chained
  <2>3. \A m \in Nat : (1 .. m) \cup {m + 1} = 1 .. m + 1  OBVIOUS
  <2>. QED  BY <1>1, <2>1, <2>2, <2>3
<1>6. \A p, q \in longer : p.body.seq = q.body.seq => p = q  BY DEF Chained, Numbers
<1>7. \A p \in longer : Links(p, longer)  BY DEF Chained, Links
<1>. QED  BY <1>1, <1>2, <1>4, <1>5, <1>6, <1>7 DEF Chained

\* The commit: the row becomes the last of its log.
LEMMA PullsCommit ==
  ASSUME BreaksInv, NEW r \in Request, PullCommits(r)
  PROVE  BreaksInv'
<1>1. PICK b, row : b = req[r].b /\ row = req[r].row  OBVIOUS
<1>2. /\ Inserting(r) /\ req' = [req EXCEPT ![r] = Idle]
      /\ pulls' = [pulls EXCEPT ![b] = @ \cup {row}]
      /\ UNCHANGED <<brk, commitment, evidence>>
  BY <1>1 DEF PullCommits, Finish
<1>3. b \in Break /\ row \in PullRow
  BY <1>1, <1>2, Holding DEF Inserting, BreaksInv
<1>4. /\ Chained(pulls[b]) /\ Links(row, pulls[b])
      /\ row.body.seq \in 1 .. Cardinality(pulls[b]) + 1
      /\ row.body.seq \notin Numbers(pulls[b])
  BY <1>1, <1>2, <1>3 DEF BreaksInv, Chains, OnTheWay, Inserting, Pulling, Doing
<1>5. /\ pulls'[b] = pulls[b] \cup {row}
      /\ \A d \in Break : d # b => pulls'[d] = pulls[d]
      /\ pulls' \in [Break -> SUBSET PullRow]
  BY <1>2, <1>3 DEF BreaksInv, BreaksTypeOK
<1>6. /\ Chained(pulls'[b]) /\ Cardinality(pulls[b]) \in Nat
      /\ Cardinality(pulls'[b]) = Cardinality(pulls[b]) + 1
  BY <1>4, <1>5, ChainGrows
<1>7. /\ req' \in [Request -> Held \cup {Idle}]
      /\ \A q \in Request : req'[q] # Idle => req'[q] = req[q] /\ q # r
  BY <1>2 DEF BreaksInv, BreaksTypeOK
<1>8. BreaksTypeOK' /\ RowsAllowed' /\ Published'
  BY <1>2, <1>5, <1>7 DEF BreaksInv, BreaksTypeOK, RowsAllowed, Published, Is
<1>9. Standing'
  BY <1>2, <1>7 DEF BreaksInv, Standing, Doing, Is
<1>10. \A d \in Break : Chained(pulls'[d])
  BY <1>5, <1>6 DEF BreaksInv, Chains
<1>11. OnTheWay'
  <2>1. \A q \in Request : /\ Pulling(q)' => Pulling(q) /\ req'[q] = req[q]
                           /\ Inserting(q)' => Inserting(q) /\ req'[q] = req[q] /\ q # r
    BY <1>7 DEF Pulling, Doing, Inserting
  <2>2. \A q \in Request : Pulling(q) => req[q].b \in Break
    BY Holding DEF BreaksInv, Pulling, Doing
  <2>3. ASSUME NEW q \in Request, Pulling(q)'
        PROVE  /\ Links(req'[q].row, pulls'[req'[q].b])
               /\ req'[q].row.body.seq \in 1 .. Cardinality(pulls'[req'[q].b]) + 1
    <3>1. Pulling(q) /\ req'[q] = req[q] /\ req[q].b \in Break  BY <2>1, <2>2, <2>3
    <3>2. /\ Links(req[q].row, pulls[req[q].b])
          /\ req[q].row.body.seq \in 1 .. Cardinality(pulls[req[q].b]) + 1
      BY <3>1 DEF BreaksInv, Chains, OnTheWay
    <3>3. CASE req[q].b # b  BY <1>5, <3>1, <3>2, <3>3
    <3>4. CASE req[q].b = b
      <4>1. Links(req[q].row, pulls'[b])  BY <1>5, <3>2, <3>4 DEF Links
      <4>. QED  BY <1>6, <3>1, <3>2, <3>4, <4>1
    <3>. QED  BY <3>3, <3>4
  <2>4. ASSUME NEW q \in Request, Inserting(q)'
        PROVE  req'[q].row.body.seq \notin Numbers(pulls'[req'[q].b])
    <3>1. Inserting(q) /\ q # r /\ req'[q] = req[q]  BY <2>1, <2>4
    <3>2. req[q].b \in Break /\ req[q].row.body.seq \notin Numbers(pulls[req[q].b])
      BY <2>2, <3>1 DEF Inserting, Pulling, Doing, BreaksInv, Chains, OnTheWay
    <3>3. CASE req[q].b # b  BY <1>5, <3>1, <3>2, <3>3
    <3>4. CASE req[q].b = b
      <4>1. req[q].row.body.seq # row.body.seq
        BY <1>1, <1>2, <3>1, <3>4 DEF BreaksInv, Chains, OnTheWay
      <4>. QED  BY <1>5, <3>1, <3>2, <3>4, <4>1 DEF Numbers
    <3>. QED  BY <3>3, <3>4
  <2>5. \A p, q \in Request :
         /\ Inserting(p)' /\ Inserting(q)' /\ req'[p].b = req'[q].b
         /\ req'[p].row.body.seq = req'[q].row.body.seq
         => p = q
    BY <2>1 DEF BreaksInv, Chains, OnTheWay
  <2>. QED  BY <2>3, <2>4, <2>5 DEF OnTheWay
<1>. QED  BY <1>8, <1>9, <1>10, <1>11 DEF BreaksInv, Chains
-----------------------------------------------------------------------------
(***************************************************************************)
(* Every step                                                              *)
(***************************************************************************)
\* setPullEvidence and clearPullEvidence touch nothing the others read.
LEMMA EvidenceStep ==
  ASSUME BreaksInv, NEW b \in Break, NEW seq \in Seqs(b),
         SetPullEvidence(b, seq) \/ ClearPullEvidence(b, seq)
  PROVE  BreaksInv'
<1>1. UNCHANGED <<brk, pulls, commitment, req>>
  BY DEF SetPullEvidence, ClearPullEvidence
<1>2. PICK o \in Offset \cup {None} : evidence' = [evidence EXCEPT ![b][seq] = o]
  BY DEF SetPullEvidence, ClearPullEvidence
<1>3. evidence' \in [Break -> [1 .. SeqBound -> Offset \cup {None}]]
  BY <1>2 DEF BreaksInv, BreaksTypeOK
<1>4. BreaksTypeOK'  BY <1>1, <1>3 DEF BreaksInv, BreaksTypeOK
<1>. QED
  BY <1>1, <1>4 DEF BreaksInv, RowsAllowed, Standing, Doing, Published, Is, Chains, OnTheWay,
                    Pulling, Inserting

LEMMA RankKept ==
  ASSUME BreaksInv, UNCHANGED brk
  PROVE  RowsMove
BY DEF RowsMove, Is, Rank, BreaksInv, BreaksTypeOK, BreakRow, Status

\* A step keeps the invariant, and what is published moves one way only.
LEMMA BreaksStep ==
  ASSUME BreaksInv, [BreaksNext]_vars
  PROVE  /\ BreaksInv' /\ RowsMove /\ CommitmentsMove
         /\ \A b \in Break : pulls[b] \subseteq pulls'[b]
<1>. DEFINE Goal == /\ BreaksInv' /\ RowsMove /\ CommitmentsMove
                    /\ \A b \in Break : pulls[b] \subseteq pulls'[b]
<1>1. CASE UNCHANGED vars
  <2>1. BreaksInv'
    BY <1>1 DEF vars, BreaksInv, BreaksTypeOK, RowsAllowed, Standing, Doing, Published, Is,
                Chains, OnTheWay, Pulling, Inserting
  <2>. QED  BY <1>1, <2>1, RankKept DEF vars, CommitmentsMove
<1>2. ASSUME NEW r \in Request, RequestStep(r)  PROVE Goal
  <2>1. CASE CreateInserts(r)
    BY <2>1, BreakCreated DEF CreateInserts, CommitmentsMove
  <2>2. CASE StatusWrites(r)
    BY <2>2, StatusMoved DEF StatusWrites, CommitmentsMove
  <2>3. CASE CommitInserts(r)
    BY <2>3, Committed, RankKept DEF CommitInserts
  <2>4. CASE RevealWrites(r)
    BY <2>4, Revealed, RankKept DEF RevealWrites
  <2>5. CASE PullLinks(r)
    BY <2>5, PullsLink, RankKept DEF PullLinks, CommitmentsMove
  <2>6. CASE PullInserts(r)
    BY <2>6, PullsInsert, RankKept DEF PullInserts, CommitmentsMove
  <2>7. CASE PullCommits(r)
    <3>1. UNCHANGED <<brk, commitment>> /\ pulls' = [pulls EXCEPT ![req[r].b] = @ \cup {req[r].row}]
      BY <2>7 DEF PullCommits
    <3>2. \A b \in Break : pulls[b] \subseteq pulls'[b]
      BY <3>1 DEF BreaksInv, BreaksTypeOK
    <3>. QED  BY <2>7, <3>1, <3>2, PullsCommit, RankKept DEF CommitmentsMove
  <2>8. CASE \/ RequestDies(r)
             \/ \E b \in Break :
                  \/ CreateCounts(r, b)
                  \/ \E next \in {"live", "ended"} : StatusReads(r, b, next)
                  \/ \E input \in PullInput : PullCounts(r, b, input)
                  \/ CommitReads(r, b)
                  \/ RevealReads(r, b)
    <3>1. UNCHANGED <<brk, pulls, commitment>>
      BY <2>8 DEF RequestDies, CreateCounts, StatusReads, PullCounts, CommitReads, RevealReads
    <3>2. BreaksInv'  BY <2>8, RequestsRead
    <3>. QED  BY <3>1, <3>2, RankKept DEF CommitmentsMove
  <2>. QED
    BY <1>2, <2>1, <2>2, <2>3, <2>4, <2>5, <2>6, <2>7, <2>8 DEF RequestStep
<1>3. ASSUME NEW b \in Break, BreakStep(b)  PROVE Goal
  <2>1. ASSUME NEW seed \in ClientSeed, SetClientSeed(b, seed)  PROVE Goal
    BY <2>1, Seeded, RankKept DEF SetClientSeed
  <2>2. CASE SetPacksOpened(b) \/ SetBreakVodUrl(b) \/ RotateOverlayToken(b)
    BY <2>2, RowEdited DEF SetPacksOpened, SetBreakVodUrl, RotateOverlayToken, CommitmentsMove
  <2>3. ASSUME NEW seq \in Seqs(b), SetPullEvidence(b, seq) \/ ClearPullEvidence(b, seq)
        PROVE  Goal
    BY <2>3, EvidenceStep, RankKept DEF SetPullEvidence, ClearPullEvidence, CommitmentsMove
  <2>. QED  BY <1>3, <2>1, <2>2, <2>3 DEF BreakStep
<1>. QED  BY <1>1, <1>2, <1>3 DEF BreaksNext

\* No statement writes both a break's row and its commitment.
LEMMA OneTable ==
  ASSUME [BreaksNext]_vars
  PROVE  UNCHANGED brk \/ UNCHANGED commitment
BY DEF BreaksNext, vars, RequestStep, BreakStep, CreateCounts, CreateInserts, StatusReads,
       StatusWrites, PullCounts, PullLinks, PullInserts, PullCommits, CommitReads,
       CommitInserts, SetClientSeed, RevealReads, RevealWrites, SetPacksOpened,
       SetBreakVodUrl, RotateOverlayToken, SetPullEvidence, ClearPullEvidence, RequestDies

LEMMA InvImpliesOneChain ==
  ASSUME BreaksInv
  PROVE  LogIsOneChain
<1>. SUFFICES ASSUME NEW b \in Break
              PROVE  /\ \A p, q \in pulls[b] : p.body.seq = q.body.seq => p = q
                     /\ Seqs(b) = 1 .. Cardinality(pulls[b])
                     /\ BrokenAt(Log(b)) = 0
  BY DEF LogIsOneChain
<1>1. Chained(pulls[b])  BY DEF BreaksInv, Chains
<1>. DEFINE n == Cardinality(pulls[b])
            log == Log(b)
<1>2. n \in Nat  BY <1>1, FS_CardinalityType DEF Chained
<1>3. DOMAIN log = 1 .. n  BY DEF Log
<1>4. ASSUME NEW i \in 1 .. n  PROVE log[i] \in pulls[b] /\ log[i].body.seq = i
  <2>1. i \in Numbers(pulls[b])  BY <1>1 DEF Chained
  <2>2. \E p \in pulls[b] : p.body.seq = i  BY <2>1 DEF Numbers
  <2>. QED  BY <2>2 DEF Log
<1>5. ASSUME NEW i \in 1 .. n
      PROVE  /\ log[i].prevHash = IF i = 1 THEN Genesis ELSE log[i - 1].rowHash
             /\ log[i].rowHash = HashPull(log[i].prevHash, log[i].body)
  <2>1. Links(log[i], pulls[b]) /\ log[i].body.seq = i  BY <1>1, <1>4 DEF Chained
  <2>. HIDE DEF log
  <2>2. CASE i = 1  BY <2>1, <2>2 DEF Links
  <2>3. CASE i # 1
    <3>1. PICK q \in pulls[b] : q.body.seq = i - 1 /\ log[i].prevHash = q.rowHash
      BY <2>1, <2>3 DEF Links
    <3>2. i - 1 \in 1 .. n  BY <1>2, <2>3
    <3>3. log[i - 1] = q  BY <1>1, <1>4, <3>1, <3>2 DEF Chained
    <3>. QED  BY <2>1, <2>3, <3>1, <3>3 DEF Links
  <2>. QED  BY <2>2, <2>3
<1>. HIDE DEF log, n
<1>6. BrokenAt(log) = 0  BY <1>3, <1>5 DEF BrokenAt
<1>. QED  BY <1>1, <1>6 DEF Chained, Numbers, Seqs, log

-----------------------------------------------------------------------------
(***************************************************************************)
(* The caps.  A request that counted and has not inserted is one more than *)
(* the table shows, and all that are in flight are requests.               *)
(***************************************************************************)
Made(rows) == {b \in Break : rows[b] # None}
Creators(held) == {r \in Request : held[r] # Idle /\ held[r].op = "create"}
Pullers(held, b) == {r \in Request : held[r] # Idle /\ held[r].op = "pull" /\ held[r].b = b}

Within(done, inFlight, cap) ==
    /\ IsFiniteSet(done)
    /\ Cardinality(done) + Cardinality(inFlight) < cap + Cardinality(Request)

LimitsInv ==
    /\ Within(Made(brk), Creators(req), MaxBreaks)
    /\ \A b \in Break : Within(pulls[b], Pullers(req, b), MaxPulls)

\* Requests are finitely many.
LEMMA InFlight ==
  ASSUME NEW S, S \subseteq Request
  PROVE  /\ IsFiniteSet(S) /\ Cardinality(S) \in Nat
         /\ Cardinality(Request) \in Nat
         /\ Cardinality(S) =< Cardinality(Request)
BY BreaksAssumption, FS_Subset, FS_CardinalityType

\* One fewer in flight, and no row more.
LEMMA WithinFewer ==
  ASSUME NEW done, NEW S, NEW T, NEW cap \in Nat, Within(done, S, cap),
         S \subseteq Request, T \subseteq S
  PROVE  Within(done, T, cap)
<1>1. Cardinality(T) =< Cardinality(S) /\ Cardinality(T) \in Nat
  BY InFlight, FS_Subset, FS_CardinalityType
<1>2. Cardinality(done) \in Nat /\ Cardinality(S) \in Nat /\ Cardinality(Request) \in Nat
  BY InFlight, FS_CardinalityType DEF Within
<1>. QED  BY <1>1, <1>2 DEF Within

\* A request that counted below the cap, whoever else is in flight.
LEMMA WithinCounted ==
  ASSUME NEW done, NEW T, NEW cap \in Nat, IsFiniteSet(done), Cardinality(done) < cap,
         T \subseteq Request
  PROVE  Within(done, T, cap)
<1>1. Cardinality(done) \in Nat  BY FS_CardinalityType
<1>. QED  BY <1>1, InFlight DEF Within

\* A request that inserts is in flight no more.
LEMMA WithinInserted ==
  ASSUME NEW done, NEW S, NEW cap \in Nat, Within(done, S, cap), S \subseteq Request,
         NEW r \in S, NEW x
  PROVE  Within(done \cup {x}, S \ {r}, cap)
<1>1. /\ IsFiniteSet(done \cup {x})
      /\ Cardinality(done \cup {x}) \in {Cardinality(done), Cardinality(done) + 1}
  BY FS_AddElement DEF Within
<1>2. Cardinality(S \ {r}) = Cardinality(S) - 1
  BY InFlight, FS_RemoveElement
<1>3. Cardinality(done) \in Nat /\ Cardinality(S) \in Nat /\ Cardinality(Request) \in Nat
  BY InFlight, FS_CardinalityType DEF Within
<1>. QED  BY <1>1, <1>2, <1>3 DEF Within

LEMMA LimitsInitially == BreaksInit => LimitsInv
<1>. SUFFICES ASSUME BreaksInit PROVE LimitsInv  OBVIOUS
<1>1. Made(brk) = {} /\ \A b \in Break : pulls[b] = {}
  BY DEF BreaksInit, Made
<1>2. Creators(req) \subseteq Request /\ \A b \in Break : Pullers(req, b) \subseteq Request
  BY DEF Creators, Pullers
<1>3. IsFiniteSet({}) /\ Cardinality({}) < MaxBreaks /\ Cardinality({}) < MaxPulls
  BY BreaksAssumption, FS_EmptySet
<1>4. Within(Made(brk), Creators(req), MaxBreaks)
  BY <1>1, <1>2, <1>3, WithinCounted, BreaksAssumption
<1>5. \A b \in Break : Within(pulls[b], Pullers(req, b), MaxPulls)
  BY <1>1, <1>2, <1>3, WithinCounted, BreaksAssumption
<1>. QED  BY <1>4, <1>5 DEF LimitsInv

\* A step that inserts nothing, and after which no more are in flight.
LEMMA LimitsQuiet ==
  ASSUME LimitsInv, Made(brk') = Made(brk), pulls' = pulls,
         Creators(req') \subseteq Creators(req),
         \A b \in Break : Pullers(req', b) \subseteq Pullers(req, b)
  PROVE  LimitsInv'
<1>1. Creators(req) \subseteq Request /\ \A b \in Break : Pullers(req, b) \subseteq Request
  BY DEF Creators, Pullers
<1>2. Within(Made(brk'), Creators(req'), MaxBreaks)
  BY <1>1, WithinFewer, BreaksAssumption DEF LimitsInv
<1>3. \A b \in Break : Within(pulls'[b], Pullers(req', b), MaxPulls)
  BY <1>1, WithinFewer, BreaksAssumption DEF LimitsInv
<1>. QED  BY <1>2, <1>3 DEF LimitsInv

\* The same, of one break's pulls.
LEMMA PullersQuiet ==
  ASSUME LimitsInv, NEW b \in Break, pulls'[b] = pulls[b],
         Pullers(req', b) \subseteq Pullers(req, b)
  PROVE  Within(pulls'[b], Pullers(req', b), MaxPulls)
<1>1. Pullers(req, b) \subseteq Request  BY DEF Pullers
<1>2. Within(pulls[b], Pullers(req, b), MaxPulls)  BY DEF LimitsInv
<1>3. MaxPulls \in Nat  BY BreaksAssumption
<1>. QED  BY <1>1, <1>2, <1>3, WithinFewer

\* What a slot's new content does to those in flight.
LEMMA SlotCounts ==
  ASSUME BreaksTypeOK, NEW r \in Request, NEW held, req' = [req EXCEPT ![r] = held]
  PROVE  /\ held = Idle \/ held.op # "create" => Creators(req') \subseteq Creators(req)
         /\ \A b \in Break : held = Idle \/ held.op # "pull" \/ held.b # b
                               => Pullers(req', b) \subseteq Pullers(req, b)
         /\ held = Idle => /\ Creators(req') = Creators(req) \ {r}
                           /\ \A b \in Break : Pullers(req', b) = Pullers(req, b) \ {r}
<1>1. req'[r] = held /\ \A q \in Request : q # r => req'[q] = req[q]
  BY DEF BreaksTypeOK
<1>. QED  BY <1>1 DEF Creators, Pullers

LEMMA LimitsStep ==
  ASSUME BreaksInv, LimitsInv, [BreaksNext]_vars
  PROVE  LimitsInv'
<1>0. BreaksTypeOK /\ MaxBreaks \in Nat /\ MaxPulls \in Nat
  BY BreaksAssumption DEF BreaksInv
<1>1. CASE UNCHANGED vars  BY <1>1 DEF vars, LimitsInv
<1>2. ASSUME NEW r \in Request, RequestStep(r)  PROVE LimitsInv'
  <2>1. ASSUME NEW b \in Break, CreateCounts(r, b)  PROVE LimitsInv'
    <3>1. /\ req' = [req EXCEPT ![r] = [op |-> "create", b |-> b]]
          /\ UNCHANGED <<brk, pulls>> /\ Cardinality(Made(brk)) < MaxBreaks
      BY <2>1 DEF CreateCounts, Created, Made
    <3>2. Within(Made(brk'), Creators(req'), MaxBreaks)
      BY <1>0, <3>1, WithinCounted DEF LimitsInv, Within, Creators
    <3>3. \A d \in Break : Pullers(req', d) \subseteq Pullers(req, d)
      <4>. DEFINE held == [op |-> "create", b |-> b]
      <4>1. req' = [req EXCEPT ![r] = held] /\ held.op # "pull"  BY <3>1
      <4>. HIDE DEF held
      <4>. QED  BY <1>0, <4>1, SlotCounts
    <3>4. \A d \in Break : Within(pulls'[d], Pullers(req', d), MaxPulls)
      BY <3>1, <3>3, PullersQuiet
    <3>. QED  BY <3>2, <3>4 DEF LimitsInv
  <2>2. CASE CreateInserts(r)
    <3>1. /\ req' = [req EXCEPT ![r] = Idle] /\ UNCHANGED pulls
          /\ r \in Creators(req)
      BY <2>2 DEF CreateInserts, Finish, Creators
    <3>2. Made(brk') = Made(brk) \cup {req[r].b}
      <4>1. PICK row : row # None /\ brk' = [brk EXCEPT ![req[r].b] = row]
        <5>. DEFINE row == [status |-> "draft", started |-> FALSE, ended |-> FALSE,
                            packs |-> None, vod |-> None, version |-> 1]
        <5>1. row \in BreakRow  BY BreaksAssumption DEF BreakRow, Status
        <5>2. row # None  BY <5>1, NoneIsNoRecord
        <5>. QED  BY <5>2, <2>2 DEF CreateInserts
      <4>2. req[r].b \in Break  BY <1>0, <2>2, Holding DEF CreateInserts
      <4>. QED  BY <1>0, <4>1, <4>2 DEF Made, BreaksTypeOK
    <3>3. Creators(req') = Creators(req) \ {r} /\ \A d \in Break : Pullers(req', d) \subseteq Pullers(req, d)
      BY <1>0, <3>1, SlotCounts
    <3>4. Within(Made(brk'), Creators(req'), MaxBreaks)
      <4>1. Within(Made(brk), Creators(req), MaxBreaks) /\ Creators(req) \subseteq Request
        BY DEF LimitsInv, Creators
      <4>2. \A x : Within(Made(brk) \cup {x}, Creators(req) \ {r}, MaxBreaks)
        BY <1>0, <3>1, <4>1, WithinInserted
      <4>. QED  BY <3>2, <3>3, <4>2
    <3>5. \A d \in Break : Within(pulls'[d], Pullers(req', d), MaxPulls)
      BY <3>1, <3>3, PullersQuiet
    <3>. QED  BY <3>4, <3>5 DEF LimitsInv
  <2>3. ASSUME NEW b \in Break, NEW input \in PullInput, PullCounts(r, b, input)
        PROVE LimitsInv'
    <3>. DEFINE held == [op |-> "pull", b |-> b, at |-> "counted", input |-> input]
    <3>1. /\ req' = [req EXCEPT ![r] = held] /\ UNCHANGED <<brk, pulls>>
          /\ Cardinality(pulls[b]) < MaxPulls
      BY <2>3 DEF PullCounts
    <3>2. held.op = "pull" /\ held.b = b  OBVIOUS
    <3>. HIDE DEF held
    <3>3. /\ Creators(req') \subseteq Creators(req)
          /\ \A d \in Break : d # b => Pullers(req', d) \subseteq Pullers(req, d)
      BY <1>0, <3>1, <3>2, SlotCounts
    <3>4. Within(Made(brk'), Creators(req'), MaxBreaks)
      BY <1>0, <3>1, <3>3, WithinFewer DEF LimitsInv, Creators
    <3>5. ASSUME NEW d \in Break  PROVE Within(pulls'[d], Pullers(req', d), MaxPulls)
      <4>1. CASE d = b
        BY <1>0, <3>1, <4>1, WithinCounted DEF LimitsInv, Within, Pullers
      <4>2. CASE d # b
        BY <3>1, <3>3, <4>2, PullersQuiet
      <4>. QED  BY <4>1, <4>2
    <3>. QED  BY <3>4, <3>5 DEF LimitsInv
  <2>4. CASE PullLinks(r) \/ PullInserts(r)
    <3>1. PICK held : /\ req' = [req EXCEPT ![r] = held]
                      /\ held = Idle \/ (held.op = "pull" /\ held.b = req[r].b)
      <4>1. CASE PullLinks(r)
        <5>. WITNESS [op |-> "pull", b |-> req[r].b, at |-> "linked",
                      row |-> Linked(req[r].b, req[r].input)]
        <5>. QED  BY <4>1 DEF PullLinks
      <4>2. CASE PullInserts(r) /\ MayInsert(req[r].b, req[r].row.body.seq)
        <5>1. req[r] = [op |-> "pull", b |-> req[r].b, at |-> req[r].at, row |-> req[r].row]
          BY <1>0, <4>2, Holding DEF PullInserts
        <5>. WITNESS [req[r] EXCEPT !.at = "inserted"]
        <5>. QED  BY <4>2, <5>1 DEF PullInserts
      <4>3. CASE PullInserts(r) /\ ~ MayInsert(req[r].b, req[r].row.body.seq)
        BY <4>3 DEF PullInserts
      <4>. QED  BY <2>4, <4>1, <4>2, <4>3
    <3>2. UNCHANGED <<brk, pulls>> /\ req[r] # Idle /\ req[r].op = "pull"
      BY <2>4 DEF PullLinks, PullInserts
    <3>3. Creators(req') \subseteq Creators(req)  BY <1>0, <3>1, SlotCounts
    <3>4. \A b \in Break : Pullers(req', b) \subseteq Pullers(req, b)
      <4>1. req'[r] = held /\ \A q \in Request : q # r => req'[q] = req[q]
        BY <1>0, <3>1 DEF BreaksTypeOK
      <4>. QED  BY <3>1, <3>2, <4>1 DEF Pullers
    <3>. QED  BY <3>2, <3>3, <3>4, LimitsQuiet
  <2>5. CASE PullCommits(r)
    <3>1. PICK b \in Break : b = req[r].b
      BY <1>0, <2>5, Holding DEF PullCommits, Inserting
    <3>2. /\ req' = [req EXCEPT ![r] = Idle] /\ UNCHANGED brk
          /\ pulls' = [pulls EXCEPT ![b] = @ \cup {req[r].row}]
          /\ r \in Pullers(req, b)
      BY <2>5, <3>1 DEF PullCommits, Finish, Inserting, Pullers
    <3>3. /\ pulls'[b] = pulls[b] \cup {req[r].row}
          /\ \A d \in Break : d # b => pulls'[d] = pulls[d]
      BY <1>0, <3>2 DEF BreaksTypeOK
    <3>4. /\ Creators(req') \subseteq Creators(req)
          /\ \A d \in Break : Pullers(req', d) = Pullers(req, d) \ {r}
      BY <1>0, <3>2, SlotCounts
    <3>5. Within(Made(brk'), Creators(req'), MaxBreaks)
      BY <1>0, <3>2, <3>4, WithinFewer DEF LimitsInv, Creators
    <3>6. ASSUME NEW d \in Break  PROVE Within(pulls'[d], Pullers(req', d), MaxPulls)
      <4>1. Within(pulls[d], Pullers(req, d), MaxPulls) /\ Pullers(req, d) \subseteq Request
        BY DEF LimitsInv, Pullers
      <4>2. CASE d = b
        <5>1. r \in Pullers(req, d) /\ pulls'[d] = pulls[d] \cup {req[r].row}
          BY <3>2, <3>3, <4>2
        <5>2. Within(pulls[d] \cup {req[r].row}, Pullers(req, d) \ {r}, MaxPulls)
          BY <1>0, <4>1, <5>1, WithinInserted
        <5>. QED  BY <3>4, <5>1, <5>2
      <4>3. CASE d # b  BY <3>3, <3>4, <4>3, PullersQuiet
      <4>. QED  BY <4>2, <4>3
    <3>. QED  BY <3>5, <3>6 DEF LimitsInv
  <2>6. CASE StatusWrites(r)
    <3>1. req' = [req EXCEPT ![r] = Idle] /\ UNCHANGED pulls  BY <2>6 DEF StatusWrites, Finish
    <3>2. Made(brk') = Made(brk)
      <4>1. RowsMove  BY <2>6, StatusMoved
      <4>2. \A d \in Break : d # req[r].b => brk'[d] = brk[d]
        BY <1>0, <2>6 DEF StatusWrites, BreaksTypeOK
      <4>3. brk[req[r].b] # None
        BY <2>6 DEF StatusWrites, BreaksInv, Standing, Doing
      <4>. QED  BY <4>1, <4>2, <4>3 DEF Made, RowsMove
    <3>. QED  BY <1>0, <3>1, <3>2, SlotCounts, LimitsQuiet
  <2>7. CASE CommitInserts(r) \/ RevealWrites(r) \/ RequestDies(r)
    <3>1. req' = [req EXCEPT ![r] = Idle] /\ UNCHANGED <<brk, pulls>>
      BY <2>7 DEF CommitInserts, RevealWrites, RequestDies, Finish
    <3>. QED  BY <1>0, <3>1, SlotCounts, LimitsQuiet
  <2>8. ASSUME NEW b \in Break,
               \/ \E next \in {"live", "ended"} : StatusReads(r, b, next)
               \/ CommitReads(r, b) \/ RevealReads(r, b)
        PROVE LimitsInv'
    <3>1. PICK held : /\ req' = [req EXCEPT ![r] = held]
                      /\ held.op \in {"live", "ended", "commit", "reveal"}
      <4>1. \E op \in {"live", "ended", "commit", "reveal"} :
              req' = [req EXCEPT ![r] = [op |-> op, b |-> b]]
        BY <2>8 DEF StatusReads, CommitReads, RevealReads
      <4>2. PICK op \in {"live", "ended", "commit", "reveal"} :
              req' = [req EXCEPT ![r] = [op |-> op, b |-> b]]
        BY <4>1
      <4>. WITNESS [op |-> op, b |-> b]
      <4>. QED  BY <4>2
    <3>2. UNCHANGED <<brk, pulls>>  BY <2>8 DEF StatusReads, CommitReads, RevealReads
    <3>. QED  BY <1>0, <3>1, <3>2, SlotCounts, LimitsQuiet
  <2>. QED
    BY <1>2, <2>1, <2>2, <2>3, <2>4, <2>5, <2>6, <2>7, <2>8 DEF RequestStep
<1>3. ASSUME NEW b \in Break, BreakStep(b)  PROVE LimitsInv'
  <2>1. UNCHANGED <<pulls, req>>
    BY <1>3 DEF BreakStep, SetClientSeed, SetPacksOpened, SetBreakVodUrl, RotateOverlayToken,
                SetPullEvidence, ClearPullEvidence
  <2>2. Made(brk') = Made(brk)
    <3>1. UNCHANGED brk \/ (RowsMove /\ brk[b] # None /\ \A d \in Break : d # b => brk'[d] = brk[d])
      BY <1>0, <1>3, RowEdited
      DEF BreakStep, SetClientSeed, SetPacksOpened, SetBreakVodUrl, RotateOverlayToken,
          SetPullEvidence, ClearPullEvidence, BreaksTypeOK
    <3>. QED  BY <3>1 DEF Made, RowsMove
  <2>. QED  BY <2>1, <2>2, LimitsQuiet
<1>. QED  BY <1>1, <1>2, <1>3 DEF BreaksNext

LEMMA InvImpliesLimits ==
  ASSUME LimitsInv
  PROVE  LimitsNearlyHold
<1>1. Made(brk) = Created  BY DEF Made, Created
<1>2. Creators(req) \subseteq Request /\ \A b \in Break : Pullers(req, b) \subseteq Request
  BY DEF Creators, Pullers
<1>3. ASSUME NEW done, NEW S, NEW cap \in Nat, S \subseteq Request, Within(done, S, cap)
      PROVE  Cardinality(done) < cap + Cardinality(Request)
  BY <1>3, InFlight, FS_CardinalityType DEF Within
<1>4. MaxBreaks \in Nat /\ MaxPulls \in Nat  BY BreaksAssumption
<1>. QED  BY <1>1, <1>2, <1>3, <1>4 DEF LimitsInv, LimitsNearlyHold
-----------------------------------------------------------------------------
\* Every table and every request holds what its schema and its handler say.
THEOREM BreaksTypes == BreaksSpec => []BreaksTypeOK
<1>1. BreaksInv => BreaksTypeOK  BY DEF BreaksInv
<1>. QED  BY <1>1, BreaksInitially, BreaksStep, PTL DEF BreaksSpec

\* Whatever requests race, a break's committed pulls are one hash chain without
\* a gap or a fork (logPull, break_pulls_break_seq_key, verifyChain).
THEOREM TheLogIsOneChain == BreaksSpec => []LogIsOneChain
BY InvImpliesOneChain, BreaksInitially, BreaksStep, PTL DEF BreaksSpec

\* Nothing published about a break is taken back, and a published seed is the
\* committed one of a break that ended (setBreakStatus, fairness.ts).
THEOREM PublishedOneWay == BreaksSpec => OneWay
<1>. DEFINE Forward ==
       \A b \in Break :
         /\ brk[b] # None => brk'[b] # None /\ Rank(brk[b].status) =< Rank(brk'[b].status)
         /\ pulls[b] \subseteq pulls'[b]
         /\ commitment[b] # None =>
              /\ commitment'[b].seed = commitment[b].seed
              /\ commitment[b].client # None => commitment'[b].client = commitment[b].client
              /\ commitment[b].revealed # None => commitment'[b].revealed = commitment[b].revealed
         /\ commitment'[b] # None /\ commitment'[b].revealed # None =>
              /\ commitment'[b].revealed = commitment'[b].seed
              /\ commitment'[b].client # None
              /\ Is(b, "ended")
<1>1. ASSUME BreaksInv, [BreaksNext]_vars  PROVE Forward
  <2>1. BreaksInv' /\ RowsMove /\ CommitmentsMove /\ \A b \in Break : pulls[b] \subseteq pulls'[b]
    BY <1>1, BreaksStep
  <2>2. \A b \in Break : commitment'[b] # None /\ commitment'[b].revealed # None =>
              /\ commitment'[b].revealed = commitment'[b].seed
              /\ commitment'[b].client # None
    BY <2>1 DEF BreaksInv, Published
  <2>3. \A b \in Break : commitment'[b] # None /\ commitment'[b].revealed # None => Is(b, "ended")
    <3>1. CASE UNCHANGED commitment
      BY <1>1, <3>1 DEF BreaksInv, Published
    <3>2. CASE UNCHANGED brk
      BY <2>1, <3>2 DEF BreaksInv, Published, Is
    <3>. QED  BY <1>1, <3>1, <3>2, OneTable
  <2>. QED  BY <2>1, <2>2, <2>3 DEF RowsMove, CommitmentsMove
<1>. QED  BY <1>1, BreaksInitially, BreaksStep, PTL DEF BreaksSpec, OneWay

\* The caps on breaks and on pulls are passed by less than the requests in
\* flight, whatever the caps and however many (createBreak, logPull).
THEOREM CapsNearlyKept == BreaksSpec => []LimitsNearlyHold
<1>1. BreaksInit => BreaksInv /\ LimitsInv  BY BreaksInitially, LimitsInitially
<1>2. BreaksInv /\ LimitsInv /\ [BreaksNext]_vars => BreaksInv' /\ LimitsInv'
  BY BreaksStep, LimitsStep
<1>3. LimitsInv => LimitsNearlyHold  BY InvImpliesLimits
<1>. QED  BY <1>1, <1>2, <1>3, PTL DEF BreaksSpec
-----------------------------------------------------------------------------
(***************************************************************************)
(* The overlay: a connection is counted exactly while its stream is open.  *)
(***************************************************************************)
Slot(s) ==
    \/ s = Closed
    \/ \E L, G : s \in [at : {"lookup"}, token : Token, last : L, gone : G]
    \/ \E L, G, R : s \in [at : {"open"}, token : Token, last : L, gone : G, reads : R]

OpenOn(s, t) == s.at = "open" /\ s.token = t
Watching(str, t) == {v \in Viewer : OpenOn(str[v], t)}

SlotInv ==
    /\ DOMAIN stream = Viewer /\ stream = [v \in Viewer |-> stream[v]]
    /\ \A v \in Viewer : Slot(stream[v])
    /\ connections \in [Token -> Nat]
    /\ \A t \in Token :
         connections[t] =< MaxConnections /\ connections[t] = Cardinality(Watching(stream, t))

LEMMA WatchersFinite ==
  ASSUME NEW str, NEW t
  PROVE  IsFiniteSet(Watching(str, t)) /\ Cardinality(Watching(str, t)) \in Nat
<1>1. Watching(str, t) \subseteq Viewer  BY DEF Watching
<1>. QED  BY <1>1, FS_Subset, FS_CardinalityType, OverlayAssumption

\* A step that leaves every stream open or shut as it was moves no count.
LEMMA SlotStays ==
  ASSUME SlotInv, NEW v \in Viewer, NEW s, Slot(s),
         stream' = [stream EXCEPT ![v] = s], UNCHANGED connections,
         \A t \in Token : OpenOn(s, t) <=> OpenOn(stream[v], t)
  PROVE  SlotInv'
<1>1. \A w \in Viewer : stream'[w] = IF w = v THEN s ELSE stream[w]  BY DEF SlotInv
<1>2. \A t \in Token : Watching(stream, t)' = Watching(stream, t)
  BY <1>1 DEF Watching
<1>3. DOMAIN stream' = Viewer /\ stream' = [w \in Viewer |-> stream'[w]]  BY DEF SlotInv
<1>4. \A w \in Viewer : Slot(stream'[w])  BY <1>1 DEF SlotInv
<1>. QED  BY <1>2, <1>3, <1>4 DEF SlotInv

\* A stream that opens below the cap takes one connection.
LEMMA SlotTaken ==
  ASSUME SlotInv, NEW v \in Viewer, NEW s, Slot(s), NEW t \in Token,
         stream' = [stream EXCEPT ![v] = s], stream[v].at # "open",
         \A u \in Token : OpenOn(s, u) <=> u = t,
         connections' = [connections EXCEPT ![t] = @ + 1],
         connections[t] < MaxConnections
  PROVE  SlotInv'
<1>1. \A w \in Viewer : stream'[w] = IF w = v THEN s ELSE stream[w]  BY DEF SlotInv
<1>2. \A u \in Token : Watching(stream, u)' =
        IF u = t THEN Watching(stream, u) \cup {v} ELSE Watching(stream, u)
  BY <1>1 DEF Watching, OpenOn
<1>3. v \notin Watching(stream, t)  BY DEF Watching, OpenOn
<1>4. Cardinality(Watching(stream, t) \cup {v}) = Cardinality(Watching(stream, t)) + 1
  BY <1>3, WatchersFinite, FS_AddElement
<1>5. connections' \in [Token -> Nat]
      /\ \A u \in Token : connections'[u] = IF u = t THEN connections[u] + 1 ELSE connections[u]
  BY DEF SlotInv
<1>6. \A u \in Token : connections'[u] = Cardinality(Watching(stream, u)')
  BY <1>2, <1>4, <1>5 DEF SlotInv
<1>7. \A u \in Token : connections'[u] =< MaxConnections
  BY <1>5, OverlayAssumption DEF SlotInv
<1>8. DOMAIN stream' = Viewer /\ stream' = [w \in Viewer |-> stream'[w]]  BY DEF SlotInv
<1>9. \A w \in Viewer : Slot(stream'[w])  BY <1>1 DEF SlotInv
<1>. QED  BY <1>5, <1>6, <1>7, <1>8, <1>9 DEF SlotInv

\* A stream that closes gives its connection back, once.
LEMMA SlotGiven ==
  ASSUME SlotInv, NEW v \in Viewer, stream[v].at = "open", Cleanup(v)
  PROVE  SlotInv'
<1>. DEFINE t == stream[v].token
<1>0. t \in Token  BY DEF SlotInv, Slot, Closed
<1>1. \A w \in Viewer : stream'[w] = IF w = v THEN Closed ELSE stream[w]  BY DEF SlotInv, Cleanup
<1>2. \A u \in Token : Watching(stream, u)' =
        IF u = t THEN Watching(stream, u) \ {v} ELSE Watching(stream, u)
  BY <1>1 DEF Watching, OpenOn, Closed
<1>3. v \in Watching(stream, t)  BY DEF Watching, OpenOn
<1>4. /\ Cardinality(Watching(stream, t) \ {v}) = Cardinality(Watching(stream, t)) - 1
      /\ Cardinality(Watching(stream, t) \ {v}) \in Nat
  BY <1>3, WatchersFinite, FS_RemoveElement, FS_CardinalityType
<1>5. connections[t] \in Nat /\ connections[t] = Cardinality(Watching(stream, t))
  BY <1>0 DEF SlotInv
<1>6. connections[t] > 0  BY <1>4, <1>5, WatchersFinite
<1>14. connections' = [connections EXCEPT ![t] = @ - 1]
  BY <1>6 DEF Cleanup
<1>7. connections[t] - 1 \in Nat  BY <1>4, <1>5
<1>8. connections' \in [Token -> Nat]
      /\ \A u \in Token : connections'[u] = IF u = t THEN connections[u] - 1 ELSE connections[u]
  BY <1>14, <1>7 DEF SlotInv
<1>9. \A u \in Token : connections'[u] = Cardinality(Watching(stream, u)')
  BY <1>2, <1>4, <1>8 DEF SlotInv
<1>10. \A u \in Token : connections'[u] =< MaxConnections
  BY <1>8, OverlayAssumption DEF SlotInv
<1>11. DOMAIN stream' = Viewer /\ stream' = [w \in Viewer |-> stream'[w]]
  BY DEF SlotInv, Cleanup
<1>13. Slot(Closed)  BY DEF Slot
<1>12. \A w \in Viewer : Slot(stream'[w])  BY <1>1, <1>13 DEF SlotInv
<1>. QED  BY <1>8, <1>9, <1>10, <1>11, <1>12 DEF SlotInv

LEMMA MakesSlot ==
  ASSUME NEW t \in Token, NEW last, NEW gone, NEW reads
  PROVE  /\ Slot([at |-> "lookup", token |-> t, last |-> last, gone |-> gone])
         /\ Slot([at |-> "open", token |-> t, last |-> last, gone |-> gone, reads |-> reads])
<1>1. [at |-> "lookup", token |-> t, last |-> last, gone |-> gone]
        \in [at : {"lookup"}, token : Token, last : {last}, gone : {gone}]
  OBVIOUS
<1>2. [at |-> "open", token |-> t, last |-> last, gone |-> gone, reads |-> reads]
        \in [at : {"open"}, token : Token, last : {last}, gone : {gone}, reads : {reads}]
  OBVIOUS
<1>. QED  BY <1>1, <1>2 DEF Slot

\* Writing what a stream has read or that its client left keeps it a stream
\* of the same token, open or not as it was.
LEMMA FieldsStay ==
  ASSUME NEW s, Slot(s), NEW r, NEW x, NEW y,
         \/ s.at = "lookup" /\ r = [s EXCEPT !.gone = TRUE]
         \/ s.at = "open" /\ r = [s EXCEPT !.reads = x]
         \/ s.at = "open" /\ r = [s EXCEPT !.reads = x, !.last = y]
  PROVE  Slot(r) /\ r.at = s.at /\ r.token = s.token
<1>0. s # Closed  BY DEF Closed
<1>1. CASE s.at = "lookup"
  <2>1. PICK L, G : s \in [at : {"lookup"}, token : Token, last : L, gone : G]
    BY <1>0, <1>1 DEF Slot
  <2>2. r = [s EXCEPT !.gone = TRUE]  BY <1>1
  <2>3. r \in [at : {"lookup"}, token : Token, last : L, gone : G \cup {TRUE}]
        /\ r.at = s.at /\ r.token = s.token
    BY <2>1, <2>2
  <2>. QED  BY <2>3 DEF Slot
<1>2. CASE s.at = "open"
  <2>1. PICK L, G, R : s \in [at : {"open"}, token : Token, last : L, gone : G, reads : R]
    BY <1>0, <1>2 DEF Slot
  <2>2. r = [s EXCEPT !.reads = x] \/ r = [s EXCEPT !.reads = x, !.last = y]  BY <1>2
  <2>3. r \in [at : {"open"}, token : Token, last : L \cup {y}, gone : G, reads : R \cup {x}]
        /\ r.at = s.at /\ r.token = s.token
    BY <2>1, <2>2
  <2>. QED  BY <2>3 DEF Slot
<1>. QED  BY <1>1, <1>2

LEMMA OverlayKeepsSlots ==
  ASSUME SlotInv, [OverlayNext]_allVars
  PROVE  SlotInv'
<1>1. CASE UNCHANGED overlayVars  BY <1>1 DEF SlotInv, overlayVars, Watching
<1>2. ASSUME NEW v \in Viewer, NEW t \in Token, Connects(v, t)  PROVE SlotInv'
  <2>. DEFINE s == [at |-> "lookup", token |-> t, last |-> Newest(t[1]), gone |-> FALSE]
  <2>1. Slot(s)  BY MakesSlot
  <2>2. \A u \in Token : OpenOn(s, u) <=> OpenOn(stream[v], u)
    BY <1>2 DEF Connects, OpenOn, Closed
  <2>3. stream' = [stream EXCEPT ![v] = s] /\ UNCHANGED connections  BY <1>2 DEF Connects
  <2>. HIDE DEF s
  <2>. QED  BY <2>1, <2>2, <2>3, SlotStays
<1>3. ASSUME NEW v \in Viewer, Opens(v)  PROVE SlotInv'
  <2>. DEFINE t == stream[v].token
              s == [at |-> "open", token |-> t, last |-> stream[v].last,
                    gone |-> stream[v].gone, reads |-> {}]
  <2>1. t \in Token  BY <1>3 DEF Opens, SlotInv, Slot, Closed
  <2>2. CASE connections[t] >= MaxConnections
    <3>1. stream' = [stream EXCEPT ![v] = Closed] /\ UNCHANGED connections
      BY <1>3, <2>2 DEF Opens
    <3>2. \A u \in Token : OpenOn(Closed, u) <=> OpenOn(stream[v], u)
      BY <1>3 DEF Opens, OpenOn, Closed
    <3>3. Slot(Closed)  BY DEF Slot
    <3>. QED  BY <3>1, <3>2, <3>3, SlotStays
  <2>3. CASE ~(connections[t] >= MaxConnections)
    <3>1. /\ stream' = [stream EXCEPT ![v] = s]
          /\ connections' = [connections EXCEPT ![t] = @ + 1]
      BY <1>3, <2>3 DEF Opens
    <3>2. \A u \in Token : OpenOn(s, u) <=> u = t  BY DEF OpenOn
    <3>3. Slot(s)  BY <2>1, MakesSlot
    <3>4. connections[t] < MaxConnections
      BY <2>1, <2>3, OverlayAssumption DEF SlotInv
    <3>5. stream[v].at # "open"  BY <1>3 DEF Opens
    <3>. HIDE DEF s, t
    <3>. QED  BY <2>1, <3>1, <3>2, <3>3, <3>4, <3>5, SlotTaken
  <2>. QED  BY <2>2, <2>3
<1>4. ASSUME NEW v \in Viewer, NEW s, Slot(s), stream' = [stream EXCEPT ![v] = s],
             UNCHANGED connections, s.at = stream[v].at, s.token = stream[v].token
      PROVE  SlotInv'
  <2>1. \A u \in Token : OpenOn(s, u) <=> OpenOn(stream[v], u)  BY <1>4 DEF OpenOn
  <2>. QED  BY <1>4, <2>1, SlotStays
<1>5. ASSUME NEW v \in Viewer, Disconnects(v)  PROVE SlotInv'
  <2>1. CASE stream[v].at = "lookup"
    <3>. DEFINE s == [stream[v] EXCEPT !.gone = TRUE]
    <3>1. stream' = [stream EXCEPT ![v] = s] /\ UNCHANGED connections
      BY <1>5, <2>1 DEF Disconnects
    <3>2. Slot(stream[v])  BY DEF SlotInv
    <3>3. Slot(s) /\ s.at = stream[v].at /\ s.token = stream[v].token
      BY <2>1, <3>2, FieldsStay
    <3>. HIDE DEF s
    <3>. QED  BY <1>4, <3>1, <3>3
  <2>2. CASE stream[v].at # "lookup"
    BY <1>5, <2>2, SlotGiven DEF Disconnects
  <2>. QED  BY <2>1, <2>2
<1>6. ASSUME NEW v \in Viewer, PollReads(v)  PROVE SlotInv'
  <2>. DEFINE s == [stream[v] EXCEPT !.reads = @ \cup {Shown(stream[v].token)}]
  <2>1. stream[v].at = "open" /\ Slot(stream[v])  BY <1>6 DEF PollReads, SlotInv
  <2>2. Slot(s) /\ s.at = stream[v].at /\ s.token = stream[v].token
    BY <2>1, FieldsStay
  <2>3. stream' = [stream EXCEPT ![v] = s] /\ UNCHANGED connections
    BY <1>6 DEF PollReads
  <2>. HIDE DEF s
  <2>. QED  BY <1>4, <2>2, <2>3
<1>7. ASSUME NEW v \in Viewer, NEW x, PollAnswers(v, x)  PROVE SlotInv'
  <2>. DEFINE s == [stream[v] EXCEPT !.reads = @ \ {x}, !.last = x]
  <2>1. stream[v].at = "open" /\ Slot(stream[v])  BY <1>7 DEF PollAnswers, SlotInv
  <2>2. CASE x = Revoked  BY <1>7, <2>1, <2>2, SlotGiven DEF PollAnswers
  <2>3. CASE x # Revoked
    <3>1. stream' = [stream EXCEPT ![v] = s] /\ UNCHANGED connections
      BY <1>7, <2>3 DEF PollAnswers
    <3>2. Slot(s) /\ s.at = stream[v].at /\ s.token = stream[v].token
      BY <2>1, FieldsStay
    <3>. HIDE DEF s
    <3>. QED  BY <1>4, <3>1, <3>2
  <2>. QED  BY <2>2, <2>3
<1>10. ASSUME NEW v \in Viewer, OverlayStep(v)  PROVE SlotInv'
  <2>1. CASE IdleTimeout(v)  BY <2>1, SlotGiven DEF IdleTimeout
  <2>. QED  BY <1>2, <1>3, <1>5, <1>6, <1>7, <1>10, <2>1 DEF OverlayStep, Answers
<1>. QED  BY <1>1, <1>10 DEF OverlayNext, allVars, overlayVars

\* Whatever connects, polls, is rotated away or leaves, the connections
\* counted against a token are its open streams and never more than the cap
\* (overlayConnections and cleanup in routes/breaks.ts).
THEOREM SlotsAreHonest == OverlaySpec => []SlotsMatchStreams
<1>1. OverlayInit => SlotInv
  <2>. SUFFICES ASSUME OverlayInit PROVE SlotInv  OBVIOUS
  <2>1. \A t \in Token : Watching(stream, t) = {}  BY DEF OverlayInit, Watching, OpenOn, Closed
  <2>2. \A v \in Viewer : Slot(stream[v])  BY DEF OverlayInit, Slot
  <2>. QED
    BY <2>1, <2>2, FS_EmptySet, OverlayAssumption DEF OverlayInit, SlotInv
<1>2. SlotInv => SlotsMatchStreams  BY DEF SlotInv, SlotsMatchStreams, Watching, OpenOn
<1>. QED  BY <1>1, <1>2, OverlayKeepsSlots, PTL DEF OverlaySpec
-----------------------------------------------------------------------------
(***************************************************************************)
(* The assignment of slots, for any number of them and any length of word. *)
(* The orders deriveShuffle goes through are followed from the last place  *)
(* down: a place once treated is final, so two sequences of draws that end *)
(* alike drew alike, and any order can be drawn by choosing, place by      *)
(* place, where its slot stands.                                           *)
(***************************************************************************)

Places(n) == 0 .. n - 1

\* The orders of n slots: nobody twice, nobody left out.
Orders(n) ==
    {p \in [Places(n) -> Places(n)] :
        /\ \A i, j \in Places(n) : p[i] = p[j] => i = j
        /\ \A x \in Places(n) : \E i \in Places(n) : p[i] = x}

InOrder0(n) == [k \in 0 .. n - 1 |-> k]

\* g[i] is the order before place i - 1 is treated, down to place lo.
Follows(g, n, d, lo) ==
    /\ g \in [lo .. n -> Orders(n)]
    /\ g[n] = InOrder0(n)
    /\ \A i \in lo .. n - 1 : g[i] = Swap(g[i + 1], i, d[i])

\* The loop starts from an order: every slot in its own place.
LEMMA StartsInOrder ==
  ASSUME NEW n \in Nat \ {0}
  PROVE  InOrder0(n) \in Orders(n)
BY DEF InOrder0, Orders, Places

\* A swap makes an order of an order, exchanges its two places and leaves
\* the others.
LEMMA SwapOrders ==
  ASSUME NEW n \in Nat \ {0}, NEW p \in Orders(n), NEW i \in Places(n), NEW j \in Places(n)
  PROVE  /\ Swap(p, i, j) \in Orders(n)
         /\ Swap(p, i, j)[i] = p[j] /\ Swap(p, i, j)[j] = p[i]
         /\ \A k \in Places(n) \ {i, j} : Swap(p, i, j)[k] = p[k]
<1>. DEFINE q == Swap(p, i, j)
<1>1. /\ q \in [Places(n) -> Places(n)] /\ q[i] = p[j] /\ q[j] = p[i]
      /\ \A k \in Places(n) \ {i, j} : q[k] = p[k]
  BY DEF Swap, Orders
<1>. HIDE DEF q
<1>2. ASSUME NEW x \in Places(n), NEW y \in Places(n), q[x] = q[y]  PROVE x = y
  BY <1>1, <1>2 DEF Orders
<1>3. ASSUME NEW x \in Places(n)  PROVE \E k \in Places(n) : q[k] = x
  <2>1. PICK k \in Places(n) : p[k] = x
    BY DEF Orders
  <2>. QED  BY <1>1, <2>1
<1>. QED  BY <1>1, <1>2, <1>3 DEF Orders, q

\* Two runs of the loop with the same draws are the same, as far as they go.
LEMMA FollowsUnique ==
  ASSUME NEW n \in Nat \ {0}, NEW d, NEW g, NEW h,
         Follows(g, n, d, 1),
         h[n] = InOrder0(n), \A i \in 1 .. n - 1 : h[i] = Swap(h[i + 1], i, d[i])
  PROVE  \A i \in 1 .. n : h[i] = g[i]
<1>. DEFINE Q == {m \in Nat : m < n => h[n - m] = g[n - m]}
<1>1. 0 \in Q
  BY DEF Follows
<1>2. ASSUME NEW m \in Nat, m \in Q  PROVE m + 1 \in Q
  <2>. SUFFICES ASSUME m + 1 < n  PROVE h[n - (m + 1)] = g[n - (m + 1)]
    OBVIOUS
  <2>. DEFINE i == n - (m + 1)
  <2>1. i \in 1 .. n - 1 /\ i + 1 = n - m /\ h[i + 1] = g[i + 1]
    BY <1>2
  <2>. HIDE DEF i
  <2>2. h[i] = g[i]
    BY <2>1 DEF Follows
  <2>. QED  BY <2>2 DEF i
<1>3. \A m \in Nat : m \in Q
  <2>. HIDE DEF Q
  <2>. QED  BY <1>1, <1>2, NumberInduction
<1>4. ASSUME NEW i \in 1 .. n  PROVE h[i] = g[i]
  <2>1. n - i \in Nat /\ n - i < n /\ n - (n - i) = i
    OBVIOUS
  <2>. QED  BY <1>3, <2>1
<1>. QED  BY <1>4

\* Whatever is drawn, the loop runs from the last place down to the first.
LEMMA FollowsExists ==
  ASSUME NEW n \in Nat \ {0}, NEW d \in DrawsFor(n)
  PROVE  \E g : Follows(g, n, d, 1)
<1>. DEFINE Q == {m \in Nat : m < n => \E g : Follows(g, n, d, n - m)}
<1>1. 0 \in Q
  <2>. DEFINE g == [i \in n .. n |-> InOrder0(n)]
  <2>1. Follows(g, n, d, n)
    BY StartsInOrder DEF Follows
  <2>. QED  BY <2>1
<1>2. ASSUME NEW m \in Nat, m \in Q  PROVE m + 1 \in Q
  <2>. SUFFICES ASSUME m + 1 < n  PROVE \E g : Follows(g, n, d, n - (m + 1))
    OBVIOUS
  <2>1. PICK h : Follows(h, n, d, n - m)
    BY <1>2
  <2>. DEFINE i == n - (m + 1)
              g == [k \in i .. n |-> IF k = i THEN Swap(h[i + 1], i, d[i]) ELSE h[k]]
  <2>2. i \in 1 .. n - 1 /\ i + 1 = n - m /\ i \in Nat
    OBVIOUS
  <2>. HIDE DEF i
  <2>3. h \in [i + 1 .. n -> Orders(n)] /\ h[n] = InOrder0(n)
        /\ \A k \in i + 1 .. n - 1 : h[k] = Swap(h[k + 1], k, d[k])
    BY <2>1, <2>2 DEF Follows
  <2>4. d[i] \in Places(n) /\ i \in Places(n) /\ h[i + 1] \in Orders(n)
    BY <2>2, <2>3 DEF DrawsFor, Places
  <2>5. Swap(h[i + 1], i, d[i]) \in Orders(n)
    BY <2>4, SwapOrders
  <2>6. \A k \in i .. n : k # i => k \in i + 1 .. n
    BY <2>2
  <2>7. g \in [i .. n -> Orders(n)] /\ g[n] = InOrder0(n)
    BY <2>2, <2>3, <2>5, <2>6
  <2>8. ASSUME NEW k \in i .. n - 1  PROVE g[k] = Swap(g[k + 1], k, d[k])
    <3>1. k \in i .. n /\ k + 1 \in i .. n /\ k + 1 # i
      BY <2>2
    <3>2. CASE k = i
      BY <3>1, <3>2
    <3>3. CASE k # i
      BY <2>2, <2>3, <3>1, <3>3
    <3>. QED  BY <3>2, <3>3
  <2>9. Follows(g, n, d, i)
    BY <2>7, <2>8 DEF Follows
  <2>. QED  BY <2>9 DEF i
<1>3. \A m \in Nat : m \in Q
  <2>. HIDE DEF Q
  <2>. QED  BY <1>1, <1>2, NumberInduction
<1>4. n - 1 \in Nat /\ n - 1 < n /\ n - (n - 1) = 1
  OBVIOUS
<1>5. n - 1 \in Q
  BY <1>3, <1>4
<1>. QED  BY <1>4, <1>5

\* What the loop ends with is what deriveShuffle returns.
LEMMA ShuffleFollows ==
  ASSUME NEW n \in Nat \ {0}, NEW d \in DrawsFor(n), NEW g, Follows(g, n, d, 1)
  PROVE  DeriveShuffle(n, d) = g[1]
<1>. DEFINE Rule(f) == f = [i \in 1 .. n |-> IF i = n THEN [k \in 0 .. n - 1 |-> k]
                                             ELSE Swap(f[i + 1], i, d[i])]
            after == CHOOSE f : Rule(f)
<1>1. DeriveShuffle(n, d) = after[1]
  BY DEF DeriveShuffle
<1>2. Rule(g)
  <2>1. \A i \in 1 .. n : i # n => i \in 1 .. n - 1
    OBVIOUS
  <2>2. \A i \in 1 .. n : g[i] = IF i = n THEN [k \in 0 .. n - 1 |-> k]
                                 ELSE Swap(g[i + 1], i, d[i])
    BY <2>1 DEF Follows, InOrder0
  <2>3. g = [i \in 1 .. n |-> g[i]]
    BY DEF Follows
  <2>. QED  BY <2>2, <2>3
<1>3. Rule(after)
  BY <1>2
<1>. HIDE DEF after
<1>4. after[n] = InOrder0(n) /\ \A i \in 1 .. n - 1 : after[i] = Swap(after[i + 1], i, d[i])
  <2>1. n \in 1 .. n /\ \A i \in 1 .. n - 1 : i \in 1 .. n /\ i # n
    OBVIOUS
  <2>2. \A i \in 1 .. n : after[i] = IF i = n THEN [k \in 0 .. n - 1 |-> k]
                                     ELSE Swap(after[i + 1], i, d[i])
    BY <1>3
  <2>. QED  BY <2>1, <2>2 DEF InOrder0
<1>5. \A i \in 1 .. n : after[i] = g[i]
  BY <1>4, FollowsUnique
<1>. QED  BY <1>1, <1>5

\* Once treated, a place keeps what it has.
LEMMA PlacesAreFinal ==
  ASSUME NEW n \in Nat \ {0}, NEW d \in DrawsFor(n), NEW g, Follows(g, n, d, 1)
  PROVE  \A i \in 1 .. n - 1 : g[1][i] = g[i + 1][d[i]]
<1>1. ASSUME NEW i \in 1 .. n - 1
      PROVE  /\ g[i + 1] \in Orders(n) /\ g[i] = Swap(g[i + 1], i, d[i])
             /\ d[i] \in Places(n) /\ i \in Places(n) /\ d[i] =< i
  BY DEF Follows, DrawsFor, Places
<1>2. SUFFICES ASSUME NEW i \in 1 .. n - 1  PROVE g[1][i] = g[i + 1][d[i]]
  OBVIOUS
<1>. DEFINE Q == {m \in Nat : m < i => g[i - m][i] = g[i][i]}
<1>3. 0 \in Q
  OBVIOUS
<1>4. ASSUME NEW m \in Nat, m \in Q  PROVE m + 1 \in Q
  <2>. SUFFICES ASSUME m + 1 < i  PROVE g[i - (m + 1)][i] = g[i][i]
    OBVIOUS
  <2>. DEFINE j == i - (m + 1)
  <2>1. j \in 1 .. n - 1 /\ j + 1 = i - m /\ j < i /\ g[j + 1][i] = g[i][i]
    BY <1>4
  <2>. HIDE DEF j
  <2>2. i \in Places(n) \ {j, d[j]}
    BY <1>1, <2>1 DEF Places, DrawsFor
  <2>3. g[j][i] = g[j + 1][i]
    <3>. DEFINE o == g[j + 1]  k == d[j]
    <3>1. o \in Orders(n) /\ j \in Places(n) /\ k \in Places(n) /\ g[j] = Swap(o, j, k)
      BY <1>1, <2>1
    <3>2. i \in Places(n) \ {j, k}
      BY <2>2
    <3>. HIDE DEF o, k
    <3>3. Swap(o, j, k)[i] = o[i]
      BY <3>1, <3>2, SwapOrders
    <3>. QED  BY <3>1, <3>3 DEF o
  <2>. QED  BY <2>1, <2>3 DEF j
<1>5. \A m \in Nat : m \in Q
  <2>. HIDE DEF Q
  <2>. QED  BY <1>3, <1>4, NumberInduction
<1>6. g[1][i] = g[i][i]
  <2>1. i - 1 \in Nat /\ i - 1 < i /\ i - (i - 1) = 1
    OBVIOUS
  <2>. QED  BY <1>5, <2>1
<1>7. g[i][i] = g[i + 1][d[i]]
  <2>. DEFINE o == g[i + 1]  k == d[i]
  <2>1. o \in Orders(n) /\ i \in Places(n) /\ k \in Places(n) /\ g[i] = Swap(o, i, k)
    BY <1>1
  <2>. HIDE DEF o, k, Q
  <2>2. Swap(o, i, k)[i] = o[k]
    BY <2>1 DEF Swap, Orders
  <2>. QED  BY <2>1, <2>2 DEF o, k
<1>. QED  BY <1>6, <1>7

\* No two sequences of draws give the same assignment.
LEMMA DrawsTellApart ==
  ASSUME NEW n \in Nat \ {0}, NEW d \in DrawsFor(n), NEW e \in DrawsFor(n),
         DeriveShuffle(n, d) = DeriveShuffle(n, e)
  PROVE  d = e
<1>1. PICK g : Follows(g, n, d, 1)
  BY FollowsExists
<1>2. PICK h : Follows(h, n, e, 1)
  BY FollowsExists
<1>3. g[1] = h[1]
  BY <1>1, <1>2, ShuffleFollows
<1>4. ASSUME NEW i \in 1 .. n - 1, g[i + 1] = h[i + 1]  PROVE d[i] = e[i]
  <2>1. g[1][i] = g[i + 1][d[i]] /\ h[1][i] = h[i + 1][e[i]]
    BY <1>1, <1>2, PlacesAreFinal
  <2>2. g[i + 1] \in Orders(n) /\ d[i] \in Places(n) /\ e[i] \in Places(n)
    BY <1>1 DEF Follows, DrawsFor, Places
  <2>. QED  BY <1>3, <1>4, <2>1, <2>2 DEF Orders
<1>. DEFINE Q == {m \in Nat : m < n => g[n - m] = h[n - m]}
<1>5. 0 \in Q
  BY <1>1, <1>2 DEF Follows
<1>6. ASSUME NEW m \in Nat, m \in Q  PROVE m + 1 \in Q
  <2>. SUFFICES ASSUME m + 1 < n  PROVE g[n - (m + 1)] = h[n - (m + 1)]
    OBVIOUS
  <2>. DEFINE i == n - (m + 1)
  <2>1. i \in 1 .. n - 1 /\ i + 1 = n - m /\ g[i + 1] = h[i + 1]
    BY <1>6
  <2>. HIDE DEF i
  <2>2. d[i] = e[i]
    BY <1>4, <2>1
  <2>3. g[i] = h[i]
    BY <1>1, <1>2, <2>1, <2>2 DEF Follows
  <2>. QED  BY <2>3 DEF i
<1>7. \A m \in Nat : m \in Q
  <2>. HIDE DEF Q
  <2>. QED  BY <1>5, <1>6, NumberInduction
<1>8. ASSUME NEW i \in 1 .. n - 1  PROVE d[i] = e[i]
  <2>1. n - (i + 1) \in Nat /\ n - (i + 1) < n /\ n - (n - (i + 1)) = i + 1
    OBVIOUS
  <2>2. g[i + 1] = h[i + 1]
    BY <1>7, <2>1
  <2>. QED  BY <1>4, <2>2
<1>. QED  BY <1>8 DEF DrawsFor

\* Every assignment can come out.
LEMMA EveryOrderIsDrawn ==
  ASSUME NEW n \in Nat \ {0}, NEW p \in [Places(n) -> Places(n)],
         \A i, j \in Places(n) : p[i] = p[j] => i = j
  PROVE  \E d \in DrawsFor(n) : DeriveShuffle(n, d) = p
<1>. DEFINE Leads(d, g, lo) ==
                /\ d \in [lo .. n - 1 -> Places(n)] /\ \A i \in lo .. n - 1 : d[i] =< i
                /\ Follows(g, n, d, lo)
                /\ \A k \in lo .. n - 1 : g[lo][k] = p[k]
            Q == {m \in Nat : m < n => \E d, g : Leads(d, g, n - m)}
<1>1. 0 \in Q
  <2>. DEFINE g == [i \in n .. n |-> InOrder0(n)]  d == [i \in n .. n - 1 |-> 0]
  <2>1. Follows(g, n, d, n)
    BY StartsInOrder DEF Follows
  <2>2. n .. n - 1 = {}
    OBVIOUS
  <2>3. d \in [n .. n - 1 -> Places(n)]
    BY <2>2
  <2>. HIDE DEF d, g
  <2>4. Leads(d, g, n)
    BY <2>1, <2>2, <2>3
  <2>. QED  BY <2>4
<1>2. ASSUME NEW m \in Nat, m \in Q  PROVE m + 1 \in Q
  <2>0. m + 1 \in Nat
    OBVIOUS
  <2>. SUFFICES ASSUME m + 1 < n  PROVE \E d, g : Leads(d, g, n - (m + 1))
    BY <2>0, Zenon
  <2>1. PICK d0, h : Leads(d0, h, n - m)
    BY <1>2
  <2>. DEFINE i == n - (m + 1)
  <2>2. i \in 1 .. n - 1 /\ i + 1 = n - m /\ i \in Nat
    OBVIOUS
  <2>. HIDE DEF i
  <2>3. /\ d0 \in [i + 1 .. n - 1 -> Places(n)] /\ \A k \in i + 1 .. n - 1 : d0[k] =< k
        /\ h \in [i + 1 .. n -> Orders(n)] /\ h[n] = InOrder0(n)
        /\ \A k \in i + 1 .. n - 1 : h[k] = Swap(h[k + 1], k, d0[k])
        /\ \A k \in i + 1 .. n - 1 : h[i + 1][k] = p[k]
    BY <2>1, <2>2 DEF Follows
  <2>. DEFINE o == h[i + 1]
  <2>4. o \in Orders(n) /\ i \in Places(n) /\ p[i] \in Places(n)
    BY <2>2, <2>3 DEF Places
  <2>5. PICK j \in Places(n) : o[j] = p[i]
    BY <2>4 DEF Orders
  <2>6. j =< i
    <3>. SUFFICES ASSUME j > i  PROVE FALSE
      BY <2>2 DEF Places
    <3>1. j \in i + 1 .. n - 1
      BY <2>2 DEF Places
    <3>2. p[j] = p[i]
      BY <2>3, <2>5, <3>1
    <3>. QED  BY <2>2, <2>4, <3>2
  <2>. DEFINE d == [k \in i .. n - 1 |-> IF k = i THEN j ELSE d0[k]]
              g == [k \in i .. n |-> IF k = i THEN Swap(o, i, j) ELSE h[k]]
  <2>. HIDE DEF o
  <2>7. /\ Swap(o, i, j) \in Orders(n) /\ Swap(o, i, j)[i] = p[i]
        /\ \A k \in Places(n) \ {i, j} : Swap(o, i, j)[k] = o[k]
    BY <2>4, <2>5, SwapOrders
  <2>8. \A k \in i .. n : k # i => k \in i + 1 .. n
    BY <2>2
  <2>9. \A k \in i .. n - 1 : k # i => k \in i + 1 .. n - 1
    BY <2>2
  <2>10. d \in [i .. n - 1 -> Places(n)] /\ \A k \in i .. n - 1 : d[k] =< k
    BY <2>2, <2>3, <2>6, <2>9
  <2>11. g \in [i .. n -> Orders(n)] /\ g[n] = InOrder0(n)
    BY <2>2, <2>3, <2>7, <2>8
  <2>12. ASSUME NEW k \in i .. n - 1  PROVE g[k] = Swap(g[k + 1], k, d[k])
    <3>1. k \in i .. n /\ k + 1 \in i .. n /\ k + 1 # i
      BY <2>2
    <3>2. CASE k = i
      BY <3>1, <3>2 DEF o
    <3>3. CASE k # i
      BY <2>2, <2>3, <2>9, <3>1, <3>3
    <3>. QED  BY <3>2, <3>3
  <2>13. ASSUME NEW k \in i .. n - 1  PROVE g[i][k] = p[k]
    <3>1. g[i] = Swap(o, i, j)
      BY <2>2
    <3>2. CASE k = i
      BY <2>7, <3>1, <3>2
    <3>3. CASE k # i
      <4>1. k \in Places(n) \ {i, j} /\ k \in i + 1 .. n - 1
        BY <2>2, <2>6, <2>9, <3>3 DEF Places
      <4>. QED  BY <2>3, <2>7, <3>1, <4>1 DEF o
    <3>. QED  BY <3>2, <3>3
  <2>. HIDE DEF d, g
  <2>14. Leads(d, g, i)
    BY <2>10, <2>11, <2>12, <2>13 DEF Follows
  <2>. QED  BY <2>14 DEF i
<1>3. \A m \in Nat : m \in Q
  <2>. HIDE DEF Q
  <2>. QED  BY <1>1, <1>2, NumberInduction
<1>4. n - 1 \in Nat /\ n - 1 < n /\ n - (n - 1) = 1
  OBVIOUS
<1>5. PICK d, g : Leads(d, g, 1)
  <2>1. n - 1 \in Q
    BY <1>3, <1>4
  <2>. QED  BY <1>4, <2>1
<1>6. d \in DrawsFor(n)
  BY <1>5 DEF DrawsFor, Places
<1>7. g[1] \in Orders(n)
  BY <1>5 DEF Follows
<1>8. \A k \in 1 .. n - 1 : g[1][k] = p[k]
  BY <1>5
<1>9. g[1][0] = p[0]
  <2>1. 0 \in Places(n) /\ p[0] \in Places(n)
    BY DEF Places
  <2>2. PICK k \in Places(n) : g[1][k] = p[0]
    BY <1>7, <2>1 DEF Orders
  <2>3. k # 0 => k \in 1 .. n - 1
    BY DEF Places
  <2>. QED  BY <1>8, <2>1, <2>2, <2>3
<1>10. \A k \in Places(n) : g[1][k] = p[k]
  <2>1. \A k \in Places(n) : k = 0 \/ k \in 1 .. n - 1
    BY DEF Places
  <2>. QED  BY <1>8, <1>9, <2>1
<1>11. g[1] = p
  BY <1>7, <1>10 DEF Orders
<1>. QED  BY <1>5, <1>6, <1>11, ShuffleFollows

\* The functions from one finite set to another are finitely many.
LEMMA FewFunctions ==
  ASSUME NEW S, IsFiniteSet(S), NEW T, IsFiniteSet(T)
  PROVE  IsFiniteSet([S -> T])
<1>. DEFINE Graph(f) == {<<x, f[x]>> : x \in S}
            code == [f \in [S -> T] |-> Graph(f)]
            All == SUBSET (S \X T)
<1>1. IsFiniteSet(S \X T)
  BY FS_Product
<1>2. IsFiniteSet(All)
  <2>. DEFINE P == S \X T
  <2>1. IsFiniteSet(P)
    BY <1>1
  <2>. HIDE DEF P
  <2>2. IsFiniteSet(SUBSET P)
    BY <2>1, FS_SUBSET
  <2>. QED  BY <2>2 DEF P
<1>3. ASSUME NEW f \in [S -> T], NEW g \in [S -> T], Graph(f) = Graph(g)  PROVE f = g
  <2>1. ASSUME NEW x \in S  PROVE f[x] = g[x]
    <3>1. <<x, f[x]>> \in Graph(g)
      BY <1>3
    <3>. QED  BY <3>1
  <2>. QED  BY <2>1
<1>4. \A f \in [S -> T] : Graph(f) \in All
  OBVIOUS
<1>5. code \in Injection([S -> T], All)
  <2>. HIDE DEF Graph, All
  <2>1. code \in [[S -> T] -> All]
    BY <1>4
  <2>2. \A f, g \in DOMAIN code : code[f] = code[g] => f = g
    BY <1>3
  <2>. QED  BY <2>1, <2>2 DEF Injection, IsInjective
<1>. HIDE DEF code, All
<1>. QED  BY <1>2, <1>5, FS_Injection

\* For any number of slots, the sequences of draws and the assignments of the
\* slots are one to one.
LEMMA AssignmentsAreFair ==
  ASSUME NEW n \in Nat \ {0}
  PROVE  FairAssignment(n)
<1>. DEFINE image == {DeriveShuffle(n, d) : d \in DrawsFor(n)}
            D == DrawsFor(n)
            f == [d \in D |-> DeriveShuffle(n, d)]
<1>1. ASSUME NEW d \in DrawsFor(n)  PROVE DeriveShuffle(n, d) \in Orders(n)
  <2>1. PICK g : Follows(g, n, d, 1)
    BY FollowsExists
  <2>2. DeriveShuffle(n, d) = g[1]
    BY <2>1, ShuffleFollows
  <2>. QED  BY <2>1, <2>2 DEF Follows
<1>2. image = {p \in [0 .. n - 1 -> 0 .. n - 1] :
                 \A i, j \in 0 .. n - 1 : p[i] = p[j] => i = j}
  <2>1. ASSUME NEW p \in [0 .. n - 1 -> 0 .. n - 1],
               \A i, j \in 0 .. n - 1 : p[i] = p[j] => i = j
        PROVE  p \in image
    BY <2>1, EveryOrderIsDrawn DEF Places
  <2>2. ASSUME NEW p \in image
        PROVE  /\ p \in [0 .. n - 1 -> 0 .. n - 1]
               /\ \A i, j \in 0 .. n - 1 : p[i] = p[j] => i = j
    <3>1. PICK d \in DrawsFor(n) : p = DeriveShuffle(n, d)
      OBVIOUS
    <3>2. p \in Orders(n)
      BY <1>1, <3>1
    <3>. QED  BY <3>2 DEF Orders, Places
  <2>. HIDE DEF image
  <2>. QED  BY <2>1, <2>2
<1>3. Cardinality(image) = Cardinality(D)
  <2>1. IsFiniteSet(D)
    <3>. DEFINE S == 1 .. n - 1  T == 0 .. n - 1
    <3>1. IsFiniteSet(S) /\ IsFiniteSet(T)
      BY FS_Interval
    <3>2. D \subseteq [S -> T]
      BY DEF DrawsFor
    <3>. HIDE DEF D, S, T
    <3>3. IsFiniteSet([S -> T])
      BY <3>1, FewFunctions
    <3>. QED  BY <3>2, <3>3, FS_Subset
  <2>2. f \in Bijection(D, image)
    <3>1. f \in [D -> image] /\ \A x \in image : \E d \in D : f[d] = x
      OBVIOUS
    <3>2. \A a, b \in D : f[a] = f[b] => a = b
      BY DrawsTellApart
    <3>. HIDE DEF f, D, image
    <3>. QED  BY <3>1, <3>2 DEF Bijection, Injection, Surjection, IsInjective
  <2>3. ExistsBijection(D, image)
    <3>. HIDE DEF f, D, image
    <3>. QED  BY <2>2 DEF ExistsBijection
  <2>. HIDE DEF D, image
  <2>. QED  BY <2>1, <2>3, FS_Bijection
<1>4. \A d \in DrawsFor(n) : VerifyShuffle(n, d, DeriveShuffle(n, d))
  BY DEF VerifyShuffle
<1>. HIDE DEF image
<1>. QED  BY <1>2, <1>3, <1>4 DEF FairAssignment, image

\* A word is a round of the bound and a place in it.
LEMMA PlaceAndRound ==
  ASSUME NEW b \in Nat \ {0}, NEW k \in Nat, NEW z \in 0 .. b - 1
  PROVE  /\ k * b + z \in Nat
         /\ (k * b + z) \div b = k /\ (k * b + z) % b = z
<1>. DEFINE w == k * b + z
<1>1. w \in Nat /\ b * k =< w /\ w < b * k + b
  BY SMT
<1>2. w \div b = k
  <2>. HIDE DEF w
  <2>. QED  BY <1>1
<1>3. w = (w \div b) * b + (w % b)
  <2>. HIDE DEF w
  <2>. QED  BY <1>1
<1>4. w % b \in Int
  <2>. HIDE DEF w
  <2>. QED  BY <1>1
<1>. DEFINE m == w % b
<1>5. w = k * b + m /\ m \in Int
  BY <1>2, <1>3, <1>4
<1>6. m = z
  <2>. DEFINE c == k * b
  <2>1. c \in Int /\ w = c + z /\ w = c + m
    BY <1>5
  <2>. HIDE DEF c, m, w
  <2>. QED  BY <1>4, <1>5, <2>1
<1>. QED  BY <1>1, <1>2, <1>6

\* A draw below a bound takes every value in each of the q rounds of a word.
LEMMA DrawsAreEven ==
  ASSUME NEW words \in Nat, NEW bound \in Nat \ {0}, bound =< words
  PROVE  FairDraw(words, bound)
<1>. DEFINE q == words \div bound
            Hits(z) == {w \in Accepted(words, bound) : Draw(w, bound) = z}
<1>1. words = q * bound + (words % bound) /\ q \in Int
      /\ 0 =< words % bound /\ words % bound < bound
  OBVIOUS
<1>. HIDE DEF q
<1>2. q \in Nat /\ q >= 1 /\ q * bound =< words
  <2>. DEFINE m == words % bound
  <2>1. words = q * bound + m /\ q \in Int /\ 0 =< m /\ m < bound /\ m \in Int
    BY <1>1
  <2>. HIDE DEF m
  <2>2. CASE q =< 0
    <3>1. q * bound =< 0
      BY <2>1, <2>2
    <3>. QED  BY <2>1, <3>1
  <2>. QED  BY <2>1, <2>2
<1>3. \A w : w \in Accepted(words, bound) <=> w \in 0 .. words - 1 /\ w < q * bound
  BY DEF Accepted, Limit, q
<1>4. ASSUME NEW z \in 0 .. bound - 1
      PROVE  Cardinality(Hits(z)) = q
  <2>. DEFINE R == 0 .. q - 1
              H == Hits(z)
              f == [k \in R |-> k * bound + z]
  <2>1. ASSUME NEW k \in R  PROVE f[k] \in H
    <3>1. k \in Nat /\ k + 1 =< q
      BY <1>2
    <3>2. f[k] \in Nat /\ f[k] % bound = z
      BY <3>1, PlaceAndRound
    <3>3. (k + 1) * bound =< q * bound
      BY <1>2, <3>1
    <3>4. f[k] < q * bound
      <4>. DEFINE a == k * bound  c == q * bound
      <4>1. a \in Int /\ c \in Int /\ a + bound =< c
        BY <1>2, <3>1, <3>3
      <4>2. f[k] = a + z
        OBVIOUS
      <4>. HIDE DEF a, c, f
      <4>3. f[k] < c
        BY <4>1, <4>2
      <4>. QED  BY <4>3 DEF c
    <3>. QED  BY <1>2, <1>3, <3>2, <3>4 DEF Draw
  <2>2. ASSUME NEW j \in R, NEW k \in R, f[j] = f[k]  PROVE j = k
    <3>1. j \in Nat /\ k \in Nat
      BY <1>2
    <3>2. f[j] \div bound = j /\ f[k] \div bound = k
      BY <3>1, PlaceAndRound
    <3>. QED  BY <2>2, <3>2
  <2>3. ASSUME NEW w \in H  PROVE \E k \in R : f[k] = w
    <3>1. w \in Nat /\ w < q * bound /\ w % bound = z
      BY <1>3 DEF Draw
    <3>. DEFINE k == w \div bound  m == w % bound
    <3>2. w = k * bound + m /\ k \in Int /\ 0 =< m /\ m < bound /\ m = z /\ m \in Int
      BY <3>1
    <3>. HIDE DEF k, m
    <3>3. k >= 0
      <4>1. CASE k =< -1
        <5>1. k * bound =< (-1) * bound
          BY <3>2, <4>1
        <5>. QED  BY <3>1, <3>2, <5>1
      <4>. QED  BY <3>2, <4>1
    <3>4. k < q
      <4>1. CASE k >= q
        <5>1. k * bound >= q * bound
          BY <1>2, <3>2, <4>1
        <5>. QED  BY <1>2, <3>1, <3>2, <5>1
      <4>. QED  BY <1>2, <3>2, <4>1
    <3>. QED  BY <1>2, <3>2, <3>3, <3>4
  <2>4. IsFiniteSet(R) /\ Cardinality(R) = q
    <3>. DEFINE a == 0  b == q - 1
    <3>1. a \in Int /\ b \in Int /\ (a > b => q = 0) /\ b - a + 1 = q
      BY <1>2
    <3>. HIDE DEF a, b
    <3>2. IsFiniteSet(a .. b) /\ Cardinality(a .. b) = q
      BY <3>1, <1>2, FS_Interval
    <3>. QED  BY <3>2 DEF a, b
  <2>5. ExistsBijection(R, H)
    <3>0. f \in [R -> H] /\ DOMAIN f = R
      BY <2>1
    <3>. HIDE DEF f, R, H
    <3>. QED  BY <3>0, <2>2, <2>3 DEF ExistsBijection, Bijection, Injection, Surjection, IsInjective
  <2>. HIDE DEF R, H
  <2>6. Cardinality(H) = Cardinality(R)
    BY <2>4, <2>5, FS_Bijection
  <2>. QED  BY <2>4, <2>6 DEF H
<1>. HIDE DEF Hits
<1>5. \A x, y \in 0 .. bound - 1 : Cardinality(Hits(x)) = Cardinality(Hits(y)) /\ Cardinality(Hits(x)) > 0
  BY <1>2, <1>4
<1>. QED  BY <1>5 DEF FairDraw, Hits

\* Wherever a seed has been published, the shuffle it gives favours nobody: each
\* assignment of any number of slots comes from one sequence of draws, and
\* each draw takes every value equally often (deriveShuffle, randomBelow).
THEOREM ShufflesFavourNobody == BreaksSpec => []ShuffleIsUniform
<1>1. Uniform
  <2>1. ASSUME NEW n \in 1 .. MaxSlots  PROVE FairAssignment(n) /\ FairDraw(Words, n)
    <3>1. n \in Nat \ {0} /\ Words \in Nat /\ n =< Words
      BY ShuffleAssumption
    <3>. QED  BY <3>1, AssignmentsAreFair, DrawsAreEven
  <2>. QED  BY <2>1 DEF Uniform
<1>2. ShuffleIsUniform
  BY <1>1 DEF ShuffleIsUniform
<1>. QED  BY <1>2, PTL
=============================================================================
