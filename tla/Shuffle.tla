------------------------------ MODULE Shuffle ------------------------------
(***************************************************************************)
(* The arithmetic of packages/core/src/fairness.ts: the number drawn below *)
(* a bound from the HMAC byte stream, the Fisher-Yates assignment built    *)
(* from those draws, and the hash chain of a pull log.                     *)
(*                                                                         *)
(* The byte stream is external: any word may come next.  A hash is the     *)
(* sequence of everything it commits to, which is what a collision-free    *)
(* hash of (previous hash, row) tells apart.                               *)
(***************************************************************************)
EXTENDS Integers, FiniteSets, Sequences

\* GENESIS_HASH commits to nothing.
Genesis == <<>>

\* hashPull: the row's hash commits to every row before it and to the row.
HashPull(prevHash, body) == Append(prevHash, body)

\* verifyChain: the first place where a row does not link to the one before
\* it or does not hash to what it says; 0 when there is none.
BrokenAt(rows) ==
    LET Prev(i) == IF i = 1 THEN Genesis ELSE rows[i - 1].rowHash
        Bad == {i \in DOMAIN rows :
                  \/ rows[i].prevHash # Prev(i)
                  \/ rows[i].rowHash # HashPull(rows[i].prevHash, rows[i].body)}
    IN  IF Bad = {} THEN 0
        ELSE rows[CHOOSE i \in Bad : \A j \in Bad : i =< j].body.seq

\* randomBelow: a word at or above the largest multiple of bound is thrown
\* away and another is drawn; words is the number of values a word has.
LimitModulo(words, bound) == words
Limit(words, bound) == (words \div bound) * bound
Accepted(words, bound) == {w \in 0 .. words - 1 : w < Limit(words, bound)}
Draw(w, bound) == w % bound

\* deriveShuffle: order[i] and order[j] change places for i = count-1 .. 1,
\* where j is the draw below i + 1.  draws[i] is the draw made at place i.
Swap(order, i, j) == [order EXCEPT ![i] = order[j], ![j] = order[i]]
DeriveShuffle(count, draws) ==
    LET after[i \in 1 .. count] ==      \* the order before place i - 1 is treated
          IF i = count THEN [k \in 0 .. count - 1 |-> k]
                       ELSE Swap(after[i + 1], i, draws[i])
    IN  after[1]

\* Every sequence of draws the loop can make for count slots.
DrawsFor(count) == {d \in [1 .. count - 1 -> 0 .. count - 1] :
                      \A i \in 1 .. count - 1 : d[i] =< i}

\* verifyShuffle: what a viewer's browser recomputes from the published seeds.
VerifyShuffle(count, draws, claimed) == DeriveShuffle(count, draws) = claimed
-----------------------------------------------------------------------------
\* Every sequence of draws gives a permutation of the slots, every permutation
\* comes from exactly one, and a viewer's browser gets the same one.
FairAssignment(count) ==
    LET image == {DeriveShuffle(count, d) : d \in DrawsFor(count)}
    IN  /\ image = {p \in [0 .. count - 1 -> 0 .. count - 1] :
                      \A i, j \in 0 .. count - 1 : p[i] = p[j] => i = j}
        /\ Cardinality(image) = Cardinality(DrawsFor(count))
        /\ \A d \in DrawsFor(count) : VerifyShuffle(count, d, DeriveShuffle(count, d))

\* A draw below a bound takes every value equally often, and does take it.
FairDraw(words, bound) ==
    LET Times(z) == Cardinality({w \in Accepted(words, bound) : Draw(w, bound) = z})
    IN  \A x, y \in 0 .. bound - 1 : Times(x) = Times(y) /\ Times(x) > 0
============================================================================
