----------------------------- MODULE Collections -----------------------------
(***************************************************************************)
(* Collections of cards: who may see one, and the lines in it              *)
(* (queries/collections.ts, routes/collections.ts, the row policies of     *)
(* migration 0015).  Each request is a process; a step of it is one        *)
(* statement or transaction, so that two requests about one line may read  *)
(* it before either writes.  The import of a file is one transaction: what *)
(* it has written is its own until it commits, and nobody else may change  *)
(* those lines meanwhile.                                                  *)
(*                                                                         *)
(* A line is a card variant in a condition.                                *)
(***************************************************************************)
EXTENDS Csv, FiniteSets, FiniteSetsExt

CONSTANTS
    Req,            \* requests at work at one time
    User,           \* people with an account
    Visitor,        \* somebody without one
    Id,             \* collections
    Line,
    Purchase,       \* what a request may add: [quantity, cents, currency, notes]
    File,           \* files to import: sequences of [line, buy]
    Char,           \* what notes are written in
    Price,          \* the price index: [Line -> cents or Unpriced], in Money
    Money,          \* the currency a valuation is in
    MaxCollections, \* MAX_COLLECTIONS_PER_USER
    MaxQuantity,    \* collection_items_quantity_sane
    MaxNotes,       \* the longest notes a request or a file may have
    MaxRequests,    \* bound: requests served
    Unknown,        \* acquired_price_cents is null
    Unpriced,
    Absent,
    Gone            \* a deleted collection: its id is never given out again

ASSUME CollectionsAssumption ==
    /\ Visitor \notin User
    /\ MaxQuantity \in Nat /\ MaxCollections \in Nat /\ MaxRequests \in Nat
    /\ MaxNotes \in Nat
    /\ IsFiniteSet(Line)

\* What the schemas of routes/collections.ts and core's collections.ts let in.
ASSUME InputAssumption ==
    /\ \A buy \in Purchase : /\ buy.quantity \in 1 .. MaxQuantity
                             /\ buy.cents \in Nat \cup {Unknown}
                             /\ buy.notes \in Seq(Char) /\ Len(buy.notes) <= MaxNotes
    /\ \A file \in File : \A i \in DOMAIN file :
           /\ file[i].buy.quantity \in Nat
           /\ file[i].buy.cents \in Nat \cup {Unknown}
           /\ file[i].buy.notes \in Seq(Char)

\* The two columns the model writes out, and a card as the mark that names it.
ASSUME SheetAssumption ==
    /\ {<<"set">>, <<"notes">>} \subseteq Columns
    /\ Required \subseteq {<<"set">>, <<"notes">>}
    /\ Line \cap (Formula \cup Blanks) = {}

VARIABLES
    coll,       \* [Id -> [owner, visibility], or Absent]
    item,       \* [Id -> [Line -> the row of collection_items, or Absent]]
    req,        \* [Req -> what the request is doing]
    answer,     \* [Req -> what it last answered, or Absent]
    nextRow,    \* the id of the next row
    served      \* requests begun

collVars == <<coll, item, req, answer, nextRow, served>>
-----------------------------------------------------------------------------
Visibility == {"private", "unlisted", "public"}
Idle == [op |-> "idle"]
NoLines == [l \in Line |-> Absent]

CollInit ==
    /\ coll = [c \in Id |-> Absent]
    /\ item = [c \in Id |-> NoLines]
    /\ req = [r \in Req |-> Idle]
    /\ answer = [r \in Req |-> Absent]
    /\ nextRow = 0
    /\ served = 0

IsThere(c) == coll[c] \notin {Absent, Gone}
Owns(p, c) == IsThere(c) /\ coll[c].owner = p
Owned(p) == {c \in Id : Owns(p, c)}

\* collections_select_own_or_shared, and the items' policy that asks it again.
Visible(p, c) == IsThere(c) /\ (coll[c].owner = p \/ coll[c].visibility # "private")

\* The lines a transaction has written and not committed are locked.
Writes(r) == IF req[r].op = "import" THEN DOMAIN req[r].written ELSE {}
Locked(r, c, l) == \E q \in Req \ {r} : l \in Writes(q) /\ req[q].coll = c

Starts(r, state) ==
    /\ req[r] = Idle
    /\ served < MaxRequests
    /\ served' = served + 1
    /\ req' = [req EXCEPT ![r] = state]
    /\ answer' = [answer EXCEPT ![r] = Absent]

Ends(r, reply) ==
    /\ req' = [req EXCEPT ![r] = Idle]
    /\ answer' = [answer EXCEPT ![r] = reply]
    /\ UNCHANGED served
-----------------------------------------------------------------------------
\* createCollection: the collections are counted, then one is inserted.
CreateCounts(r, p, v) ==
    /\ Cardinality(Owned(p)) < MaxCollections
    /\ Starts(r, [op |-> "create", who |-> p, visibility |-> v])
    /\ UNCHANGED <<coll, item, nextRow>>

CreateInserts(r, c) ==
    /\ req[r].op = "create"
    /\ coll[c] = Absent
    /\ coll' = [coll EXCEPT ![c] = [owner |-> req[r].who, visibility |-> req[r].visibility]]
    /\ Ends(r, Absent)
    /\ UNCHANGED <<item, nextRow>>

\* PATCH /v1/collections/:id and its deletion, which takes the lines with it.
UpdateCollection(p, c, v) ==
    /\ Owns(p, c) /\ v # coll[c].visibility
    /\ served < MaxRequests /\ served' = served + 1
    /\ coll' = [coll EXCEPT ![c].visibility = v]
    /\ UNCHANGED <<item, req, answer, nextRow>>

DeleteCollection(p, c) ==
    /\ Owns(p, c)
    /\ ~\E l \in Line : Locked(Absent, c, l)
    /\ served < MaxRequests /\ served' = served + 1
    /\ coll' = [coll EXCEPT ![c] = Gone]
    /\ item' = [item EXCEPT ![c] = NoLines]
    /\ UNCHANGED <<req, answer, nextRow>>
-----------------------------------------------------------------------------
WeightedAverage(q, a, n, b) ==
    IF a = Unknown \/ b = Unknown THEN Unknown
    ELSE (2 * (q * a + n * b) + (q + n)) \div (2 * (q + n))

\* No notes (null) are <<>>, and so is an empty text.
NewLine(buy) ==
    [id |-> nextRow, quantity |-> buy.quantity, cents |-> buy.cents,
     currency |-> buy.currency, notes |-> buy.notes]

\* upsertItem: what a request does with the line it saw.  A purchase in another
\* currency is refused, and so is a quantity the table does not allow.
Accepts(seen, buy, mode) ==
    IF seen = Absent \/ mode = "replace" THEN buy.quantity <= MaxQuantity
    ELSE seen.currency = buy.currency /\ seen.quantity + buy.quantity <= MaxQuantity

\* A merge writes three columns of the row that is there now.
Merged(seen, now, buy) ==
    [now EXCEPT !.quantity = seen.quantity + buy.quantity,
                !.cents = WeightedAverage(seen.quantity, seen.cents, buy.quantity, buy.cents),
                !.notes = IF seen.notes = <<>> THEN buy.notes ELSE seen.notes]

Upserted(seen, now, buy, mode) ==
    CASE seen = Absent -> NewLine(buy)
      [] seen # Absent /\ mode = "replace" -> [NewLine(buy) EXCEPT !.id = seen.id]
      [] OTHER -> Merged(seen, now, buy)

\* The row it read must still be the one there: the unique index refuses a
\* second row, and an update by id finds no row that was deleted.
StillThere(seen, now) ==
    IF seen = Absent THEN now = Absent ELSE now # Absent /\ now.id = seen.id

\* POST /v1/collections/:id/items: the owner is checked, the line is read, and
\* the row is written from what was read.
AddChecks(r, p, c, l, buy) ==
    /\ Visible(p, c) /\ Owns(p, c)
    /\ Starts(r, [op |-> "add", who |-> p, coll |-> c, line |-> l, buy |-> buy])
    /\ UNCHANGED <<coll, item, nextRow>>

AddReads(r) ==
    /\ req[r].op = "add"
    /\ LET x == req[r]
       IN  req' = [req EXCEPT ![r] = [op |-> "merge", who |-> x.who, coll |-> x.coll,
                                      line |-> x.line, buy |-> x.buy,
                                      seen |-> item[x.coll][x.line]]]
    /\ UNCHANGED <<coll, item, answer, nextRow, served>>

AddWrites(r) ==
    /\ req[r].op = "merge"
    /\ LET x == req[r] IN
        /\ Owns(x.who, x.coll)
        /\ ~Locked(r, x.coll, x.line)
        /\ StillThere(x.seen, item[x.coll][x.line])
        /\ Accepts(x.seen, x.buy, "add")
        /\ item' = [item EXCEPT ![x.coll][x.line] = 
                             Upserted(x.seen, item[x.coll][x.line], x.buy, "add")]
        /\ nextRow' = IF x.seen = Absent THEN nextRow + 1 ELSE nextRow
        /\ Ends(r, Absent)
    /\ UNCHANGED coll

\* updateItem and removeItem are one statement each.
UpdateItem(p, c, l, buy) ==
    /\ Owns(p, c) /\ item[c][l] # Absent
    /\ ~Locked(Absent, c, l)
    /\ served < MaxRequests /\ served' = served + 1
    /\ item' = [item EXCEPT ![c][l].quantity = buy.quantity, ![c][l].cents = buy.cents,
                         ![c][l].notes = buy.notes]
    /\ UNCHANGED <<coll, req, answer, nextRow>>

RemoveItem(p, c, l) ==
    /\ Owns(p, c) /\ item[c][l] # Absent
    /\ ~Locked(Absent, c, l)
    /\ served < MaxRequests /\ served' = served + 1
    /\ item' = [item EXCEPT ![c][l] = Absent]
    /\ UNCHANGED <<coll, req, answer, nextRow>>
-----------------------------------------------------------------------------
\* importCollectionCsv.  A row of the file that is well formed and names a card
\* is kept, unless an earlier row was about the same line.
ValidRow(row) ==
    /\ row.buy.quantity >= 1 /\ row.buy.quantity <= MaxQuantity
    /\ Len(row.buy.notes) <= MaxNotes

Resolved(file) ==
    LET good == {i \in DOMAIN file : ValidRow(file[i]) /\ file[i].line \in Line}
        first == {i \in good : ~\E j \in good : j < i /\ file[j].line = file[i].line}
    IN  [l \in {file[i].line : i \in first} |->
            file[CHOOSE i \in first : file[i].line = l].buy]

\* A preview stops here, and so does a file with no row to keep.
ImportStarts(r, p, c, file, mode) ==
    /\ Visible(p, c) /\ Owns(p, c)
    /\ DOMAIN Resolved(file) # {}
    /\ Starts(r, [op |-> "import", who |-> p, coll |-> c, mode |-> mode,
                  rows |-> Resolved(file), written |-> <<>>, at |-> Absent, seen |-> Absent])
    /\ UNCHANGED <<coll, item, nextRow>>

\* Row by row, the line is read and then written, in the transaction.
ImportReads(r, l) ==
    /\ req[r].op = "import" /\ req[r].at = Absent
    /\ l \in DOMAIN req[r].rows \ DOMAIN req[r].written
    /\ req' = [req EXCEPT ![r].at = l, ![r].seen = item[req[r].coll][l]]
    /\ UNCHANGED <<coll, item, answer, nextRow, served>>

ImportWrites(r) ==
    /\ req[r].op = "import" /\ req[r].at # Absent
    /\ LET x == req[r]
           l == x.at
           now == item[x.coll][l]
       IN  /\ Owns(x.who, x.coll)
           /\ ~Locked(r, x.coll, l)
           /\ StillThere(x.seen, now)
           /\ Accepts(x.seen, x.rows[l], x.mode)
           /\ req' = [req EXCEPT ![r].at = Absent, ![r].seen = Absent,
                         ![r].written =
                             [k \in DOMAIN @ \cup {l} |->
                                 IF k = l THEN Upserted(x.seen, now, x.rows[l], x.mode) ELSE @[k]]]
           /\ nextRow' = IF x.seen = Absent THEN nextRow + 1 ELSE nextRow
    /\ UNCHANGED <<coll, item, answer, served>>

\* The commit also marks the collection as changed, so it must still be there.
ImportCommits(r) ==
    /\ req[r].op = "import"
    /\ DOMAIN req[r].written = DOMAIN req[r].rows
    /\ IsThere(req[r].coll)
    /\ LET x == req[r]
       IN  item' = [item EXCEPT ![x.coll] =
                       [l \in Line |-> IF l \in DOMAIN x.written THEN x.written[l] ELSE @[l]]]
    /\ Ends(r, Absent)
    /\ UNCHANGED <<coll, nextRow>>

\* A request that may not go on: refused by a check, a constraint, a policy or
\* the deadlock detector, or lost with the process.  Its transaction is undone.
RequestFails(r) ==
    /\ req[r] # Idle
    /\ Ends(r, Absent)
    /\ UNCHANGED <<coll, item, nextRow>>
-----------------------------------------------------------------------------
\* listItems and valueCollection: the columns only the owner is shown.
Free(row) == [row EXCEPT !.cents = Unknown, !.notes = <<>>]
Masked(p, c, row) == IF coll[c].owner = p THEN row ELSE Free(row)

LinesOnceAllowed(p, c) == {l \in Line : item[c][l] # Absent}
Lines(p, c) == IF Visible(p, c) THEN {l \in Line : item[c][l] # Absent} ELSE {}
Shown(p, c) == [l \in Lines(p, c) |-> Masked(p, c, item[c][l])]

\* Worth now, and gain or loss over the lines that have a price and a cost.
Priced(shown) ==
    {l \in DOMAIN shown : shown[l].currency = Money /\ Price[l] # Unpriced}
Comparable(shown) == {l \in Priced(shown) : shown[l].cents # Unknown}

Valuation(shown) ==
    LET Worth(l) == Price[l] * shown[l].quantity
        Gain(l) == Worth(l) - shown[l].cents * shown[l].quantity
    IN  [lines |-> Cardinality(DOMAIN shown),
         worth |-> MapThenSumSet(Worth, Priced(shown)),
         gain |-> MapThenSumSet(Gain, Comparable(shown)),
         unpriced |-> Cardinality({l \in DOMAIN shown : shown[l].currency = Money}
                                  \ Priced(shown))]

\* GET /v1/collections/:id and its value and export: the collection is read, and
\* its lines in another transaction.
ViewChecks(r, p, c) ==
    /\ Visible(p, c)
    /\ Starts(r, [op |-> "view", who |-> p, coll |-> c])
    /\ UNCHANGED <<coll, item, nextRow>>

ViewAnswers(r) ==
    /\ req[r].op = "view"
    /\ LET x == req[r]
       IN  Ends(r, [who |-> x.who, coll |-> x.coll, shown |-> Shown(x.who, x.coll),
                    value |-> Valuation(Shown(x.who, x.coll))])
    /\ UNCHANGED <<coll, item, nextRow>>

\* exportCollectionCsv, and the rows an import of that file would read.  Of the
\* ten columns the model writes out two: the card, and the notes.
Sheet(shown, order) ==
    ToCsv(<<<<<<"set">>, <<"notes">>>>>>
          \o [i \in DOMAIN order |-> <<<<order[i]>>, shown[order[i]].notes>>])

ReadBack(shown, order) ==
    LET rows == Records(ParseCsv(Sheet(shown, order)))
    IN  [i \in DOMAIN order |->
            LET row == shown[order[i]]
            IN  [line |-> Head(rows[i][<<"set">>]),
                 buy |-> [quantity |-> row.quantity, currency |-> row.currency,
                          cents |-> IF row.cents = Unknown THEN Unknown
                                    ELSE ParseMoney(FormatCents(row.cents)),
                          notes |-> rows[i][<<"notes">>]]]]
-----------------------------------------------------------------------------
CollNext ==
    \/ \E r \in Req, p \in User, v \in Visibility : CreateCounts(r, p, v)
    \/ \E r \in Req, c \in Id : CreateInserts(r, c)
    \/ \E p \in User, c \in Id, v \in Visibility : UpdateCollection(p, c, v)
    \/ \E p \in User, c \in Id : DeleteCollection(p, c)
    \/ \E r \in Req, p \in User, c \in Id, l \in Line, buy \in Purchase :
           AddChecks(r, p, c, l, buy)
    \/ \E r \in Req : AddReads(r) \/ AddWrites(r)
    \/ \E p \in User, c \in Id, l \in Line, buy \in Purchase : UpdateItem(p, c, l, buy)
    \/ \E p \in User, c \in Id, l \in Line : RemoveItem(p, c, l)
    \/ \E r \in Req, p \in User, c \in Id, file \in File, mode \in {"add", "replace"} :
           ImportStarts(r, p, c, file, mode)
    \/ \E r \in Req, l \in Line : ImportReads(r, l)
    \/ \E r \in Req : ImportWrites(r) \/ ImportCommits(r) \/ RequestFails(r)
    \/ \E r \in Req, p \in User \cup {Visitor}, c \in Id : ViewChecks(r, p, c)
    \/ \E r \in Req : ViewAnswers(r)

CollSpec == CollInit /\ [][CollNext]_collVars
-----------------------------------------------------------------------------
\* What somebody else is told of a collection has nothing in it of what its
\* cards cost, nor of the owner's notes -- the answer would be the same had
\* nothing been paid and nothing been noted -- and no line of a collection that
\* was private by the time its lines were read.
AnswersKeepSecrets ==
    [][\A r \in Req : req[r].op = "view" /\ answer'[r] # Absent =>
          LET a == answer'[r]
              free == [l \in DOMAIN a.shown |-> Free(a.shown[l])]
          IN  Owns(a.who, a.coll) \/ /\ a.shown = free
                                     /\ a.value = Valuation(free)
                                     /\ Visible(Visitor, a.coll) \/ a.shown = <<>>]_collVars

\* An export can be imported again: into an empty collection it brings back the
\* same lines, at the same quantity and cost, with notes that say the same once a
\* leading formula character is made harmless.  The one line that does not come
\* back is that whose notes were as long as they may be, and are now longer.
ExportComesBack ==
    \A p \in User \cup {Visitor}, c \in Id :
        LET shown == Shown(p, c)
            order == SetToSeq(DOMAIN shown)
            doc == ParseCsv(Sheet(shown, order))
            Noted(l) == Trimmed(Guarded(shown[l].notes))
        IN  /\ Visible(p, c)
            /\ Len(order) <= RowLimit /\ Len(Sheet(shown, order)) <= SizeLimit
            =>  /\ doc.problem = "none" /\ HeaderIsGood(doc.header)
                /\ DOMAIN Records(doc) = DOMAIN order
                /\ LET again == Resolved(ReadBack(shown, order))
                   IN  /\ DOMAIN again = {l \in DOMAIN shown : Len(Noted(l)) <= MaxNotes}
                       /\ \A l \in DOMAIN again :
                             /\ again[l].quantity = shown[l].quantity
                             /\ again[l].cents = shown[l].cents
                             /\ again[l].currency = shown[l].currency
                             /\ again[l].notes = Noted(l)
=============================================================================
