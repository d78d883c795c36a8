---------------------------- MODULE Pages_proofs ----------------------------
(***************************************************************************)
(* What people are shown and told, for any number of rows, calls, cards,   *)
(* entries and watches: the orders page never shows an older row than it   *)
(* has shown, an entry that names a card was logged under its name, the    *)
(* verifier accuses nobody of what nobody did, and a restock alert is sent *)
(* once for a restock and once to its reader, but for faults.              *)
(***************************************************************************)
EXTENDS Screens, Loggers, Verifier, Alerts, SequenceTheorems, TLAPS

-----------------------------------------------------------------------------
(***************************************************************************)
(* The orders page.  Its busy flag keeps one call in flight, so a list on  *)
(* its way is at least as new as the one shown and no newer than the rows. *)
(***************************************************************************)
RowType == [side : {"buying", "selling"}, status : OrderStatus \cup ShownStatus,
            version : Nat, rated : BOOLEAN]

NotOlder(old, new) == \A r \in Item : old[r].version =< new[r].version

PageInv ==
  /\ row \in [Item -> RowType] /\ copy \in [Item -> RowType]
  /\ DOMAIN call = Slot
  /\ NotOlder(copy, row)
  /\ screen = "orders" =>
       /\ \A s, t \in Slot : call[s] # Quiet /\ call[t] # Quiet => s = t
       /\ \A s \in Slot : call[s] # Quiet => busy
  /\ \A s \in Slot : call[s].step = "read" =>
       /\ call[s].rows \in [Item -> RowType]
       /\ NotOlder(call[s].rows, row)
       /\ screen = "orders" => NotOlder(copy, call[s].rows)

LEMMA PageInitially == ScreenInit => PageInv
<1>. SUFFICES ASSUME ScreenInit PROVE PageInv  OBVIOUS
<1>1. row \in [Item -> RowType]
  BY DEF ScreenInit, NewRow, RowType, Statuses
<1>2. copy = row /\ call = [s \in Slot |-> Quiet]  BY DEF ScreenInit
<1>3. NotOlder(copy, row)  BY <1>1, <1>2 DEF NotOlder, RowType
<1>. QED  BY <1>1, <1>2, <1>3 DEF PageInv, Quiet

\* A row that is written is newer than it was.
LEMMA RowsGetNewer ==
  ASSUME PageInv, row' \in [Item -> RowType], NotOlder(row, row'),
         UNCHANGED <<screen, copy>>, DOMAIN call' = Slot,
         screen = "orders" =>
           /\ \A s, t \in Slot : call'[s] # Quiet /\ call'[t] # Quiet => s = t
           /\ \A s \in Slot : call'[s] # Quiet => busy',
         \A s \in Slot : call'[s].step = "read" => call'[s] = call[s]
  PROVE  PageInv'
<1>1. \A old : old \in [Item -> RowType] /\ NotOlder(old, row) => NotOlder(old, row')
  BY DEF PageInv, NotOlder, RowType
<1>. QED  BY <1>1 DEF PageInv

\* A call that moves on, or is over, without a list.
LEMMA CallMoves ==
  ASSUME PageInv, NEW s \in Slot, NEW c, call' = [call EXCEPT ![s] = c],
         UNCHANGED <<screen, copy>>, row' \in [Item -> RowType], NotOlder(row, row'),
         c.step # "read",
         screen = "orders" => \/ call[s] # Quiet /\ (c = Quiet \/ busy')
                              \/ ~busy /\ busy'
  PROVE  PageInv'
<1>1. DOMAIN call' = Slot /\ call'[s] = c /\ \A t \in Slot : t # s => call'[t] = call[t]
  BY DEF PageInv
<1>2. screen = "orders" =>
        /\ \A t, u \in Slot : call'[t] # Quiet /\ call'[u] # Quiet => t = u
        /\ \A t \in Slot : call'[t] # Quiet => busy'
  BY <1>1 DEF PageInv
<1>. QED  BY <1>1, <1>2, RowsGetNewer

LEMMA SameRows ==
  ASSUME PageInv, UNCHANGED row
  PROVE  row' \in [Item -> RowType] /\ NotOlder(row, row')
BY DEF PageInv, NotOlder, RowType

LEMMA Written ==
  ASSUME PageInv, NEW r, NEW kind, row' = [row EXCEPT ![r] = Changed(kind, r)]
  PROVE  row' \in [Item -> RowType] /\ NotOlder(row, row')
<1>1. CASE r \in Item
  <2>1. row[r] \in RowType  BY <1>1 DEF PageInv
  <2>2. Changed(kind, r) \in RowType /\ row[r].version =< Changed(kind, r).version
    <3>1. CASE kind = "rate"
      <4>1. Changed(kind, r) = [row[r] EXCEPT !.rated = TRUE, !.version = @ + 1]
        BY <3>1 DEF Changed
      <4>2. Changed(kind, r) = [side |-> row[r].side, status |-> row[r].status,
                                version |-> row[r].version + 1, rated |-> TRUE]
        BY <2>1, <4>1 DEF RowType
      <4>3. row[r].version \in Nat /\ row[r].version + 1 \in Nat
            /\ row[r].version =< row[r].version + 1
        BY <2>1 DEF RowType
      <4>. QED  BY <2>1, <4>2, <4>3 DEF RowType
    <3>2. CASE kind \in {"ship", "cancel", "dispute", "publish", "withdraw"}
      <4>1. Becomes(kind) \in OrderStatus \cup ShownStatus
        BY <3>2 DEF Becomes, OrderStatus, ShownStatus
      <4>2. Changed(kind, r) = [row[r] EXCEPT !.status = Becomes(kind), !.version = @ + 1]
        BY <3>2 DEF Changed
      <4>3. Changed(kind, r) = [side |-> row[r].side, status |-> Becomes(kind),
                                version |-> row[r].version + 1, rated |-> row[r].rated]
        BY <2>1, <4>2 DEF RowType
      <4>4. row[r].version \in Nat /\ row[r].version + 1 \in Nat
            /\ row[r].version =< row[r].version + 1
        BY <2>1 DEF RowType
      <4>. QED  BY <2>1, <4>1, <4>3, <4>4 DEF RowType
    <3>3. CASE kind \notin {"rate", "ship", "cancel", "dispute", "publish", "withdraw"}
      <4>1. Changed(kind, r) = row[r]  BY <3>3 DEF Changed
      <4>. QED  BY <2>1, <4>1 DEF RowType
    <3>. QED  BY <3>1, <3>2, <3>3
  <2>. QED  BY <1>1, <2>1, <2>2 DEF PageInv, NotOlder, RowType
<1>2. CASE r \notin Item
  <2>1. row' = row  BY <1>2 DEF PageInv
  <2>. QED  BY <2>1, SameRows
<1>. QED  BY <1>1, <1>2

\* A step keeps the invariant, and the orders page's list gets no older.
LEMMA PageStep ==
  ASSUME PageInv, [ScreenNext]_screenVars
  PROVE  PageInv' /\ (screen = "orders" => NotOlder(copy, copy'))
<1>. DEFINE Goal == PageInv' /\ (screen = "orders" => NotOlder(copy, copy'))
<1>0. UNCHANGED copy => (screen = "orders" => NotOlder(copy, copy'))
  BY DEF PageInv, NotOlder, RowType
<1>1. CASE UNCHANGED screenVars
  BY <1>0, <1>1 DEF screenVars, PageInv, NotOlder
<1>2. ASSUME NEW s \in Slot, NEW r \in Item, NEW kind, Post(s, r, kind), NotBusy
      PROVE  Goal
  <2>. DEFINE c == [step |-> "sent", row |-> r, kind |-> kind, offered |-> kind \in Offers(r)]
  <2>1. call' = [call EXCEPT ![s] = c] /\ c.step # "read" /\ ~busy /\ busy'
        /\ UNCHANGED <<screen, row, copy>>
    BY <1>2 DEF Post, NotBusy
  <2>. HIDE DEF c
  <2>. QED  BY <1>0, <2>1, CallMoves, SameRows
<1>3. ASSUME NEW s \in Slot, SubmitForm(s)  PROVE Goal
  <2>. DEFINE c == [step |-> "sent", row |-> form[1], kind |-> form[2],
                    offered |-> form[2] \in Offers(form[1])]
  <2>1. call' = [call EXCEPT ![s] = c] /\ c.step # "read" /\ ~busy /\ busy'
        /\ UNCHANGED <<screen, row, copy>>
    BY <1>3 DEF SubmitForm, Post, NotBusy
  <2>. HIDE DEF c
  <2>. QED  BY <1>0, <2>1, CallMoves, SameRows
<1>4. ASSUME NEW s \in Slot, Serve(s) \/ ServeThenFail(s)  PROVE Goal
  <2>1. PICK c : call' = [call EXCEPT ![s] = c] /\ c.step = "answered"
    <3>1. CASE Serve(s)
      <4>1. \E x : \E y : call' = [call EXCEPT ![s] =
                [step |-> "answered", row |-> call[s].row, kind |-> call[s].kind,
                 answer |-> x, fresh |-> y]]
        BY <3>1 DEF Serve
      <4>2. PICK x, y : call' = [call EXCEPT ![s] =
                [step |-> "answered", row |-> call[s].row, kind |-> call[s].kind,
                 answer |-> x, fresh |-> y]]
        BY <4>1
      <4>. WITNESS [step |-> "answered", row |-> call[s].row, kind |-> call[s].kind,
                    answer |-> x, fresh |-> y]
      <4>. QED  BY <4>2
    <3>2. CASE ServeThenFail(s)
      <4>. WITNESS [step |-> "answered", row |-> call[s].row, kind |-> call[s].kind,
                    answer |-> "failed", fresh |-> FALSE]
      <4>. QED  BY <3>2 DEF ServeThenFail
    <3>. QED  BY <1>4, <3>1, <3>2
  <2>2. call[s] # Quiet /\ UNCHANGED <<screen, copy, busy>>
    BY <1>4 DEF Serve, ServeThenFail, Quiet
  <2>3. \/ UNCHANGED row
        \/ row' = [row EXCEPT ![call[s].row] = Changed(call[s].kind, call[s].row)]
    BY <1>4 DEF Serve, ServeThenFail
  <2>4. row' \in [Item -> RowType] /\ NotOlder(row, row')
    BY <2>3, SameRows, Written
  <2>5. screen = "orders" => busy  BY <2>2 DEF PageInv
  <2>. QED  BY <1>0, <2>1, <2>2, <2>4, <2>5, CallMoves
<1>5. ASSUME NEW s \in Slot, Refuse(s) \/ RefreshRefused(s) \/ ConnectionLost(s)  PROVE Goal
  <2>1. /\ call' = [call EXCEPT ![s] = Quiet] /\ Quiet.step # "read" /\ call[s] # Quiet
        /\ UNCHANGED <<screen, row, copy>>
    BY <1>5 DEF Refuse, RefreshRefused, ConnectionLost, Settles, Quiet
  <2>. QED  BY <1>0, <2>1, CallMoves, SameRows
<1>6. ASSUME NEW s \in Slot,
             Accept(s) \/ UploadStarts(s) \/ UploadPuts(s) \/ UploadCompletes(s)
      PROVE  Goal
  <2>1. call[s] # Quiet /\ UNCHANGED <<screen, row, copy>>
    <3>1. CASE Accept(s)  BY <3>1 DEF Accept, Quiet
    <3>2. CASE UploadStarts(s)
      <4>1. call[s].step = "upload"  BY <3>2 DEF UploadStarts
      <4>2. UNCHANGED <<screen, row, copy>>  BY <3>2 DEF UploadStarts
      <4>. QED  BY <4>1, <4>2 DEF Quiet
    <3>3. CASE UploadPuts(s)
      <4>1. call[s].step = "put"  BY <3>3 DEF UploadPuts
      <4>2. UNCHANGED <<screen, row, copy>>  BY <3>3 DEF UploadPuts
      <4>. QED  BY <4>1, <4>2 DEF Quiet
    <3>4. CASE UploadCompletes(s)  BY <3>4 DEF UploadCompletes, Quiet
    <3>. QED  BY <1>6, <3>1, <3>2, <3>3, <3>4
  <2>2. PICK c : call' = [call EXCEPT ![s] = c] /\ c.step # "read"
                 /\ (c = Quiet \/ UNCHANGED busy)
    <3>1. Quiet.step # "read"  BY DEF Quiet
    <3>. QED  BY <1>6, <3>1 DEF Accept, UploadStarts, UploadPuts, UploadCompletes, Settles
  <2>3. screen = "orders" => c = Quiet \/ busy'  BY <2>1, <2>2 DEF PageInv
  <2>4. PageInv'  BY <2>1, <2>2, <2>3, CallMoves, SameRows
  <2>. QED  BY <1>0, <2>1, <2>4
<1>7. ASSUME NEW s \in Slot, PickFile(s)  PROVE Goal
  <2>. DEFINE c == [step |-> "upload"]
  <2>1. /\ call' = [call EXCEPT ![s] = c] /\ c.step # "read" /\ screen # "orders"
        /\ UNCHANGED <<screen, row, copy>>
    BY <1>7 DEF PickFile
  <2>. HIDE DEF c
  <2>. QED  BY <1>0, <2>1, CallMoves, SameRows
<1>8. ASSUME NEW s \in Slot, RefreshReads(s)  PROVE Goal
  <2>. DEFINE c == [step |-> "read", kind |-> call[s].kind, rows |-> row]
  <2>1. /\ call' = [call EXCEPT ![s] = c] /\ c.rows = row /\ call[s] # Quiet
        /\ UNCHANGED <<screen, row, copy, busy>>
    BY <1>8 DEF RefreshReads, Quiet
  <2>. HIDE DEF c
  <2>2. DOMAIN call' = Slot /\ call'[s] = c /\ \A t \in Slot : t # s => call'[t] = call[t]
    BY <2>1 DEF PageInv
  <2>3. NotOlder(row, row)  BY DEF PageInv, NotOlder, RowType
  <2>4. screen = "orders" =>
          /\ \A t, u \in Slot : call'[t] # Quiet /\ call'[u] # Quiet => t = u
          /\ \A t \in Slot : call'[t] # Quiet => busy'
    BY <2>1, <2>2 DEF PageInv
  <2>5. PageInv'  BY <2>1, <2>2, <2>3, <2>4 DEF PageInv
  <2>. QED  BY <1>0, <2>1, <2>5
<1>9. ASSUME NEW s \in Slot, RefreshShows(s)  PROVE Goal
  <2>1. /\ call[s].step = "read" /\ copy' = call[s].rows /\ busy' = FALSE
        /\ call' = [call EXCEPT ![s] = Quiet] /\ UNCHANGED <<screen, row>>
    BY <1>9 DEF RefreshShows, Settles
  <2>2. DOMAIN call' = Slot /\ call'[s] = Quiet /\ \A t \in Slot : t # s => call'[t] = call[t]
    BY <2>1 DEF PageInv
  <2>3. call[s] # Quiet /\ Quiet.step # "read"  BY <2>1 DEF Quiet
  <2>4. screen = "orders" => \A t \in Slot : call'[t] = Quiet
    BY <2>2, <2>3 DEF PageInv
  <2>5. PageInv'  BY <2>1, <2>2, <2>3, <2>4 DEF PageInv
  <2>. QED  BY <2>1, <2>5 DEF PageInv
<1>10. ASSUME NEW r \in Item, NEW to \in Statuses(screen), Elsewhere(r, to)  PROVE Goal
  <2>1. row' = [row EXCEPT ![r].status = to, ![r].version = @ + 1]
        /\ UNCHANGED <<screen, copy, busy, call>>
    BY <1>10 DEF Elsewhere
  <2>2. to \in OrderStatus \cup ShownStatus  BY DEF Statuses
  <2>3. row[r] \in RowType  BY DEF PageInv
  <2>4. row' \in [Item -> RowType] /\ NotOlder(row, row')
    BY <2>1, <2>2, <2>3 DEF PageInv, NotOlder, RowType
  <2>5. PageInv'  BY <2>1, <2>4, RowsGetNewer DEF PageInv
  <2>. QED  BY <1>0, <2>1, <2>5
<1>11. ASSUME NEW r \in Item, NEW k \in Formed, OpenForm(r, k)  PROVE Goal
  BY <1>0, <1>11 DEF OpenForm, PageInv, NotOlder
<1>. QED
  BY <1>1, <1>2, <1>3, <1>4, <1>5, <1>6, <1>7, <1>8, <1>9, <1>10, <1>11
  DEF ScreenNext, PressCancel, PressStatus, PressOther

\* However presses, answers, other people's writes and lost connections fall,
\* no order on the orders page goes back to what it was (orders-manager.tsx).
THEOREM OrdersNeverGoBack == ScreenSpec => NeverGoesBack
<1>1. ASSUME PageInv, [ScreenNext]_screenVars
      PROVE  screen = "orders" => \A r \in Item : copy[r].version <= copy'[r].version
  BY <1>1, PageStep DEF NotOlder
<1>. QED  BY <1>1, PageInitially, PageStep, PTL DEF ScreenSpec, NeverGoesBack
-----------------------------------------------------------------------------
(***************************************************************************)
(* The logging forms.  A chosen card and the text in the field are set     *)
(* together and dropped together.                                          *)
(***************************************************************************)
Typed == Amount \cup {Empty, Junk}
Worth == Typed \cup {0} \cup {IndexPrice[c] : c \in Card}
Named == {e \in [text : Text \cup {Empty}, card : Card \cup {Empty}, n : Numbers, value : Worth] :
            e.card # Empty => e.text = e.card}

FormInv ==
  /\ label \in Text \cup {Empty} /\ value \in Typed
  /\ candidate \in Card \cup {Empty}
  /\ candidate # Empty => label = candidate
  /\ hits \in Seq(Card) /\ timer \in Text \cup {Empty}
  /\ searches \subseteq Text /\ lookups \subseteq Card
  /\ sent \subseteq Named
  /\ \A e \in sent : e.value = Empty => e.card # Empty
  /\ kept \in Seq(Named)

LEMMA FormInitially == LoggerInit => FormInv
BY DEF LoggerInit, FormInv, Typed

\* The body of a post, and what becomes of it in the table.
LEMMA EntryNamed ==
  ASSUME FormInv, NEW n \in Numbers
  PROVE  Entry(n) \in Named /\ (Entry(n).value = Empty => Entry(n).card # Empty)
BY LoggerAssumption DEF FormInv, Entry, Named, Worth, Typed

LEMMA ValuedNamed ==
  ASSUME NEW e \in Named, e.value = Empty => e.card # Empty
  PROVE  Valued(e) \in Named
BY DEF Named, Worth, Valued

\* Without the sale at one place a list is still a list of entries.
LEMMA RemovedNamed ==
  ASSUME NEW list \in Seq(Named), NEW j \in DOMAIN list
  PROVE  SubSeq(list, 1, j - 1) \o SubSeq(list, j + 1, Len(list)) \in Seq(Named)
<1>1. Len(list) \in Nat /\ j \in 1 .. Len(list)  OBVIOUS
<1>2. SubSeq(list, 1, j - 1) \in Seq(Named)
  <2>1. \A i \in 1 .. j - 1 : list[i] \in Named  BY <1>1
  <2>. QED  BY <1>1, <2>1, SubSeqProperties
<1>3. SubSeq(list, j + 1, Len(list)) \in Seq(Named)
  <2>1. \A i \in j + 1 .. Len(list) : list[i] \in Named  BY <1>1
  <2>. QED  BY <1>1, <2>1, SubSeqProperties
<1>. QED  BY <1>2, <1>3, ConcatProperties

LEMMA EffectTyped ==
  ASSUME hits \in Seq(Card), SearchEffect, label' \in Text \cup {Empty}
  PROVE  hits' \in Seq(Card) /\ timer' \in Text \cup {Empty}
<1>1. hits' = <<>> \/ hits' = hits  BY DEF SearchEffect
<1>2. timer' = Empty \/ timer' = label'  BY DEF SearchEffect
<1>3. <<>> \in Seq(Card)  OBVIOUS
<1>. QED  BY <1>1, <1>2, <1>3

LEMMA FormStep ==
  ASSUME FormInv, [LoggerNext]_logVars
  PROVE  FormInv'
<1>1. CASE UNCHANGED logVars
  BY <1>1 DEF logVars, pickVars, listVars, FormInv
<1>2. ASSUME NEW text \in Term \cup {Empty}, Type(text)  PROVE FormInv'
  <2>1. /\ label' = text /\ candidate' = Empty /\ SearchEffect
        /\ UNCHANGED <<value, searches, lookups, sent, kept>>
    BY <1>2 DEF Type, CandidateOnceTyped, listVars
  <2>2. label' \in Text \cup {Empty}  BY <2>1 DEF Text
  <2>3. hits' \in Seq(Card) /\ timer' \in Text \cup {Empty}
    BY <2>1, <2>2, EffectTyped DEF FormInv
  <2>. QED  BY <2>1, <2>2, <2>3 DEF FormInv
<1>3. ASSUME NEW amount \in Amount \cup {Empty, Junk}, TypeValue(amount)  PROVE FormInv'
  BY <1>3 DEF TypeValue, FormInv, pickVars, listVars, Typed
<1>4. CASE SearchSends \/ Arrow \/ Escape
  <2>1. UNCHANGED <<value, label, candidate, lookups, sent, kept>>
    BY <1>4 DEF SearchSends, Arrow, Escape, listVars
  <2>2. hits' \in Seq(Card) /\ timer' \in Text \cup {Empty} /\ searches' \subseteq Text
    <3>1. CASE SearchSends  BY <3>1 DEF SearchSends, FormInv
    <3>2. CASE Arrow  BY <3>2 DEF Arrow, FormInv
    <3>3. CASE Escape  BY <3>3 DEF Escape, FormInv
    <3>. QED  BY <1>4, <3>1, <3>2, <3>3
  <2>. QED  BY <2>1, <2>2 DEF FormInv
<1>5. CASE ClearCandidate
  BY <1>5 DEF ClearCandidate, SearchEffect, FormInv, listVars, Typed
<1>6. ASSUME NEW text \in searches, SearchAnswers(text)  PROVE FormInv'
  <2>1. Finds[text] \in Seq(Card)  BY LoggerAssumption DEF FormInv
  <2>. QED  BY <1>6, <2>1 DEF SearchAnswers, FormInv, listVars
<1>7. ASSUME NEW i \in DOMAIN hits, Choose(i)  PROVE FormInv'
  <2>1. hits[i] \in Card  BY DEF FormInv
  <2>. QED  BY <1>7, <2>1 DEF Choose, FormInv, listVars
<1>8. ASSUME NEW card \in lookups, LookupAnswers(card)  PROVE FormInv'
  <2>1. /\ lookups' \subseteq Card
        /\ UNCHANGED <<value, searches, sent, kept>>
    BY <1>8 DEF LookupAnswers, FormInv, listVars
  <2>2. CASE UNCHANGED <<candidate, label, hits, timer>>
    BY <2>1, <2>2 DEF FormInv
  <2>3. CASE candidate' = card /\ label' = card /\ SearchEffect
    <3>1. card \in Card /\ card \in Text  BY DEF FormInv, Text
    <3>2. hits' \in Seq(Card) /\ timer' \in Text \cup {Empty}
      BY <2>3, <3>1, EffectTyped DEF FormInv
    <3>. QED  BY <2>1, <2>3, <3>1, <3>2 DEF FormInv
  <2>. QED  BY <1>8, <2>2, <2>3 DEF LookupAnswers
<1>9. ASSUME NEW n \in Numbers, SubmitPull(n) \/ SubmitSale(n)  PROVE FormInv'
  <2>1. sent' = sent \cup {Entry(n)} /\ Cleared /\ UNCHANGED <<searches, lookups, kept>>
    BY <1>9 DEF SubmitPull, SubmitSale, listVars
  <2>. QED  BY <2>1, EntryNamed DEF Cleared, FormInv, Typed
<1>10. CASE SubmitUnreadable \/ ChangeStatus
  BY <1>10 DEF SubmitUnreadable, ChangeStatus, FormInv, pickVars, listVars
<1>11. ASSUME NEW e \in sent, EntryKept(e)  PROVE FormInv'
  <2>1. Valued(e) \in Named  BY ValuedNamed DEF FormInv
  <2>2. kept' \in Seq(Named)  BY <1>11, <2>1 DEF EntryKept, FormInv
  <2>. QED  BY <1>11, <2>2 DEF EntryKept, FormInv, pickVars
<1>12. ASSUME NEW e \in sent,
              PullAnswered(e) \/ SaleAnswered(e) \/ EntryRefused(e) \/ EntryUnanswered(e)
       PROVE  FormInv'
  BY <1>12 DEF PullAnswered, SaleAnswered, EntryRefused, EntryUnanswered, FormInv,
               pickVars, listVars
<1>13. ASSUME NEW i \in DOMAIN shown, RemoveSale(i)  PROVE FormInv'
  <2>1. kept' \in Seq(Named)  BY <1>13, RemovedNamed DEF RemoveSale, FormInv
  <2>. QED  BY <1>13, <2>1 DEF RemoveSale, FormInv, pickVars
<1>14. ASSUME NEW list \in reads, ListShows(list)  PROVE FormInv'
  BY <1>14 DEF ListShows, FormInv, pickVars
<1>. QED
  BY <1>1, <1>2, <1>3, <1>4, <1>5, <1>6, <1>7, <1>8, <1>9, <1>10, <1>11, <1>12, <1>13, <1>14
  DEF LoggerNext

\* However searches, lookups, posts and lists overtake each other, a card is
\* logged only under the name the creator read (pull-logger.tsx, sale-logger.tsx).
THEOREM CardsKeepTheirNames == LoggerSpec => []NameIsTheCard
<1>1. FormInv => NameIsTheCard
  BY DEF FormInv, NameIsTheCard, Named
<1>. QED  BY <1>1, FormInitially, FormStep, PTL DEF LoggerSpec
-----------------------------------------------------------------------------
(***************************************************************************)
(* The verifier, while nobody has edited the database.  Every log that was *)
(* ever read is one that the code wrote, and of a log that is hashed from  *)
(* its first row the API can only have said that it is valid.              *)
(***************************************************************************)
Body == [seq : Nat, says : Content]

\* The hash a row is linked to: a row older than the chain has none.
From(log, i) ==
  IF i = 1 THEN Genesis
  ELSE IF log[i - 1].rowHash = Unhashed THEN Genesis ELSE log[i - 1].rowHash

Linked(log, i) ==
  /\ log[i].body \in Body
  /\ log[i].prevHash = From(log, i)
  /\ log[i].rowHash = HashPull(From(log, i), log[i].body)
  /\ log[i].rowHash \in Seq(Body)

AsLogged(log) ==
  /\ Len(log) \in Nat /\ DOMAIN log = 1 .. Len(log)
  /\ \A i \in 1 .. Len(log) : Linked(log, i) \/ (i = 1 /\ log[1].rowHash = Unhashed)

Checkable(log) == log # <<>> /\ ~PredatesChain(log)
Honest(s) == s.revealed = Unread \/ s.revealed = s.committed

\* A log read from the table before this one.
Earlier(log) == Checkable(log) => Checkable(rows)

Calm ==
  /\ rows \in Seq([body : Body, prevHash : Seq(Body) \cup {Unhashed},
                   rowHash : Seq(Body) \cup {Unhashed}])
  /\ AsLogged(rows)
  /\ DOMAIN seal = {"committed", "client", "revealed"} /\ Honest(seal)
  /\ fetch.step = "asked" =>
       /\ fetch.rows # Unread => AsLogged(fetch.rows) /\ Earlier(fetch.rows)
       /\ fetch.seal # Unread => Honest(fetch.seal)
       /\ fetch.chain # Unread =>
            fetch.rows # Unread /\ (Checkable(fetch.rows) => fetch.chain = "valid")
  /\ \A taken \in runs :
       /\ DOMAIN taken = {"of", "at"}
       /\ AsLogged(taken.of.rows) /\ Honest(taken.of.seal)
       /\ Checkable(taken.of.rows) => taken.of.chain = "valid"
  /\ agrees /\ verdict.log # "fail" /\ verdict.seeds # "fail"
  /\ DOMAIN verdict = {"seeds", "log"}

VerifyInv == edited \in BOOLEAN /\ (~edited => Calm)

\* Rows hashed from the first are a valid chain to API and browser alike.
LEMMA WrittenIsValid ==
  ASSUME NEW log, AsLogged(log), ~PredatesChain(log)
  PROVE  BrokenAt(log) = 0
<1>1. \A i \in 1 .. Len(log) : Linked(log, i)  BY DEF AsLogged, PredatesChain
<1>2. \A i \in DOMAIN log : log[i].prevHash = (IF i = 1 THEN Genesis ELSE log[i - 1].rowHash)
  <2>. TAKE i \in DOMAIN log
  <2>1. i \in 1 .. Len(log) /\ Linked(log, i)  BY <1>1 DEF AsLogged
  <2>2. i # 1 => i - 1 \in DOMAIN log  BY <2>1 DEF AsLogged
  <2>. QED  BY <2>1, <2>2 DEF Linked, From, PredatesChain
<1>3. \A i \in DOMAIN log : log[i].rowHash = HashPull(log[i].prevHash, log[i].body)
  BY <1>1 DEF AsLogged, Linked
<1>. QED  BY <1>2, <1>3 DEF BrokenAt

LEMMA RestQuiet ==
  ASSUME VerifierInit, AsLogged(rows),
         rows \in Seq([body : Body, prevHash : Seq(Body) \cup {Unhashed},
                       rowHash : Seq(Body) \cup {Unhashed}])
  PROVE  VerifyInv
<1>1. fetch.step # "asked" /\ runs = {} /\ edited = FALSE  BY DEF VerifierInit, Asks
<1>2. DOMAIN seal = {"committed", "client", "revealed"} /\ Honest(seal)
  BY DEF VerifierInit, NoSeal, Honest
<1>3. agrees /\ verdict.log # "fail" /\ verdict.seeds # "fail" /\ DOMAIN verdict = {"seeds", "log"}
  BY DEF VerifierInit
<1>. QED  BY <1>1, <1>2, <1>3 DEF VerifyInv, Calm

LEMMA VerifyInitially == VerifierInit => VerifyInv
<1>. SUFFICES ASSUME VerifierInit PROVE VerifyInv  OBVIOUS
<1>1. CASE rows = <<>>
  <2>1. AsLogged(rows)  BY <1>1 DEF AsLogged
  <2>2. rows \in Seq([body : Body, prevHash : Seq(Body) \cup {Unhashed},
                     rowHash : Seq(Body) \cup {Unhashed}])
    BY <1>1
  <2>. QED  BY <2>1, <2>2, RestQuiet
<1>2. ASSUME NEW p \in Content, rows = <<Old(p)>>  PROVE VerifyInv
  <2>1. Old(p) \in [body : Body, prevHash : Seq(Body) \cup {Unhashed},
                    rowHash : Seq(Body) \cup {Unhashed}]
    BY DEF Old, Body
  <2>2. Len(rows) = 1 /\ DOMAIN rows = 1 .. 1 /\ rows[1].rowHash = Unhashed
    BY <1>2 DEF Old
  <2>3. AsLogged(rows)  BY <2>2 DEF AsLogged
  <2>. QED  BY <1>2, <2>1, <2>3, RestQuiet
<1>. QED  BY <1>1, <1>2 DEF VerifierInit

\* A logged pull leaves a log the code wrote, checkable if it was.
LEMMA ArrivalKeepsCalm ==
  ASSUME Calm, NEW p \in Content, PullArrives(p)
  PROVE  AsLogged(rows') /\ (Checkable(rows) => Checkable(rows'))
         /\ rows' \in Seq([body : Body, prevHash : Seq(Body) \cup {Unhashed},
                           rowHash : Seq(Body) \cup {Unhashed}])
<1>. DEFINE n    == Len(rows)
            tip  == IF rows = <<>> THEN Genesis ELSE rows[n].rowHash
            prev == IF tip = Unhashed THEN Genesis ELSE tip
            body == [seq |-> n + 1, says |-> p]
            new  == [body |-> body, prevHash |-> prev, rowHash |-> HashPull(prev, body)]
            Row  == [body : Body, prevHash : Seq(Body) \cup {Unhashed},
                     rowHash : Seq(Body) \cup {Unhashed}]
<1>0. rows \in Seq(Row) /\ n \in Nat /\ (rows = <<>> <=> n = 0)  BY DEF Calm
<1>1. rows' = Append(rows, new)  BY DEF PullArrives
<1>2. tip \in Seq(Body) \cup {Unhashed}
  <2>1. CASE rows = <<>>  BY <2>1 DEF Genesis
  <2>2. CASE rows # <<>>
    <3>. HIDE DEF Row
    <3>1. rows[n] \in Row  BY <1>0, <2>2
    <3>2. rows[n].rowHash \in Seq(Body) \cup {Unhashed}  BY <3>1 DEF Row
    <3>. QED  BY <2>2, <3>2
  <2>. QED  BY <2>1, <2>2
<1>3. prev \in Seq(Body) /\ body \in Body  BY <1>0, <1>2 DEF Genesis, Body
<1>4. HashPull(prev, body) \in Seq(Body)  BY <1>3 DEF HashPull
<1>5. new \in Row /\ new.body = body /\ new.prevHash = prev /\ new.rowHash = HashPull(prev, body)
  BY <1>3, <1>4
<1>12. prev # Unhashed /\ HashPull(prev, body) # Unhashed
  BY <1>3, <1>4, VerifierAssumption DEF Body
<1>. HIDE DEF new, Row, body
<1>6. /\ rows' \in Seq(Row) /\ Len(rows') = n + 1 /\ rows'[n + 1] = new
      /\ \A i \in 1 .. n : rows'[i] = rows[i]
  BY <1>0, <1>1, <1>5
<1>7. \A i \in 1 .. n : Linked(rows', i) \/ (i = 1 /\ rows'[1].rowHash = Unhashed)
  <2>. TAKE i \in 1 .. n
  <2>1. rows'[i] = rows[i] /\ (i # 1 => rows'[i - 1] = rows[i - 1])  BY <1>0, <1>6
  <2>2. Linked(rows, i) \/ (i = 1 /\ rows[1].rowHash = Unhashed)  BY DEF Calm, AsLogged
  <2>3. From(rows', i) = From(rows, i)  BY <2>1 DEF From
  <2>. QED  BY <2>1, <2>2, <2>3 DEF Linked
<1>8. From(rows', n + 1) = prev
  BY <1>0, <1>6 DEF From
<1>. HIDE DEF prev, tip
<1>13. rows'[n + 1].body = body /\ rows'[n + 1].prevHash = prev
       /\ rows'[n + 1].rowHash = HashPull(prev, body)
  BY <1>5, <1>6
<1>9. Linked(rows', n + 1)
  BY <1>3, <1>4, <1>8, <1>13 DEF Linked
<1>10. AsLogged(rows')
  <2>1. DOMAIN rows' = 1 .. n + 1  BY <1>6 DEF Row
  <2>. QED  BY <1>0, <1>6, <1>7, <1>9, <2>1 DEF AsLogged
<1>11. Checkable(rows) => Checkable(rows')
  <2>. SUFFICES ASSUME Checkable(rows) PROVE Checkable(rows')  OBVIOUS
  <2>1. rows' # <<>>  BY <1>0, <1>6
  <2>2. \A i \in 1 .. n : rows'[i].rowHash # Unhashed
    BY <1>0, <1>6 DEF Checkable, PredatesChain
  <2>3. rows'[n + 1].rowHash # Unhashed
    BY <1>12, <1>13
  <2>4. DOMAIN rows' = 1 .. n + 1  BY <1>6 DEF Row
  <2>. QED  BY <1>0, <2>1, <2>2, <2>3, <2>4 DEF Checkable, PredatesChain
<1>. QED  BY <1>6, <1>10, <1>11 DEF Row

LEMMA VerifyStep == VerifyInv /\ [VerifierNext]_verifyVars => VerifyInv'
<1>. SUFFICES ASSUME VerifyInv, [VerifierNext]_verifyVars PROVE VerifyInv'  OBVIOUS
<1>1. CASE UNCHANGED verifyVars
  BY <1>1 DEF verifyVars, VerifyInv, Calm, Earlier
<1>2. CASE DatabaseEdited  BY <1>2 DEF DatabaseEdited, VerifyInv
<1>3. CASE edited
  BY <1>3 DEF VerifierNext, verifyVars, VerifyInv, PullArrives, SealMoves, DatabaseEdited,
              Asked, ViewReads, CommitmentReads, ChainReads, EvidenceArrives, FetchFails,
              ChecksSeeds, ChecksLog
<1>4. ASSUME Calm, ~edited, NEW p \in Content, PullArrives(p)  PROVE VerifyInv'
  <2>1. AsLogged(rows') /\ (Checkable(rows) => Checkable(rows'))
        /\ rows' \in Seq([body : Body, prevHash : Seq(Body) \cup {Unhashed},
                          rowHash : Seq(Body) \cup {Unhashed}])
    BY <1>4, ArrivalKeepsCalm
  <2>. QED  BY <1>4, <2>1 DEF PullArrives, VerifyInv, Calm, Earlier
<1>5. ASSUME Calm, ~edited, SealMoves  PROVE VerifyInv'
  <2>1. DOMAIN seal' = {"committed", "client", "revealed"} /\ Honest(seal')
    BY <1>5 DEF SealMoves, Calm, Honest
  <2>. QED  BY <1>5, <2>1 DEF SealMoves, VerifyInv, Calm, Earlier
<1>6. ASSUME Calm, ~edited, Asked \/ FetchFails  PROVE VerifyInv'
  <2>1. \/ fetch'.step # "asked"
        \/ fetch'.rows = Unread /\ fetch'.seal = Unread /\ fetch'.chain = Unread
    BY <1>6 DEF Asked, FetchFails, Asks
  <2>2. UNCHANGED <<rows, seal, edited, runs, verdict, agrees>>
    BY <1>6 DEF Asked, FetchFails
  <2>. QED  BY <1>6, <2>1, <2>2 DEF VerifyInv, Calm, Earlier
<1>7. ASSUME Calm, ~edited, ViewReads  PROVE VerifyInv'
  BY <1>7 DEF ViewReads, VerifyInv, Calm, Earlier
<1>8. ASSUME Calm, ~edited, CommitmentReads  PROVE VerifyInv'
  BY <1>8 DEF CommitmentReads, RowsRead, VerifyInv, Calm, Earlier
<1>9. ASSUME Calm, ~edited, ChainReads  PROVE VerifyInv'
  <2>1. Checkable(rows) => ChainOf(rows) = "valid"
    BY <1>9, WrittenIsValid DEF Calm, Checkable, ChainOf
  <2>. QED  BY <1>9, <2>1 DEF ChainReads, RowsRead, VerifyInv, Calm, Earlier
<1>10. ASSUME Calm, ~edited, EvidenceArrives  PROVE VerifyInv'
  BY <1>10 DEF EvidenceArrives, Asks, VerifyInv, Calm, Earlier
<1>11. ASSUME Calm, ~edited, NEW taken \in runs, ChecksSeeds(taken)  PROVE VerifyInv'
  <2>1. SeedsVerdict(taken.of.seal) # "fail"
    BY <1>11 DEF SeedsVerdict, Calm, Honest
  <2>. DEFINE next == [taken EXCEPT !.at = "log"]
  <2>2. next.of = taken.of /\ DOMAIN next = {"of", "at"}  BY <1>11 DEF Calm
  <2>3. runs' = (runs \ {taken}) \cup {next}  BY <1>11 DEF ChecksSeeds
  <2>4. \A r \in runs' :
          /\ DOMAIN r = {"of", "at"} /\ AsLogged(r.of.rows) /\ Honest(r.of.seal)
          /\ Checkable(r.of.rows) => r.of.chain = "valid"
    <3>. HIDE DEF next
    <3>. QED  BY <1>11, <2>2, <2>3 DEF Calm
  <2>5. verdict'.log # "fail" /\ verdict'.seeds # "fail" /\ DOMAIN verdict' = {"seeds", "log"}
    BY <1>11, <2>1 DEF ChecksSeeds, Calm
  <2>. QED  BY <1>11, <2>4, <2>5 DEF ChecksSeeds, VerifyInv, Calm, Earlier
<1>12. ASSUME Calm, ~edited, NEW taken \in runs, ChecksLog(taken)  PROVE VerifyInv'
  <2>1. \/ LogVerdict(taken.of.rows) = "skip"
        \/ LogVerdict(taken.of.rows) = "pass" /\ taken.of.chain = "valid"
    BY <1>12, WrittenIsValid DEF LogVerdict, Calm, Checkable
  <2>. QED  BY <1>12, <2>1 DEF ChecksLog, VerifyInv, Calm, Earlier
<1>. QED
  BY <1>1, <1>2, <1>3, <1>4, <1>5, <1>6, <1>7, <1>8, <1>9, <1>10, <1>11, <1>12
  DEF VerifierNext, VerifyInv

\* However the evidence is read between pulls, and however checks of it
\* overtake each other, the page raises no alarm unless somebody did edit the
\* database (verifier.tsx, GET /v1/breaks/:id/public).
THEOREM NobodyIsWronglyAccused == VerifierSpec => []NoFalseAlarm
<1>1. VerifyInv => NoFalseAlarm  BY DEF VerifyInv, Calm, NoFalseAlarm
<1>. QED  BY <1>1, VerifyInitially, VerifyStep, PTL DEF VerifierSpec


-----------------------------------------------------------------------------
(* Alerts: what a restock is.  With one scanner the newest snapshot is the *)
(* last report's, and an event was preceded by one that was out of stock.  *)
IsNewest(p) == \A q \in snapshots : q.stamp =< p.stamp
SnapshotsAreInTurn ==
    /\ reports \in Nat
    /\ \A p \in snapshots : p.stamp \in Nat /\ p.stamp =< reports
    /\ \A p, q \in snapshots : p.stamp = q.stamp => p = q
    /\ snapshots # {} => \E p \in snapshots : IsNewest(p)
EventsAreSeen ==
    /\ event \in Seq([old : BOOLEAN, stamp : Nat])
    /\ \A e \in DOMAIN event : \E p \in snapshots : p.inStock /\ p.stamp = event[e].stamp
ReportIsNext ==
    /\ scan = [s \in Scanner |-> scan[s]]
    /\ \A s \in Scanner : scan[s].at = "report" =>
         /\ scan[s].stamp = reports
         /\ \A p \in snapshots : p.stamp < reports
         /\ scan[s].alerts => /\ scan[s].inStock
                              /\ \E p \in snapshots : ~p.inStock /\ IsNewest(p)
StockInv == SnapshotsAreInTurn /\ EventsAreSeen /\ ReportIsNext /\ OneAlertPerRestock

OneScanner == \A s, t \in Scanner : s = t

(* A step that is no report's and no event's.                              *)
LEMMA OthersKeepStock ==
  ASSUME StockInv, UNCHANGED stock, scan' = [s \in Scanner |-> scan'[s]],
         \A s \in Scanner : scan'[s].at = "report" => scan'[s] = scan[s]
  PROVE  StockInv'
BY DEF StockInv, SnapshotsAreInTurn, EventsAreSeen, ReportIsNext, OneAlertPerRestock,
       IsNewest, stock

(* A report is read, or committed: the event it raises is the newest there is.*)
LEMMA ReportsKeepStock ==
  ASSUME OneScanner, StockInv, NEW s \in Scanner,
         (\E inStock \in BOOLEAN : ReportReads(s, inStock)) \/ ReportCommits(s)
  PROVE  StockInv'
<1>. USE DEF StockInv
<1>1. ASSUME NEW inStock \in BOOLEAN, ReportReads(s, inStock)
      PROVE  StockInv'
  <2>1. /\ reports' = reports + 1 /\ UNCHANGED <<snapshots, event>>
        /\ scan' = [scan EXCEPT ![s] = [at |-> "report", stamp |-> reports + 1,
                                        inStock |-> inStock, alerts |-> Restocked(inStock)]]
    BY <1>1 DEF ReportReads
  <2>2. SnapshotsAreInTurn' /\ EventsAreSeen' /\ OneAlertPerRestock'
    BY <2>1 DEF SnapshotsAreInTurn, EventsAreSeen, OneAlertPerRestock, IsNewest
  <2>3. Restocked(inStock) => inStock /\ \E p \in snapshots : ~p.inStock /\ IsNewest(p)
    BY DEF Restocked, Newest, SnapshotsAreInTurn, IsNewest
  <2>4. \A p \in snapshots : p.stamp < reports + 1
    BY DEF SnapshotsAreInTurn
  <2>5. ReportIsNext'
    BY <2>1, <2>3, <2>4, OneScanner DEF ReportIsNext, IsNewest, OneScanner
  <2>. QED  BY <2>2, <2>5
<1>2. CASE ReportCommits(s)
  <2>. DEFINE new == [stamp |-> scan[s].stamp, inStock |-> scan[s].inStock]
  <2>1. /\ snapshots' = snapshots \cup {new} /\ reports' = reports
        /\ scan[s].at = "report" /\ scan[s].stamp = reports
        /\ \A p \in snapshots : p.stamp < reports
    BY <1>2 DEF ReportCommits, ReportIsNext
  <2>2. SnapshotsAreInTurn'
    BY <2>1 DEF SnapshotsAreInTurn, IsNewest
  <2>3. ReportIsNext'
    BY <1>2, OneScanner DEF ReportCommits, ReportIsNext, OneScanner, Idle
  <2>4. CASE event' = event
    BY <2>1, <2>2, <2>3, <2>4 DEF EventsAreSeen, OneAlertPerRestock
  <2>5. CASE event' = Append(event, [old |-> FALSE, stamp |-> scan[s].stamp]) /\ scan[s].alerts
    <3>1. PICK p \in snapshots : ~p.inStock /\ IsNewest(p)
      BY <2>1, <2>5 DEF ReportIsNext
    <3>2. /\ Len(event) \in Nat /\ DOMAIN event = 1 .. Len(event)
          /\ DOMAIN event' = 1 .. Len(event) + 1
          /\ \A e \in DOMAIN event : event'[e] = event[e]
          /\ event'[Len(event) + 1] = [old |-> FALSE, stamp |-> reports]
      BY <2>1, <2>5 DEF EventsAreSeen
    <3>3. EventsAreSeen'
      <4>1. event' \in Seq([old : BOOLEAN, stamp : Nat])
        BY <2>1, <2>5 DEF EventsAreSeen, SnapshotsAreInTurn
      <4>2. new.stamp = reports /\ new.inStock
        BY <2>1, <2>5 DEF ReportIsNext
      <4>3. new \in snapshots' /\ snapshots \subseteq snapshots'
        BY <2>1
      <4>4. ASSUME NEW e \in DOMAIN event'
            PROVE  \E q \in snapshots' : q.inStock /\ q.stamp = event'[e].stamp
        <5>1. CASE e \in DOMAIN event
          BY <3>2, <4>3, <5>1 DEF EventsAreSeen
        <5>2. CASE e = Len(event) + 1
          BY <3>2, <4>2, <4>3, <5>2
        <5>. QED  BY <3>2, <5>1, <5>2
      <4>. QED  BY <4>1, <4>4 DEF EventsAreSeen
    <3>4. \A e \in DOMAIN event : event[e].stamp \in Nat /\ event[e].stamp < p.stamp
      BY <3>1 DEF EventsAreSeen, SnapshotsAreInTurn, IsNewest
    <3>5. OneAlertPerRestock'
      <4>. DEFINE Preceded(e) == \E q \in snapshots' :
                                   /\ ~q.inStock /\ q.stamp < event'[e].stamp
                                   /\ e > 1 => q.stamp > event'[e - 1].stamp
      <4>1. ASSUME NEW e \in DOMAIN event  PROVE Preceded(e)
        <5>1. e > 1 => e - 1 \in DOMAIN event
          BY <3>2, <4>1
        <5>. QED  BY <2>1, <3>2, <4>1, <5>1 DEF OneAlertPerRestock
      <4>2. ASSUME NEW e, e = Len(event) + 1  PROVE Preceded(e)
        <5>1. e > 1 => e - 1 \in DOMAIN event /\ event'[e - 1] = event[e - 1]
          BY <3>2, <4>2
        <5>2. e > 1 => p.stamp > event'[e - 1].stamp
          BY <3>4, <5>1, <3>1 DEF SnapshotsAreInTurn
        <5>3. p \in snapshots' /\ ~p.inStock /\ p.stamp < event'[e].stamp
          BY <2>1, <3>1, <3>2, <4>2
        <5>. QED  BY <5>2, <5>3
      <4>3. \A e \in DOMAIN event' : Preceded(e)
        BY <3>2, <4>1, <4>2
      <4>. QED  BY <4>3 DEF OneAlertPerRestock
    <3>. QED  BY <2>2, <2>3, <3>3, <3>5
  <2>. QED  BY <1>2, <2>4, <2>5 DEF ReportCommits
<1>. QED  BY <1>1, <1>2

(* An event grows old: it drops out of the dedupe window.                  *)
LEMMA EventAgesKeepsStock ==
  ASSUME StockInv, NEW e \in DOMAIN event, EventAges(e)
  PROVE  StockInv'
<1>1. /\ event' \in Seq([old : BOOLEAN, stamp : Nat]) /\ DOMAIN event' = DOMAIN event
      /\ \A f \in DOMAIN event : event'[f].stamp = event[f].stamp
  <2>1. event[e] \in [old : BOOLEAN, stamp : Nat]
    <3>. DEFINE Rows == [old : BOOLEAN, stamp : Nat]
    <3>1. event \in Seq(Rows) /\ e \in 1 .. Len(event)
      BY DEF StockInv, EventsAreSeen
    <3>. HIDE DEF Rows
    <3>2. event[e] \in Rows
      BY <3>1, ElementOfSeq
    <3>. QED  BY <3>2 DEF Rows
  <2>2. event' = [event EXCEPT ![e] = [event[e] EXCEPT !.old = TRUE]]
    BY DEF EventAges
  <2>3. LET entry == [event[e] EXCEPT !.old = TRUE]
        IN  entry \in [old : BOOLEAN, stamp : Nat] /\ entry.stamp = event[e].stamp
    BY <2>1
  <2>. QED  BY <2>2, <2>3 DEF StockInv, EventsAreSeen
<1>2. UNCHANGED <<snapshots, reports, scan>>
  BY DEF EventAges
<1>3. SnapshotsAreInTurn' /\ ReportIsNext' /\ EventsAreSeen'
  BY <1>1, <1>2 DEF StockInv, SnapshotsAreInTurn, EventsAreSeen, ReportIsNext, IsNewest
<1>4. \A f \in DOMAIN event : f > 1 => f - 1 \in DOMAIN event
  BY DEF StockInv, EventsAreSeen
<1>5. OneAlertPerRestock'
  BY <1>1, <1>2, <1>4 DEF StockInv, OneAlertPerRestock
<1>. QED  BY <1>3, <1>5 DEF StockInv

(* Every step keeps what is known of events and stock.                     *)
LEMMA StockInvStep == OneScanner /\ StockInv /\ [Next]_vars => StockInv'
<1>. SUFFICES ASSUME OneScanner, StockInv, [Next]_vars  PROVE StockInv'
  OBVIOUS
<1>1. ASSUME UNCHANGED <<stock, scan>>  PROVE StockInv'
  BY <1>1, OthersKeepStock DEF StockInv, ReportIsNext
<1>2. CASE UNCHANGED vars
  BY <1>1, <1>2 DEF vars, stock
<1>3. ASSUME NEW w \in Watch,
             \/ \E channels \in SUBSET Channel \ {{}} : CreateWatch(w, channels)
             \/ DeleteWatch(w) \/ UnsubscribeEmail(w)
      PROVE  StockInv'
  BY <1>1, <1>3 DEF CreateWatch, DeleteWatch, UnsubscribeEmail, stock
<1>4. ASSUME NEW on \in BOOLEAN, SetAlertsEnabled(on)  PROVE StockInv'
  BY <1>1, <1>4 DEF SetAlertsEnabled, stock
<1>5. ASSUME NEW s \in Scanner, ScanWorks(s) \/ RequestDies(s), ~ReportCommits(s)
      PROVE  StockInv'
  <2>1. /\ UNCHANGED stock
        /\ \E held : held.at # "report" /\ scan' = [scan EXCEPT ![s] = held]
    BY <1>5 DEF ScanWorks, FanOutReads, FanOutClaims, FanOutSends, FanOutMarks, RequestEnds,
                RequestDies, Idle, stock
  <2>. QED  BY <2>1, OthersKeepStock DEF StockInv, ReportIsNext
<1>6. ASSUME NEW r \in Run, RunStarts(r) \/ RunWorks(r) \/ RunDies(r)
      PROVE  StockInv'
  BY <1>1, <1>6 DEF RunStarts, RunWorks, RunLooks, RunAbandons, RunSends, RunMarks, RunEnds,
                    RunDies, stock
<1>7. ASSUME NEW k \in Key, Ages(k)  PROVE StockInv'
  BY <1>1, <1>7 DEF Ages, stock
<1>. QED  BY <1>2, <1>3, <1>4, <1>5, <1>6, <1>7, ReportsKeepStock, EventAgesKeepsStock
             DEF Next, ScanWorks

(* With one scanner at a time, a restock is announced once and a first     *)
(* sighting never (recordStockReport), for any number of reports.          *)
THEOREM RestocksAreToldOnce ==
  ASSUME OneScanner
  PROVE  Spec => []OneAlertPerRestock
<1>1. Init => StockInv
  BY DEF Init, StockInv, SnapshotsAreInTurn, EventsAreSeen, ReportIsNext, OneAlertPerRestock, Idle
<1>2. StockInv => OneAlertPerRestock
  BY DEF StockInv
<1>. QED  BY <1>1, <1>2, StockInvStep, PTL DEF Spec

-----------------------------------------------------------------------------

(* What a reader is sent.  A key is a reader's alert of one event over one *)
(* channel; who has it in hand, and what is owed to its reader.            *)
EventRow == [old : BOOLEAN, stamp : Nat]
Delivery == [status : {"pending", "sent", "skipped", "failed"}, attempts : Nat, stale : BOOLEAN]
Announcing(s, e) == scan[s].at \in {"event", "claim"} /\ scan[s].event = e
HeldBy(r, k) == \/ run[r].at # "idle" /\ k \in DOMAIN run[r].owed
                \/ run[r].at = "mark" /\ k = run[r].key
Counted(r, k) == IF k \in DOMAIN run[r].owed THEN run[r].owed[k] ELSE run[r].attempts
SaysOk(k) == \/ \E s \in Scanner : scan[s].at = "mark" /\ scan[s].key = k /\ scan[s].says = "ok"
             \/ \E r \in Run : run[r].at = "mark" /\ run[r].key = k /\ run[r].says = "ok"

DeliveryShape ==
    /\ delivery \in [Key -> Delivery \cup {None}]
    /\ told \in [Key -> Seq(Event)] /\ faults \in Nat
    /\ event \in Seq(EventRow) /\ reports \in Nat
    /\ scan = [s \in Scanner |-> scan[s]] /\ run = [r \in Run |-> run[r]]
    /\ \A s \in Scanner : /\ scan[s].at = "mark" => scan[s].says \in {"ok", "retryable", "refused", "skipped"}
                          /\ scan[s].at = "report" => scan[s].stamp \in Nat
                          /\ scan[s].at \in {"send", "mark"} => scan[s].queue \subseteq Key
                          /\ scan[s].at = "mark" => scan[s].key \in Key \ scan[s].queue
    /\ \A r \in Run : /\ run[r].at # "idle" => DOMAIN run[r].owed \subseteq Key
                      /\ run[r].at \in {"send", "mark"} => run[r].message \in Event
                      /\ run[r].at = "mark" => run[r].key \in Key \ DOMAIN run[r].owed

(* An event is announced by the request that saw it, once, and until then  *)
(* nobody has its alerts.                                                  *)
EachAnnouncesItsOwn ==
    \A s \in Scanner : \A e : Announcing(s, e) =>
      e \in 1 .. Len(event) /\ \A t \in Scanner : Announcing(t, e) => t = s
NoneBeforeTheClaim ==
    \A k \in Key : KeyEvent(k) > Len(event) \/ (\E s \in Scanner : Announcing(s, KeyEvent(k))) =>
      /\ delivery[k] = None /\ told[k] = <<>>
      /\ \A s \in Scanner : ~HandledBy(s, k)
      /\ \A r \in Run : ~HeldBy(r, k)

(* One process has an alert in hand, and meanwhile nobody else changes it. *)
HandledByOne ==
    \A k \in Key, s \in Scanner : HandledBy(s, k) =>
      /\ \A t \in Scanner : HandledBy(t, k) => t = s
      /\ \A r \in Run : ~HeldBy(r, k)
      /\ delivery[k] # None => delivery[k] = NewDelivery
HeldIsOwed ==
    \A k \in Key, r \in Run : HeldBy(r, k) /\ delivery[k] # None =>
      /\ delivery[k].status = "pending" /\ delivery[k].stale
      /\ delivery[k].attempts = Counted(r, k) /\ Counted(r, k) < MaxAttempts

(* What was sent is recorded, about to be, or was lost to a fault.         *)
SentIsKnown ==
    \A k \in Key :
      /\ SaysOk(k) => told[k] # <<>>
      /\ delivery[k] # None =>
           /\ delivery[k].status = "sent" => told[k] # <<>>
           /\ delivery[k].status = "pending" => delivery[k].attempts < MaxAttempts
           /\ Len(told[k]) =< faults + IF delivery[k].status = "sent" \/ SaysOk(k) THEN 1 ELSE 0

DeliveryInv == /\ DeliveryShape /\ EachAnnouncesItsOwn /\ NoneBeforeTheClaim
               /\ HandledByOne /\ HeldIsOwed /\ SentIsKnown

OneRunAndPrompt == MaxAttempts > 1 /\ Prompt /\ \A r, q \in Run : r = q

(* The strengthening says at least what the run checks.                    *)
LEMMA InvIsTrue == DeliveryInv => DeliveriesAreTrue
<1>. SUFFICES ASSUME DeliveryInv, NEW k \in Key, delivery[k] # None
              PROVE  /\ delivery[k].status = "sent" => told[k] # <<>>
                     /\ Len(told[k]) =< 1 + faults
                     /\ faults = 0 /\ told[k] # <<>> => delivery[k].status = "sent" \/ InFlight(k)
                     /\ delivery[k].status = "pending" => delivery[k].attempts < MaxAttempts
  BY DEF DeliveriesAreTrue
<1>1. told[k] \in Seq(Event) /\ faults \in Nat
  BY DEF DeliveryInv, DeliveryShape
<1>2. Len(told[k]) \in Nat /\ (told[k] # <<>> => Len(told[k]) > 0)
  BY <1>1, EmptySeq
<1>3. SaysOk(k) => InFlight(k)
  BY DEF SaysOk, InFlight
<1>. QED  BY <1>1, <1>2, <1>3 DEF DeliveryInv, SentIsKnown

(* Watches, the switch and the clock touch nothing that is being sent.     *)
LEMMA WatchesKeepDeliveries ==
  ASSUME DeliveryInv, \A k \in Key : delivery'[k] \in {None, delivery[k]},
         delivery' = [k \in Key |-> delivery'[k]],
         UNCHANGED <<event, reports, told, scan, run, faults>>
  PROVE  DeliveryInv'
<1>. USE DEF DeliveryInv
<1>1. DeliveryShape'
  BY DEF DeliveryShape
<1>2. EachAnnouncesItsOwn' /\ NoneBeforeTheClaim'
  BY DEF EachAnnouncesItsOwn, NoneBeforeTheClaim, Announcing, HandledBy, HeldBy
<1>3. HandledByOne' /\ HeldIsOwed'
  BY DEF HandledByOne, HeldIsOwed, HandledBy, HeldBy, Counted
<1>4. SentIsKnown'
  BY DEF SentIsKnown, SaysOk
<1>. QED  BY <1>1, <1>2, <1>3, <1>4

(* A request that lets go of whatever it had.                              *)
LEMMA RestingKeepsDeliveries ==
  ASSUME DeliveryInv, NEW s \in Scanner, NEW held, scan' = [scan EXCEPT ![s] = held],
         held.at \notin {"event", "claim", "send", "mark"}, held.at = "report" => held.stamp \in Nat,
         reports' \in Nat, UNCHANGED <<event, delivery, told, run>>,
         faults' = faults + 1 \/ (faults' = faults /\ scan[s].at # "mark")
  PROVE  DeliveryInv'
<1>. USE DEF DeliveryInv
<1>1. \A t \in Scanner : scan'[t] = IF t = s THEN held ELSE scan[t]
  BY DEF DeliveryShape
<1>2. DeliveryShape'
  <2>1. scan' = [t \in Scanner |-> scan'[t]] /\ faults' \in Nat
    <3>1. faults' \in Nat
      BY DEF DeliveryShape
    <3>2. scan' = [t \in Scanner |-> scan'[t]]
      BY <1>1 DEF DeliveryShape
    <3>. QED  BY <3>1, <3>2
  <2>2. \A t \in Scanner : /\ scan'[t].at = "report" => scan'[t].stamp \in Nat
                           /\ scan'[t].at \in {"send", "mark"} => scan'[t].queue \subseteq Key
                           /\ scan'[t].at = "mark" => scan'[t].key \in Key \ scan'[t].queue
    BY <1>1 DEF DeliveryShape
  <2>. QED  BY <2>1, <2>2 DEF DeliveryShape
<1>3. \A t \in Scanner, k \in Key : HandledBy(t, k)' => HandledBy(t, k)
  BY <1>1 DEF HandledBy
<1>4. \A t \in Scanner : \A e : Announcing(t, e)' => Announcing(t, e)
  BY <1>1 DEF Announcing
<1>5. \A r \in Run, k \in Key : (HeldBy(r, k)' <=> HeldBy(r, k)) /\ Counted(r, k)' = Counted(r, k)
  BY DEF HeldBy, Counted
<1>6. EachAnnouncesItsOwn' /\ NoneBeforeTheClaim'
  BY <1>3, <1>4, <1>5 DEF EachAnnouncesItsOwn, NoneBeforeTheClaim
<1>7. HandledByOne' /\ HeldIsOwed'
  BY <1>3, <1>5 DEF HandledByOne, HeldIsOwed
<1>8. SentIsKnown'
  <2>1. \A k \in Key : SaysOk(k)' => SaysOk(k)
    BY <1>1 DEF SaysOk
  <2>2. faults' = faults => \A k \in Key : (SaysOk(k)' <=> SaysOk(k))
    BY <1>1 DEF SaysOk, DeliveryShape
  <2>3. \A k \in Key : Len(told[k]) \in Nat
    BY DEF DeliveryShape
  <2>. QED  BY <2>1, <2>2, <2>3 DEF SentIsKnown, DeliveryShape
<1>. QED  BY <1>2, <1>6, <1>7, <1>8

(* A restock is committed, and its request goes on to announce it.         *)
LEMMA EventKeepsDeliveries ==
  ASSUME DeliveryInv, NEW s \in Scanner, ReportCommits(s), scan[s].alerts
  PROVE  DeliveryInv'
<1>. USE DEF DeliveryInv
<1>. DEFINE n == Len(event) + 1
            entry == [old |-> FALSE, stamp |-> scan[s].stamp]
<1>1. /\ scan[s].at = "report" /\ event' = Append(event, entry)
      /\ scan' = [scan EXCEPT ![s] = [at |-> "event", event |-> n]]
      /\ UNCHANGED <<reports, delivery, told, run, faults>>
  BY DEF ReportCommits
<1>. HIDE DEF n
<1>2. \A t \in Scanner : scan'[t] = IF t = s THEN [at |-> "event", event |-> n] ELSE scan[t]
  BY <1>1 DEF DeliveryShape
<1>3. event' \in Seq(EventRow) /\ Len(event') = n /\ Len(event) \in Nat
  <2>1. entry \in EventRow
    BY <1>1 DEF DeliveryShape, EventRow
  <2>. QED  BY <1>1, <2>1 DEF DeliveryShape, n
<1>4. DeliveryShape'
  BY <1>1, <1>2, <1>3 DEF DeliveryShape
<1>5. \A t \in Scanner, k \in Key : HandledBy(t, k)' <=> HandledBy(t, k)
  BY <1>1, <1>2 DEF HandledBy
<1>6. \A t \in Scanner : \A e : Announcing(t, e)' <=> IF t = s THEN e = n ELSE Announcing(t, e)
  BY <1>2 DEF Announcing
<1>7. \A r \in Run, k \in Key : (HeldBy(r, k)' <=> HeldBy(r, k)) /\ Counted(r, k)' = Counted(r, k)
  BY <1>1 DEF HeldBy, Counted
<1>8. EachAnnouncesItsOwn'
  BY <1>3, <1>6 DEF EachAnnouncesItsOwn, n
<1>9. \A k \in Key : KeyEvent(k) \in Nat
  BY DEF Key, KeyEvent, Event
<1>10. NoneBeforeTheClaim'
  BY <1>1, <1>3, <1>5, <1>6, <1>7, <1>9 DEF NoneBeforeTheClaim
<1>11. HandledByOne' /\ HeldIsOwed'
  BY <1>1, <1>5, <1>7 DEF HandledByOne, HeldIsOwed
<1>12. SentIsKnown'
  <2>1. \A k \in Key : SaysOk(k)' <=> SaysOk(k)
    BY <1>1, <1>2 DEF SaysOk
  <2>. QED  BY <1>1, <2>1 DEF SentIsKnown
<1>. QED  BY <1>4, <1>8, <1>10, <1>11, <1>12

(* A report reads the stock before it takes its turn.                      *)
LEMMA ReadingKeepsDeliveries ==
  ASSUME DeliveryInv, NEW s \in Scanner, FanOutReads(s), enabled
  PROVE  DeliveryInv'
<1>. USE DEF DeliveryInv
<1>. DEFINE held == [at |-> "claim", event |-> scan[s].event, targets |-> watch]
<1>1. /\ scan[s].at = "event" /\ scan' = [scan EXCEPT ![s] = held]
      /\ UNCHANGED <<event, reports, delivery, told, run, faults>>
  BY DEF FanOutReads, stock
<1>2. \A t \in Scanner : scan'[t] = IF t = s THEN held ELSE scan[t]
  BY <1>1 DEF DeliveryShape
<1>3. DeliveryShape'
  BY <1>1, <1>2 DEF DeliveryShape
<1>4. \A t \in Scanner, k \in Key : HandledBy(t, k)' <=> HandledBy(t, k)
  BY <1>1, <1>2 DEF HandledBy
<1>5. \A t \in Scanner : \A e : Announcing(t, e)' <=> Announcing(t, e)
  BY <1>1, <1>2 DEF Announcing
<1>6. \A r \in Run, k \in Key : (HeldBy(r, k)' <=> HeldBy(r, k)) /\ Counted(r, k)' = Counted(r, k)
  BY <1>1 DEF HeldBy, Counted
<1>7. EachAnnouncesItsOwn' /\ NoneBeforeTheClaim'
  BY <1>1, <1>4, <1>5, <1>6 DEF EachAnnouncesItsOwn, NoneBeforeTheClaim
<1>8. HandledByOne' /\ HeldIsOwed'
  BY <1>1, <1>4, <1>6 DEF HandledByOne, HeldIsOwed
<1>9. SentIsKnown'
  <2>1. \A k \in Key : SaysOk(k)' <=> SaysOk(k)
    BY <1>1, <1>2 DEF SaysOk
  <2>. QED  BY <1>1, <2>1 DEF SentIsKnown
<1>. QED  BY <1>3, <1>7, <1>8, <1>9

(* The alerts of an event come into being, in the hands of its request.    *)
LEMMA ClaimingKeepsDeliveries ==
  ASSUME DeliveryInv, MaxAttempts \in Nat, MaxAttempts > 1, NEW s \in Scanner, FanOutClaims(s),
         NEW slots, slots = Slots(scan[s].event, scan[s].targets),
         scan' = [scan EXCEPT ![s] = [at |-> "send", queue |-> slots]],
         delivery' = [k \in Key |-> IF k \in slots THEN NewDelivery ELSE delivery[k]]
  PROVE  DeliveryInv'
<1>. USE DEF DeliveryInv
<1>1. /\ scan[s].at = "claim" /\ UNCHANGED <<event, reports, told, run, faults>>
  BY DEF FanOutClaims, stock
<1>2. \A t \in Scanner : scan'[t] = IF t = s THEN [at |-> "send", queue |-> slots] ELSE scan[t]
  BY DEF DeliveryShape
<1>3. slots \subseteq Key /\ \A k \in slots : Announcing(s, KeyEvent(k))
  BY <1>1 DEF Slots, Announcing
<1>4. NewDelivery \in Delivery
  BY DEF NewDelivery, Delivery
<1>5. DeliveryShape'
  BY <1>1, <1>2, <1>3, <1>4 DEF DeliveryShape
<1>6. \A t \in Scanner, k \in Key : HandledBy(t, k)' <=> IF t = s THEN k \in slots ELSE HandledBy(t, k)
  BY <1>2 DEF HandledBy
<1>7. \A t \in Scanner : \A e : Announcing(t, e)' <=> t # s /\ Announcing(t, e)
  BY <1>2 DEF Announcing
<1>8. \A r \in Run, k \in Key : (HeldBy(r, k)' <=> HeldBy(r, k)) /\ Counted(r, k)' = Counted(r, k)
  BY <1>1 DEF HeldBy, Counted
<1>9. \A k \in slots : /\ delivery[k] = None /\ told[k] = <<>>
                       /\ \A t \in Scanner : ~HandledBy(t, k)
                       /\ \A r \in Run : ~HeldBy(r, k)
  BY <1>3 DEF NoneBeforeTheClaim
<1>10. EachAnnouncesItsOwn'
  BY <1>1, <1>7 DEF EachAnnouncesItsOwn
<1>11. NoneBeforeTheClaim'
  <2>1. \A k \in slots : /\ KeyEvent(k) \in 1 .. Len(event)
                         /\ \A t \in Scanner : t # s => ~Announcing(t, KeyEvent(k))
    BY <1>3 DEF EachAnnouncesItsOwn
  <2>2. Len(event) \in Nat
    BY DEF DeliveryShape
  <2>. QED  BY <1>1, <1>6, <1>7, <1>8, <2>1, <2>2 DEF NoneBeforeTheClaim
<1>12. HandledByOne'
  BY <1>1, <1>3, <1>6, <1>8, <1>9 DEF HandledByOne
<1>13. HeldIsOwed'
  BY <1>8, <1>9 DEF HeldIsOwed
<1>14. SentIsKnown'
  <2>1. \A k \in Key : SaysOk(k)' <=> SaysOk(k)
    BY <1>1, <1>2 DEF SaysOk
  <2>2. \A k \in slots : Len(told[k]) = 0 /\ ~SaysOk(k)
    BY <1>3, <1>9 DEF SentIsKnown
  <2>3. NewDelivery.status = "pending" /\ NewDelivery.attempts = 0
    BY DEF NewDelivery
  <2>4. \A k \in Key : delivery'[k] = IF k \in slots THEN NewDelivery ELSE delivery[k]
    OBVIOUS
  <2>5. \A k \in slots : Len(told'[k]) =< faults' + IF delivery'[k].status = "sent" \/ SaysOk(k)'
                                                  THEN 1 ELSE 0
    BY <1>1, <1>3, <2>1, <2>2, <2>3, <2>4 DEF DeliveryShape
  <2>6. ASSUME NEW k \in slots
        PROVE  /\ ~SaysOk(k)'
               /\ delivery'[k].status = "pending" /\ delivery'[k].attempts < MaxAttempts
    BY <1>3, <2>1, <2>2, <2>3, <2>4
  <2>. QED  BY <1>1, <2>1, <2>4, <2>5, <2>6 DEF SentIsKnown
<1>. QED  BY <1>5, <1>10, <1>11, <1>12, <1>13, <1>14

(* What telling a reader does, over a channel that works or does not.      *)
Told(k, says) ==
    /\ told' \in [Key -> Seq(Event)] /\ faults' \in Nat /\ faults =< faults'
    /\ \A l \in Key : l # k => told'[l] = told[l]
    /\ says = "ok" => told'[k] # <<>>
    /\ Len(told'[k]) - Len(told[k]) =< (faults' - faults) + IF says = "ok" THEN 1 ELSE 0

(* Readers are told once more than before, or a fault was counted.         *)
LEMMA TellingCounts ==
  ASSUME DeliveryShape, NEW k \in Key, NEW o \in Outcomes(KeyChannel(k)),
         NEW message \in Event, Tell(k, message, o)
  PROVE  Told(k, o.says) /\ o.says \in {"ok", "retryable", "refused", "skipped"}
<1>1. told[k] \in Seq(Event) /\ told \in [Key -> Seq(Event)]
  BY DEF DeliveryShape
<1>2. /\ o.says \in {"ok", "retryable", "refused", "skipped"}
      /\ o.says = "ok" => o.arrived /\ ~Lost(o)
      /\ o.arrived /\ o.says # "ok" => Lost(o)
  <2>1. o \in Outcome \/ o = [says |-> "skipped", arrived |-> FALSE]
    BY DEF Outcomes
  <2>2. \/ o.says = "ok" /\ o.arrived
        \/ o.says = "retryable"
        \/ o.says \in {"refused", "skipped"} /\ ~o.arrived
    BY <2>1 DEF Outcome
  <2>. QED  BY <2>2 DEF Lost
<1>. DEFINE more == Append(told[k], message)
<1>3. more \in Seq(Event) /\ more # <<>> /\ Len(more) = Len(told[k]) + 1 /\ Len(told[k]) \in Nat
  BY <1>1
<1>4. told' = IF o.arrived THEN [told EXCEPT ![k] = more] ELSE told
  BY DEF Tell
<1>5. faults' = (IF Lost(o) THEN faults + 1 ELSE faults) /\ faults \in Nat
  BY DEF Tell, DeliveryShape
<1>. HIDE DEF more
<1>. QED  BY <1>1, <1>2, <1>3, <1>4, <1>5 DEF Told

(* A message goes out: in hand and about to be recorded, or lost to a fault*)
LEMMA SendingKeepsDeliveries ==
  ASSUME DeliveryInv, NEW s \in Scanner, NEW k \in Key, FanOutSends(s, k)
  PROVE  DeliveryInv'
<1>. USE DEF DeliveryInv
<1>1. PICK o \in Outcomes(KeyChannel(k)) :
        /\ Tell(k, KeyEvent(k), o)
        /\ scan' = [scan EXCEPT ![s] = [at |-> "mark", queue |-> scan[s].queue \ {k},
                                        key |-> k, says |-> o.says]]
  BY DEF FanOutSends
<1>2. /\ scan[s].at = "send" /\ k \in scan[s].queue
      /\ UNCHANGED <<event, reports, delivery, run>>
  BY DEF FanOutSends, stock
<1>3. \A t \in Scanner :
        scan'[t] = IF t = s THEN [at |-> "mark", queue |-> scan[s].queue \ {k},
                                  key |-> k, says |-> o.says] ELSE scan[t]
  BY <1>1 DEF DeliveryShape
<1>4. \A t \in Scanner, l \in Key : HandledBy(t, l)' <=> HandledBy(t, l)
  BY <1>2, <1>3 DEF HandledBy
<1>5. \A t \in Scanner : \A e : Announcing(t, e)' <=> Announcing(t, e)
  BY <1>2, <1>3 DEF Announcing
<1>6. \A r \in Run, l \in Key : (HeldBy(r, l)' <=> HeldBy(r, l)) /\ Counted(r, l)' = Counted(r, l)
  BY <1>2 DEF HeldBy, Counted
<1>7. HandledBy(s, k) /\ ~SaysOk(k)
  <2>1. HandledBy(s, k)
    BY <1>2 DEF HandledBy
  <2>2. \A t \in Scanner : ~(scan[t].at = "mark" /\ scan[t].key = k)
    BY <1>2, <2>1 DEF HandledByOne, HandledBy
  <2>3. \A r \in Run : ~(run[r].at = "mark" /\ run[r].key = k)
    BY <2>1 DEF HandledByOne, HeldBy
  <2>. QED  BY <2>1, <2>2, <2>3 DEF SaysOk
<1>8. Told(k, o.says) /\ o.says \in {"ok", "retryable", "refused", "skipped"}
  <2>1. KeyEvent(k) \in Event
    BY DEF Key, KeyEvent
  <2>. QED  BY <1>1, <2>1, TellingCounts
<1>9. DeliveryShape'
  <2>1. \A t \in Scanner :
          /\ scan'[t].at = "mark" => scan'[t].says \in {"ok", "retryable", "refused", "skipped"}
          /\ scan'[t].at = "report" => scan'[t].stamp \in Nat
          /\ scan'[t].at \in {"send", "mark"} => scan'[t].queue \subseteq Key
          /\ scan'[t].at = "mark" => scan'[t].key \in Key \ scan'[t].queue
    <3>1. ASSUME NEW t \in Scanner, t # s
          PROVE  scan'[t] = scan[t]
      BY <1>3, <3>1
    <3>2. /\ scan'[s].at = "mark" /\ scan'[s].queue = scan[s].queue \ {k} /\ scan'[s].key = k
          /\ scan[s].queue \subseteq Key /\ scan'[s].says = o.says
      BY <1>2, <1>3 DEF DeliveryShape
    <3>. QED  BY <1>8, <3>1, <3>2 DEF DeliveryShape
  <2>. QED  BY <1>1, <1>2, <1>8, <2>1 DEF DeliveryShape, Told
<1>10. EachAnnouncesItsOwn'
  BY <1>2, <1>5 DEF EachAnnouncesItsOwn
<1>11. NoneBeforeTheClaim'
  BY <1>2, <1>4, <1>5, <1>6, <1>7, <1>8 DEF NoneBeforeTheClaim, Told
<1>12. HandledByOne' /\ HeldIsOwed'
  BY <1>2, <1>4, <1>6 DEF HandledByOne, HeldIsOwed
<1>13. SentIsKnown'
  <2>1. \A l \in Key : l # k => (SaysOk(l)' <=> SaysOk(l))
    BY <1>2, <1>3 DEF SaysOk
  <2>2. SaysOk(k)' <=> o.says = "ok"
    BY <1>2, <1>3, <1>7 DEF SaysOk
  <2>3. delivery[k] # None => delivery[k].status = "pending"
    BY <1>7 DEF HandledByOne, NewDelivery
  <2>4. \A l \in Key : Len(told[l]) \in Nat /\ Len(told'[l]) \in Nat
    BY <1>8 DEF DeliveryShape, Told
  <2>. QED  BY <1>2, <1>7, <1>8, <2>1, <2>2, <2>3, <2>4 DEF SentIsKnown, Told, DeliveryShape
<1>. QED  BY <1>9, <1>10, <1>11, <1>12, <1>13

(* What was sent is recorded. *)
LEMMA Marking ==
  ASSUME DeliveryShape, NEW k \in Key, NEW outcome \in {"pending", "sent", "skipped", "failed"},
         Mark(k, outcome)
  PROVE  /\ delivery' \in [Key -> Delivery \cup {None}]
         /\ \A l \in Key : l # k => delivery'[l] = delivery[l]
         /\ delivery[k] = None => delivery'[k] = None
         /\ delivery[k] # None => /\ delivery'[k].status = outcome
                                  /\ delivery'[k].attempts = delivery[k].attempts + 1
<1>1. CASE delivery[k] = None
  BY <1>1 DEF Mark, DeliveryShape
<1>2. CASE delivery[k] # None
  <2>1. delivery[k] \in Delivery
    BY <1>2 DEF DeliveryShape
  <2>. DEFINE entry == [delivery[k] EXCEPT !.status = outcome, !.attempts = @ + 1]
  <2>2. entry \in Delivery /\ entry.status = outcome /\ entry.attempts = delivery[k].attempts + 1
    <3>1. delivery[k].attempts + 1 \in Nat
      BY <2>1 DEF Delivery
    <3>. QED  BY <2>1, <3>1 DEF Delivery
  <2>3. delivery' = [delivery EXCEPT ![k] = entry]
    BY <1>2 DEF Mark
  <2>. HIDE DEF entry
  <2>. QED  BY <1>2, <2>2, <2>3 DEF DeliveryShape
<1>. QED  BY <1>1, <1>2

(* The fan-out records what the transport answered.                        *)
LEMMA MarkingKeepsDeliveries ==
  ASSUME DeliveryInv, MaxAttempts \in Nat, MaxAttempts > 1, NEW s \in Scanner, FanOutMarks(s)
  PROVE  DeliveryInv'
<1>. USE DEF DeliveryInv
<1>0. PICK k \in Key : scan[s].key = k
  BY DEF FanOutMarks, DeliveryShape
<1>. DEFINE outcome == FanOutStatus(scan[s].says)
            held == [at |-> "send", queue |-> scan[s].queue]
<1>1. /\ scan[s].at = "mark" /\ Mark(k, outcome) /\ scan' = [scan EXCEPT ![s] = held]
      /\ UNCHANGED <<event, reports, told, run, faults>>
  BY <1>0 DEF FanOutMarks, stock
<1>2. k \in Key /\ k \notin scan[s].queue /\ scan[s].queue \subseteq Key
  BY <1>0, <1>1 DEF DeliveryShape
<1>3. /\ outcome \in {"pending", "sent", "skipped", "failed"}
      /\ outcome = "sent" <=> scan[s].says = "ok"
  BY <1>1 DEF DeliveryShape, FanOutStatus
<1>4. /\ delivery' \in [Key -> Delivery \cup {None}]
      /\ \A l \in Key : l # k => delivery'[l] = delivery[l]
      /\ delivery[k] = None => delivery'[k] = None
      /\ delivery[k] # None => /\ delivery'[k].status = outcome
                               /\ delivery'[k].attempts = delivery[k].attempts + 1
  BY <1>1, <1>2, <1>3, Marking
<1>5. \A t \in Scanner : scan'[t] = IF t = s THEN held ELSE scan[t]
  BY <1>1 DEF DeliveryShape
<1>6. HandledBy(s, k)
  BY <1>0, <1>1 DEF HandledBy
<1>. HIDE DEF outcome
<1>7. \A t \in Scanner, l \in Key : HandledBy(t, l)' <=> HandledBy(t, l) /\ l # k
  <2>1. \A t \in Scanner : HandledBy(t, k) => t = s
    BY <1>2, <1>6 DEF HandledByOne
  <2>. QED  BY <1>0, <1>1, <1>2, <1>5, <2>1 DEF HandledBy
<1>8. \A t \in Scanner : \A e : Announcing(t, e)' <=> Announcing(t, e)
  BY <1>1, <1>5 DEF Announcing
<1>9. \A r \in Run, l \in Key : (HeldBy(r, l)' <=> HeldBy(r, l)) /\ Counted(r, l)' = Counted(r, l)
  BY <1>1 DEF HeldBy, Counted
<1>10. DeliveryShape'
  <2>1. scan' = [t \in Scanner |-> scan'[t]]
    BY <1>1 DEF DeliveryShape
  <2>. QED  BY <1>1, <1>2, <1>4, <1>5, <2>1 DEF DeliveryShape
<1>11. EachAnnouncesItsOwn' /\ NoneBeforeTheClaim'
  BY <1>1, <1>2, <1>4, <1>7, <1>8, <1>9 DEF EachAnnouncesItsOwn, NoneBeforeTheClaim
<1>12. HandledByOne' /\ HeldIsOwed'
  BY <1>2, <1>4, <1>6, <1>7, <1>9 DEF HandledByOne, HeldIsOwed
<1>13. SentIsKnown'
  <2>1. \A l \in Key : l # k => (SaysOk(l)' <=> SaysOk(l))
    BY <1>0, <1>1, <1>5 DEF SaysOk
  <2>2. ~SaysOk(k)'
    <3>1. \A t \in Scanner : ~HandledBy(t, k)'
      BY <1>2, <1>7
    <3>2. \A r \in Run : ~HeldBy(r, k)'
      BY <1>2, <1>6, <1>9 DEF HandledByOne
    <3>. QED  BY <3>1, <3>2, <1>2, <1>1 DEF SaysOk, HandledBy, HeldBy
  <2>3. SaysOk(k) <=> scan[s].says = "ok"
    BY <1>0, <1>1, <1>2, <1>6 DEF SaysOk, HandledByOne, HandledBy, HeldBy
  <2>4. delivery[k] # None => delivery[k].attempts = 0 /\ delivery[k].status = "pending"
    BY <1>2, <1>6 DEF HandledByOne, NewDelivery
  <2>5. \A l \in Key : Len(told[l]) \in Nat /\ faults \in Nat
    BY DEF DeliveryShape
  <2>6. delivery'[k] # None =>
          /\ delivery'[k].status = "sent" => told'[k] # <<>>
          /\ delivery'[k].status = "pending" => delivery'[k].attempts < MaxAttempts
          /\ Len(told'[k]) =< faults' + IF delivery'[k].status = "sent" \/ SaysOk(k)' THEN 1 ELSE 0
    BY <1>1, <1>2, <1>3, <1>4, <2>2, <2>3, <2>4, <2>5 DEF SentIsKnown
  <2>. QED  BY <1>1, <1>4, <2>1, <2>2, <2>6 DEF SentIsKnown
<1>. QED  BY <1>10, <1>11, <1>12, <1>13

(* Alerts grow old, and so do events.                                      *)
LEMMA AgeingKeepsDeliveries ==
  ASSUME DeliveryInv, Prompt, NEW k \in Key, Ages(k)
  PROVE  DeliveryInv'
<1>. USE DEF DeliveryInv
<1>1. /\ delivery[k] # None /\ \A s \in Scanner : ~HandledBy(s, k)
      /\ UNCHANGED <<event, reports, told, scan, run, faults>>
  BY DEF Ages, stock
<1>. DEFINE entry == [delivery[k] EXCEPT !.stale = TRUE]
<1>2. /\ entry \in Delivery /\ entry.stale
      /\ entry.status = delivery[k].status /\ entry.attempts = delivery[k].attempts
  BY <1>1 DEF DeliveryShape, Delivery
<1>3. delivery' = [delivery EXCEPT ![k] = entry]
  BY DEF Ages
<1>. HIDE DEF entry
<1>4. delivery'[k] = entry /\ \A l \in Key : l # k => delivery'[l] = delivery[l]
  BY <1>3 DEF DeliveryShape
<1>5. DeliveryShape'
  BY <1>1, <1>2, <1>3 DEF DeliveryShape
<1>6. EachAnnouncesItsOwn' /\ NoneBeforeTheClaim'
  BY <1>1, <1>4 DEF EachAnnouncesItsOwn, NoneBeforeTheClaim, Announcing, HandledBy, HeldBy
<1>7. HandledByOne' /\ HeldIsOwed'
  BY <1>1, <1>2, <1>4 DEF HandledByOne, HeldIsOwed, HandledBy, HeldBy, Counted
<1>8. SentIsKnown'
  BY <1>1, <1>2, <1>4 DEF SentIsKnown, SaysOk
<1>. QED  BY <1>5, <1>6, <1>7, <1>8

(* An event that grows old is out of reach of the retry job.               *)
LEMMA EventAgesKeepsDeliveries ==
  ASSUME DeliveryInv, NEW e \in DOMAIN event, EventAges(e)
  PROVE  DeliveryInv'
<1>. USE DEF DeliveryInv
<1>1. UNCHANGED <<reports, delivery, told, scan, run, faults>>
  BY DEF EventAges
<1>2. event' \in Seq(EventRow) /\ Len(event') = Len(event)
  <2>1. event \in Seq(EventRow) /\ e \in 1 .. Len(event)
    BY DEF DeliveryShape
  <2>2. event[e] \in EventRow
    BY <2>1, ElementOfSeq
  <2>3. [event[e] EXCEPT !.old = TRUE] \in EventRow
    BY <2>2 DEF EventRow
  <2>4. event' = [event EXCEPT ![e] = [event[e] EXCEPT !.old = TRUE]]
    BY DEF EventAges
  <2>. QED  BY <2>1, <2>3, <2>4
<1>. QED  BY <1>1, <1>2 DEF DeliveryShape, EachAnnouncesItsOwn, NoneBeforeTheClaim, HandledByOne,
              HeldIsOwed, SentIsKnown, SaysOk, Announcing, HandledBy, HeldBy, Counted
-----------------------------------------------------------------------------
(* The job.  It takes what is owed and in nobody's hands.                  *)
LEMMA StartingKeepsDeliveries ==
  ASSUME DeliveryInv, NEW r \in Run, RunStarts(r)
  PROVE  DeliveryInv'
<1>. USE DEF DeliveryInv
<1>1. PICK owed : /\ owed = [k \in OwedNow |-> delivery[k].attempts]
                  /\ run' = [run EXCEPT ![r] = [at |-> "look", owed |-> owed]]
                  /\ run[r] = Idle
                  /\ UNCHANGED <<event, reports, delivery, told, scan, faults>>
  BY DEF RunStarts, stock
<1>2. \A q \in Run : run'[q] = IF q = r THEN [at |-> "look", owed |-> owed] ELSE run[q]
  BY <1>1 DEF DeliveryShape
<1>3. \A k \in OwedNow : /\ k \in Key /\ delivery[k] # None /\ delivery[k].status = "pending"
                         /\ delivery[k].attempts < MaxAttempts /\ delivery[k].stale
                         /\ \A s \in Scanner : ~HandledBy(s, k)
  BY DEF OwedNow, Owed, HandledByOne, NewDelivery
<1>4. \A q \in Run, k \in Key :
        /\ HeldBy(q, k)' <=> IF q = r THEN k \in OwedNow ELSE HeldBy(q, k)
        /\ Counted(q, k)' = IF q = r /\ k \in OwedNow THEN delivery[k].attempts
                            ELSE IF q = r THEN Counted(q, k)' ELSE Counted(q, k)
  BY <1>1, <1>2 DEF HeldBy, Counted
<1>5. \A s \in Scanner, k \in Key : HandledBy(s, k)' <=> HandledBy(s, k)
  BY <1>1 DEF HandledBy
<1>6. \A s \in Scanner : \A e : Announcing(s, e)' <=> Announcing(s, e)
  BY <1>1 DEF Announcing
<1>7. DeliveryShape'
  <2>1. DOMAIN owed \subseteq Key
    BY <1>1, <1>3
  <2>2. run' = [q \in Run |-> run'[q]]
    BY <1>1 DEF DeliveryShape
  <2>. QED  BY <1>1, <1>2, <2>1, <2>2 DEF DeliveryShape
<1>8. EachAnnouncesItsOwn' /\ NoneBeforeTheClaim'
  BY <1>1, <1>3, <1>4, <1>5, <1>6 DEF EachAnnouncesItsOwn, NoneBeforeTheClaim
<1>9. HandledByOne'
  BY <1>1, <1>3, <1>4, <1>5 DEF HandledByOne
<1>10. HeldIsOwed'
  BY <1>1, <1>3, <1>4 DEF HeldIsOwed
<1>11. SentIsKnown'
  <2>1. \A k \in Key : SaysOk(k)' <=> SaysOk(k)
    BY <1>1, <1>2 DEF SaysOk, Idle
  <2>. QED  BY <1>1, <2>1 DEF SentIsKnown
<1>. QED  BY <1>7, <1>8, <1>9, <1>10, <1>11

(* A run that looks, ends or dies.                                         *)
LEMMA LookingKeepsDeliveries ==
  ASSUME DeliveryInv, NEW r \in Run, NEW held, run' = [run EXCEPT ![r] = held],
         \/ held.at = "idle"
         \/ /\ run[r].at = "look" /\ held.at = "send"
            /\ held.owed = run[r].owed /\ held.message \in Event,
         UNCHANGED <<event, reports, delivery, told, scan>>,
         faults' = faults + 1 \/ (faults' = faults /\ run[r].at # "mark")
  PROVE  DeliveryInv'
<1>. USE DEF DeliveryInv
<1>1. \A q \in Run : run'[q] = IF q = r THEN held ELSE run[q]
  BY DEF DeliveryShape
<1>2. \A q \in Run, k \in Key : HeldBy(q, k)' => HeldBy(q, k) /\ Counted(q, k)' = Counted(q, k)
  BY <1>1 DEF HeldBy, Counted
<1>3. \A s \in Scanner, k \in Key : HandledBy(s, k)' <=> HandledBy(s, k)
  BY DEF HandledBy
<1>4. \A s \in Scanner : \A e : Announcing(s, e)' <=> Announcing(s, e)
  BY DEF Announcing
<1>5. DeliveryShape'
  <2>1. run' = [q \in Run |-> run'[q]]
    BY <1>1 DEF DeliveryShape
  <2>2. faults' \in Nat
    BY DEF DeliveryShape
  <2>. QED  BY <1>1, <2>1, <2>2 DEF DeliveryShape
<1>6. EachAnnouncesItsOwn' /\ NoneBeforeTheClaim'
  BY <1>2, <1>3, <1>4 DEF EachAnnouncesItsOwn, NoneBeforeTheClaim
<1>7. HandledByOne' /\ HeldIsOwed'
  BY <1>2, <1>3 DEF HandledByOne, HeldIsOwed
<1>8. SentIsKnown'
  <2>1. \A k \in Key : SaysOk(k)' => SaysOk(k)
    BY <1>1 DEF SaysOk
  <2>2. faults' = faults => \A k \in Key : (SaysOk(k)' <=> SaysOk(k))
    BY <1>1 DEF SaysOk, DeliveryShape
  <2>3. \A k \in Key : Len(told[k]) \in Nat
    BY DEF DeliveryShape
  <2>. QED  BY <2>1, <2>2, <2>3 DEF SentIsKnown, DeliveryShape
<1>. QED  BY <1>5, <1>6, <1>7, <1>8

(* A message whose reader left is not sent again.                          *)
LEMMA AbandoningKeepsDeliveries ==
  ASSUME DeliveryInv, \A q, r \in Run : q = r, NEW r \in Run, NEW k \in Key, RunAbandons(r, k)
  PROVE  DeliveryInv'
<1>. USE DEF DeliveryInv
<1>1. /\ run[r].at = "send" /\ k \in DOMAIN run[r].owed
      /\ UNCHANGED <<event, reports, told, scan, faults>>
  BY DEF RunAbandons, First, stock
<1>2. /\ run'[r].at = "send" /\ run'[r].owed = Without(run[r].owed, k)
      /\ run'[r].message = run[r].message
      /\ run' = [q \in Run |-> run'[q]]
  <2>. DEFINE held == [run[r] EXCEPT !.owed = Without(@, k)]
  <2>1. run' = [run EXCEPT ![r] = held]
    BY DEF RunAbandons
  <2>2. held.at = "send" /\ held.owed = Without(run[r].owed, k) /\ held.message = run[r].message
    BY <1>1
  <2>. HIDE DEF held
  <2>. QED  BY <2>1, <2>2 DEF DeliveryShape
<1>3. /\ delivery' \in [Key -> Delivery \cup {None}]
      /\ \A l \in Key : l # k => delivery'[l] = delivery[l]
      /\ delivery[k] = None => delivery'[k] = None
      /\ delivery[k] # None => delivery'[k].status = "failed"
  <2>1. CASE delivery[k] = None
    BY <2>1 DEF RunAbandons, DeliveryShape
  <2>2. CASE delivery[k] # None
    <3>. DEFINE entry == [delivery[k] EXCEPT !.status = "failed"]
    <3>1. entry \in Delivery /\ entry.status = "failed"
      BY <2>2 DEF DeliveryShape, Delivery
    <3>2. delivery' = [delivery EXCEPT ![k] = entry]
      BY <2>2 DEF RunAbandons
    <3>. HIDE DEF entry
    <3>. QED  BY <2>2, <3>1, <3>2 DEF DeliveryShape
  <2>. QED  BY <2>1, <2>2 DEF DeliveryShape
<1>4. /\ DOMAIN run'[r].owed = DOMAIN run[r].owed \ {k}
      /\ \A l \in DOMAIN run[r].owed \ {k} : run'[r].owed[l] = run[r].owed[l]
  BY <1>2 DEF Without
<1>5. \A q \in Run, l \in Key : HeldBy(q, l)' => /\ HeldBy(q, l) /\ l # k
                                                 /\ Counted(q, l)' = Counted(q, l)
  BY <1>1, <1>2, <1>4 DEF HeldBy, Counted
<1>6. \A s \in Scanner, l \in Key : HandledBy(s, l)' <=> HandledBy(s, l)
  BY <1>1 DEF HandledBy
<1>7. \A s \in Scanner : \A e : Announcing(s, e)' <=> Announcing(s, e)
  BY <1>1 DEF Announcing
<1>8. HeldBy(r, k) /\ \A s \in Scanner : ~HandledBy(s, k)
  BY <1>1 DEF HeldBy, HandledByOne
<1>9. DeliveryShape'
  BY <1>1, <1>2, <1>3, <1>4 DEF DeliveryShape
<1>10. EachAnnouncesItsOwn' /\ NoneBeforeTheClaim'
  BY <1>1, <1>3, <1>5, <1>6, <1>7 DEF EachAnnouncesItsOwn, NoneBeforeTheClaim
<1>11. HandledByOne' /\ HeldIsOwed'
  BY <1>3, <1>5, <1>6, <1>8 DEF HandledByOne, HeldIsOwed
<1>12. SentIsKnown'
  <2>1. \A l \in Key : SaysOk(l)' <=> SaysOk(l)
    BY <1>1, <1>2 DEF SaysOk
  <2>2. ~SaysOk(k)
    BY <1>1, <1>8 DEF SaysOk, HandledBy
  <2>3. \A l \in Key : Len(told[l]) \in Nat /\ faults \in Nat
    BY DEF DeliveryShape
  <2>4. delivery[k] # None => delivery[k].status = "pending"
    BY <1>8 DEF HeldIsOwed
  <2>. QED  BY <1>1, <1>3, <2>1, <2>2, <2>3, <2>4 DEF SentIsKnown
<1>. QED  BY <1>9, <1>10, <1>11, <1>12

(* A message that is owed goes out, and what was sent is recorded.         *)
LEMMA ResendingKeepsDeliveries ==
  ASSUME DeliveryInv, \A q, r \in Run : q = r, NEW r \in Run, NEW k \in Key, RunSends(r, k)
  PROVE  DeliveryInv'
<1>. USE DEF DeliveryInv
<1>1. PICK o, held :
        /\ o \in Outcomes(KeyChannel(k))
        /\ Tell(k, run[r].message, o)
        /\ held = [at |-> "mark", owed |-> Without(run[r].owed, k), key |-> k,
                   message |-> run[r].message, targets |-> run[r].targets,
                   says |-> o.says, attempts |-> run[r].owed[k]]
        /\ run' = [run EXCEPT ![r] = held]
  BY DEF RunSends
<1>2. /\ run[r].at = "send" /\ k \in DOMAIN run[r].owed
      /\ UNCHANGED <<event, reports, delivery, scan>>
  BY DEF RunSends, First, stock
<1>3. run'[r] = held /\ run' = [q \in Run |-> run'[q]]
  BY <1>1 DEF DeliveryShape
<1>4. /\ DOMAIN held.owed = DOMAIN run[r].owed \ {k}
      /\ \A l \in DOMAIN run[r].owed \ {k} : held.owed[l] = run[r].owed[l]
      /\ held.at = "mark" /\ held.key = k /\ held.says = o.says
      /\ held.attempts = run[r].owed[k] /\ held.message = run[r].message
  BY <1>1 DEF Without
<1>5. \A q \in Run, l \in Key : HeldBy(q, l)' <=> HeldBy(q, l)
  BY <1>2, <1>3, <1>4 DEF HeldBy
<1>6. \A q \in Run, l \in Key : HeldBy(q, l) => Counted(q, l)' = Counted(q, l)
  <2>1. \A q \in Run : q = r
    OBVIOUS
  <2>2. \A l \in Key : HeldBy(r, l) => l \in DOMAIN run[r].owed
    BY <1>2 DEF HeldBy
  <2>3. \A l \in DOMAIN run[r].owed : Counted(r, l)' = Counted(r, l)
    BY <1>2, <1>3, <1>4 DEF Counted
  <2>. QED  BY <2>1, <2>2, <2>3
<1>7. \A s \in Scanner, l \in Key : HandledBy(s, l)' <=> HandledBy(s, l)
  BY <1>2 DEF HandledBy
<1>8. \A s \in Scanner : \A e : Announcing(s, e)' <=> Announcing(s, e)
  BY <1>2 DEF Announcing
<1>9. HeldBy(r, k) /\ ~SaysOk(k)
  <2>1. HeldBy(r, k)
    BY <1>2 DEF HeldBy
  <2>2. \A s \in Scanner : ~(scan[s].at = "mark" /\ scan[s].key = k)
    BY <2>1 DEF HandledByOne, HandledBy
  <2>3. \A q \in Run : ~(run[q].at = "mark" /\ run[q].key = k)
    BY <1>2
  <2>. QED  BY <2>1, <2>2, <2>3 DEF SaysOk
<1>10. Told(k, o.says)
  <2>1. run[r].message \in Event
    BY <1>2 DEF DeliveryShape
  <2>. QED  BY <1>1, <2>1, TellingCounts
<1>11. DeliveryShape'
  <2>1. \A q \in Run : run'[q] = IF q = r THEN held ELSE run[q]
    BY <1>1 DEF DeliveryShape
  <2>2. /\ DOMAIN held.owed \subseteq Key /\ held.message \in Event
        /\ held.key \in Key \ DOMAIN held.owed
    BY <1>2, <1>4 DEF DeliveryShape
  <2>3. told' \in [Key -> Seq(Event)] /\ faults' \in Nat
    BY <1>10 DEF Told
  <2>. QED  BY <1>2, <1>3, <2>1, <2>2, <2>3 DEF DeliveryShape
<1>12. EachAnnouncesItsOwn'
  BY <1>2, <1>8 DEF EachAnnouncesItsOwn
<1>13. NoneBeforeTheClaim'
  BY <1>2, <1>5, <1>7, <1>8, <1>9, <1>10 DEF NoneBeforeTheClaim, Told
<1>14. HandledByOne' /\ HeldIsOwed'
  BY <1>2, <1>5, <1>6, <1>7 DEF HandledByOne, HeldIsOwed
<1>15. SentIsKnown'
  <2>1. \A l \in Key : l # k => (SaysOk(l)' <=> SaysOk(l))
    BY <1>2, <1>3, <1>4 DEF SaysOk
  <2>2. SaysOk(k)' <=> o.says = "ok"
    BY <1>2, <1>3, <1>4, <1>9 DEF SaysOk
  <2>3. delivery[k] # None => delivery[k].status = "pending"
    BY <1>9 DEF HeldIsOwed
  <2>4. \A l \in Key : Len(told[l]) \in Nat /\ Len(told'[l]) \in Nat
    BY <1>10 DEF DeliveryShape, Told
  <2>. QED  BY <1>2, <1>9, <1>10, <2>1, <2>2, <2>3, <2>4 DEF SentIsKnown, Told, DeliveryShape
<1>. QED  BY <1>11, <1>12, <1>13, <1>14, <1>15

(* The retry job records what the transport answered.                      *)
LEMMA RemarkingKeepsDeliveries ==
  ASSUME DeliveryInv, MaxAttempts \in Nat, \A q, r \in Run : q = r, NEW r \in Run, RunMarks(r)
  PROVE  DeliveryInv'
<1>. USE DEF DeliveryInv
<1>1. PICK k, outcome :
        k \in Key /\ run[r].key = k /\ outcome = RunStatus(run[r].says, run[r].attempts)
  BY DEF RunMarks, DeliveryShape
<1>2. /\ run[r].at = "mark" /\ Mark(k, outcome) /\ k \notin DOMAIN run[r].owed
      /\ UNCHANGED <<event, reports, told, scan, faults>>
  BY <1>1 DEF RunMarks, DeliveryShape, stock
<1>3. /\ outcome \in {"pending", "sent", "skipped", "failed"}
      /\ outcome = "sent" <=> run[r].says = "ok"
      /\ outcome = "pending" => run[r].attempts + 1 < MaxAttempts
  BY <1>1 DEF RunStatus, WorthAnother
<1>4. /\ delivery' \in [Key -> Delivery \cup {None}]
      /\ \A l \in Key : l # k => delivery'[l] = delivery[l]
      /\ delivery[k] = None => delivery'[k] = None
      /\ delivery[k] # None => /\ delivery'[k].status = outcome
                               /\ delivery'[k].attempts = delivery[k].attempts + 1
  BY <1>1, <1>2, <1>3, Marking
<1>5. /\ run' = [q \in Run |-> run'[q]] /\ run'[r].at = "send"
      /\ run'[r].owed = run[r].owed /\ run'[r].message = run[r].message
  BY DEF RunMarks, DeliveryShape
<1>6. HeldBy(r, k)
  BY <1>1, <1>2 DEF HeldBy
<1>7. \A q \in Run, l \in Key : HeldBy(q, l)' => /\ HeldBy(q, l) /\ l # k
                                                 /\ Counted(q, l)' = Counted(q, l)
  BY <1>1, <1>2, <1>5 DEF HeldBy, Counted
<1>8. \A s \in Scanner, l \in Key : HandledBy(s, l)' <=> HandledBy(s, l)
  BY <1>2 DEF HandledBy
<1>9. \A s \in Scanner : \A e : Announcing(s, e)' <=> Announcing(s, e)
  BY <1>2 DEF Announcing
<1>10. DeliveryShape'
  BY <1>2, <1>4, <1>5 DEF DeliveryShape
<1>11. EachAnnouncesItsOwn' /\ NoneBeforeTheClaim'
  BY <1>2, <1>4, <1>7, <1>8, <1>9 DEF EachAnnouncesItsOwn, NoneBeforeTheClaim
<1>12. HandledByOne' /\ HeldIsOwed'
  BY <1>4, <1>6, <1>7, <1>8 DEF HandledByOne, HeldIsOwed
<1>13. SentIsKnown'
  <2>1. \A l \in Key : l # k => (SaysOk(l)' <=> SaysOk(l))
    BY <1>1, <1>2, <1>5 DEF SaysOk
  <2>2. \A s \in Scanner : ~(scan[s].at = "mark" /\ scan[s].key = k)
    BY <1>1, <1>6 DEF HandledByOne, HandledBy
  <2>3. (SaysOk(k) <=> run[r].says = "ok") /\ ~SaysOk(k)'
    BY <1>1, <1>2, <1>5, <2>2 DEF SaysOk
  <2>4. delivery[k] # None => delivery[k].attempts = run[r].attempts /\ delivery[k].status = "pending"
    BY <1>1, <1>2, <1>6 DEF HeldIsOwed, Counted
  <2>5. \A l \in Key : Len(told[l]) \in Nat /\ faults \in Nat
    BY DEF DeliveryShape
  <2>6. delivery'[k] # None =>
          /\ delivery'[k].status = "sent" => told'[k] # <<>>
          /\ delivery'[k].status = "pending" => delivery'[k].attempts < MaxAttempts
          /\ Len(told'[k]) =< faults' + IF delivery'[k].status = "sent" \/ SaysOk(k)' THEN 1 ELSE 0
    BY <1>1, <1>2, <1>3, <1>4, <2>3, <2>4, <2>5 DEF SentIsKnown
  <2>. QED  BY <1>2, <1>4, <2>1, <2>3, <2>6 DEF SentIsKnown
<1>. QED  BY <1>10, <1>11, <1>12, <1>13

(* The steps of readers and operators.                                     *)
LEMMA WatchStepsKeepDeliveries ==
  ASSUME DeliveryInv, NEW w \in Watch,
         \/ \E channels \in SUBSET Channel \ {{}} : CreateWatch(w, channels)
         \/ DeleteWatch(w) \/ UnsubscribeEmail(w)
  PROVE  DeliveryInv'
<1>1. UNCHANGED <<event, reports, told, scan, run, faults>>
  BY DEF CreateWatch, DeleteWatch, UnsubscribeEmail, stock
<1>2. delivery' = delivery \/ delivery' = WithoutWatch(w)
  BY DEF CreateWatch, DeleteWatch, UnsubscribeEmail
<1>3. /\ \A k \in Key : delivery'[k] \in {None, delivery[k]}
      /\ delivery' = [k \in Key |-> delivery'[k]]
  <2>1. delivery = [k \in Key |-> delivery[k]]
    BY DEF DeliveryInv, DeliveryShape
  <2>. QED  BY <1>2, <2>1 DEF WithoutWatch
<1>. QED  BY <1>1, <1>3, WatchesKeepDeliveries

(* The steps of a request that reports stock.                              *)
LEMMA ScannerStepsKeepDeliveries ==
  ASSUME DeliveryInv, MaxAttempts \in Nat, MaxAttempts > 1, NEW s \in Scanner,
         \/ \E inStock \in BOOLEAN : ReportReads(s, inStock)
         \/ ScanWorks(s) \/ RequestDies(s)
  PROVE  DeliveryInv'
<1>. USE DEF Idle
<1>0. reports \in Nat /\ reports + 1 \in Nat
  BY DEF DeliveryInv, DeliveryShape
<1>1. ASSUME NEW inStock \in BOOLEAN, ReportReads(s, inStock)  PROVE DeliveryInv'
  <2>. DEFINE held == [at |-> "report", stamp |-> reports + 1, inStock |-> inStock,
                       alerts |-> Restocked(inStock)]
  <2>1. /\ scan' = [scan EXCEPT ![s] = held] /\ reports' \in Nat /\ scan[s].at = "idle"
        /\ UNCHANGED <<event, delivery, told, run, faults>>
        /\ held.at = "report" /\ held.stamp \in Nat
    BY <1>0, <1>1 DEF ReportReads
  <2>. HIDE DEF held
  <2>. QED  BY <2>1, RestingKeepsDeliveries
<1>2. CASE ReportCommits(s)
  <2>1. CASE ~scan[s].alerts
    BY <1>0, <1>2, <2>1, RestingKeepsDeliveries DEF ReportCommits
  <2>. QED  BY <1>2, <2>1, EventKeepsDeliveries
<1>3. CASE FanOutReads(s)
  <2>1. CASE ~enabled
    BY <1>0, <1>3, <2>1, RestingKeepsDeliveries DEF FanOutReads, stock
  <2>. QED  BY <1>3, <2>1, ReadingKeepsDeliveries
<1>4. CASE FanOutClaims(s)
  <2>1. CASE scan' = [scan EXCEPT ![s] = Idle] /\ delivery' = delivery
    BY <1>0, <1>4, <2>1, RestingKeepsDeliveries DEF FanOutClaims, stock
  <2>. QED  BY <1>4, <2>1, ClaimingKeepsDeliveries DEF FanOutClaims
<1>5. CASE RequestEnds(s)
  BY <1>0, <1>5, RestingKeepsDeliveries DEF RequestEnds, stock
<1>6. CASE RequestDies(s)
  BY <1>0, <1>6, RestingKeepsDeliveries DEF RequestDies, stock
<1>. QED  BY <1>1, <1>2, <1>3, <1>4, <1>5, <1>6, SendingKeepsDeliveries, MarkingKeepsDeliveries
          DEF ScanWorks

(* The steps of the retry job.                                             *)
LEMMA RunStepsKeepDeliveries ==
  ASSUME DeliveryInv, MaxAttempts \in Nat, \A q, r \in Run : q = r, NEW r \in Run,
         RunStarts(r) \/ RunWorks(r) \/ RunDies(r)
  PROVE  DeliveryInv'
<1>1. CASE RunLooks(r)
  <2>1. PICK k, held :
          /\ k \in First(run[r].owed)
          /\ held = [at |-> "send", owed |-> run[r].owed, message |-> KeyEvent(k), targets |-> watch]
          /\ run' = [run EXCEPT ![r] = held]
    BY <1>1 DEF RunLooks
  <2>2. run[r].at = "look" /\ UNCHANGED <<event, reports, delivery, told, scan, faults>>
    BY <1>1 DEF RunLooks, stock
  <2>3. KeyEvent(k) \in Event
    BY <2>1, <2>2 DEF First, DeliveryInv, DeliveryShape, Key, KeyEvent
  <2>4. held.at = "send" /\ held.owed = run[r].owed /\ held.message \in Event
    BY <2>1, <2>3
  <2>. QED  BY <2>1, <2>2, <2>4, LookingKeepsDeliveries
<1>2. CASE RunEnds(r)
  BY <1>2, LookingKeepsDeliveries DEF RunEnds, Idle, stock
<1>3. CASE RunDies(r)
  BY <1>3, LookingKeepsDeliveries DEF RunDies, Idle, stock
<1>. QED  BY <1>1, <1>2, <1>3, StartingKeepsDeliveries, AbandoningKeepsDeliveries,
             ResendingKeepsDeliveries, RemarkingKeepsDeliveries DEF RunWorks

(* Every step keeps what is known of deliveries.                           *)
LEMMA DeliveryInvStep == OneRunAndPrompt /\ DeliveryInv /\ [Next]_vars => DeliveryInv'
<1>. SUFFICES ASSUME OneRunAndPrompt, DeliveryInv, [Next]_vars  PROVE DeliveryInv'
  OBVIOUS
<1>. USE AlertsAssumption DEF OneRunAndPrompt
<1>1. ASSUME UNCHANGED <<event, reports, delivery, told, scan, run, faults>>
      PROVE  DeliveryInv'
  BY <1>1, WatchesKeepDeliveries DEF DeliveryInv, DeliveryShape
<1>2. CASE UNCHANGED vars
  BY <1>1, <1>2 DEF vars
<1>3. ASSUME NEW on \in BOOLEAN, SetAlertsEnabled(on)  PROVE DeliveryInv'
  BY <1>1, <1>3 DEF SetAlertsEnabled, stock
<1>4. \A r \in Run : RunStarts(r) \/ RunWorks(r) \/ RunDies(r) => DeliveryInv'
  BY RunStepsKeepDeliveries
<1>5. \A s \in Scanner :
        (\E inStock \in BOOLEAN : ReportReads(s, inStock)) \/ ScanWorks(s) \/ RequestDies(s)
          => DeliveryInv'
  BY ScannerStepsKeepDeliveries
<1>. QED  BY <1>2, <1>3, <1>4, <1>5, WatchStepsKeepDeliveries, AgeingKeepsDeliveries,
             EventAgesKeepsDeliveries DEF Next

(* What a delivery says is what happened, for any number of watches,       *)
(* channels, scanners, restocks and faults (dispatcher.ts, retry.ts), when *)
(* one run of the job is at work at a time and a fan-out ends before its   *)
(* deliveries are stale.                                                   *)
THEOREM DeliveriesStayTrue ==
  ASSUME OneRunAndPrompt
  PROVE  Spec => []DeliveriesAreTrue
<1>1. Init => DeliveryInv
  BY DEF Init, Idle, DeliveryInv, DeliveryShape, EachAnnouncesItsOwn, NoneBeforeTheClaim,
         HandledByOne, HeldIsOwed, SentIsKnown, Announcing, HandledBy, HeldBy, SaysOk
<1>. QED  BY <1>1, DeliveryInvStep, InvIsTrue, PTL DEF Spec

=============================================================================
