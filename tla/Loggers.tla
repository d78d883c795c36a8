------------------------------ MODULE Loggers ------------------------------
(***************************************************************************)
(* The two keyboard-first forms a creator logs with while a stream runs:   *)
(* apps/web's pull-logger.tsx and sale-logger.tsx.  Both search as the     *)
(* creator types, let Enter pick the match under the highlight, and clear  *)
(* themselves before the request is answered so that the next entry can be *)
(* typed meanwhile.  Searches, lookups, posts and lists are all in flight  *)
(* at once and come back in any order.  The two forms search and choose    *)
(* with the same code; they differ in what they do with an answer.         *)
(***************************************************************************)
EXTENDS Naturals, FiniteSets, Sequences

CONSTANTS
  Card,        \* cards the catalogue knows, named by themselves
  Term,        \* texts a creator types that search for something
  Finds,       \* what the search answers to a text
  Amount,      \* values that may be typed
  Junk,        \* a typed value that is not an amount
  IndexPrice,  \* what the index says of a card, or Empty
  Empty,
  MaxEntries,  \* how many entries are logged
  MaxInFlight  \* searches, lookups and lists in flight, of each

Text == Term \cup Card

ASSUME LoggerAssumption ==
  /\ Finds \in [Text -> Seq(Card)]
  /\ Empty \notin Text \cup Amount \cup {0}
  /\ Junk \notin Amount

VARIABLES
  logger,    \* "pulls" or "sales"
  status,    \* the break's status as the page has it
  label,     \* the text in the card field
  value,     \* the text in the amount field
  candidate, \* the chosen card, or Empty
  hits,      \* the list under the field, and
  lit,       \* the row of it under the highlight
  timer,     \* the text a search waits 200 ms with, or Empty
  searches,  \* texts being searched for
  lookups,   \* cards being looked up after a choice
  sent,      \* entries posted and not answered
  kept,      \* entries the API kept, in order
  shown,     \* the list on the page
  reads,     \* lists on their way to the page
  posting,   \* the sale form's busy flag
  notice     \* the message the page shows

pickVars == <<candidate, hits, lit, timer, searches, lookups>>
listVars == <<kept, shown, reads>>
logVars == <<logger, status, label, value, pickVars, sent, listVars, posting, notice>>

LoggerInit ==
  /\ logger \in {"pulls", "sales"}
  /\ status \in {"draft", "live"}
  /\ label = Empty /\ value = Empty /\ candidate = Empty
  /\ hits = <<>> /\ lit = 1 /\ timer = Empty
  /\ searches = {} /\ lookups = {} /\ sent = {}
  /\ kept = <<>> /\ shown = <<>>
  /\ reads = IF logger = "pulls" /\ status # "draft" THEN {kept} ELSE {}
  /\ posting = FALSE /\ notice = "none"

Open == logger = "sales" \/ status = "live"

-----------------------------------------------------------------------------
(* Searching and choosing.                                                 *)

(* The effect that runs when the text or the choice changed: the timer of  *)
(* the text before is cleared, a search already sent is not.               *)
SearchEffect ==
  IF label' = Empty \/ candidate' # Empty
  THEN hits' = <<>> /\ timer' = Empty
  ELSE hits' = hits /\ timer' = label'

(* As if typing kept the card that was chosen.                             *)
CandidateKept(c) == c

(* Typing again abandons the chosen card: the text no longer describes it. *)
CandidateOnceTyped(c) == Empty

Type(text) ==
  /\ Open /\ text # label
  /\ label' = text
  /\ candidate' = CandidateOnceTyped(candidate)
  /\ SearchEffect
  /\ UNCHANGED <<logger, status, value, lit, searches, lookups, sent, listVars, posting, notice>>

TypeValue(amount) ==
  /\ Open /\ value' = amount
  /\ UNCHANGED <<logger, status, label, pickVars, sent, listVars, posting, notice>>

SearchSends ==
  /\ timer # Empty
  /\ searches' = searches \cup {timer}
  /\ Cardinality(searches') <= MaxInFlight
  /\ timer' = Empty
  /\ UNCHANGED <<logger, status, label, value, candidate, hits, lit, lookups,
                 sent, listVars, posting, notice>>

(* An answer is shown whatever the field holds by now; a failed search     *)
(* just means no suggestions.                                              *)
SearchAnswers(text) ==
  /\ text \in searches
  /\ searches' = searches \ {text}
  /\ \/ hits' = Finds[text] /\ lit' = 1
     \/ UNCHANGED <<hits, lit>>
  /\ UNCHANGED <<logger, status, label, value, candidate, timer, lookups,
                 sent, listVars, posting, notice>>

(* onSearchKeyDown: the arrows go round the list, Escape closes it.        *)
Arrow ==
  /\ hits # <<>>
  /\ lit' \in {(lit % Len(hits)) + 1, IF lit = 1 THEN Len(hits) ELSE lit - 1}
  /\ UNCHANGED <<logger, status, label, value, candidate, hits, timer, searches, lookups,
                 sent, listVars, posting, notice>>

Escape ==
  /\ hits # <<>> /\ hits' = <<>>
  /\ UNCHANGED <<logger, status, label, value, candidate, lit, timer, searches, lookups,
                 sent, listVars, posting, notice>>

(* choose: Enter takes the row under the highlight, a click any row. Only  *)
(* the list closes before the card has been looked up.                     *)
Choose(i) ==
  /\ i \in DOMAIN hits
  /\ lookups' = lookups \cup {hits[i]}
  /\ Cardinality(lookups') <= MaxInFlight
  /\ hits' = <<>>
  /\ UNCHANGED <<logger, status, label, value, candidate, lit, timer, searches,
                 sent, listVars, posting, notice>>

(* The lookup answers, whatever has been typed or logged meanwhile; a card *)
(* that cannot be looked up stays free text.                               *)
LookupAnswers(card) ==
  /\ card \in lookups
  /\ lookups' = lookups \ {card}
  /\ \/ /\ candidate' = card
        /\ label' = card
        /\ SearchEffect
     \/ UNCHANGED <<candidate, label, hits, timer>>
  /\ UNCHANGED <<logger, status, value, lit, searches, sent, listVars, posting, notice>>

ClearCandidate ==
  /\ candidate # Empty
  /\ candidate' = Empty /\ label' = Empty /\ value' = Empty
  /\ SearchEffect
  /\ UNCHANGED <<logger, status, lit, searches, lookups, sent, listVars, posting, notice>>

-----------------------------------------------------------------------------
(* Logging.                                                                *)

(* The body of the post: a chosen card, valued by hand or by the index, or *)
(* free text, which is worth nothing unless a value was typed.             *)
Entry(n) ==
  [text |-> label, card |-> candidate, n |-> n,
   value |-> IF value # Empty THEN value ELSE IF candidate = Empty THEN 0 ELSE Empty]

Numbers == 1..MaxEntries
Unused(n) == /\ \A e \in sent : e.n # n
             /\ \A i \in DOMAIN kept : kept[i].n # n

Cleared ==
  /\ label' = Empty /\ value' = Empty /\ candidate' = Empty
  /\ hits' = <<>> /\ timer' = Empty

(* submitPull: the next pull may be typed, and sent, before this one is    *)
(* answered.                                                               *)
SubmitPull(n) ==
  /\ logger = "pulls" /\ status = "live"
  /\ label # Empty /\ value # Junk /\ Unused(n)
  /\ sent' = sent \cup {Entry(n)}
  /\ Cleared /\ notice' = "none"
  /\ UNCHANGED <<logger, status, lit, searches, lookups, listVars, posting>>

(* submit: a sale needs a price, and one is sent at a time.                *)
SubmitSale(n) ==
  /\ logger = "sales" /\ ~posting
  /\ label # Empty /\ value \in Amount /\ Unused(n)
  /\ sent' = sent \cup {Entry(n)}
  /\ Cleared /\ notice' = "none" /\ posting' = TRUE
  /\ UNCHANGED <<logger, status, lit, searches, lookups, listVars>>

SubmitUnreadable ==
  /\ label # Empty /\ value = Junk /\ Open /\ notice # "not an amount"
  /\ notice' = "not an amount"
  /\ UNCHANGED <<logger, status, label, value, pickVars, sent, listVars, posting>>

(* What the index fills in for a value left blank.                         *)
Valued(e) ==
  [e EXCEPT !.value = IF @ # Empty THEN @
                      ELSE IF IndexPrice[e.card] = Empty THEN 0 ELSE IndexPrice[e.card]]

Stored(e) == \E i \in DOMAIN kept : kept[i] = e

(* The API keeps the entry; the sale form lists again, the pull form adds  *)
(* what it has typed under the answer's number.                            *)
EntryKept(e) ==
  /\ e \in sent /\ (\A i \in DOMAIN kept : kept[i].n # e.n)
  /\ kept' = Append(kept, Valued(e))
  /\ UNCHANGED <<logger, status, label, value, pickVars, sent, shown, reads, posting, notice>>

PullAnswered(e) ==
  /\ logger = "pulls" /\ e \in sent /\ Stored(Valued(e))
  /\ sent' = sent \ {e}
  /\ shown' = Append(shown, Valued(e))
  /\ UNCHANGED <<logger, status, label, value, pickVars, kept, reads, posting, notice>>

SaleAnswered(e) ==
  /\ logger = "sales" /\ e \in sent /\ Stored(Valued(e))
  /\ sent' = sent \ {e}
  /\ reads' = reads \cup {kept}
  /\ UNCHANGED <<logger, status, label, value, pickVars, kept, shown, posting, notice>>

(* Refused, or not answered at all: only the sale form catches the second. *)
EntryRefused(e) ==
  /\ e \in sent /\ ~ Stored(Valued(e))
  /\ sent' = sent \ {e}
  /\ notice' = "not saved"
  /\ posting' = FALSE
  /\ UNCHANGED <<logger, status, label, value, pickVars, listVars>>

EntryUnanswered(e) ==
  /\ e \in sent
  /\ sent' = sent \ {e}
  /\ notice' = IF logger = "sales" THEN "not reached" ELSE notice
  /\ posting' = FALSE
  /\ UNCHANGED <<logger, status, label, value, pickVars, listVars>>

(* remove, for a sale not yet in the index, and the list after it.         *)
RemoveSale(i) ==
  /\ logger = "sales" /\ i \in DOMAIN shown
  /\ \E j \in DOMAIN kept :
       /\ kept[j] = shown[i]
       /\ kept' = SubSeq(kept, 1, j - 1) \o SubSeq(kept, j + 1, Len(kept))
  /\ reads' = reads \cup {kept'}
  /\ Cardinality(reads') <= MaxInFlight
  /\ notice' = "none"
  /\ UNCHANGED <<logger, status, label, value, pickVars, sent, shown, posting>>

(* changeStatus, and load once the page is not about a draft.              *)
ChangeStatus ==
  /\ logger = "pulls"
  /\ \/ status = "draft" /\ status' = "live"
     \/ status = "live" /\ status' = "ended"
  /\ reads' = reads \cup {kept}
  /\ notice' = "none"
  /\ UNCHANGED <<logger, label, value, pickVars, sent, kept, shown, posting>>

(* refresh and load: the list that was read replaces the one shown.        *)
ListShows(list) ==
  /\ list \in reads
  /\ reads' = reads \ {list}
  /\ shown' = list
  /\ posting' = FALSE
  /\ UNCHANGED <<logger, status, label, value, pickVars, sent, kept, notice>>

LoggerNext ==
  \/ \E text \in Term \cup {Empty} : Type(text)
  \/ \E amount \in Amount \cup {Empty, Junk} : TypeValue(amount)
  \/ SearchSends \/ Arrow \/ Escape \/ ClearCandidate
  \/ \E text \in searches : SearchAnswers(text)
  \/ \E i \in DOMAIN hits : Choose(i)
  \/ \E card \in lookups : LookupAnswers(card)
  \/ \E n \in Numbers : SubmitPull(n) \/ SubmitSale(n)
  \/ SubmitUnreadable
  \/ \E e \in sent : \/ EntryKept(e) \/ PullAnswered(e) \/ SaleAnswered(e)
                     \/ EntryRefused(e) \/ EntryUnanswered(e)
  \/ \E i \in DOMAIN shown : RemoveSale(i)
  \/ ChangeStatus
  \/ \E list \in reads : ListShows(list)

LoggerSpec == LoggerInit /\ [][LoggerNext]_logVars

-----------------------------------------------------------------------------
(* An entry that names a card was logged under that card's name: however   *)
(* searches, lookups and entries overtake each other, what the creator     *)
(* read in the field is the card whose price the entry will feed.          *)
NameIsTheCard ==
  /\ \A e \in sent : e.card # Empty => e.text = e.card
  /\ \A i \in DOMAIN kept : kept[i].card # Empty => kept[i].text = kept[i].card

(* The list of matches does not reopen over a chosen card.                 *)
ChoiceStaysClosed == candidate # Empty => hits = <<>>
=============================================================================
