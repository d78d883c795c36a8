----------------------------- MODULE SaleLedger -----------------------------
(***************************************************************************)
(* What the marketplace promises, without sessions, webhooks, roles or     *)
(* jobs: sales are entered in a book, money moves somewhere else, and the  *)
(* book follows the money. Marketplace is shown to implement this.         *)
(***************************************************************************)
CONSTANTS Sales, Items, NoItem

VARIABLES
  book,   \* what the marketplace says of each sale
  item,   \* what each sale is of
  money   \* where the buyer's money really is

ledger == <<book, item, money>>

Taken(i) == \E p \in Sales : item[p] = i /\ book[p] \in {"open", "sold"}

LedgerTypeOK ==
  /\ book \in [Sales -> {"none", "open", "closed", "sold", "undone"}]
  /\ item \in [Sales -> Items \cup {NoItem}]
  /\ money \in [Sales -> {"none", "charged", "returned"}]

LedgerInit ==
  /\ book = [p \in Sales |-> "none"]
  /\ item = [p \in Sales |-> NoItem]
  /\ money = [p \in Sales |-> "none"]

(* A sale of an item nobody else is buying or has bought.                  *)
Open(p, i) ==
  /\ book[p] = "none"
  /\ ~ Taken(i)
  /\ book' = [book EXCEPT ![p] = "open"]
  /\ item' = [item EXCEPT ![p] = i]
  /\ UNCHANGED money

(* Given up before the book knew of any money.                             *)
Close(p) ==
  /\ book[p] = "open"
  /\ book' = [book EXCEPT ![p] = "closed"]
  /\ UNCHANGED <<item, money>>

(* The buyer pays, once, and possibly for a sale that is closed already.   *)
Charge(p) ==
  /\ book[p] \in {"open", "closed"}
  /\ money[p] = "none"
  /\ money' = [money EXCEPT ![p] = "charged"]
  /\ UNCHANGED <<book, item>>

Return(p) ==
  /\ money[p] = "charged"
  /\ money' = [money EXCEPT ![p] = "returned"]
  /\ UNCHANGED <<book, item>>

(* The book says sold only of a sale that was charged ...                  *)
Sell(p) ==
  /\ book[p] = "open"
  /\ money[p] # "none"
  /\ book' = [book EXCEPT ![p] = "sold"]
  /\ UNCHANGED <<item, money>>

(* ... and undone only of one whose money went back.                       *)
Undo(p) ==
  /\ book[p] = "sold"
  /\ money[p] = "returned"
  /\ book' = [book EXCEPT ![p] = "undone"]
  /\ UNCHANGED <<item, money>>

LedgerNext ==
  \E p \in Sales :
    \/ \E i \in Items : Open(p, i)
    \/ Close(p) \/ Charge(p) \/ Return(p) \/ Sell(p) \/ Undo(p)

LedgerSpec == LedgerInit /\ [][LedgerNext]_ledger

-----------------------------------------------------------------------------
(* What follows from the promise alone.                                    *)

(* An item is never sold twice at once.                                    *)
OneSalePerItem ==
  \A p, q \in Sales :
    p # q /\ {book[p], book[q]} \subseteq {"open", "sold"} => item[p] # item[q]

(* A sale in the book as sold was charged, an undone one was paid back.    *)
BookFollowsMoney ==
  \A p \in Sales :
    /\ book[p] = "sold" => money[p] # "none"
    /\ book[p] = "undone" => money[p] = "returned"
=============================================================================
