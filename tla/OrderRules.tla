----------------------------- MODULE OrderRules -----------------------------
(***************************************************************************)
(* The rules an order obeys wherever it is written: the transition table   *)
(* of packages/core/src/orders.ts and the constraints the orders table     *)
(* carries in packages/db/src/schema/market.ts and the migrations.         *)
(* Nothing here has state: Marketplace applies these rules to its rows.    *)
(***************************************************************************)
OrderStatus == {"created", "paid", "shipped", "delivered",
                "completed", "cancelled", "refunded", "disputed"}

OrderActor == {"buyer", "seller", "admin", "stripe", "system"}

Escalators == {"buyer", "admin", "stripe"}

(* TABLE, as the set of its entries: from a state, to a state, by an       *)
(* actor. Nothing leaves cancelled or refunded.                            *)
Moves ==
  UNION {
    {"created"}   \X {"paid"}      \X {"stripe"},
    {"created"}   \X {"cancelled"} \X {"buyer", "seller", "admin", "system"},
    {"paid"}      \X {"shipped"}   \X {"seller"},
    {"paid"}      \X {"cancelled"} \X {"admin"},
    {"shipped"}   \X {"delivered"} \X {"system", "admin"},
    {"delivered"} \X {"completed"} \X {"system", "admin"},
    {"disputed"}  \X {"completed"} \X {"admin"},
    {"paid", "shipped", "delivered", "completed"} \X {"disputed"} \X Escalators,
    {"paid", "shipped", "delivered", "completed", "disputed"}
        \X {"refunded"} \X {"stripe"} }

(* transition() throws unless this holds.                                  *)
CanTransition(from, to, actor) == <<from, to, actor>> \in Moves

(* moneyHasMoved: has money left the buyer?                                *)
MoneyHasMoved(status) == status \notin {"created", "cancelled"}

(* The statuses under the partial unique index orders_one_open_per_listing *)
(* that keep a listing taken.                                              *)
OpenStatuses == {"created", "paid", "shipped",
                 "delivered", "completed", "disputed"}

(* orders_update_party: what a person's session may leave an order in.     *)
WebWritable == {"created", "shipped", "cancelled", "disputed"}

(* The CHECK constraints that relate a row's status to its other columns.  *)
PaidHasPayment(row) ==
  row.status \in {"created", "cancelled"} \/ row.intent

ShippedHasTracking(row) ==
  row.status \notin {"shipped", "delivered", "completed"} \/ row.tracking

RowAllowed(row) == PaidHasPayment(row) /\ ShippedHasTracking(row)
=============================================================================
