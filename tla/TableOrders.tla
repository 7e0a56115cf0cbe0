----------------------------- MODULE TableOrders -----------------------------
(* The orders staff open at one table, from the waiter's first tap to the     *)
(* free table: the orders with their items, the kitchen ticket of each, the   *)
(* recipe stock, the money, and the table's own status.                       *)
(*                                                                            *)
(* Every operation is one database transaction that locks the order's row     *)
(* and, where it frees the table, the table's; at READ COMMITTED such a       *)
(* transaction is one step.  A payment runs SERIALIZABLE: it reads everything *)
(* from the snapshot of its first statement (BeginPayment), and fails if a    *)
(* row it locks or writes was written since.  The row of its order is the     *)
(* first it locks: once that is written the payment is lost, and until then   *)
(* the order is as the snapshot has it.                                       *)
(*                                                                            *)
(* Version numbers are only ever compared with one read before, so the model  *)
(* keeps, of what a terminal shows, whether the version it read is current.   *)
EXTENDS Integers, FiniteSets

CONSTANTS
  Order,            \* the orders that may be opened at the table
  Supplement,       \* those opened as a supplement of an active order
  TypeOf,           \* "DINE_IN", "TAKEAWAY" or "DELIVERY"
  Item,             \* order lines, of price 1 and with a recipe
  OrderOf,          \* the order an item belongs to
  KitchenShowsPos,  \* values of the setting kitchen_pos_orders_enabled while
                    \* the table is served: an operator may switch it
  Admin,            \* whether someone with ADMIN_ACCESS forces statuses
  NoOrder           \* "no order on the screen", "no payment running"

ASSUME OrdersAssumption ==
  /\ Supplement \subseteq Order
  /\ TypeOf \in [Order -> {"DINE_IN", "TAKEAWAY", "DELIVERY"}]
  /\ OrderOf \in [Item -> Order]
  /\ IsFiniteSet(Item)
  /\ KitchenShowsPos \subseteq BOOLEAN
  /\ Admin \in BOOLEAN
  /\ NoOrder \notin Order

VARIABLES
  order,    \* status and net collected money of each order
  line,     \* each item: not ordered, active or cancelled
  stock,    \* the ingredients of an item: kept, used or returned
  ticket,   \* status of an order's kitchen ticket and the items it lists
  table,    \* status of the table
  screen,   \* the order a terminal shows, the status it read, and whether
            \* the versions of order and ticket are still those it read
  payment   \* the payment transaction in flight

vars == <<order, line, stock, ticket, table, screen, payment>>

ActiveStatuses == {"NEW", "CONFIRMED", "PREPARING", "READY", "SERVED"}
Closed == {"COMPLETED", "CANCELLED"}
OpenTickets == {"NEW", "ACCEPTED", "COOKING", "READY"}

Active == {o \in Order : order[o].status \in ActiveStatuses}
ItemsOf(o) == {i \in Item : OrderOf[i] = o /\ line[i] = "active"}
Total(o) == Cardinality(ItemsOf(o))

Outdated == "outdated"
NoPayment == [order |-> NoOrder, ticket |-> "NONE", active |-> {}, written |-> {}]

Init ==
  /\ order = [o \in Order |-> [status |-> "NONE", paid |-> 0]]
  /\ line = [i \in Item |-> "absent"]
  /\ stock = [i \in Item |-> "kept"]
  /\ ticket = [o \in Order |-> [status |-> "NONE", lines |-> {}]]
  /\ table = "AVAILABLE"
  /\ screen = [order |-> NoOrder, status |-> Outdated, ticket |-> Outdated]
  /\ payment = NoPayment

-----------------------------------------------------------------------------
(* Rows an operation on o writes, and the versions it increments.             *)
Writes(o, rows) ==
  payment' =
    IF payment.order = o /\ "order" \in rows THEN NoPayment
    ELSE [payment EXCEPT !.written =
            @ \cup (IF payment.order = o THEN rows ELSE rows \cap {"table"})]

\* Mutant: a status change that leaves the version alone.
ForgetsVersion(o, versions) == UNCHANGED screen
Increments(o, versions) ==
  screen' = IF screen.order # o THEN screen
            ELSE [screen EXCEPT !.status = IF "order" \in versions THEN Outdated ELSE @,
                                !.ticket = IF "ticket" \in versions THEN Outdated ELSE @]

(* expectedVersion is optional: a request without one is not checked.         *)
Checked(o, checked) ==
  checked => screen.order = o /\ screen.status # Outdated

Look(o) ==
  /\ order[o].status # "NONE"
  /\ screen' = [order |-> o, status |-> order[o].status, ticket |-> "current"]
  /\ UNCHANGED <<order, line, stock, ticket, table, payment>>

-----------------------------------------------------------------------------
(* The table.                                                                 *)
OpenOrder(o) ==
  /\ order[o].status = "NONE"
  /\ table \notin {"CLEANING", "RESERVED"}
  /\ o \notin Supplement => Active = {}
  /\ o \in Supplement =>
       /\ \A a \in Active : order[a].status # "NEW"
       /\ \E a \in Active : order[a].status \in {"CONFIRMED", "PREPARING", "READY"}
       /\ Active \ Supplement # {}
  /\ order' = [order EXCEPT ![o].status = "NEW"]
  /\ table' = "OCCUPIED"
  /\ Writes(o, {"order", "table"})
  /\ UNCHANGED <<line, stock, ticket, screen>>

SetTable(status) ==
  /\ (Active # {}) <=> (status = "OCCUPIED")
  /\ table' = status
  /\ Writes(NoOrder, {"table"})
  /\ UNCHANGED <<order, line, stock, ticket, screen>>

(* releaseTableIfNoActiveOrders: others are the active orders but the one     *)
(* being closed, as the transaction sees them.                                *)
Freed(others) == IF others = {} THEN "AVAILABLE" ELSE table
FreedRow(others) == IF others = {} THEN {"table"} ELSE {}

-----------------------------------------------------------------------------
(* Items.                                                                     *)
Unstarted(i) ==
  /\ i \in ticket[OrderOf[i]].lines
  /\ ticket[OrderOf[i]].status = "NEW"

Returned(items) ==
  [i \in Item |-> IF i \in items /\ stock[i] = "used" /\ Unstarted(i)
                  THEN "returned" ELSE stock[i]]

AddItem(i, checked) ==
  LET o == OrderOf[i] IN
  /\ line[i] = "absent"
  /\ order[o].status = "NEW"
  /\ Checked(o, checked)
  /\ line' = [line EXCEPT ![i] = "active"]
  /\ Writes(o, {"order"})
  /\ Increments(o, {"order"})
  /\ UNCHANGED <<order, stock, ticket, table>>

(* Any edit of a line: its quantity, its modifiers (neither once the order    *)
(* has payments) or its notes (at any time).  All increment the version only, *)
(* as no property looks at how much of an item is ordered.                    *)
EditItem(i, checked) ==
  LET o == OrderOf[i] IN
  /\ line[i] = "active"
  /\ order[o].status = "NEW"
  /\ Checked(o, checked)
  /\ Writes(o, {"order"})
  /\ Increments(o, {"order"})
  /\ UNCHANGED <<order, line, stock, ticket, table>>

(* What was paid beyond the total without the item is given back in cash.     *)
\* Mutant: the item is cancelled, its price is kept.
KeptPaid(paid, total) == paid
LeftPaid(paid, total) == IF paid > total THEN total ELSE paid

\* Mutant: the kitchen ticket keeps listing the cancelled item.
StillListed(i) == ticket
Unlisted(i) == [ticket EXCEPT ![OrderOf[i]].lines = @ \ {i}]

CancelItem(i) ==
  LET o == OrderOf[i] IN
  /\ line[i] = "active"
  /\ order[o].status # "CANCELLED"
  /\ Checked(o, TRUE)
  /\ line' = [line EXCEPT ![i] = "cancelled"]
  /\ order' = [order EXCEPT ![o].paid = LeftPaid(@, Total(o) - 1)]
  /\ stock' = Returned({i})
  /\ ticket' = Unlisted(i)
  /\ Writes(o, {"order"} \cup IF i \in ticket[o].lines THEN {"ticket"} ELSE {})
  /\ Increments(o, {"order"} \cup IF i \in ticket[o].lines THEN {"ticket"} ELSE {})
  /\ UNCHANGED table

-----------------------------------------------------------------------------
(* Staff change the status of an order.                                       *)

(* confirmOrderForPreparation.  An order has one ticket in its life, numbered *)
(* by its supplement number: a second one breaks a unique index.              *)
Confirm(o, checked) ==
  /\ order[o].status \in {"NEW", "CONFIRMED"}
  /\ Checked(o, checked)
  /\ \/ ticket[o].status \in OpenTickets /\ UNCHANGED ticket
     \/ /\ ticket[o].status = "NONE"
        /\ ItemsOf(o) # {}
        /\ ticket' = [ticket EXCEPT ![o] = [status |-> "NEW", lines |-> ItemsOf(o)]]
  /\ order' = [order EXCEPT ![o].status = "CONFIRMED"]
  /\ stock' = [i \in Item |-> IF i \in ItemsOf(o) /\ stock[i] = "kept"
                              THEN "used" ELSE stock[i]]
  /\ IF order[o].status = "NEW"
     THEN Writes(o, {"order"}) /\ Increments(o, {"order"})
     ELSE UNCHANGED <<payment, screen>>
  /\ UNCHANGED <<line, table>>

(* kitchenStatusForOrder; an order that goes back to NEW leaves its ticket.   *)
\* Mutant: a served or completed order leaves its ticket open.
TicketAtUnlessCompleted(status, current) ==
  CASE status = "CONFIRMED" -> "ACCEPTED"
    [] status = "PREPARING" -> "COOKING"
    [] status = "READY" -> "READY"
    [] status = "CANCELLED" -> "CANCELLED"
    [] OTHER -> current
TicketAt(status, current) ==
  CASE status = "CONFIRMED" -> "ACCEPTED"
    [] status = "PREPARING" -> "COOKING"
    [] status = "READY" -> "READY"
    [] status \in {"SERVED", "COMPLETED"} -> "COMPLETED"
    [] status = "CANCELLED" -> "CANCELLED"
    [] OTHER -> current

Synced(o, next) ==
  IF ticket[o].status \in OpenTickets
  THEN [ticket EXCEPT ![o].status = TicketAt(next, @)] ELSE ticket
SyncedRow(o, next) ==
  IF ticket[o].status \in OpenTickets /\ next # "NEW" THEN {"ticket"} ELSE {}

(* Only an order whose collected money was returned can be cancelled.         *)
\* Mutant: the collected money is not looked at.
CancelledUnrefunded(o, next) == TRUE
Refunded(o, next) == next = "CANCELLED" => order[o].paid = 0

(* The lifecycle rules; an administrator's force is bound by none of them.    *)
Permitted(o, next, force) ==
  \/ force /\ Admin
  \/ /\ order[o].status \notin Closed
     /\ order[o].status = "NEW" => next = "CANCELLED"

SetStatus(o, next, force, checked) ==
  /\ order[o].status \notin {"NONE", next}
  /\ next = "CONFIRMED" => force /\ order[o].status # "NEW"
  /\ Permitted(o, next, force)
  /\ Refunded(o, next)
  /\ Checked(o, checked)
  /\ order' = [order EXCEPT ![o].status = next]
  /\ stock' = IF next = "CANCELLED" THEN Returned(ItemsOf(o)) ELSE stock
  /\ ticket' = Synced(o, next)
  /\ table' = IF next \in Closed THEN Freed(Active \ {o}) ELSE table
  /\ Writes(o, {"order"} \cup SyncedRow(o, next)
                         \cup (IF next \in Closed THEN FreedRow(Active \ {o}) ELSE {}))
  /\ Increments(o, {"order"})
  /\ UNCHANGED line

-----------------------------------------------------------------------------
(* The kitchen works on the ticket and carries the order along.               *)
Handoff(o) == IF TypeOf[o] = "DELIVERY" THEN "READY" ELSE "COMPLETED"

(* resolveTransition: the action, the order and ticket statuses it starts     *)
(* from, and those it leads to.                                               *)
Steps(o) ==
  { <<"accept", {"NEW", "CONFIRMED"}, {"NEW"}, "CONFIRMED", "ACCEPTED">>,
    <<"start_preparing", {"CONFIRMED"}, {"ACCEPTED"}, "PREPARING", "COOKING">>,
    <<"mark_ready", {"PREPARING"}, {"COOKING"}, "READY", "READY">>,
    <<"complete", ActiveStatuses, {"READY"}, Handoff(o), "COMPLETED">>,
    <<"cancel", {"NEW", "CONFIRMED", "PREPARING"}, {"NEW", "ACCEPTED", "COOKING"},
      "CANCELLED", "CANCELLED">> }

PaidBeforeHandoff(o, next) ==
  (next = "COMPLETED" /\ TypeOf[o] = "TAKEAWAY") => order[o].paid >= Total(o)

(* The ticket's expectedVersion is optional too. *)
TicketChecked(o, checked) ==
  checked => screen.order = o /\ screen.ticket = "current"

KitchenAct(o, action, checked) ==
  \E step \in Steps(o) :
    LET moved == order[o].status # step[4] IN
    /\ step[1] = action
    /\ TRUE \in KitchenShowsPos
    /\ order[o].status \in step[2]
    /\ ticket[o].status \in step[3]
    /\ TicketChecked(o, checked)
    /\ PaidBeforeHandoff(o, step[4])
    /\ order' = [order EXCEPT ![o].status = step[4]]
    /\ ticket' = [ticket EXCEPT ![o].status = step[5]]
    /\ Writes(o, {"ticket"} \cup IF moved THEN {"order"} ELSE {})
    /\ Increments(o, {"ticket"} \cup IF moved THEN {"order"} ELSE {})
    /\ UNCHANGED <<line, stock, table>>

-----------------------------------------------------------------------------
(* Money.                                                                     *)
BeginPayment(o) ==
  /\ payment.order = NoOrder
  /\ order[o].status \notin {"NONE", "CANCELLED"}
  /\ order[o].paid < Total(o)
  /\ payment' = [order |-> o, ticket |-> ticket[o].status, active |-> Active \ {o},
                 written |-> {}]
  /\ UNCHANGED <<order, line, stock, ticket, table, screen>>

(* The payment that covers the total completes the order, unless the kitchen  *)
(* has a ticket of it to hand over.                                           *)
Completes(o, amount, shows) ==
  /\ order[o].paid + amount >= Total(o)
  /\ ~(shows /\ payment.ticket \in OpenTickets)
  /\ order[o].status # "COMPLETED"

(* Rows the completion locks or updates, none of which may have been written  *)
(* since the snapshot.                                                        *)
\* Mutant: the table is freed without locking its row.
LocksButTable == IF payment.ticket \in OpenTickets THEN {"ticket"} ELSE {}
Locks == {"table"} \cup IF payment.ticket \in OpenTickets THEN {"ticket"} ELSE {}

Collect(amount, shows) ==
  LET o == payment.order IN
  /\ o # NoOrder
  /\ amount <= Total(o) - order[o].paid
  /\ ~Completes(o, amount, shows)
  /\ order' = [order EXCEPT ![o].paid = @ + amount]
  /\ payment' = NoPayment
  /\ UNCHANGED <<line, stock, ticket, table, screen>>

CollectAndComplete(amount, shows) ==
  LET o == payment.order IN
  /\ o # NoOrder
  /\ amount <= Total(o) - order[o].paid
  /\ Completes(o, amount, shows)
  /\ payment.written \cap Locks = {}
  /\ order' = [order EXCEPT ![o] = [status |-> "COMPLETED", paid |-> @.paid + amount]]
  /\ ticket' = IF payment.ticket \in OpenTickets
               THEN [ticket EXCEPT ![o].status = "COMPLETED"] ELSE ticket
  /\ table' = Freed(payment.active)
  /\ Increments(o, {"order"})
  /\ payment' = NoPayment
  /\ UNCHANGED <<line, stock>>

(* A serialization failure, a closed shift, a refused method.                 *)
AbortPayment ==
  /\ payment.order # NoOrder
  /\ payment' = NoPayment
  /\ UNCHANGED <<order, line, stock, ticket, table, screen>>

\* Mutant: more is given back than was paid.
RefundUnbounded(o, amount) ==
  /\ order' = [order EXCEPT ![o].paid = @ - amount]
  /\ Writes(o, {"order"})
  /\ UNCHANGED <<line, stock, ticket, table, screen>>

Refund(o, amount) ==
  /\ amount <= order[o].paid
  /\ order' = [order EXCEPT ![o].paid = @ - amount]
  /\ Writes(o, {"order"})
  /\ UNCHANGED <<line, stock, ticket, table, screen>>

Amounts == 1 .. Cardinality(Item)

Next ==
  \/ \E o \in Order : Look(o) \/ OpenOrder(o) \/ BeginPayment(o)
  \/ \E s \in {"AVAILABLE", "OCCUPIED", "RESERVED", "CLEANING"} : SetTable(s)
  \/ \E i \in Item, checked \in BOOLEAN : AddItem(i, checked) \/ EditItem(i, checked)
  \/ \E i \in Item : CancelItem(i)
  \/ \E o \in Order, checked \in BOOLEAN : Confirm(o, checked)
  \/ \E o \in Order, next \in ActiveStatuses \cup Closed, force, checked \in BOOLEAN :
       SetStatus(o, next, force, checked)
  \/ \E o \in Order, a \in {"accept", "start_preparing", "mark_ready", "complete", "cancel"},
        checked \in BOOLEAN : KitchenAct(o, a, checked)
  \/ \E amount \in Amounts, shows \in KitchenShowsPos :
       Collect(amount, shows) \/ CollectAndComplete(amount, shows)
  \/ AbortPayment
  \/ \E o \in Order, amount \in Amounts : Refund(o, amount)

Spec == Init /\ [][Next]_vars

-----------------------------------------------------------------------------
(* Types; a supplement and a base order share the table, and only a payment   *)
(* in flight has a snapshot.                                                  *)
OrderStatuses == ActiveStatuses \cup Closed \cup {"NONE"}
TicketStatuses == OpenTickets \cup Closed \cup {"NONE"}

TypeOK ==
  /\ order \in [Order -> [status : OrderStatuses, paid : Nat]]
  /\ line \in [Item -> {"absent", "active", "cancelled"}]
  /\ stock \in [Item -> {"kept", "used", "returned"}]
  /\ ticket \in [Order -> [status : TicketStatuses, lines : SUBSET Item]]
  /\ table \in {"AVAILABLE", "OCCUPIED", "RESERVED", "CLEANING"}
  /\ screen \in [order : Order \cup {NoOrder}, status : OrderStatuses \cup {Outdated},
                  ticket : {"current", Outdated}]
  /\ payment \in [order : Order \cup {NoOrder}, ticket : TicketStatuses,
                   active : SUBSET Order, written : SUBSET {"ticket", "table"}]

(* While the table has an active order it is OCCUPIED, so no host seats other *)
(* guests there: neither staff, nor a closing that raced with the opening of  *)
(* a supplement, nor a payment whose snapshot is old frees it too early       *)
(* (releaseTableIfNoActiveOrders, tables.updateStatus).  An administrator who *)
(* reopens a closed order breaks this: the table is not taken again.          *)
OccupiedWhileActive == Active # {} => table = "OCCUPIED"

(* The kitchen works on no ticket of an order that is closed, whoever closed  *)
(* it and whatever the payment's snapshot said (syncKitchenTickets, the       *)
(* updateMany of processOrderPayment, applyOrderAction).                      *)
ClosedOrderClosesTicket ==
  \A o \in Order : order[o].status \in Closed => ticket[o].status \notin OpenTickets

(* The net money collected on an order never exceeds its total, though items  *)
(* are cancelled, payments refunded and payments computed from a snapshot.    *)
PaidWithinTotal == \A o \in Order : order[o].paid <= Total(o)

(* An item on an open kitchen ticket has its ingredients taken from stock,    *)
(* exactly once: neither kept nor already returned.                           *)
ListedItemsAreDeducted ==
  \A o \in Order : ticket[o].status \in OpenTickets =>
    \A i \in ticket[o].lines : stock[i] = "used"

(* Money is never taken on a cancelled order, and none stays behind when an   *)
(* order is cancelled, except when the kitchen cancels it: applyOrderAction   *)
(* does not look at payments, updateStatus does.                              *)
CancelledWithoutMoney ==
  [][\A o \in Order : order'[o].status = "CANCELLED" /\ order'[o].paid > 0 =>
       \/ order[o].status = "CANCELLED" /\ order'[o].paid <= order[o].paid
       \/ \E checked \in BOOLEAN : KitchenAct(o, "cancel", checked)]_vars

(* A status change that carries the version its user saw meets the order in   *)
(* the status the user saw: a completion by a payment, a kitchen step or      *)
(* another terminal in between makes it fail (ORDER_VERSION_CONFLICT).        *)
StaffActOnShownStatus ==
  [][\A o \in Order, next \in ActiveStatuses \cup Closed, force \in BOOLEAN :
       SetStatus(o, next, force, TRUE) => screen.status = order[o].status]_vars

(* What an order in preparation contains is on its kitchen ticket.  The guide *)
(* says sending to kitchen creates or updates the ticket; sending again after *)
(* an item was added to an order set back to NEW does not update it.          *)
KitchenSeesEveryItem ==
  \A o \in Order :
    order[o].status \in {"CONFIRMED", "PREPARING", "READY"} /\ ticket[o].status # "NONE" =>
      ItemsOf(o) \subseteq ticket[o].lines

=============================================================================
