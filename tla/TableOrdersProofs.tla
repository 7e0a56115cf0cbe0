-------------------------- MODULE TableOrdersProofs --------------------------
(* Proofs about TableOrders for any orders, items and types, and for either   *)
(* or both values of the setting.                                             *)
EXTENDS TableOrders, FiniteSetTheorems, TLAPS

(* What a write does to the payment in flight: it is lost, or it stays the    *)
(* same payment and remembers the rows.                                       *)
LEMMA WritesLemma ==
  ASSUME TypeOK, NEW o \in Order \cup {NoOrder}, NEW rows \in SUBSET {"order", "ticket", "table"},
         Writes(o, rows)
  PROVE  \/ payment' = NoPayment
         \/ /\ payment'.order = payment.order
            /\ payment'.active = payment.active
            /\ payment'.ticket = payment.ticket
            /\ payment.written \subseteq payment'.written
            /\ "table" \in rows => "table" \in payment'.written
            /\ payment' \in [order : Order \cup {NoOrder}, ticket : TicketStatuses,
                             active : SUBSET Order, written : SUBSET {"ticket", "table"}]
            /\ ~(payment.order = o /\ "order" \in rows)
BY DEF TypeOK, Writes

LEMMA IncrementsLemma ==
  ASSUME TypeOK, NEW o \in Order \cup {NoOrder}, NEW versions, Increments(o, versions)
  PROVE  screen' \in [order : Order \cup {NoOrder}, status : OrderStatuses \cup {Outdated},
                      ticket : {"current", Outdated}]
BY DEF TypeOK, Increments

LEMMA NoPaymentType ==
  NoPayment \in [order : Order \cup {NoOrder}, ticket : TicketStatuses,
                 active : SUBSET Order, written : SUBSET {"ticket", "table"}]
BY DEF NoPayment, TicketStatuses

(* The items of an order are finitely many, so its total is a number.         *)
LEMMA TotalType ==
  ASSUME NEW o \in Order
  PROVE  IsFiniteSet(ItemsOf(o)) /\ Total(o) \in Nat
<1>1. ItemsOf(o) \subseteq Item
  BY DEF ItemsOf
<1> QED
  BY <1>1, OrdersAssumption, FS_Subset, FS_CardinalityType DEF Total, OrdersAssumption

-----------------------------------------------------------------------------
(* Types.                                                                     *)
LEMMA TypeInit == Init => TypeOK
BY OrdersAssumption, NoPaymentType
   DEF Init, TypeOK, OrdersAssumption, OrderStatuses, TicketStatuses, OpenTickets,
       ActiveStatuses, Closed, Outdated

LEMMA ReturnedType ==
  ASSUME TypeOK, NEW items
  PROVE  Returned(items) \in [Item -> {"kept", "used", "returned"}]
BY DEF TypeOK, Returned

LEMMA SyncedType ==
  ASSUME TypeOK, NEW o \in Order, NEW next \in ActiveStatuses \cup Closed
  PROVE  Synced(o, next) \in [Order -> [status : TicketStatuses, lines : SUBSET Item]]
BY DEF TypeOK, Synced, TicketAt, TicketStatuses, OpenTickets, Closed

LEMMA StatusTyped ==
  ASSUME TypeOK, NEW o \in Order, NEW next \in OrderStatuses,
         order' = [order EXCEPT ![o].status = next]
  PROVE  order' \in [Order -> [status : OrderStatuses, paid : Nat]]
<1>1. order \in [Order -> [status : OrderStatuses, paid : Nat]]
  BY DEF TypeOK
<1> QED BY <1>1

LEMMA TypeNext == TypeOK /\ [Next]_vars => TypeOK'
<1> SUFFICES ASSUME TypeOK, [Next]_vars PROVE TypeOK'
  OBVIOUS
<1> USE NoPaymentType
<1>1. CASE UNCHANGED vars
  BY <1>1 DEF vars, TypeOK
<1>2. ASSUME NEW o \in Order, Look(o) PROVE TypeOK'
  BY <1>2 DEF TypeOK, Look, OrderStatuses
<1>3. ASSUME NEW o \in Order, OpenOrder(o) PROVE TypeOK'
  <2>1. order' \in [Order -> [status : OrderStatuses, paid : Nat]]
    <3>1. order' = [order EXCEPT ![o].status = "NEW"]
      BY <1>3 DEF OpenOrder
    <3>2. "NEW" \in OrderStatuses
      BY DEF OrderStatuses, ActiveStatuses
    <3> QED BY <3>1, <3>2, StatusTyped
  <2> QED BY <1>3, <2>1, WritesLemma DEF TypeOK, OpenOrder
<1>4. ASSUME NEW o \in Order, BeginPayment(o) PROVE TypeOK'
  BY <1>4 DEF TypeOK, BeginPayment, Active
<1>5. ASSUME NEW s \in {"AVAILABLE", "OCCUPIED", "RESERVED", "CLEANING"}, SetTable(s)
      PROVE  TypeOK'
  BY <1>5, WritesLemma DEF TypeOK, SetTable
<1>6. ASSUME NEW i \in Item, NEW checked \in BOOLEAN, AddItem(i, checked) PROVE TypeOK'
  <2>1. OrderOf[i] \in Order
    BY OrdersAssumption DEF OrdersAssumption
  <2> QED BY <1>6, <2>1, WritesLemma, IncrementsLemma DEF TypeOK, AddItem
<1>7. ASSUME NEW i \in Item, NEW checked \in BOOLEAN, EditItem(i, checked) PROVE TypeOK'
  <2>1. OrderOf[i] \in Order
    BY OrdersAssumption DEF OrdersAssumption
  <2> QED BY <1>7, <2>1, WritesLemma, IncrementsLemma DEF TypeOK, EditItem
<1>8. ASSUME NEW i \in Item, CancelItem(i) PROVE TypeOK'
  <2> DEFINE o == OrderOf[i]
  <2>1. o \in Order
    BY OrdersAssumption DEF OrdersAssumption
  <2>2. LeftPaid(order[o].paid, Total(o) - 1) \in Nat
    <3>1. ItemsOf(o) # {}
      BY <1>8 DEF CancelItem, ItemsOf
    <3>2. Total(o) # 0
      BY <2>1, <3>1, TotalType, FS_EmptySet DEF Total
    <3>3. Total(o) \in Nat
      BY <2>1, TotalType
    <3>4. Total(o) - 1 \in Nat
      BY <3>2, <3>3
    <3>5. order[o].paid \in Nat
      BY <2>1 DEF TypeOK
    <3> QED BY <3>4, <3>5 DEF LeftPaid
  <2>3. order' \in [Order -> [status : OrderStatuses, paid : Nat]]
    BY <1>8, <2>1, <2>2 DEF TypeOK, CancelItem
  <2>4. ticket' \in [Order -> [status : TicketStatuses, lines : SUBSET Item]]
    <3>1. ticket' = [ticket EXCEPT ![o].lines = @ \ {i}]
      BY <1>8 DEF CancelItem, Unlisted
    <3> HIDE DEF o
    <3> QED BY <2>1, <3>1 DEF TypeOK
  <2>5. screen' \in [order : Order \cup {NoOrder}, status : OrderStatuses \cup {Outdated},
                     ticket : {"current", Outdated}]
    BY <1>8, <2>1, IncrementsLemma DEF CancelItem
  <2>6. payment' \in [order : Order \cup {NoOrder}, ticket : TicketStatuses,
                      active : SUBSET Order, written : SUBSET {"ticket", "table"}]
    BY <1>8, <2>1, WritesLemma DEF CancelItem
  <2> QED BY <1>8, <2>3, <2>4, <2>5, <2>6, ReturnedType DEF TypeOK, CancelItem
<1>9. ASSUME NEW o \in Order, NEW checked \in BOOLEAN, Confirm(o, checked) PROVE TypeOK'
  <2>1. order' \in [Order -> [status : OrderStatuses, paid : Nat]]
    <3>1. /\ order \in [Order -> [status : OrderStatuses, paid : Nat]]
          /\ "CONFIRMED" \in OrderStatuses
      BY DEF TypeOK, OrderStatuses, ActiveStatuses
    <3>2. order' = [order EXCEPT ![o].status = "CONFIRMED"]
      BY <1>9 DEF Confirm
    <3> QED BY <3>1, <3>2
  <2>2. ticket' \in [Order -> [status : TicketStatuses, lines : SUBSET Item]]
    <3>1. /\ ticket \in [Order -> [status : TicketStatuses, lines : SUBSET Item]]
          /\ [status |-> "NEW", lines |-> ItemsOf(o)]
               \in [status : TicketStatuses, lines : SUBSET Item]
      BY DEF TypeOK, TicketStatuses, OpenTickets, ItemsOf
    <3>2. \/ ticket' = ticket
          \/ ticket' = [ticket EXCEPT ![o] = [status |-> "NEW", lines |-> ItemsOf(o)]]
      BY <1>9 DEF Confirm
    <3> QED BY <3>1, <3>2
  <2>3. stock' \in [Item -> {"kept", "used", "returned"}]
    BY <1>9 DEF TypeOK, Confirm
  <2>4. CASE order[o].status = "NEW"
    BY <1>9, <2>1, <2>2, <2>3, <2>4, WritesLemma, IncrementsLemma DEF TypeOK, Confirm
  <2>5. CASE order[o].status # "NEW"
    BY <1>9, <2>1, <2>2, <2>3, <2>5 DEF TypeOK, Confirm
  <2> QED BY <2>4, <2>5
<1>10. ASSUME NEW o \in Order, NEW next \in ActiveStatuses \cup Closed,
              NEW force \in BOOLEAN, NEW checked \in BOOLEAN,
              SetStatus(o, next, force, checked)
       PROVE  TypeOK'
  <2>1. order' \in [Order -> [status : OrderStatuses, paid : Nat]]
    BY <1>10 DEF TypeOK, SetStatus, OrderStatuses
  <2>2. ticket' \in [Order -> [status : TicketStatuses, lines : SUBSET Item]]
    BY <1>10, SyncedType DEF SetStatus
  <2>3. stock' \in [Item -> {"kept", "used", "returned"}]
    BY <1>10, ReturnedType DEF TypeOK, SetStatus
  <2>4. table' \in {"AVAILABLE", "OCCUPIED", "RESERVED", "CLEANING"}
    BY <1>10 DEF TypeOK, SetStatus, Freed
  <2>5. payment' \in [order : Order \cup {NoOrder}, ticket : TicketStatuses,
                      active : SUBSET Order, written : SUBSET {"ticket", "table"}]
    BY <1>10, WritesLemma DEF SetStatus, SyncedRow, FreedRow
  <2>6. screen' \in [order : Order \cup {NoOrder}, status : OrderStatuses \cup {Outdated},
                     ticket : {"current", Outdated}]
    BY <1>10, IncrementsLemma DEF SetStatus
  <2> QED BY <1>10, <2>1, <2>2, <2>3, <2>4, <2>5, <2>6 DEF TypeOK, SetStatus
<1>11. ASSUME NEW o \in Order, NEW a, NEW c \in BOOLEAN, KitchenAct(o, a, c) PROVE TypeOK'
  <2>1. PICK step \in Steps(o) :
          /\ order' = [order EXCEPT ![o].status = step[4]]
          /\ ticket' = [ticket EXCEPT ![o].status = step[5]]
          /\ Writes(o, {"ticket"} \cup IF order[o].status # step[4] THEN {"order"} ELSE {})
          /\ Increments(o, {"ticket"} \cup IF order[o].status # step[4] THEN {"order"} ELSE {})
          /\ UNCHANGED <<line, stock, table>>
    BY <1>11 DEF KitchenAct
  <2>2. step[4] \in OrderStatuses /\ step[5] \in TicketStatuses
    BY <2>1 DEF Steps, Handoff, OrderStatuses, ActiveStatuses, Closed, TicketStatuses, OpenTickets
  <2>3. order' \in [Order -> [status : OrderStatuses, paid : Nat]]
    BY <2>1, <2>2 DEF TypeOK
  <2>4. ticket' \in [Order -> [status : TicketStatuses, lines : SUBSET Item]]
    <3>1. ticket \in [Order -> [status : TicketStatuses, lines : SUBSET Item]]
      BY DEF TypeOK
    <3>2. ticket' = [ticket EXCEPT ![o].status = step[5]]
      BY <2>1
    <3> QED BY <2>2, <3>1, <3>2
  <2> QED BY <2>1, <2>3, <2>4, WritesLemma, IncrementsLemma DEF TypeOK
<1>12. ASSUME NEW amount \in Amounts, NEW shows \in KitchenShowsPos, Collect(amount, shows)
       PROVE  TypeOK'
  <2>1. amount \in Nat
    BY DEF Amounts
  <2>2. order' \in [Order -> [status : OrderStatuses, paid : Nat]]
    BY <1>12, <2>1 DEF TypeOK, Collect
  <2> QED BY <1>12, <2>2 DEF TypeOK, Collect
<1>13. ASSUME NEW amount \in Amounts, NEW shows \in KitchenShowsPos,
              CollectAndComplete(amount, shows)
       PROVE  TypeOK'
  <2>1. amount \in Nat /\ payment.order \in Order
    BY <1>13 DEF Amounts, TypeOK, CollectAndComplete
  <2>2. order' \in [Order -> [status : OrderStatuses, paid : Nat]]
    <3>1. /\ order \in [Order -> [status : OrderStatuses, paid : Nat]]
          /\ "COMPLETED" \in OrderStatuses
      BY DEF TypeOK, OrderStatuses, Closed
    <3>2. order' = [order EXCEPT ![payment.order] =
                      [status |-> "COMPLETED", paid |-> @.paid + amount]]
      BY <1>13 DEF CollectAndComplete
    <3>3. order[payment.order].paid + amount \in Nat
      BY <2>1, <3>1
    <3> QED BY <2>1, <3>1, <3>2, <3>3
  <2>3. ticket' \in [Order -> [status : TicketStatuses, lines : SUBSET Item]]
    <3>1. /\ ticket \in [Order -> [status : TicketStatuses, lines : SUBSET Item]]
          /\ "COMPLETED" \in TicketStatuses
      BY DEF TypeOK, TicketStatuses, Closed
    <3>2. \/ ticket' = ticket
          \/ ticket' = [ticket EXCEPT ![payment.order].status = "COMPLETED"]
      BY <1>13 DEF CollectAndComplete
    <3> QED BY <2>1, <3>1, <3>2
  <2>4. screen' \in [order : Order \cup {NoOrder}, status : OrderStatuses \cup {Outdated},
                     ticket : {"current", Outdated}]
    BY <1>13, <2>1, IncrementsLemma DEF CollectAndComplete
  <2>5. table' \in {"AVAILABLE", "OCCUPIED", "RESERVED", "CLEANING"}
    BY <1>13 DEF CollectAndComplete, Freed, TypeOK
  <2> QED BY <1>13, <2>2, <2>3, <2>4, <2>5 DEF TypeOK, CollectAndComplete
<1>14. CASE AbortPayment
  BY <1>14 DEF TypeOK, AbortPayment
<1>15. ASSUME NEW o \in Order, NEW amount \in Amounts, Refund(o, amount) PROVE TypeOK'
  <2>1. amount \in Nat
    BY DEF Amounts
  <2>2. order' \in [Order -> [status : OrderStatuses, paid : Nat]]
    BY <1>15, <2>1 DEF TypeOK, Refund
  <2> QED BY <1>15, <2>2, WritesLemma DEF TypeOK, Refund
<1> QED
  BY <1>1, <1>2, <1>3, <1>4, <1>5, <1>6, <1>7, <1>8, <1>9, <1>10, <1>11, <1>12, <1>13,
     <1>14, <1>15 DEF Next

(* The state stays well typed, money included: no sequence of payments,       *)
(* refunds and item cancellations makes what was collected negative.          *)
THEOREM TypeCorrect == Spec => []TypeOK
BY TypeInit, TypeNext, PTL DEF Spec

-----------------------------------------------------------------------------
(* The table.  A payment that frees it counted the active orders in an old    *)
(* snapshot; this is safe because an order can only have become active since  *)
(* by writing the table's row, which the payment would notice.                *)
SnapshotCoversTable ==
  payment.order # NoOrder /\ "table" \notin payment.written =>
    Active \ {payment.order} \subseteq payment.active

TableInv == TypeOK /\ OccupiedWhileActive /\ SnapshotCoversTable

(* A step that makes no order active, keeps the table and writes rows.        *)
LEMMA TableKept ==
  ASSUME TableInv, NEW o \in Order \cup {NoOrder}, NEW rows \in SUBSET {"order", "ticket", "table"},
         Writes(o, rows), Active' \subseteq Active, table' = table
  PROVE  OccupiedWhileActive' /\ SnapshotCoversTable'
<1>1. OccupiedWhileActive'
  BY DEF TableInv, OccupiedWhileActive
<1>2. SnapshotCoversTable'
  BY WritesLemma DEF TableInv, SnapshotCoversTable, NoPayment
<1> QED BY <1>1, <1>2

LEMMA TableInit == Init => TableInv
<1> SUFFICES ASSUME Init PROVE TableInv
  OBVIOUS
<1>1. Active = {}
  BY DEF Init, Active, ActiveStatuses
<1>2. payment.order = NoOrder
  BY DEF Init, NoPayment
<1> QED BY <1>1, <1>2, TypeInit DEF TableInv, OccupiedWhileActive, SnapshotCoversTable

LEMMA TableNext == ASSUME ~Admin PROVE TableInv /\ [Next]_vars => TableInv'
<1> SUFFICES ASSUME TableInv, [Next]_vars PROVE TableInv'
  OBVIOUS
<1>0. TypeOK /\ TypeOK'
  BY TypeNext DEF TableInv
<1> SUFFICES OccupiedWhileActive' /\ SnapshotCoversTable'
  BY <1>0 DEF TableInv
<1> DEFINE Goal == OccupiedWhileActive' /\ SnapshotCoversTable'
<1>1. CASE UNCHANGED vars
  BY <1>1 DEF vars, TableInv, OccupiedWhileActive, SnapshotCoversTable, Active
<1>2. ASSUME NEW o \in Order, Look(o) PROVE Goal
  BY <1>2 DEF Look, TableInv, OccupiedWhileActive, SnapshotCoversTable, Active
<1>3. ASSUME NEW o \in Order, OpenOrder(o) PROVE Goal
  <2>1. OccupiedWhileActive'
    BY <1>3 DEF OpenOrder, OccupiedWhileActive
  <2>2. payment' = NoPayment \/ "table" \in payment'.written
    BY <1>0, <1>3, WritesLemma DEF OpenOrder
  <2> QED BY <2>1, <2>2 DEF SnapshotCoversTable, NoPayment
<1>4. ASSUME NEW o \in Order, BeginPayment(o) PROVE Goal
  <2>1. Active' = Active
    BY <1>4 DEF BeginPayment, Active
  <2>2. payment'.order = o /\ payment'.active = Active \ {o}
    BY <1>4 DEF BeginPayment
  <2> QED BY <1>4, <2>1, <2>2 DEF BeginPayment, TableInv, OccupiedWhileActive, SnapshotCoversTable
<1>5. ASSUME NEW s \in {"AVAILABLE", "OCCUPIED", "RESERVED", "CLEANING"}, SetTable(s) PROVE Goal
  <2>1. Active' = Active
    BY <1>5 DEF SetTable, Active
  <2>2. payment' = NoPayment \/ "table" \in payment'.written
    BY <1>0, <1>5, WritesLemma DEF SetTable
  <2> QED BY <1>5, <2>1, <2>2 DEF SetTable, OccupiedWhileActive, SnapshotCoversTable, NoPayment
<1>6. ASSUME NEW i \in Item, NEW checked \in BOOLEAN, AddItem(i, checked) \/ EditItem(i, checked)
      PROVE  Goal
  <2>1. OrderOf[i] \in Order
    BY OrdersAssumption DEF OrdersAssumption
  <2>2. Active' = Active
    BY <1>6 DEF AddItem, EditItem, Active
  <2> QED BY <1>6, <2>1, <2>2, TableKept DEF AddItem, EditItem
<1>7. ASSUME NEW i \in Item, CancelItem(i) PROVE Goal
  <2>1. OrderOf[i] \in Order
    BY OrdersAssumption DEF OrdersAssumption
  <2>2. Active' = Active
    BY <1>0, <1>7, <2>1 DEF CancelItem, Active, TypeOK
  <2> QED BY <1>7, <2>1, <2>2, TableKept DEF CancelItem
<1>8. ASSUME NEW o \in Order, NEW checked \in BOOLEAN, Confirm(o, checked) PROVE Goal
  <2>1. Active' = Active
    BY <1>0, <1>8 DEF Confirm, Active, ActiveStatuses, TypeOK
  <2>2. CASE order[o].status = "NEW"
    BY <1>8, <2>1, <2>2, TableKept DEF Confirm
  <2>3. CASE order[o].status # "NEW"
    BY <1>8, <2>1, <2>3 DEF Confirm, TableInv, OccupiedWhileActive, SnapshotCoversTable
  <2> QED BY <2>2, <2>3
<1>9. ASSUME NEW o \in Order, NEW next \in ActiveStatuses \cup Closed,
             NEW force \in BOOLEAN, NEW checked \in BOOLEAN, SetStatus(o, next, force, checked)
      PROVE  Goal
  <2>1. o \in Active
    BY <1>0, <1>9 DEF SetStatus, Permitted, Active, OrderStatuses, TypeOK
  <2>2. order' = [order EXCEPT ![o].status = next]
    BY <1>9 DEF SetStatus
  <2>3. Active' = IF next \in Closed THEN Active \ {o} ELSE Active
    BY <1>0, <2>1, <2>2 DEF Active, ActiveStatuses, Closed, TypeOK
  <2> DEFINE rows == {"order"} \cup SyncedRow(o, next)
                       \cup (IF next \in Closed THEN FreedRow(Active \ {o}) ELSE {})
  <2>4. Writes(o, rows) /\ rows \in SUBSET {"order", "ticket", "table"} /\ "order" \in rows
    BY <1>9 DEF SetStatus, SyncedRow, FreedRow
  <2>5. table' = IF next \in Closed THEN Freed(Active \ {o}) ELSE table
    BY <1>9 DEF SetStatus
  <2>6. OccupiedWhileActive'
    BY <2>1, <2>3, <2>5 DEF TableInv, OccupiedWhileActive, Freed
  <2> HIDE DEF rows
  <2>7. SnapshotCoversTable'
    BY <1>0, <2>3, <2>4, WritesLemma DEF TableInv, SnapshotCoversTable, NoPayment
  <2> QED BY <2>6, <2>7
<1>10. ASSUME NEW o \in Order, NEW a, NEW c \in BOOLEAN, KitchenAct(o, a, c) PROVE Goal
  <2>1. PICK step \in Steps(o) :
          /\ order[o].status \in step[2]
          /\ order' = [order EXCEPT ![o].status = step[4]]
          /\ Writes(o, {"ticket"} \cup IF order[o].status # step[4] THEN {"order"} ELSE {})
          /\ table' = table
    BY <1>10 DEF KitchenAct
  <2>2. step[2] \subseteq ActiveStatuses
    BY DEF Steps, ActiveStatuses
  <2>3. Active' \subseteq Active
    BY <1>0, <2>1, <2>2 DEF Active, TypeOK
  <2> QED BY <2>1, <2>3, TableKept
<1>11. ASSUME NEW amount \in Amounts, NEW shows \in KitchenShowsPos, Collect(amount, shows)
       PROVE  Goal
  <2>1. payment.order \in Order
    BY <1>0, <1>11 DEF Collect, TypeOK
  <2>2. Active' = Active
    BY <1>0, <1>11, <2>1 DEF Collect, Active, TypeOK
  <2> QED BY <1>11, <2>2 DEF Collect, TableInv, OccupiedWhileActive, SnapshotCoversTable, NoPayment
<1>12. ASSUME NEW amount \in Amounts, NEW shows \in KitchenShowsPos,
              CollectAndComplete(amount, shows)
       PROVE  Goal
  <2> DEFINE o == payment.order
  <2>1. o \in Order
    BY <1>0, <1>12 DEF CollectAndComplete, TypeOK
  <2>2. "table" \notin payment.written
    BY <1>12 DEF CollectAndComplete, Locks
  <2>3. Active \ {o} \subseteq payment.active
    BY <1>12, <2>2 DEF CollectAndComplete, TableInv, SnapshotCoversTable
  <2>4. order' = [order EXCEPT ![o] = [status |-> "COMPLETED", paid |-> @.paid + amount]]
    BY <1>12 DEF CollectAndComplete
  <2>5. Active' = Active \ {o}
    BY <1>0, <2>1, <2>4 DEF Active, ActiveStatuses, TypeOK
  <2>6. table' = Freed(payment.active) /\ payment' = NoPayment
    BY <1>12 DEF CollectAndComplete
  <2>7. OccupiedWhileActive'
    BY <2>3, <2>5, <2>6 DEF TableInv, OccupiedWhileActive, Freed
  <2> QED BY <2>6, <2>7 DEF SnapshotCoversTable, NoPayment
<1>13. CASE AbortPayment
  BY <1>13 DEF AbortPayment, TableInv, OccupiedWhileActive, SnapshotCoversTable, NoPayment, Active
<1>14. ASSUME NEW o \in Order, NEW amount \in Amounts, Refund(o, amount) PROVE Goal
  <2>1. Active' = Active
    BY <1>0, <1>14 DEF Refund, Active, TypeOK
  <2> QED BY <1>14, <2>1, TableKept DEF Refund
<1> QED
  BY <1>1, <1>2, <1>3, <1>4, <1>5, <1>6, <1>7, <1>8, <1>9, <1>10, <1>11, <1>12, <1>13,
     <1>14 DEF Next

(* While nobody forces statuses as an administrator, a table with an active   *)
(* order is OCCUPIED: no closing, payment or host frees it too early.         *)
THEOREM TableStaysOccupied ==
  ASSUME ~Admin PROVE Spec => []OccupiedWhileActive
<1>1. TableInv => OccupiedWhileActive
  BY DEF TableInv
<1> QED BY <1>1, TableInit, TableNext, PTL DEF Spec

-----------------------------------------------------------------------------
(* Tickets.  An order in preparation has a ticket, so a confirmation opens    *)
(* one only for an order that was NEW; it then writes the order's row, and a  *)
(* payment that saw no open ticket is lost.                                   *)
PreparedHasTicket ==
  \A o \in Order : order[o].status \in ActiveStatuses \ {"NEW"} => ticket[o].status # "NONE"

SnapshotSeesTicket ==
  payment.order # NoOrder /\ ticket[payment.order].status \in OpenTickets =>
    payment.ticket \in OpenTickets

TicketInv == TypeOK /\ ClosedOrderClosesTicket /\ PreparedHasTicket /\ SnapshotSeesTicket

(* A write keeps the payment's view if no closed ticket opens without it.     *)
LEMMA SnapshotKept ==
  ASSUME TypeOK, SnapshotSeesTicket,
         NEW o \in Order \cup {NoOrder}, NEW rows \in SUBSET {"order", "ticket", "table"},
         Writes(o, rows),
         \A q \in Order : ticket'[q].status \in OpenTickets =>
           ticket[q].status \in OpenTickets \/ (q = o /\ "order" \in rows)
  PROVE  SnapshotSeesTicket'
<1>1. CASE payment' = NoPayment
  BY <1>1 DEF SnapshotSeesTicket, NoPayment
<1>2. CASE payment' # NoPayment
  <2>1. /\ payment'.order = payment.order
        /\ payment'.ticket = payment.ticket
        /\ ~(payment.order = o /\ "order" \in rows)
    BY <1>2, WritesLemma
  <2>2. payment.order \in Order \cup {NoOrder}
    BY DEF TypeOK
  <2> QED BY <2>1, <2>2 DEF SnapshotSeesTicket
<1> QED BY <1>1, <1>2

LEMMA TicketInit == Init => TicketInv
BY TypeInit, OrdersAssumption
   DEF Init, TicketInv, ClosedOrderClosesTicket, PreparedHasTicket, SnapshotSeesTicket,
       NoPayment, ActiveStatuses, Closed, OpenTickets

LEMMA TicketNext == ASSUME ~Admin PROVE TicketInv /\ [Next]_vars => TicketInv'
<1> SUFFICES ASSUME TicketInv, [Next]_vars PROVE TicketInv'
  OBVIOUS
<1>0. TypeOK /\ TypeOK'
  BY TypeNext DEF TicketInv
<1> DEFINE Goal == ClosedOrderClosesTicket' /\ PreparedHasTicket' /\ SnapshotSeesTicket'
<1> SUFFICES Goal
  BY <1>0 DEF TicketInv
<1>1. CASE UNCHANGED vars
  BY <1>1 DEF vars, TicketInv, ClosedOrderClosesTicket, PreparedHasTicket, SnapshotSeesTicket
<1>2. ASSUME NEW o \in Order, Look(o) PROVE Goal
  BY <1>2 DEF Look, TicketInv, ClosedOrderClosesTicket, PreparedHasTicket, SnapshotSeesTicket
<1>3. ASSUME NEW o \in Order, OpenOrder(o) PROVE Goal
  <2>1. order' = [order EXCEPT ![o].status = "NEW"] /\ ticket' = ticket
    BY <1>3 DEF OpenOrder
  <2>2. ClosedOrderClosesTicket' /\ PreparedHasTicket'
    BY <1>0, <2>1 DEF TypeOK, TicketInv, ClosedOrderClosesTicket, PreparedHasTicket, Closed,
                      ActiveStatuses
  <2>3. SnapshotSeesTicket'
    BY <1>3, <2>1, SnapshotKept DEF OpenOrder, TicketInv
  <2> QED BY <2>2, <2>3
<1>4. ASSUME NEW o \in Order, BeginPayment(o) PROVE Goal
  <2>1. SnapshotSeesTicket'
    BY <1>4 DEF BeginPayment, SnapshotSeesTicket
  <2> QED BY <1>4, <2>1 DEF BeginPayment, TicketInv, ClosedOrderClosesTicket, PreparedHasTicket
<1>5. ASSUME NEW s \in {"AVAILABLE", "OCCUPIED", "RESERVED", "CLEANING"}, SetTable(s) PROVE Goal
  <2>1. SnapshotSeesTicket'
    BY <1>5, SnapshotKept DEF SetTable, TicketInv
  <2> QED BY <1>5, <2>1 DEF SetTable, TicketInv, ClosedOrderClosesTicket, PreparedHasTicket
<1>6. ASSUME NEW i \in Item, NEW checked \in BOOLEAN, AddItem(i, checked) \/ EditItem(i, checked)
      PROVE  Goal
  <2>1. OrderOf[i] \in Order
    BY OrdersAssumption DEF OrdersAssumption
  <2>2. SnapshotSeesTicket'
    BY <1>6, <2>1, SnapshotKept DEF AddItem, EditItem, TicketInv
  <2> QED BY <1>6, <2>2 DEF AddItem, EditItem, TicketInv, ClosedOrderClosesTicket, PreparedHasTicket
<1>7. ASSUME NEW i \in Item, CancelItem(i) PROVE Goal
  <2> DEFINE o == OrderOf[i]
  <2>1. o \in Order
    BY OrdersAssumption DEF OrdersAssumption
  <2>2. \A q \in Order : order'[q].status = order[q].status /\ ticket'[q].status = ticket[q].status
    BY <1>0, <1>7, <2>1 DEF CancelItem, Unlisted, TypeOK
  <2>3. SnapshotSeesTicket'
    BY <1>7, <2>1, <2>2, SnapshotKept DEF CancelItem, TicketInv
  <2> QED BY <2>2, <2>3 DEF TicketInv, ClosedOrderClosesTicket, PreparedHasTicket
<1>8. ASSUME NEW o \in Order, NEW checked \in BOOLEAN, Confirm(o, checked) PROVE Goal
  <2>1. /\ order[o].status \in {"NEW", "CONFIRMED"}
        /\ order' = [order EXCEPT ![o].status = "CONFIRMED"]
    BY <1>8 DEF Confirm
  <2>2. \/ ticket[o].status \in OpenTickets /\ ticket' = ticket
        \/ /\ ticket[o].status = "NONE"
           /\ ticket' = [ticket EXCEPT ![o] = [status |-> "NEW", lines |-> ItemsOf(o)]]
    BY <1>8 DEF Confirm
  <2>3. ClosedOrderClosesTicket'
    BY <1>0, <2>1, <2>2 DEF TypeOK, TicketInv, ClosedOrderClosesTicket, Closed
  <2>4. PreparedHasTicket'
    BY <1>0, <2>1, <2>2 DEF TypeOK, TicketInv, PreparedHasTicket, OpenTickets
  <2>5. CASE order[o].status = "NEW"
    <3>1. Writes(o, {"order"})
      BY <1>8, <2>5 DEF Confirm
    <3>2. \A q \in Order : ticket'[q].status \in OpenTickets =>
            ticket[q].status \in OpenTickets \/ q = o
      BY <1>0, <2>2 DEF TypeOK
    <3> QED BY <2>3, <2>4, <3>1, <3>2, SnapshotKept DEF TicketInv
  <2>6. CASE order[o].status # "NEW"
    <3>1. ticket' = ticket
      BY <2>1, <2>2, <2>6 DEF TicketInv, PreparedHasTicket, ActiveStatuses
    <3> QED BY <1>8, <2>3, <2>4, <2>6, <3>1 DEF Confirm, TicketInv, SnapshotSeesTicket
  <2> QED BY <2>5, <2>6
<1>9. ASSUME NEW o \in Order, NEW next \in ActiveStatuses \cup Closed,
             NEW force \in BOOLEAN, NEW checked \in BOOLEAN, SetStatus(o, next, force, checked)
      PROVE  Goal
  <2>1. /\ order[o].status \in ActiveStatuses
        /\ order[o].status = "NEW" => next = "CANCELLED"
    BY <1>0, <1>9 DEF SetStatus, Permitted, OrderStatuses, TypeOK
  <2>2. order' = [order EXCEPT ![o].status = next] /\ ticket' = Synced(o, next)
    BY <1>9 DEF SetStatus
  <2>3. /\ \A q \in Order \ {o} : ticket'[q] = ticket[q]
        /\ ticket[o].status \notin OpenTickets => ticket'[o].status = ticket[o].status
        /\ ticket[o].status \in OpenTickets =>
             /\ ticket'[o].status # "NONE"
             /\ next \in Closed => ticket'[o].status \notin OpenTickets
    BY <1>0, <2>2 DEF Synced, TicketAt, TypeOK, OpenTickets, Closed
  <2>4. ClosedOrderClosesTicket'
    BY <1>0, <2>2, <2>3 DEF TypeOK, TicketInv, ClosedOrderClosesTicket
  <2>5. PreparedHasTicket'
    BY <1>0, <2>1, <2>2, <2>3 DEF TypeOK, TicketInv, PreparedHasTicket, ActiveStatuses, OpenTickets
  <2> DEFINE rows == {"order"} \cup SyncedRow(o, next)
                       \cup (IF next \in Closed THEN FreedRow(Active \ {o}) ELSE {})
  <2>6. Writes(o, rows) /\ rows \in SUBSET {"order", "ticket", "table"} /\ "order" \in rows
    BY <1>9 DEF SetStatus, SyncedRow, FreedRow
  <2> HIDE DEF rows
  <2>7. SnapshotSeesTicket'
    BY <2>3, <2>6, SnapshotKept DEF TicketInv
  <2> QED BY <2>4, <2>5, <2>7
<1>10. ASSUME NEW o \in Order, NEW a, NEW c \in BOOLEAN, KitchenAct(o, a, c) PROVE Goal
  <2>1. PICK step \in Steps(o) :
          /\ order[o].status \in step[2]
          /\ ticket[o].status \in step[3]
          /\ order' = [order EXCEPT ![o].status = step[4]]
          /\ ticket' = [ticket EXCEPT ![o].status = step[5]]
          /\ Writes(o, {"ticket"} \cup IF order[o].status # step[4] THEN {"order"} ELSE {})
    BY <1>10 DEF KitchenAct
  <2>2. /\ step[3] \subseteq OpenTickets
        /\ step[4] \in Closed => step[5] \notin OpenTickets
        /\ step[5] # "NONE"
    BY DEF Steps, Handoff, Closed, OpenTickets
  <2>3. ClosedOrderClosesTicket' /\ PreparedHasTicket'
    BY <1>0, <2>1, <2>2 DEF TypeOK, TicketInv, ClosedOrderClosesTicket, PreparedHasTicket
  <2> DEFINE rows == {"ticket"} \cup IF order[o].status # step[4] THEN {"order"} ELSE {}
  <2>4. Writes(o, rows) /\ rows \in SUBSET {"order", "ticket", "table"}
    BY <2>1
  <2>5. \A q \in Order :
          ticket'[q].status \in OpenTickets => ticket[q].status \in OpenTickets
    BY <2>1, <2>2 DEF TypeOK
  <2> HIDE DEF rows
  <2>6. SnapshotSeesTicket'
    BY <1>0, <2>4, <2>5, SnapshotKept DEF TicketInv
  <2> QED BY <2>3, <2>6
<1>11. ASSUME NEW amount \in Amounts, NEW shows \in KitchenShowsPos, Collect(amount, shows)
       PROVE  Goal
  <2>1. payment.order \in Order
    BY <1>0, <1>11 DEF Collect, TypeOK
  <2>2. \A q \in Order : order'[q].status = order[q].status
    BY <1>0, <1>11, <2>1 DEF Collect, TypeOK
  <2> QED BY <1>11, <2>2 DEF Collect, TicketInv, ClosedOrderClosesTicket, PreparedHasTicket,
                             SnapshotSeesTicket, NoPayment
<1>12. ASSUME NEW amount \in Amounts, NEW shows \in KitchenShowsPos,
              CollectAndComplete(amount, shows)
       PROVE  Goal
  <2> DEFINE o == payment.order
  <2>1. o \in Order /\ o # NoOrder
    BY <1>0, <1>12 DEF CollectAndComplete, TypeOK
  <2>2. /\ order' = [order EXCEPT ![o] = [status |-> "COMPLETED", paid |-> @.paid + amount]]
        /\ ticket' = IF payment.ticket \in OpenTickets
                     THEN [ticket EXCEPT ![o].status = "COMPLETED"] ELSE ticket
        /\ payment' = NoPayment
    BY <1>12 DEF CollectAndComplete
  <2>3. ticket'[o].status \notin OpenTickets /\ \A q \in Order \ {o} : ticket'[q] = ticket[q]
    BY <1>0, <2>1, <2>2 DEF TicketInv, SnapshotSeesTicket, TypeOK, OpenTickets
  <2>4. ClosedOrderClosesTicket' /\ PreparedHasTicket'
    BY <1>0, <2>1, <2>2, <2>3 DEF TypeOK, TicketInv, ClosedOrderClosesTicket, PreparedHasTicket,
                                  ActiveStatuses
  <2> QED BY <2>2, <2>4 DEF SnapshotSeesTicket, NoPayment
<1>13. CASE AbortPayment
  BY <1>13 DEF AbortPayment, TicketInv, ClosedOrderClosesTicket, PreparedHasTicket,
               SnapshotSeesTicket, NoPayment
<1>14. ASSUME NEW o \in Order, NEW amount \in Amounts, Refund(o, amount) PROVE Goal
  <2>1. \A q \in Order : order'[q].status = order[q].status /\ ticket' = ticket
    BY <1>0, <1>14 DEF Refund, TypeOK
  <2>2. SnapshotSeesTicket'
    BY <1>14, SnapshotKept DEF Refund, TicketInv
  <2> QED BY <2>1, <2>2 DEF TicketInv, ClosedOrderClosesTicket, PreparedHasTicket
<1> QED
  BY <1>1, <1>2, <1>3, <1>4, <1>5, <1>6, <1>7, <1>8, <1>9, <1>10, <1>11, <1>12, <1>13,
     <1>14 DEF Next

(* While nobody forces statuses as an administrator, a closed order has no    *)
(* open ticket: the kitchen never works for an order that is over.            *)
THEOREM ClosedOrdersCloseTickets ==
  ASSUME ~Admin PROVE Spec => []ClosedOrderClosesTicket
<1>1. TicketInv => ClosedOrderClosesTicket
  BY DEF TicketInv
<1> QED BY <1>1, TicketInit, TicketNext, PTL DEF Spec

-----------------------------------------------------------------------------
(* The money.                                                                 *)

(* An operation that takes no item off an order keeps its total's bound.      *)
LEMMA TotalGrows ==
  ASSUME TypeOK, NEW o \in Order, ItemsOf(o) \subseteq ItemsOf(o)', IsFiniteSet(ItemsOf(o)')
  PROVE  /\ Total(o) \in Nat /\ Total(o)' \in Nat
         /\ Total(o) <= Total(o)'
<1>1. Total(o)' = Cardinality(ItemsOf(o)')
  BY DEF Total
<1> QED BY <1>1, TotalType, FS_Subset, FS_CardinalityType DEF Total

LEMMA ItemsFinite ==
  ASSUME NEW o \in Order
  PROVE  IsFiniteSet(ItemsOf(o)')
<1>1. ItemsOf(o)' \subseteq Item
  BY DEF ItemsOf
<1> QED
  BY <1>1, OrdersAssumption, FS_Subset DEF OrdersAssumption

(* Money that does not grow on orders that lose no item stays within totals.  *)
LEMMA PaidKept ==
  ASSUME TypeOK, TypeOK', PaidWithinTotal,
         \A o \in Order : ItemsOf(o) \subseteq ItemsOf(o)',
         \A o \in Order : order'[o].paid <= order[o].paid
  PROVE  PaidWithinTotal'
<1> SUFFICES ASSUME NEW o \in Order PROVE order'[o].paid <= Total(o)'
  BY DEF PaidWithinTotal
<1>1. Total(o) \in Nat /\ Total(o)' \in Nat /\ Total(o) <= Total(o)'
  BY TotalGrows, ItemsFinite
<1>2. order[o].paid \in Nat /\ order'[o].paid \in Nat
  BY DEF TypeOK
<1> QED BY <1>1, <1>2 DEF PaidWithinTotal

(* A status change leaves the money alone.                                    *)
LEMMA StatusMoved ==
  ASSUME TypeOK, NEW o \in Order, NEW next, order' = [order EXCEPT ![o].status = next]
  PROVE  \A q \in Order : order'[q].paid <= order[q].paid
<1>1. \A q \in Order : order'[q].paid = order[q].paid /\ order[q].paid \in Nat
  BY DEF TypeOK
<1> QED BY <1>1

LEMMA PaidInit == Init => PaidWithinTotal
<1> SUFFICES ASSUME Init, NEW o \in Order PROVE order[o].paid <= Total(o)
  BY DEF PaidWithinTotal
<1>1. order[o].paid = 0
  BY DEF Init
<1> QED BY <1>1, TotalType

LEMMA PaidNext == TypeOK /\ PaidWithinTotal /\ [Next]_vars => PaidWithinTotal'
<1> SUFFICES ASSUME TypeOK, PaidWithinTotal, [Next]_vars PROVE PaidWithinTotal'
  OBVIOUS
<1>0. TypeOK'
  BY TypeNext
<1>1. CASE UNCHANGED line /\ \A o \in Order : order'[o].paid <= order[o].paid
  <2>1. \A o \in Order : ItemsOf(o)' = ItemsOf(o)
    BY <1>1 DEF ItemsOf
  <2> QED BY <1>0, <1>1, <2>1, PaidKept
<1>2. ASSUME NEW i \in Item, NEW checked \in BOOLEAN, AddItem(i, checked) PROVE PaidWithinTotal'
  <2>1. \A o \in Order : ItemsOf(o) \subseteq ItemsOf(o)'
    BY <1>2 DEF AddItem, ItemsOf, TypeOK
  <2>2. \A o \in Order : order'[o].paid <= order[o].paid
    BY <1>2 DEF AddItem, TypeOK
  <2> QED BY <1>0, <2>1, <2>2, PaidKept
<1>3. ASSUME NEW i \in Item, CancelItem(i) PROVE PaidWithinTotal'
  <2> DEFINE o == OrderOf[i]
  <2>1. o \in Order /\ i \in ItemsOf(o)
    BY <1>3, OrdersAssumption DEF OrdersAssumption, CancelItem, ItemsOf
  <2>2. line' = [line EXCEPT ![i] = "cancelled"]
    BY <1>3 DEF CancelItem
  <2>3. ItemsOf(o)' = ItemsOf(o) \ {i}
    BY <2>2 DEF ItemsOf, TypeOK
  <2>4. Total(o)' = Total(o) - 1
    <3>1. Total(o)' = Cardinality(ItemsOf(o)')
      BY DEF Total
    <3> QED BY <2>1, <2>3, <3>1, TotalType, FS_RemoveElement DEF Total
  <2>5. \A q \in Order \ {o} : ItemsOf(q)' = ItemsOf(q)
    BY <2>2 DEF ItemsOf, TypeOK
  <2>6. order' = [order EXCEPT ![o].paid = LeftPaid(@, Total(o) - 1)]
    BY <1>3 DEF CancelItem
  <2>7. order'[o].paid <= Total(o)'
    <3>1. order'[o].paid = LeftPaid(order[o].paid, Total(o) - 1)
      BY <2>1, <2>6 DEF TypeOK
    <3>2. order[o].paid \in Nat /\ Total(o) \in Nat
      BY <2>1, TotalType DEF TypeOK
    <3> QED BY <2>4, <3>1, <3>2 DEF LeftPaid
  <2>8. \A q \in Order \ {o} : order'[q].paid <= Total(q)'
    <3> SUFFICES ASSUME NEW q \in Order \ {o} PROVE order'[q].paid <= Total(q)'
      OBVIOUS
    <3>1. order'[q].paid = order[q].paid
      BY <2>1, <2>6 DEF TypeOK
    <3>2. Total(q)' = Total(q)
      BY <2>5 DEF Total
    <3> QED BY <3>1, <3>2 DEF PaidWithinTotal
  <2> QED BY <2>7, <2>8 DEF PaidWithinTotal
<1>4. ASSUME NEW amount \in Amounts, NEW shows \in KitchenShowsPos,
             Collect(amount, shows) \/ CollectAndComplete(amount, shows)
      PROVE  PaidWithinTotal'
  <2>0. payment.order \in Order /\ amount \in Nat
    BY <1>4 DEF Collect, CollectAndComplete, Amounts, TypeOK
  <2>1. PICK o \in Order : o = payment.order
    BY <2>0
  <2>2. amount <= Total(o) - order[o].paid /\ order[o].paid \in Nat /\ Total(o) \in Nat
    BY <1>4, <2>0, <2>1, TotalType DEF Collect, CollectAndComplete, TypeOK
  <2>3. /\ order'[o].paid = order[o].paid + amount
        /\ \A q \in Order \ {o} : order'[q].paid = order[q].paid
    BY <1>4, <2>0, <2>1 DEF Collect, CollectAndComplete, TypeOK
  <2>4. \A q \in Order : Total(q)' = Total(q)
    BY <1>4 DEF Collect, CollectAndComplete, Total, ItemsOf
  <2>5. order'[o].paid <= Total(o)'
    BY <2>0, <2>2, <2>3, <2>4
  <2>6. \A q \in Order \ {o} : order'[q].paid <= Total(q)'
    BY <2>3, <2>4 DEF PaidWithinTotal
  <2> QED BY <2>5, <2>6 DEF PaidWithinTotal
<1>5. ASSUME NEW o \in Order, NEW amount \in Amounts, Refund(o, amount) PROVE PaidWithinTotal'
  <2>1. amount \in Nat
    BY DEF Amounts
  <2>2. \A q \in Order : order'[q].paid <= order[q].paid
    BY <1>5, <2>1 DEF Refund, TypeOK
  <2> QED BY <1>1, <1>5, <2>2 DEF Refund
<1>6. ASSUME NEW o \in Order, NEW a, NEW c \in BOOLEAN, KitchenAct(o, a, c) PROVE PaidWithinTotal'
  <2>1. PICK next : UNCHANGED line /\ order' = [order EXCEPT ![o].status = next]
    BY <1>6 DEF KitchenAct
  <2>2. \A q \in Order : order'[q].paid <= order[q].paid
    BY <2>1, StatusMoved
  <2> QED BY <1>1, <2>1, <2>2
<1>7. ASSUME NEW o \in Order, Look(o) \/ OpenOrder(o) \/ BeginPayment(o) PROVE PaidWithinTotal'
  <2>1. UNCHANGED line /\ \A q \in Order : order'[q].paid <= order[q].paid
    <3>1. CASE OpenOrder(o)
      BY <3>1, StatusMoved DEF OpenOrder
    <3>2. CASE Look(o) \/ BeginPayment(o)
      BY <3>2 DEF Look, BeginPayment, TypeOK
    <3> QED BY <1>7, <3>1, <3>2
  <2> QED BY <1>1, <2>1
<1>8. ASSUME NEW o \in Order, NEW checked \in BOOLEAN,
             \/ Confirm(o, checked)
             \/ \E next \in ActiveStatuses \cup Closed, force \in BOOLEAN :
                  SetStatus(o, next, force, checked)
      PROVE  PaidWithinTotal'
  <2>1. PICK next : UNCHANGED line /\ order' = [order EXCEPT ![o].status = next]
    BY <1>8 DEF Confirm, SetStatus
  <2>2. \A q \in Order : order'[q].paid <= order[q].paid
    BY <2>1, StatusMoved
  <2> QED BY <1>1, <2>1, <2>2
<1>9. ASSUME NEW i \in Item, NEW checked \in BOOLEAN, EditItem(i, checked) PROVE PaidWithinTotal'
  <2>1. UNCHANGED line /\ \A q \in Order : order'[q].paid <= order[q].paid
    BY <1>9 DEF EditItem, TypeOK
  <2> QED BY <1>1, <2>1
<1>10. ASSUME NEW s, SetTable(s) \/ AbortPayment PROVE PaidWithinTotal'
  <2>1. UNCHANGED line /\ \A q \in Order : order'[q].paid <= order[q].paid
    BY <1>10 DEF SetTable, AbortPayment, TypeOK
  <2> QED BY <1>1, <2>1
<1>11. CASE UNCHANGED vars
  <2>1. UNCHANGED line /\ \A q \in Order : order'[q].paid <= order[q].paid
    BY <1>11 DEF vars, TypeOK
  <2> QED BY <1>1, <2>1
<1> QED
  BY <1>2, <1>3, <1>4, <1>5, <1>6, <1>7, <1>8, <1>9, <1>10, <1>11 DEF Next

(* No order ever holds more money than its items cost, forced statuses        *)
(* included: payments are bounded by the total when they collect, and an item *)
(* that is cancelled gives back what was paid beyond the rest.                *)
THEOREM PaymentsStayWithinTotal == Spec => []PaidWithinTotal
BY PaidInit, PaidNext, TypeInit, TypeNext, PTL DEF Spec

-----------------------------------------------------------------------------
(* The stock.  Ingredients are returned only for an item on the ticket the    *)
(* kitchen has not started, and cancelling the item or the order takes it off *)
(* the ticket or closes the ticket in the same step.                          *)
ListsOwnItems ==
  \A o \in Order : \A i \in ticket[o].lines : OrderOf[i] = o

ReturnedHadTicket ==
  \A i \in Item : stock[i] = "returned" => ticket[OrderOf[i]].status # "NONE"

StockInv == TypeOK /\ ListedItemsAreDeducted /\ ListsOwnItems /\ ReturnedHadTicket

(* A step that keeps the stock, puts nothing on a ticket and opens none.      *)
LEMMA StockKept ==
  ASSUME StockInv, stock' = stock,
         \A o \in Order : /\ ticket'[o].lines \subseteq ticket[o].lines
                          /\ ticket'[o].status \in OpenTickets => ticket[o].status \in OpenTickets
                          /\ ticket[o].status # "NONE" => ticket'[o].status # "NONE"
  PROVE  ListedItemsAreDeducted' /\ ListsOwnItems' /\ ReturnedHadTicket'
<1>1. ListedItemsAreDeducted'
  BY DEF StockInv, ListedItemsAreDeducted
<1>2. ListsOwnItems'
  BY DEF StockInv, ListsOwnItems
<1>3. ReturnedHadTicket'
  BY OrdersAssumption DEF StockInv, ReturnedHadTicket, OrdersAssumption
<1> QED BY <1>1, <1>2, <1>3

LEMMA StockInit == Init => StockInv
<1> SUFFICES ASSUME Init PROVE StockInv
  OBVIOUS
<1> QED
  BY TypeInit DEF Init, StockInv, ListedItemsAreDeducted, ListsOwnItems, ReturnedHadTicket,
                  OpenTickets

LEMMA StockNext == StockInv /\ [Next]_vars => StockInv'
<1> SUFFICES ASSUME StockInv, [Next]_vars PROVE StockInv'
  OBVIOUS
<1>0. TypeOK /\ TypeOK'
  BY TypeNext DEF StockInv
<1> DEFINE Goal == ListedItemsAreDeducted' /\ ListsOwnItems' /\ ReturnedHadTicket'
<1> SUFFICES Goal
  BY <1>0 DEF StockInv
<1>1. CASE UNCHANGED <<stock, ticket>>
  BY <1>1, StockKept
<1>2. ASSUME NEW i \in Item, CancelItem(i) PROVE Goal
  <2> DEFINE o == OrderOf[i]
  <2>1. o \in Order
    BY OrdersAssumption DEF OrdersAssumption
  <2>2. stock' = Returned({i}) /\ ticket' = [ticket EXCEPT ![o].lines = @ \ {i}]
    BY <1>2 DEF CancelItem, Unlisted
  <2>3. /\ \A j \in Item \ {i} : stock'[j] = stock[j]
        /\ stock'[i] = "returned" /\ stock[i] # "returned" => ticket[o].status = "NEW"
    BY <2>2 DEF Returned, Unstarted
  <2>4. \A q \in Order : /\ ticket'[q].status = ticket[q].status
                         /\ ticket'[q].lines \subseteq ticket[q].lines
                         /\ i \notin ticket'[q].lines
    BY <1>0, <2>1, <2>2 DEF TypeOK, StockInv, ListsOwnItems
  <2>5. ListedItemsAreDeducted'
    BY <1>0, <2>3, <2>4 DEF StockInv, ListedItemsAreDeducted, TypeOK
  <2>6. ListsOwnItems'
    BY <2>4 DEF StockInv, ListsOwnItems
  <2>7. ReturnedHadTicket'
    BY <2>3, <2>4, OrdersAssumption DEF StockInv, ReturnedHadTicket, OrdersAssumption
  <2> QED BY <2>5, <2>6, <2>7
<1>3. ASSUME NEW o \in Order, NEW checked \in BOOLEAN, Confirm(o, checked) PROVE Goal
  <2>1. /\ stock' = [i \in Item |-> IF i \in ItemsOf(o) /\ stock[i] = "kept"
                                   THEN "used" ELSE stock[i]]
        /\ \/ ticket' = ticket
           \/ /\ ticket[o].status = "NONE"
              /\ ticket' = [ticket EXCEPT ![o] = [status |-> "NEW", lines |-> ItemsOf(o)]]
    BY <1>3 DEF Confirm
  <2>2. \A i \in Item : /\ stock[i] = "used" => stock'[i] = "used"
                        /\ stock'[i] = "returned" => stock[i] = "returned"
    BY <2>1
  <2>3. CASE ticket' = ticket
    <3>1. ListedItemsAreDeducted'
      BY <1>0, <2>2, <2>3 DEF StockInv, ListedItemsAreDeducted, TypeOK
    <3>2. ListsOwnItems' /\ ReturnedHadTicket'
      BY <2>2, <2>3 DEF StockInv, ListsOwnItems, ReturnedHadTicket
    <3> QED BY <3>1, <3>2
  <2>4. CASE /\ ticket[o].status = "NONE"
             /\ ticket' = [ticket EXCEPT ![o] = [status |-> "NEW", lines |-> ItemsOf(o)]]
    <3>1. ticket'[o].lines = ItemsOf(o) /\ \A q \in Order \ {o} : ticket'[q] = ticket[q]
      BY <1>0, <2>4 DEF TypeOK
    <3>2. \A i \in ItemsOf(o) : stock'[i] = "used"
      <4> SUFFICES ASSUME NEW i \in ItemsOf(o) PROVE stock'[i] = "used"
        OBVIOUS
      <4>1. i \in Item /\ OrderOf[i] = o
        BY DEF ItemsOf
      <4>2. stock[i] \in {"kept", "used"}
        BY <1>0, <2>4, <4>1 DEF TypeOK, StockInv, ReturnedHadTicket
      <4> QED BY <2>1, <4>1, <4>2
    <3>3. ListedItemsAreDeducted'
      <4> SUFFICES ASSUME NEW q \in Order, ticket'[q].status \in OpenTickets,
                          NEW i \in ticket'[q].lines
                   PROVE  stock'[i] = "used"
        BY DEF ListedItemsAreDeducted
      <4>1. CASE q = o
        BY <3>1, <3>2, <4>1
      <4>2. CASE q # o
        <5>1. i \in Item /\ stock[i] = "used"
          BY <1>0, <3>1, <4>2 DEF TypeOK, StockInv, ListedItemsAreDeducted
        <5> QED BY <2>2, <5>1
      <4> QED BY <4>1, <4>2
    <3>4. ListsOwnItems'
      BY <3>1 DEF StockInv, ListsOwnItems, ItemsOf
    <3>5. ReturnedHadTicket'
      BY <1>0, <2>2, <2>4 DEF TypeOK, StockInv, ReturnedHadTicket
    <3> QED BY <3>3, <3>4, <3>5
  <2> QED BY <2>1, <2>3, <2>4
<1>4. ASSUME NEW o \in Order, NEW next \in ActiveStatuses \cup Closed,
             NEW force \in BOOLEAN, NEW checked \in BOOLEAN, SetStatus(o, next, force, checked)
      PROVE  Goal
  <2>1. /\ stock' = IF next = "CANCELLED" THEN Returned(ItemsOf(o)) ELSE stock
        /\ ticket' = Synced(o, next)
    BY <1>4 DEF SetStatus
  <2>2. /\ \A q \in Order : ticket'[q].lines = ticket[q].lines
        /\ \A q \in Order \ {o} : ticket'[q] = ticket[q]
        /\ ticket'[o].status \in OpenTickets => ticket[o].status \in OpenTickets
        /\ ticket[o].status # "NONE" => ticket'[o].status # "NONE"
        /\ next = "CANCELLED" => ticket'[o].status \notin OpenTickets
    BY <1>0, <2>1 DEF Synced, TicketAt, TypeOK, OpenTickets
  <2>3. CASE next # "CANCELLED"
    BY <2>1, <2>2, <2>3, StockKept
  <2>4. CASE next = "CANCELLED"
    <3>1. \A i \in Item : stock'[i] # stock[i] => OrderOf[i] = o /\ ticket[o].status = "NEW"
      BY <2>1, <2>4 DEF Returned, Unstarted, ItemsOf
    <3>2. ListedItemsAreDeducted'
      <4> SUFFICES ASSUME NEW q \in Order, ticket'[q].status \in OpenTickets,
                          NEW i \in ticket'[q].lines
                   PROVE  stock'[i] = "used"
        BY DEF ListedItemsAreDeducted
      <4>1. q # o /\ ticket[q] = ticket'[q]
        BY <2>2, <2>4
      <4>2. i \in Item /\ OrderOf[i] = q /\ stock[i] = "used"
        BY <1>0, <4>1 DEF StockInv, ListedItemsAreDeducted, ListsOwnItems, TypeOK
      <4> QED BY <3>1, <4>1, <4>2
    <3>3. ListsOwnItems'
      BY <2>2 DEF StockInv, ListsOwnItems
    <3>4. ReturnedHadTicket'
      BY <2>2, <3>1, OrdersAssumption DEF StockInv, ReturnedHadTicket, OrdersAssumption
    <3> QED BY <3>2, <3>3, <3>4
  <2> QED BY <2>3, <2>4
<1>5. ASSUME NEW o \in Order, NEW a, NEW c \in BOOLEAN, KitchenAct(o, a, c) PROVE Goal
  <2>1. PICK step \in Steps(o) :
          /\ ticket[o].status \in step[3]
          /\ ticket' = [ticket EXCEPT ![o].status = step[5]]
          /\ stock' = stock
    BY <1>5 DEF KitchenAct
  <2>2. step[3] \subseteq OpenTickets /\ step[5] # "NONE"
    BY DEF Steps, OpenTickets
  <2> QED BY <1>0, <2>1, <2>2, StockKept DEF TypeOK
<1>6. ASSUME NEW amount \in Amounts, NEW shows \in KitchenShowsPos,
             CollectAndComplete(amount, shows)
      PROVE  Goal
  <2>1. /\ stock' = stock
        /\ ticket' = IF payment.ticket \in OpenTickets
                     THEN [ticket EXCEPT ![payment.order].status = "COMPLETED"] ELSE ticket
    BY <1>6 DEF CollectAndComplete
  <2> QED BY <1>0, <2>1, StockKept DEF TypeOK, OpenTickets
<1>7. ASSUME NEW o \in Order, Look(o) \/ OpenOrder(o) \/ BeginPayment(o) PROVE Goal
  BY <1>1, <1>7 DEF Look, OpenOrder, BeginPayment
<1>8. ASSUME NEW i \in Item, NEW checked \in BOOLEAN, AddItem(i, checked) \/ EditItem(i, checked)
      PROVE  Goal
  BY <1>1, <1>8 DEF AddItem, EditItem
<1>9. ASSUME NEW o \in Order, NEW amount \in Amounts, Refund(o, amount) PROVE Goal
  BY <1>1, <1>9 DEF Refund
<1>10. ASSUME NEW s, SetTable(s) \/ AbortPayment PROVE Goal
  BY <1>1, <1>10 DEF SetTable, AbortPayment
<1>11. ASSUME NEW amount \in Amounts, NEW shows \in KitchenShowsPos, Collect(amount, shows)
       PROVE  Goal
  BY <1>1, <1>11 DEF Collect
<1>12. CASE UNCHANGED vars
  BY <1>1, <1>12 DEF vars
<1> QED
  BY <1>2, <1>3, <1>4, <1>5, <1>6, <1>7, <1>8, <1>9, <1>10, <1>11, <1>12 DEF Next

(* The kitchen never has an item on an open ticket whose ingredients are      *)
(* still, or again, in stock, forced statuses included.                       *)
THEOREM TicketsAreDeducted == Spec => []ListedItemsAreDeducted
<1>1. StockInv => ListedItemsAreDeducted
  BY DEF StockInv
<1> QED BY <1>1, StockInit, StockNext, PTL DEF Spec

-----------------------------------------------------------------------------
(* What a terminal shows.  Every change of an order's status increments its   *)
(* version, so a version that is still current was read with the status the   *)
(* order still has.                                                           *)
ScreenCurrent ==
  screen.order # NoOrder =>
    /\ order[screen.order].status # "NONE"
    /\ screen.status # Outdated => screen.status = order[screen.order].status

(* An operation keeps it if the status it changes is one whose version it     *)
(* increments.                                                                *)
LEMMA ScreenKept ==
  ASSUME TypeOK, ScreenCurrent, NEW o \in Order, NEW versions, Increments(o, versions),
         \A q \in Order \ {o} : order'[q].status = order[q].status,
         \/ order'[o].status = order[o].status
         \/ "order" \in versions /\ order'[o].status # "NONE"
  PROVE  ScreenCurrent'
<1>1. CASE screen.order # o
  <2>1. screen' = screen
    BY <1>1 DEF Increments
  <2>2. screen.order \in Order \cup {NoOrder}
    BY DEF TypeOK
  <2> QED BY <1>1, <2>1, <2>2 DEF ScreenCurrent
<1>2. CASE screen.order = o
  <2>1. /\ screen'.order = o
        /\ screen'.status = IF "order" \in versions THEN Outdated ELSE screen.status
    BY <1>2 DEF Increments, TypeOK
  <2> QED BY <1>2, <2>1, OrdersAssumption DEF ScreenCurrent, OrdersAssumption
<1> QED BY <1>1, <1>2

(* So does an operation that leaves the screen and the statuses alone, but    *)
(* for those of orders not opened yet.                                        *)
LEMMA ScreenSame ==
  ASSUME TypeOK, ScreenCurrent, screen' = screen,
         \A q \in Order : order[q].status # "NONE" => order'[q].status = order[q].status
  PROVE  ScreenCurrent'
<1>1. screen.order \in Order \cup {NoOrder}
  BY DEF TypeOK
<1> QED BY <1>1 DEF ScreenCurrent

LEMMA ScreenNext == TypeOK /\ ScreenCurrent /\ [Next]_vars => ScreenCurrent'
<1> SUFFICES ASSUME TypeOK, ScreenCurrent, [Next]_vars PROVE ScreenCurrent'
  OBVIOUS
<1>1. CASE UNCHANGED vars
  BY <1>1 DEF vars, ScreenCurrent
<1>2. ASSUME NEW o \in Order, Look(o) PROVE ScreenCurrent'
  BY <1>2 DEF Look, ScreenCurrent
<1>3. ASSUME NEW o \in Order, OpenOrder(o) PROVE ScreenCurrent'
  BY <1>3, ScreenSame DEF OpenOrder, TypeOK
<1>4. ASSUME NEW o \in Order, BeginPayment(o) PROVE ScreenCurrent'
  BY <1>4, ScreenSame DEF BeginPayment
<1>5. ASSUME NEW s, SetTable(s) \/ AbortPayment PROVE ScreenCurrent'
  BY <1>5, ScreenSame DEF SetTable, AbortPayment
<1>6. ASSUME NEW i \in Item, NEW checked \in BOOLEAN, AddItem(i, checked) \/ EditItem(i, checked)
      PROVE  ScreenCurrent'
  <2>1. OrderOf[i] \in Order
    BY OrdersAssumption DEF OrdersAssumption
  <2> QED BY <1>6, <2>1, ScreenKept DEF AddItem, EditItem
<1>7. ASSUME NEW i \in Item, CancelItem(i) PROVE ScreenCurrent'
  <2>1. OrderOf[i] \in Order
    BY OrdersAssumption DEF OrdersAssumption
  <2>2. \A q \in Order : order'[q].status = order[q].status
    BY <1>7, <2>1 DEF CancelItem, TypeOK
  <2> QED BY <1>7, <2>1, <2>2, ScreenKept DEF CancelItem
<1>8. ASSUME NEW o \in Order, NEW checked \in BOOLEAN, Confirm(o, checked) PROVE ScreenCurrent'
  <2>1. /\ order'[o].status = "CONFIRMED"
        /\ \A q \in Order \ {o} : order'[q].status = order[q].status
    BY <1>8 DEF Confirm, TypeOK
  <2>2. CASE order[o].status = "NEW"
    BY <1>8, <2>1, <2>2, ScreenKept DEF Confirm
  <2>3. CASE order[o].status # "NEW"
    BY <1>8, <2>1, <2>3, ScreenSame DEF Confirm
  <2> QED BY <2>2, <2>3
<1>9. ASSUME NEW o \in Order, NEW next \in ActiveStatuses \cup Closed,
             NEW force \in BOOLEAN, NEW checked \in BOOLEAN, SetStatus(o, next, force, checked)
      PROVE  ScreenCurrent'
  <2>1. Increments(o, {"order"})
    BY <1>9 DEF SetStatus
  <2>2. /\ order'[o].status = next
        /\ \A q \in Order \ {o} : order'[q].status = order[q].status
    BY <1>9 DEF SetStatus, TypeOK
  <2>3. next # "NONE"
    BY DEF ActiveStatuses, Closed
  <2> QED BY <2>1, <2>2, <2>3, ScreenKept
<1>10. ASSUME NEW o \in Order, NEW a, NEW c \in BOOLEAN, KitchenAct(o, a, c) PROVE ScreenCurrent'
  <2>1. PICK step \in Steps(o) :
          /\ order' = [order EXCEPT ![o].status = step[4]]
          /\ Increments(o, {"ticket"} \cup IF order[o].status # step[4] THEN {"order"} ELSE {})
    BY <1>10 DEF KitchenAct
  <2>2. step[4] # "NONE"
    BY DEF Steps, Handoff
  <2>3. /\ order'[o].status = step[4]
        /\ \A q \in Order \ {o} : order'[q].status = order[q].status
    BY <2>1 DEF TypeOK
  <2> QED BY <2>1, <2>2, <2>3, ScreenKept
<1>11. ASSUME NEW amount \in Amounts, NEW shows \in KitchenShowsPos, Collect(amount, shows)
       PROVE  ScreenCurrent'
  <2>1. payment.order \in Order
    BY <1>11 DEF Collect, TypeOK
  <2> QED BY <1>11, <2>1, ScreenSame DEF Collect, TypeOK
<1>12. ASSUME NEW amount \in Amounts, NEW shows \in KitchenShowsPos,
              CollectAndComplete(amount, shows)
       PROVE  ScreenCurrent'
  <2>1. payment.order \in Order
    BY <1>12 DEF CollectAndComplete, TypeOK
  <2>2. /\ order'[payment.order].status = "COMPLETED"
        /\ \A q \in Order \ {payment.order} : order'[q].status = order[q].status
    BY <1>12, <2>1 DEF CollectAndComplete, TypeOK
  <2>3. Increments(payment.order, {"order"})
    BY <1>12 DEF CollectAndComplete
  <2> QED BY <2>1, <2>2, <2>3, ScreenKept
<1>13. ASSUME NEW o \in Order, NEW amount \in Amounts, Refund(o, amount) PROVE ScreenCurrent'
  BY <1>13, ScreenSame DEF Refund, TypeOK
<1> QED
  BY <1>1, <1>2, <1>3, <1>4, <1>5, <1>6, <1>7, <1>8, <1>9, <1>10, <1>11, <1>12, <1>13 DEF Next

(* A status change that carries a version meets the order in the status its   *)
(* user saw, whatever another terminal, the kitchen or a payment did between  *)
(* the reading and the change, forced statuses included.                      *)
THEOREM StaffActOnWhatTheySee == Spec => StaffActOnShownStatus
<1>1. Init => ScreenCurrent
  BY DEF Init, ScreenCurrent
<1>2. ScreenCurrent =>
        \A o \in Order, next \in ActiveStatuses \cup Closed, force \in BOOLEAN :
          SetStatus(o, next, force, TRUE) => screen.status = order[o].status
  BY OrdersAssumption DEF ScreenCurrent, SetStatus, Checked, OrdersAssumption
<1> QED
  BY <1>1, <1>2, ScreenNext, TypeInit, TypeNext, PTL DEF Spec, StaffActOnShownStatus

-----------------------------------------------------------------------------
(* Cancelled orders and money.  A payment in flight is for an order that is   *)
(* not cancelled: cancelling it would have written its row.                   *)
Payable == payment.order # NoOrder => order[payment.order].status # "CANCELLED"

LEMMA PayableKept ==
  ASSUME TypeOK, Payable,
         NEW o \in Order \cup {NoOrder}, NEW rows \in SUBSET {"order", "ticket", "table"},
         Writes(o, rows),
         \A q \in Order : order'[q].status = "CANCELLED" =>
           order[q].status = "CANCELLED" \/ (q = o /\ "order" \in rows)
  PROVE  Payable'
<1>1. CASE payment' = NoPayment
  BY <1>1 DEF Payable, NoPayment
<1>2. CASE payment' # NoPayment
  <2>1. payment'.order = payment.order /\ ~(payment.order = o /\ "order" \in rows)
    BY <1>2, WritesLemma
  <2>2. payment.order \in Order \cup {NoOrder}
    BY DEF TypeOK
  <2> QED BY <2>1, <2>2 DEF Payable
<1> QED BY <1>1, <1>2

(* An order that holds money after a step that leaves it cancelled.           *)
KeepsMoney(o) ==
  order'[o].status = "CANCELLED" /\ order'[o].paid > 0 =>
    \/ order[o].status = "CANCELLED" /\ order'[o].paid <= order[o].paid
    \/ \E checked \in BOOLEAN : KitchenAct(o, "cancel", checked)

(* A step on no order at all, and one that only lowers what was collected.    *)
LEMMA MoneyLowered ==
  ASSUME TypeOK, TypeOK', NEW o \in Order,
         order'[o].status = order[o].status \/ order'[o].status # "CANCELLED",
         order'[o].paid <= order[o].paid
  PROVE  KeepsMoney(o)
BY DEF KeepsMoney

LEMMA PayableNext ==
  TypeOK /\ TypeOK' /\ Payable /\ [Next]_vars => Payable' /\ \A o \in Order : KeepsMoney(o)
<1> SUFFICES ASSUME TypeOK, TypeOK', Payable, [Next]_vars
             PROVE  Payable' /\ \A o \in Order : KeepsMoney(o)
  OBVIOUS
<1> DEFINE Goal == Payable' /\ \A o \in Order : KeepsMoney(o)
<1>a. ASSUME \A o \in Order : order'[o].status = order[o].status /\ order'[o].paid <= order[o].paid
      PROVE  \A o \in Order : KeepsMoney(o)
  BY <1>a, MoneyLowered
<1>b. ASSUME order' = order PROVE \A o \in Order : KeepsMoney(o)
  <2>1. \A o \in Order : order'[o].paid <= order[o].paid
    BY <1>b DEF TypeOK
  <2> QED BY <1>a, <1>b, <2>1
<1>1. CASE UNCHANGED vars
  BY <1>1, <1>b DEF vars, Payable
<1>2. ASSUME NEW o \in Order, Look(o) PROVE Goal
  BY <1>2, <1>b DEF Look, Payable
<1>3. ASSUME NEW o \in Order, OpenOrder(o) PROVE Goal
  <2>1. /\ order'[o].status = "NEW" /\ order'[o].paid = order[o].paid
        /\ \A q \in Order \ {o} : order'[q] = order[q]
    BY <1>3 DEF OpenOrder, TypeOK
  <2>2. \A q \in Order : order'[q].paid <= order[q].paid
    BY <1>3, StatusMoved DEF OpenOrder
  <2>3. \A q \in Order : KeepsMoney(q)
    BY <2>1, <2>2, MoneyLowered
  <2>4. Payable'
    BY <1>3, <2>1, PayableKept DEF OpenOrder
  <2> QED BY <2>3, <2>4
<1>4. ASSUME NEW o \in Order, BeginPayment(o) PROVE Goal
  BY <1>4, <1>b DEF BeginPayment, Payable
<1>5. ASSUME NEW s \in {"AVAILABLE", "OCCUPIED", "RESERVED", "CLEANING"}, SetTable(s) PROVE Goal
  <2>1. Payable'
    BY <1>5, PayableKept DEF SetTable
  <2> QED BY <1>5, <1>b, <2>1 DEF SetTable
<1>6. ASSUME NEW i \in Item, NEW checked \in BOOLEAN, AddItem(i, checked) \/ EditItem(i, checked)
      PROVE  Goal
  <2>1. OrderOf[i] \in Order
    BY OrdersAssumption DEF OrdersAssumption
  <2>2. Payable'
    BY <1>6, <2>1, PayableKept DEF AddItem, EditItem
  <2> QED BY <1>6, <1>b, <2>2 DEF AddItem, EditItem
<1>7. ASSUME NEW i \in Item, CancelItem(i) PROVE Goal
  <2> DEFINE o == OrderOf[i]
  <2>1. o \in Order /\ i \in ItemsOf(o)
    BY <1>7, OrdersAssumption DEF OrdersAssumption, CancelItem, ItemsOf
  <2>2. order' = [order EXCEPT ![o].paid = LeftPaid(@, Total(o) - 1)]
    BY <1>7 DEF CancelItem
  <2>3. /\ order'[o].status = order[o].status
        /\ order'[o].paid = LeftPaid(order[o].paid, Total(o) - 1)
        /\ \A q \in Order \ {o} : order'[q] = order[q]
    BY <2>1, <2>2 DEF TypeOK
  <2>4. LeftPaid(order[o].paid, Total(o) - 1) <= order[o].paid
    <3>1. order[o].paid \in Nat /\ Total(o) \in Nat
      BY <2>1, TotalType DEF TypeOK
    <3> QED BY <3>1 DEF LeftPaid
  <2>5. \A q \in Order : order'[q].status = order[q].status
    BY <2>3
  <2>6. \A q \in Order : order'[q].paid <= order[q].paid
    <3>1. \A q \in Order \ {o} : order'[q].paid <= order[q].paid
      BY <2>3 DEF TypeOK
    <3>2. order'[o].paid <= order[o].paid
      BY <2>3, <2>4
    <3> HIDE DEF o
    <3> QED BY <3>1, <3>2
  <2>7. Payable'
    BY <1>7, <2>1, <2>5, PayableKept DEF CancelItem
  <2> QED BY <1>a, <2>5, <2>6, <2>7
<1>8. ASSUME NEW o \in Order, NEW checked \in BOOLEAN, Confirm(o, checked) PROVE Goal
  <2>1. /\ order'[o].status = "CONFIRMED" /\ order'[o].paid = order[o].paid
        /\ \A q \in Order \ {o} : order'[q] = order[q]
    BY <1>8 DEF Confirm, TypeOK
  <2>2. \A q \in Order : order'[q].paid <= order[q].paid
    BY <1>8, StatusMoved DEF Confirm
  <2>3. \A q \in Order : KeepsMoney(q)
    BY <2>1, <2>2, MoneyLowered
  <2>4. Payable'
    <3>1. CASE order[o].status = "NEW"
      BY <1>8, <2>1, <3>1, PayableKept DEF Confirm
    <3>2. CASE order[o].status # "NEW"
      <4>1. payment' = payment
        BY <1>8, <3>2 DEF Confirm
      <4>2. payment.order \in Order \cup {NoOrder}
        BY DEF TypeOK
      <4> QED BY <2>1, <4>1, <4>2 DEF Payable
    <3> QED BY <3>1, <3>2
  <2> QED BY <2>3, <2>4
<1>9. ASSUME NEW o \in Order, NEW next \in ActiveStatuses \cup Closed,
             NEW force \in BOOLEAN, NEW checked \in BOOLEAN, SetStatus(o, next, force, checked)
      PROVE  Goal
  <2>1. /\ order'[o].status = next /\ order'[o].paid = order[o].paid
        /\ \A q \in Order \ {o} : order'[q] = order[q]
    BY <1>9 DEF SetStatus, TypeOK
  <2>2. \A q \in Order : order'[q].paid <= order[q].paid
    BY <1>9, StatusMoved DEF SetStatus
  <2>3. \A q \in Order \ {o} : KeepsMoney(q)
    BY <2>1, <2>2, MoneyLowered
  <2>4. KeepsMoney(o)
    <3>1. next = "CANCELLED" => order[o].paid = 0
      BY <1>9 DEF SetStatus, Refunded
    <3> QED BY <2>1, <3>1 DEF KeepsMoney
  <2> DEFINE rows == {"order"} \cup SyncedRow(o, next)
                       \cup (IF next \in Closed THEN FreedRow(Active \ {o}) ELSE {})
  <2>5. Writes(o, rows) /\ rows \in SUBSET {"order", "ticket", "table"} /\ "order" \in rows
    BY <1>9 DEF SetStatus, SyncedRow, FreedRow
  <2> HIDE DEF rows
  <2>6. Payable'
    BY <2>1, <2>5, PayableKept
  <2> QED BY <2>3, <2>4, <2>6
<1>10. ASSUME NEW o \in Order, NEW a, NEW c \in BOOLEAN, KitchenAct(o, a, c) PROVE Goal
  <2>1. PICK step \in Steps(o) :
          /\ step[1] = a
          /\ order' = [order EXCEPT ![o].status = step[4]]
          /\ Writes(o, {"ticket"} \cup IF order[o].status # step[4] THEN {"order"} ELSE {})
    BY <1>10 DEF KitchenAct
  <2>2. /\ order'[o].status = step[4] /\ order'[o].paid = order[o].paid
        /\ \A q \in Order \ {o} : order'[q] = order[q]
    BY <2>1 DEF TypeOK
  <2>3. \A q \in Order : order'[q].paid <= order[q].paid
    BY <2>1, StatusMoved
  <2>4. \A q \in Order \ {o} : KeepsMoney(q)
    BY <2>2, <2>3, MoneyLowered
  <2>5. KeepsMoney(o)
    <3>1. step[4] = "CANCELLED" => step[1] = "cancel"
      BY DEF Steps, Handoff
    <3> QED BY <1>10, <2>1, <2>2, <3>1 DEF KeepsMoney
  <2>6. Payable'
    BY <2>1, <2>2, PayableKept
  <2> QED BY <2>4, <2>5, <2>6
<1>11. ASSUME NEW amount \in Amounts, NEW shows \in KitchenShowsPos,
              Collect(amount, shows) \/ CollectAndComplete(amount, shows)
       PROVE  Goal
  <2>1. payment.order \in Order /\ order[payment.order].status # "CANCELLED"
    BY <1>11 DEF Collect, CollectAndComplete, TypeOK, Payable
  <2>2. /\ order'[payment.order].status # "CANCELLED"
        /\ \A q \in Order \ {payment.order} : order'[q] = order[q]
    BY <1>11, <2>1 DEF Collect, CollectAndComplete, TypeOK
  <2>3. \A q \in Order \ {payment.order} : KeepsMoney(q)
    <3>1. \A q \in Order \ {payment.order} : order'[q].paid <= order[q].paid
      BY <2>2 DEF TypeOK
    <3> QED BY <2>2, <3>1, MoneyLowered
  <2>4. Payable'
    BY <1>11 DEF Collect, CollectAndComplete, Payable, NoPayment
  <2> QED BY <2>2, <2>3, <2>4 DEF KeepsMoney
<1>12. CASE AbortPayment
  BY <1>12, <1>b DEF AbortPayment, Payable, NoPayment
<1>13. ASSUME NEW o \in Order, NEW amount \in Amounts, Refund(o, amount) PROVE Goal
  <2>1. amount \in Nat
    BY DEF Amounts
  <2>2. \A q \in Order : order'[q].status = order[q].status /\ order'[q].paid <= order[q].paid
    BY <1>13, <2>1 DEF Refund, TypeOK
  <2>3. Payable'
    BY <1>13, <2>2, PayableKept DEF Refund
  <2> QED BY <1>a, <2>2, <2>3
<1> QED
  BY <1>1, <1>2, <1>3, <1>4, <1>5, <1>6, <1>7, <1>8, <1>9, <1>10, <1>11, <1>12, <1>13 DEF Next

(* Money is never taken on a cancelled order, not even by a payment that      *)
(* began before the cancelling, and an order that is cancelled keeps none;    *)
(* the kitchen's own cancelling, which does not look at payments, is the only *)
(* exception.                                                                 *)
THEOREM CancelledOrdersKeepNoMoney == Spec => CancelledWithoutMoney
<1>1. Init => Payable
  BY DEF Init, Payable, NoPayment
<1>2. (\A o \in Order : KeepsMoney(o)) =>
        \A o \in Order : order'[o].status = "CANCELLED" /\ order'[o].paid > 0 =>
          \/ order[o].status = "CANCELLED" /\ order'[o].paid <= order[o].paid
          \/ \E checked \in BOOLEAN : KitchenAct(o, "cancel", checked)
  BY DEF KeepsMoney
<1> QED
  BY <1>1, <1>2, PayableNext, TypeInit, TypeNext, PTL DEF Spec, CancelledWithoutMoney

=============================================================================
