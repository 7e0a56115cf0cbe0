----------------------------- MODULE CashCustody -----------------------------
(* Whose drawer the branch's cash is in: the shifts employees open and close, *)
(* the ledger of each shift, and the handovers that carry cash between them.  *)
(*                                                                            *)
(* The transactions of a sale, a manual entry, an item cancellation, and of   *)
(* the creation, acceptance and rejection of a handover run READ COMMITTED,   *)
(* lock the shift's row and read what they decide from after that: each is    *)
(* one step.  Closing a shift, an administrator's forced close and forced     *)
(* handover, and a refund run SERIALIZABLE: they decide from the snapshot     *)
(* their first statement takes BEFORE it waits for the row (Begin...), and    *)
(* the database fails them at the row if the row was UPDATED since, or if     *)
(* another SERIALIZABLE transaction on the same shift committed since.  A row *)
(* that was only locked (SELECT ... FOR UPDATE) fails nothing, and the        *)
(* handovers only lock.  A transaction that is bound to fail is dropped at    *)
(* once; its retries, up to three, are further Begin steps.                   *)
EXTENDS Integers, Sequences, SequencesExt, FiniteSets, FiniteSetsExt

CONSTANTS
  Shift,        \* shifts that may be opened
  Employee,
  Cashiers,     \* the employees with a role that receives cash
  Transfer,     \* handovers that may be created
  Clerk,        \* SERIALIZABLE transactions that may be in flight at a time
  Overlapping,  \* the operations whose snapshot may be older than their lock
  Openings, Sales, Entries, Portions,  \* amounts: opening balances, sales,
                \* manual entries and refunds, handovers
  MaxTill,      \* bound: sales and manual entries, over all shifts
  None          \* no employee, no shift, no transfer

ASSUME CashAssumption ==
  /\ Cashiers \subseteq Employee
  /\ Overlapping \subseteq {"close", "force", "handover", "refund"}
  /\ Openings \subseteq Nat
  /\ Sales \cup Entries \cup Portions \subseteq Nat \ {0}
  /\ MaxTill \in Nat
  /\ None \notin Shift \cup Employee \cup Transfer

VARIABLES
  shift,     \* status, employee, and the rows its closing totals are made of
  ledger,    \* the cash transactions of each shift, in order
  transfer,  \* status, both shifts, amount and composition of each handover
  serial     \* the SERIALIZABLE transactions in flight, with their snapshot

vars == <<shift, ledger, transfer, serial>>

Credits == {"OPENING_BALANCE", "SALE", "INCOME", "CASH_IN"}
Debits == {"REFUND", "EXPENSE", "WITHDRAW", "CASH_OUT"}
Kinds == Credits \cup Debits \cup {"CLOSING_BALANCE"}

Row(kind, amount, t) == [type |-> kind, amount |-> amount, transfer |-> t]

Unopened == [status |-> "NONE", employee |-> None, counted |-> 0]
NoTransfer == [status |-> "NONE", from |-> None, to |-> None, amount |-> 0,
               parts |-> <<>>]
Idle == [op |-> "idle", shift |-> None, to |-> None, amount |-> 0, rows |-> 0,
         moved |-> {}]

Init ==
  /\ shift = [s \in Shift |-> Unopened]
  /\ ledger = [s \in Shift |-> <<>>]
  /\ transfer = [t \in Transfer |-> NoTransfer]
  /\ serial = [c \in Clerk |-> Idle]

IsOpen(s) == shift[s].status = "OPEN"
TillRows(s) == {i \in DOMAIN ledger[s] :
  ledger[s][i].type \in {"SALE", "INCOME", "EXPENSE", "WITHDRAW"}}
RoomAtTill == Cardinality(UNION {{s} \X TillRows(s) : s \in Shift}) < MaxTill
Pending(t) == transfer[t].status = "PENDING"
From(s) == {t \in Transfer : Pending(t) /\ transfer[t].from = s}
To(s) == {t \in Transfer : Pending(t) /\ transfer[t].to = s}

-----------------------------------------------------------------------------
(* What the ledger says.                                                      *)
SumOf(rows, kinds) ==
  FoldLeft(LAMBDA total, row : IF row.type \in kinds THEN total + row.amount
                               ELSE total, 0, rows)

\* The code adds every row that is not a debit, a closing balance too: it never
\* asks for the balance of a closed shift.
Balance(rows) == SumOf(rows, Kinds \ Debits) - SumOf(rows, Debits)

\* A bucket is cash of one source that is still in the drawer; what earlier
\* buckets hold is used up first.
Before(buckets, i) ==
  SumFunctionOnSet([k \in DOMAIN buckets |-> buckets[k].amount], 1..(i - 1))
Least(a, b) == IF a < b THEN a ELSE b
Over(a) == IF a > 0 THEN a ELSE 0

Drawn(buckets, amount) ==
  [i \in 1..Len(buckets) |->
    [buckets[i] EXCEPT !.amount =
       Least(@, Over(amount - Before(buckets, i)))]]
\* Mutant: earlier debits are not replayed.
NotConsumed(buckets, amount) == buckets
Consumed(buckets, amount) ==
  [i \in 1..Len(buckets) |->
    [buckets[i] EXCEPT !.amount = @ - Drawn(buckets, amount)[i].amount]]

\* The buckets after the first n rows of shift s.  A handover's CASH_IN brings
\* the sources it was composed of.
Buckets(s, n) ==
  LET Replay(buckets, i) ==
        LET row == ledger[s][i] IN
        CASE row.type = "CASH_IN" -> buckets \o transfer[row.transfer].parts
          [] row.type \in Credits \ {"CASH_IN"} ->
               Append(buckets, [source |-> <<s, i>>, amount |-> row.amount])
          [] row.type \in Debits -> Consumed(buckets, row.amount)
          [] OTHER -> buckets
  IN  FoldLeft(Replay, <<>>, [i \in 1..n |-> i])

\* Mutant: empty buckets become part of the composition.
WithEmptyParts(s, n, amount) == Drawn(Buckets(s, n), amount)

Composition(s, n, amount) ==
  FoldLeft(LAMBDA parts, part : IF part.amount > 0 THEN Append(parts, part) ELSE parts,
           <<>>, Drawn(Buckets(s, n), amount))

Worth(parts) == SumFunction([i \in DOMAIN parts |-> parts[i].amount])

-----------------------------------------------------------------------------
(* What the transactions in flight live through.  They lock, first thing, the *)
(* rows of their shifts; a forced close also writes the handovers it moves.   *)
Dropped(failed) == serial' = [c \in Clerk |-> IF c \in failed THEN Idle ELSE serial[c]]

OnRow(s) == {c \in Clerk : s \in {serial[c].shift, serial[c].to}}
Moving(moved) == {c \in Clerk : serial[c].moved \cap moved # {}}

\* Mutant: a manual entry that checks the shift without updating its row.
UpdatesNothing(s, moved) == Dropped(Moving(moved))

\* Shift s is updated, and the handovers in moved.
Updates(s, moved) == Dropped(OnRow(s) \cup Moving(moved))

\* Mutant: a handover changes under a forced close that is to move it.
LocksNothing(t) == UNCHANGED serial

\* Shifts are locked only, and handover t is written.
Locks(t) == Dropped(Moving({t}))

\* A forced handover from s to r only locks; what it and another SERIALIZABLE
\* transaction read and write of the same ledgers makes one of them fail.
Crosses(s, r) ==
  Dropped({c \in Clerk :
    IF serial[c].op = "handover"
    THEN serial[c].shift = s \/ (serial[c].shift = r /\ serial[c].to = s)
    ELSE serial[c].shift \in {s, r}})

Post(s, row) == ledger' = [ledger EXCEPT ![s] = Append(@, row)]

-----------------------------------------------------------------------------
(* One step each: READ COMMITTED, or SERIALIZABLE without a decision that     *)
(* depends on the ledger (a sale).                                            *)
OpenShift(s, e, amount) ==
  /\ shift[s] = Unopened
  /\ ~ \E other \in Shift : IsOpen(other) /\ shift[other].employee = e
  /\ shift' = [shift EXCEPT ![s] = [status |-> "OPEN", employee |-> e, counted |-> 0]]
  /\ Post(s, Row("OPENING_BALANCE", amount, None))
  /\ UNCHANGED <<transfer, serial>>

Sell(s, amount) ==
  /\ IsOpen(s) /\ RoomAtTill
  /\ Post(s, Row("SALE", amount, None))
  /\ Updates(s, {})
  /\ UNCHANGED <<shift, transfer>>

ManualEntry(s, kind, amount) ==
  /\ IsOpen(s) /\ RoomAtTill
  /\ kind \in {"INCOME", "EXPENSE", "WITHDRAW"}
  /\ kind # "INCOME" => amount <= Balance(ledger[s])
  /\ Post(s, Row(kind, amount, None))
  /\ Updates(s, {})
  /\ UNCHANGED <<shift, transfer>>

\* No more is refunded than was sold: TableOrders has the limit per payment.
Refundable(amount) ==
  amount <= MapThenSumSet(LAMBDA s : SumOf(ledger[s], {"SALE"})
                                       - SumOf(ledger[s], {"REFUND"}), Shift)

CancelItem(s, amount) ==
  /\ IsOpen(s)
  /\ Refundable(amount)
  /\ amount <= Balance(ledger[s])
  /\ Post(s, Row("REFUND", amount, None))
  /\ Updates(s, {})
  /\ UNCHANGED <<shift, transfer>>

CreateTransfer(t, s, r, amount) ==
  /\ transfer[t] = NoTransfer
  /\ s # r /\ IsOpen(s) /\ IsOpen(r)
  /\ shift[r].employee \in Cashiers \ {shift[s].employee}
  /\ amount <= Balance(ledger[s])
  /\ LET parts == Composition(s, Len(ledger[s]), amount) IN
     /\ Worth(parts) >= amount
     /\ transfer' = [transfer EXCEPT ![t] =
          [status |-> "PENDING", from |-> s, to |-> r, amount |-> amount,
           parts |-> parts]]
  /\ Post(s, Row("CASH_OUT", amount, t))
  /\ Locks(t)
  /\ UNCHANGED shift

\* Whoever receives works from the own open shift r.
ForReceiver(t, r) ==
  /\ IsOpen(r) /\ shift[r].employee \in Cashiers
  /\ shift[transfer[t].from].employee # shift[r].employee
  /\ transfer[t].to \in {None, r}

AcceptTransfer(t, r) ==
  /\ Pending(t)
  /\ ForReceiver(t, r)
  /\ Post(r, Row("CASH_IN", transfer[t].amount, t))
  /\ transfer' = [transfer EXCEPT ![t].status = "ACCEPTED", ![t].to = r]
  /\ Locks(t)
  /\ UNCHANGED shift

\* A handover nobody is named for is rejected by any cashier, shift or not.
MayReject(t, e) ==
  /\ e \in Cashiers \ {shift[transfer[t].from].employee}
  /\ transfer[t].to # None => IsOpen(transfer[t].to) /\ shift[transfer[t].to].employee = e

\* Mutant: the source takes the cash back even when it has been closed.
ReturnsAlways(t) == TRUE
Returns(t) == IsOpen(transfer[t].from)
Settled(t, status) == [transfer EXCEPT ![t].status = status]

RejectTransfer(t, e) ==
  LET from == transfer[t].from IN
  /\ Pending(t)
  /\ MayReject(t, e)
  /\ \/ /\ Returns(t)
        /\ Post(from, Row("CASH_IN", transfer[t].amount, t))
        /\ transfer' = Settled(t, "REJECTED")
     \/ /\ ~ Returns(t)
        /\ transfer' = Settled(t, "DISPUTED")
        /\ UNCHANGED ledger
  /\ Locks(t)
  /\ UNCHANGED shift

-----------------------------------------------------------------------------
(* SERIALIZABLE: Begin takes the snapshot and the decisions made from it, the *)
(* second step gets the rows and commits.                                     *)
Snapshot(c, snap) ==
  /\ serial[c] = Idle
  /\ \A s \in {snap.shift, snap.to} \ {None} : IsOpen(s)
  /\ serial' = [serial EXCEPT ![c] = snap]
  /\ UNCHANGED <<shift, ledger, transfer>>

View(s) == Len(ledger[s])

BeginClose(c, s) ==
  /\ From(s) = {} /\ To(s) = {}
  /\ Snapshot(c, [Idle EXCEPT !.op = "close", !.shift = s, !.rows = View(s)])

BeginForceClose(c, s) ==
  Snapshot(c, [Idle EXCEPT !.op = "force", !.shift = s, !.rows = View(s),
                           !.moved = From(s) \cup To(s)])

BeginHandover(c, s, r, amount) ==
  /\ s # r
  /\ shift[r].employee \in Cashiers
  /\ amount <= Balance(ledger[s])
  /\ Worth(Composition(s, View(s), amount)) >= amount
  /\ Snapshot(c, [Idle EXCEPT !.op = "handover", !.shift = s, !.to = r,
                              !.amount = amount, !.rows = View(s)])

BeginRefund(c, s, amount) ==
  /\ Refundable(amount)
  /\ amount <= Balance(ledger[s])
  /\ Snapshot(c, [Idle EXCEPT !.op = "refund", !.shift = s, !.amount = amount])

\* Nothing commits while an operation outside Overlapping is under way.
Quiet == \A c \in Clerk : serial[c].op \in Overlapping \cup {"idle"}
Commits(c, op) == serial[c].op = op /\ (op \in Overlapping => Quiet)

\* The totals are those of the first rows of the ledger.  What the cashier
\* counted is left out: nothing reads the ledger of a closed shift.
Closed(s, rows) ==
  /\ shift' = [shift EXCEPT ![s].status = "CLOSED", ![s].counted = rows]
  /\ Post(s, Row("CLOSING_BALANCE", 0, None))

CloseShift(c) ==
  LET s == serial[c].shift IN
  /\ Commits(c, "close")
  /\ Closed(s, serial[c].rows)
  /\ Updates(s, {})
  /\ UNCHANGED transfer

ForceCloseShift(c) ==
  LET s == serial[c].shift
      moved == serial[c].moved IN
  /\ Commits(c, "force")
  /\ transfer' = [t \in Transfer |->
       IF t \notin moved THEN transfer[t]
       ELSE IF transfer[t].from = s THEN [transfer[t] EXCEPT !.status = "DISPUTED"]
       ELSE [transfer[t] EXCEPT !.to = None]]
  /\ Closed(s, serial[c].rows)
  /\ Updates(s, moved)

ForceHandover(c, t) ==
  LET s == serial[c].shift
      r == serial[c].to
      amount == serial[c].amount IN
  /\ Commits(c, "handover")
  /\ transfer[t] = NoTransfer
  /\ transfer' = [transfer EXCEPT ![t] =
       [status |-> "ACCEPTED", from |-> s, to |-> r, amount |-> amount,
        parts |-> Composition(s, serial[c].rows, amount)]]
  /\ ledger' = [ledger EXCEPT ![s] = Append(@, Row("CASH_OUT", amount, t)),
                              ![r] = Append(@, Row("CASH_IN", amount, t))]
  /\ Crosses(s, r)
  /\ UNCHANGED shift

Refund(c) ==
  LET s == serial[c].shift IN
  /\ Commits(c, "refund")
  /\ Refundable(serial[c].amount)
  /\ Post(s, Row("REFUND", serial[c].amount, None))
  /\ Updates(s, {})
  /\ UNCHANGED <<shift, transfer>>

\* Any other failure, a crash, or the third conflict.
Fail(c) ==
  /\ serial[c] # Idle
  /\ serial' = [serial EXCEPT ![c] = Idle]
  /\ UNCHANGED <<shift, ledger, transfer>>

-----------------------------------------------------------------------------
AtTheTill ==
  \E s \in Shift :
    \/ \E e \in Employee, amount \in Openings : OpenShift(s, e, amount)
    \/ \E amount \in Sales : Sell(s, amount)
    \/ \E kind \in Kinds, amount \in Entries : ManualEntry(s, kind, amount)
    \/ \E amount \in Entries : CancelItem(s, amount)

BetweenDrawers ==
  \E t \in Transfer :
    \/ \E s, r \in Shift, amount \in Portions : CreateTransfer(t, s, r, amount)
    \/ \E r \in Shift : AcceptTransfer(t, r)
    \/ \E e \in Employee : RejectTransfer(t, e)

Begins ==
  \E c \in Clerk, s \in Shift :
    \/ BeginClose(c, s)
    \/ BeginForceClose(c, s)
    \/ \E r \in Shift, amount \in Portions : BeginHandover(c, s, r, amount)
    \/ \E amount \in Entries : BeginRefund(c, s, amount)

Ends ==
  \E c \in Clerk :
    \/ CloseShift(c)
    \/ ForceCloseShift(c)
    \/ \E t \in Transfer : ForceHandover(c, t)
    \/ Refund(c)
    \/ Fail(c)

Next == (Quiet /\ (AtTheTill \/ BetweenDrawers \/ Begins)) \/ Ends

Spec == Init /\ [][Next]_vars

-----------------------------------------------------------------------------
(* Properties.                                                                *)

\* Every variable has its type.
TypeOK ==
  /\ shift \in [Shift -> [status : {"NONE", "OPEN", "CLOSED"},
                          employee : Employee \cup {None}, counted : Nat]]
  /\ ledger \in [Shift -> Seq([type : Kinds, amount : Nat,
                               transfer : Transfer \cup {None}])]
  /\ transfer \in [Transfer ->
       [status : {"NONE", "PENDING", "ACCEPTED", "REJECTED", "DISPUTED"},
        from : Shift \cup {None}, to : Shift \cup {None}, amount : Nat,
        parts : Seq([source : Shift \X (Nat \ {0}), amount : Nat \ {0}])]]
  /\ serial \in [Clerk ->
       [op : {"idle", "close", "force", "handover", "refund"},
        shift : Shift \cup {None}, to : Shift \cup {None}, amount : Nat,
        rows : Nat, moved : SUBSET Transfer]]

\* The rows of one kind that handover t has in the ledgers.
RowsOf(t, kind) ==
  {r \in UNION {{s} \X DOMAIN ledger[s] : s \in Shift} :
     ledger[r[1]][r[2]].transfer = t /\ ledger[r[1]][r[2]].type = kind}

\* The cash of a handover leaves its source once and is in exactly one place
\* afterwards: with the receiver when accepted, back in the source when
\* rejected, in no drawer while it is pending or disputed.  (Accepting,
\* rejecting and forced closing race for the same handover.)
OnlyRow(rows, s) == \E r \in rows : rows = {r} /\ r[1] = s
SettledOnce ==
  \A t \in Transfer :
    LET tr == transfer[t] IN
    /\ IF tr.status = "NONE" THEN RowsOf(t, "CASH_OUT") = {}
       ELSE OnlyRow(RowsOf(t, "CASH_OUT"), tr.from)
    /\ CASE tr.status = "ACCEPTED" -> OnlyRow(RowsOf(t, "CASH_IN"), tr.to)
         [] tr.status = "REJECTED" -> OnlyRow(RowsOf(t, "CASH_IN"), tr.from)
         [] OTHER -> RowsOf(t, "CASH_IN") = {}

\* Nothing is ever entered into the ledger of a closed shift, and its totals
\* stay as they are: no transaction that found the shift open commits after
\* the shift was closed.
ClosedIsFrozen ==
  [][\A s \in Shift : shift[s].status = "CLOSED" =>
        shift'[s] = shift[s] /\ ledger'[s] = ledger[s]]_vars

\* The closing totals count every sale, manual entry and refund of the shift:
\* those update the shift's row, so a closing that has not seen one fails.
\* What they may miss is a handover's row.
ClosingCountsTill ==
  \A s \in Shift : shift[s].status = "CLOSED" =>
    \A i \in DOMAIN ledger[s] : i > shift[s].counted =>
      ledger[s][i].type \in {"CASH_OUT", "CASH_IN", "CLOSING_BALANCE"}

\* A handover can be resolved while it is pending: its source is open, so that
\* it can take the cash back, and so is the shift it waits for, if any.
PendingIsResolvable ==
  \A t \in Transfer : Pending(t) =>
    /\ IsOpen(transfer[t].from)
    /\ transfer[t].to # None => IsOpen(transfer[t].to)

\* What parts hold of the cash of one source.
CashOf(source, parts) ==
  SumFunction([i \in DOMAIN parts |->
                 IF parts[i].source = source THEN parts[i].amount ELSE 0])

\* The cash of one source, wherever it went, is never more than the source
\* brought in: no two handovers are composed of the same money.
SourcesNotDoubled ==
  LET onTheWay == {t \in Transfer : transfer[t].status \in {"PENDING", "DISPUTED"}}
      drawer == [z \in Shift |-> Buckets(z, Len(ledger[z]))]
  IN  \A s \in Shift : \A i \in DOMAIN ledger[s] :
        ledger[s][i].type \in Credits =>
          SumFunction([z \in Shift |-> CashOf(<<s, i>>, drawer[z])])
            + SumFunctionOnSet([t \in Transfer |-> CashOf(<<s, i>>, transfer[t].parts)],
                               onTheWay)
            <= ledger[s][i].amount

\* No drawer pays out more than it holds.
NeverOverdrawn == \A s \in Shift : Balance(ledger[s]) >= 0
=============================================================================
