-------------------------- MODULE CashCustodyProofs --------------------------
(* What holds of CashCustody for every number of shifts, employees, handovers *)
(* and transactions in flight, whichever operations may overlap; that no cash *)
(* travels twice, where no forced handover overlaps with others.              *)
EXTENDS CashCustody, FoldTheorems

-----------------------------------------------------------------------------
(* The inductive invariant.                                                   *)

\* What a composition consists of is left open: no part of the invariant
\* depends on it.
Handover(parts) ==
  [status : {"NONE", "PENDING", "ACCEPTED", "REJECTED", "DISPUTED"},
   from : Shift \cup {None}, to : Shift \cup {None}, amount : Nat,
   parts : {parts}]
Entry == [type : Kinds, amount : Nat, transfer : Transfer \cup {None}]
InFlight ==
  [op : {"idle", "close", "force", "handover", "refund"},
   shift : Shift \cup {None}, to : Shift \cup {None}, amount : Nat,
   rows : Nat, moved : SUBSET Transfer]

Typed ==
  /\ shift \in [Shift -> [status : {"NONE", "OPEN", "CLOSED"},
                          employee : Employee \cup {None}, counted : Nat]]
  /\ ledger \in [Shift -> Seq(Entry)]
  /\ transfer = [t \in Transfer |-> transfer[t]]
  /\ \A t \in Transfer : transfer[t] \in Handover(transfer[t].parts)
  /\ serial \in [Clerk -> InFlight]

\* A handover that exists left an existing shift.
Sourced ==
  \A t \in Transfer : transfer[t].status # "NONE" => transfer[t].from \in Shift

\* The shifts of a transaction that can still commit are open.
FoundOpen ==
  \A c \in Clerk : serial[c].op # "idle" =>
    /\ serial[c].shift \in Shift /\ IsOpen(serial[c].shift)
    /\ serial[c].to \in Shift => IsOpen(serial[c].to)

\* The handovers a forced close is to move are still pending, its own, and
\* no other operation moves any.
MovesPending ==
  \A c \in Clerk :
    /\ \A t \in serial[c].moved : Pending(t)
    /\ serial[c].op \in {"idle", "close", "handover", "refund"} => serial[c].moved = {}
    /\ serial[c].op = "handover" => serial[c].to \in Shift /\ serial[c].to # serial[c].shift

\* Beyond the first n rows, ledger l[s] has no sale, entry or refund.
NotTill == {"CASH_OUT", "CASH_IN", "CLOSING_BALANCE"}
HandoversIn(l, s, n) ==
  \A i \in DOMAIN l[s] : i > n => l[s][i].type \in NotTill
HandoversAfter(s, n) == HandoversIn(ledger, s, n)

\* What a closing in flight has not seen are rows of handovers.
SeesTheTill ==
  \A c \in Clerk : serial[c].op \in {"close", "force"} =>
    HandoversAfter(serial[c].shift, serial[c].rows)

IInv ==
  /\ Typed
  /\ Sourced
  /\ FoundOpen
  /\ MovesPending
  /\ SeesTheTill
  /\ SettledOnce
  /\ ClosingCountsTill

-----------------------------------------------------------------------------
(* What the parts of a step do.                                               *)

LEMMA IdleType == Idle \in InFlight
BY CashAssumption DEF Idle, InFlight

LEMMA RowType ==
  ASSUME NEW kind \in Kinds, NEW amount \in Nat, NEW t \in Transfer \cup {None}
  PROVE  /\ Row(kind, amount, t) \in Entry
         /\ Row(kind, amount, t).type = kind
         /\ Row(kind, amount, t).transfer = t
BY DEF Row, Entry

LEMMA Positions ==
  ASSUME NEW rows \in Seq(Entry)
  PROVE  DOMAIN rows \subseteq Nat
OBVIOUS

\* The rows of one kind that handover t has in the ledgers l.
RowsIn(l, t, kind) ==
  {r \in UNION {{s} \X DOMAIN l[s] : s \in Shift} :
     l[r[1]][r[2]].transfer = t /\ l[r[1]][r[2]].type = kind}

\* A row is added at the end of one ledger.
Extended(l, m, s, row) == m = [l EXCEPT ![s] = Append(@, row)]

LEMMA Appended ==
  ASSUME NEW l \in [Shift -> Seq(Entry)], NEW s \in Shift, NEW row \in Entry,
         NEW m, Extended(l, m, s, row)
  PROVE  /\ m \in [Shift -> Seq(Entry)]
         /\ \A z \in Shift : z # s => m[z] = l[z]
         /\ Len(l[s]) \in Nat
         /\ DOMAIN l[s] = 1..Len(l[s])
         /\ DOMAIN m[s] = 1..(Len(l[s]) + 1)
         /\ \A i \in 1..Len(l[s]) : m[s][i] = l[s][i]
         /\ m[s][Len(l[s]) + 1] = row
<1>1. l[s] \in Seq(Entry)
  OBVIOUS
<1>2. /\ m = [l EXCEPT ![s] = Append(l[s], row)]
      /\ Append(l[s], row) \in Seq(Entry)
  BY <1>1 DEF Extended
<1> QED
  BY <1>1, <1>2

\* Nothing else than that row is added to the rows of a handover.
LEMMA AppendedRows ==
  ASSUME NEW l \in [Shift -> Seq(Entry)], NEW s \in Shift, NEW row \in Entry,
         NEW m, Extended(l, m, s, row), NEW t \in Transfer, NEW kind
  PROVE  /\ row.transfer = t /\ row.type = kind =>
              RowsIn(m, t, kind) = RowsIn(l, t, kind) \cup {<<s, Len(l[s]) + 1>>}
         /\ ~ (row.transfer = t /\ row.type = kind) =>
              RowsIn(m, t, kind) = RowsIn(l, t, kind)
<1> DEFINE n == Len(l[s])
<1>1. /\ \A z \in Shift : z # s => m[z] = l[z]
      /\ n \in Nat
      /\ DOMAIN l[s] = 1..n
      /\ DOMAIN m[s] = 1..(n + 1)
      /\ \A i \in 1..n : m[s][i] = l[s][i]
      /\ m[s][n + 1] = row
  BY Appended
<1>2. \A r : r \in RowsIn(l, t, kind) <=>
        \E z \in Shift : \E i \in Nat : i \in DOMAIN l[z] /\
          r = <<z, i>> /\ l[z][i].transfer = t /\ l[z][i].type = kind
  BY Positions DEF RowsIn
<1>3. \A r : r \in RowsIn(m, t, kind) <=>
        \E z \in Shift : \E i \in Nat : i \in DOMAIN m[z] /\
          r = <<z, i>> /\ m[z][i].transfer = t /\ m[z][i].type = kind
  BY Appended, Positions DEF RowsIn
<1> HIDE DEF n
<1>4. ASSUME NEW r
      PROVE  r \in RowsIn(m, t, kind) <=>
               r \in RowsIn(l, t, kind)
                 \/ (row.transfer = t /\ row.type = kind /\ r = <<s, n + 1>>)
  <2>1. ASSUME r \in RowsIn(l, t, kind)
        PROVE  r \in RowsIn(m, t, kind)
    <3>1. PICK z \in Shift, i \in Nat : i \in DOMAIN l[z] /\
            r = <<z, i>> /\ l[z][i].transfer = t /\ l[z][i].type = kind
      BY <1>2, <2>1
    <3>2. i \in DOMAIN m[z] /\ m[z][i] = l[z][i]
      <4>1. CASE z = s
        BY <1>1, <3>1, <4>1
      <4>2. CASE z # s
        BY <1>1, <3>1, <4>2
      <4> QED
        BY <4>1, <4>2
    <3> QED
      BY <1>3, <3>1, <3>2
  <2>2. ASSUME row.transfer = t, row.type = kind, r = <<s, n + 1>>
        PROVE  r \in RowsIn(m, t, kind)
    <3>1. n + 1 \in Nat /\ n + 1 \in DOMAIN m[s] /\ m[s][n + 1] = row
      BY <1>1
    <3> QED
      BY <1>3, <2>2, <3>1
  <2>3. ASSUME r \in RowsIn(m, t, kind)
        PROVE  r \in RowsIn(l, t, kind)
                 \/ (row.transfer = t /\ row.type = kind /\ r = <<s, n + 1>>)
    <3>1. PICK z \in Shift, i \in Nat : i \in DOMAIN m[z] /\
            r = <<z, i>> /\ m[z][i].transfer = t /\ m[z][i].type = kind
      BY <1>3, <2>3
    <3>2. CASE z = s /\ i = n + 1
      BY <1>1, <3>1, <3>2
    <3>3. CASE ~ (z = s /\ i = n + 1)
      <4>1. i \in DOMAIN l[z] /\ m[z][i] = l[z][i]
        BY <1>1, <3>1, <3>3
      <4> QED
        BY <1>2, <3>1, <4>1
    <3> QED
      BY <3>2, <3>3
  <2> QED
    BY <2>1, <2>2, <2>3
<1>5. CASE row.transfer = t /\ row.type = kind
  <2>1. RowsIn(m, t, kind) = RowsIn(l, t, kind) \cup {<<s, n + 1>>}
    BY <1>4, <1>5
  <2> QED
    BY <1>5, <2>1 DEF n
<1>6. CASE ~ (row.transfer = t /\ row.type = kind)
  <2>1. RowsIn(m, t, kind) = RowsIn(l, t, kind)
    BY <1>4, <1>6
  <2> QED
    BY <1>6, <2>1
<1> QED
  BY <1>5, <1>6

LEMMA PostRows ==
  ASSUME ledger \in [Shift -> Seq(Entry)], NEW s \in Shift, NEW row \in Entry,
         Post(s, row), NEW t \in Transfer, NEW kind
  PROVE  /\ row.transfer = t /\ row.type = kind =>
              RowsOf(t, kind)' = RowsOf(t, kind) \cup {<<s, Len(ledger[s]) + 1>>}
         /\ ~ (row.transfer = t /\ row.type = kind) =>
              RowsOf(t, kind)' = RowsOf(t, kind)
<1>1. RowsOf(t, kind) = RowsIn(ledger, t, kind) /\ RowsOf(t, kind)' = RowsIn(ledger', t, kind)
  BY DEF RowsOf, RowsIn
<1>2. Extended(ledger, ledger', s, row)
  BY DEF Post, Extended
<1>3. CASE row.transfer = t /\ row.type = kind
  <2>1. RowsIn(ledger', t, kind) = RowsIn(ledger, t, kind) \cup {<<s, Len(ledger[s]) + 1>>}
    BY <1>2, <1>3, AppendedRows
  <2> QED
    BY <1>1, <1>3, <2>1
<1>4. CASE ~ (row.transfer = t /\ row.type = kind)
  <2>1. RowsIn(ledger', t, kind) = RowsIn(ledger, t, kind)
    BY <1>2, <1>4, AppendedRows
  <2> QED
    BY <1>1, <1>4, <2>1
<1> QED
  BY <1>3, <1>4

LEMMA DroppedSerial ==
  ASSUME serial \in [Clerk -> InFlight], NEW failed, Dropped(failed)
  PROVE  /\ serial' \in [Clerk -> InFlight]
         /\ \A c \in Clerk : serial'[c] = IF c \in failed THEN Idle ELSE serial[c]
<1>1. serial' = [c \in Clerk |-> IF c \in failed THEN Idle ELSE serial[c]]
  BY DEF Dropped
<1> QED
  BY <1>1, IdleType

-----------------------------------------------------------------------------
(* Initially.                                                                 *)
LEMMA InitIInv == Init => IInv
<1> SUFFICES ASSUME Init PROVE IInv
  OBVIOUS
<1>1. /\ \A s \in Shift : shift[s] = Unopened /\ ledger[s] = <<>>
      /\ \A t \in Transfer : transfer[t] = NoTransfer
      /\ \A c \in Clerk : serial[c] = Idle
  BY DEF Init
<1>2. Typed
  <2>1. shift \in [Shift -> [status : {"NONE", "OPEN", "CLOSED"},
                          employee : Employee \cup {None}, counted : Nat]]
    BY DEF Init, Unopened
  <2>2. ledger \in [Shift -> Seq(Entry)]
    BY DEF Init
  <2>3. transfer = [t \in Transfer |-> transfer[t]]
    BY DEF Init
  <2>4. \A t \in Transfer : transfer[t] \in Handover(transfer[t].parts)
    BY <1>1 DEF NoTransfer, Handover
  <2>5. serial \in [Clerk -> InFlight]
    BY IdleType DEF Init
  <2> QED
    BY <2>1, <2>2, <2>3, <2>4, <2>5 DEF Typed
<1>3. Sourced /\ FoundOpen /\ MovesPending /\ SeesTheTill
  BY <1>1 DEF Sourced, FoundOpen, MovesPending, SeesTheTill, NoTransfer, Idle
<1>4. SettledOnce
  <2>1. \A t \in Transfer : \A kind \in Kinds : RowsOf(t, kind) = {}
    BY <1>1 DEF RowsOf
  <2>2. \A t \in Transfer : transfer[t].status = "NONE"
    BY <1>1 DEF NoTransfer
  <2>3. "CASH_IN" \in Kinds /\ "CASH_OUT" \in Kinds
    BY DEF Kinds, Debits, Credits
  <2> QED
    BY <2>1, <2>2, <2>3 DEF SettledOnce
<1>5. ClosingCountsTill
  BY <1>1 DEF ClosingCountsTill, Unopened
<1> QED
  BY <1>2, <1>3, <1>4, <1>5 DEF IInv

-----------------------------------------------------------------------------
(* What steps have in common.                                                 *)

SettledAt(t) ==
  /\ IF transfer[t].status = "NONE" THEN RowsOf(t, "CASH_OUT") = {}
     ELSE OnlyRow(RowsOf(t, "CASH_OUT"), transfer[t].from)
  /\ CASE transfer[t].status = "ACCEPTED" ->
            OnlyRow(RowsOf(t, "CASH_IN"), transfer[t].to)
       [] transfer[t].status = "REJECTED" ->
            OnlyRow(RowsOf(t, "CASH_IN"), transfer[t].from)
       [] OTHER -> RowsOf(t, "CASH_IN") = {}

LEMMA SettledParts == SettledOnce <=> \A t \in Transfer : SettledAt(t)
BY DEF SettledOnce, SettledAt

LEMMA SettledPartsNext == SettledOnce' <=> \A t \in Transfer : SettledAt(t)'
BY DEF SettledOnce, SettledAt

\* A handover whose row and ledger rows stay as they are.
LEMMA SettledKept ==
  ASSUME NEW t \in Transfer, SettledAt(t), transfer'[t] = transfer[t],
         RowsOf(t, "CASH_OUT")' = RowsOf(t, "CASH_OUT"),
         RowsOf(t, "CASH_IN")' = RowsOf(t, "CASH_IN")
  PROVE  SettledAt(t)'
BY DEF SettledAt, OnlyRow

\* A row that is not a handover's leaves every handover's rows alone.
LEMMA OtherRow ==
  ASSUME ledger \in [Shift -> Seq(Entry)], NEW s \in Shift, NEW row \in Entry,
         Post(s, row), NEW t \in Transfer, row.transfer # t
  PROVE  /\ RowsOf(t, "CASH_OUT")' = RowsOf(t, "CASH_OUT")
         /\ RowsOf(t, "CASH_IN")' = RowsOf(t, "CASH_IN")
BY PostRows

LEMMA PostLedger ==
  ASSUME ledger \in [Shift -> Seq(Entry)], NEW s \in Shift, NEW row \in Entry,
         Post(s, row)
  PROVE  /\ ledger' \in [Shift -> Seq(Entry)]
         /\ \A z \in Shift : z # s => ledger'[z] = ledger[z]
         /\ Len(ledger[s]) \in Nat
         /\ DOMAIN ledger[s] = 1..Len(ledger[s])
         /\ DOMAIN ledger'[s] = 1..(Len(ledger[s]) + 1)
         /\ \A i \in 1..Len(ledger[s]) : ledger'[s][i] = ledger[s][i]
         /\ ledger'[s][Len(ledger[s]) + 1] = row
<1>1. Extended(ledger, ledger', s, row)
  BY DEF Post, Extended
<1> QED
  BY <1>1, Appended

\* A closing does not miss a row it need not have seen.
LEMMA HandoversStay ==
  ASSUME NEW l \in [Shift -> Seq(Entry)], NEW s \in Shift, NEW row \in Entry,
         NEW m, Extended(l, m, s, row), NEW z \in Shift, NEW n, HandoversIn(l, z, n),
         z = s => row.type \in NotTill
  PROVE  HandoversIn(m, z, n)
<1>1. CASE z # s
  BY <1>1, Appended DEF HandoversIn
<1>2. CASE z = s
  <2>1. SUFFICES ASSUME NEW i \in DOMAIN m[s], i > n
                 PROVE  m[s][i].type \in NotTill
    BY <1>2 DEF HandoversIn
  <2>2. CASE i = Len(l[s]) + 1
    BY <1>2, <2>2, Appended
  <2>3. CASE i # Len(l[s]) + 1
    <3>1. i \in DOMAIN l[s] /\ m[s][i] = l[s][i]
      <4>0. Len(l[s]) \in Nat /\ DOMAIN m[s] = 1..(Len(l[s]) + 1)
        BY Appended
      <4>1. Len(l[s]) \in Nat /\ i \in 1..(Len(l[s]) + 1)
        BY <2>1, <4>0
      <4>2. i \in 1..Len(l[s])
        BY <2>3, <4>1
      <4> QED
        BY <4>2, Appended
    <3> QED
      BY <1>2, <2>1, <3>1 DEF HandoversIn
  <2> QED
    BY <2>2, <2>3
<1> QED
  BY <1>1, <1>2

LEMMA PostHandoversStay ==
  ASSUME ledger \in [Shift -> Seq(Entry)], NEW s \in Shift, NEW row \in Entry,
         Post(s, row), NEW z \in Shift, NEW n, HandoversAfter(z, n),
         z = s => row.type \in NotTill
  PROVE  HandoversAfter(z, n)'
<1>1. Extended(ledger, ledger', s, row)
  BY DEF Post, Extended
<1> QED
  BY <1>1, HandoversStay DEF HandoversAfter

CountsAt(s) == shift[s].status = "CLOSED" => HandoversIn(ledger, s, shift[s].counted)

LEMMA CountsParts == ClosingCountsTill <=> \A s \in Shift : CountsAt(s)
BY DEF ClosingCountsTill, CountsAt, HandoversIn, NotTill

LEMMA CountsPartsNext == ClosingCountsTill' <=> \A s \in Shift : CountsAt(s)'
BY DEF ClosingCountsTill, CountsAt, HandoversIn, NotTill

\* What is asked of a step about the transactions it does not drop.
Survives(c) ==
  /\ shift'[serial[c].shift].status = "OPEN"
  /\ serial[c].to \in Shift => shift'[serial[c].to].status = "OPEN"
  /\ \A t \in serial[c].moved : transfer'[t].status = "PENDING"
  /\ serial[c].op \in {"close", "force"} =>
       HandoversIn(ledger', serial[c].shift, serial[c].rows)

LEMMA InFlightKept ==
  ASSUME IInv, NEW failed, Dropped(failed),
         \A c \in Clerk : c \notin failed /\ serial[c].op # "idle" => Survives(c)
  PROVE  serial' \in [Clerk -> InFlight] /\ FoundOpen' /\ MovesPending' /\ SeesTheTill'
<1>1. /\ serial' \in [Clerk -> InFlight]
      /\ \A c \in Clerk : serial'[c] = IF c \in failed THEN Idle ELSE serial[c]
  BY DroppedSerial DEF IInv, Typed
<1>2. \A c \in Clerk : serial'[c].op # "idle" =>
        serial'[c] = serial[c] /\ serial[c].op # "idle" /\ Survives(c)
  BY <1>1 DEF Idle
<1>3. \A c \in Clerk : serial'[c].op = "idle" =>
        serial'[c].moved = {}
  <2>1. \A c \in Clerk : serial'[c].op = "idle" => serial'[c] = Idle \/ serial'[c] = serial[c]
    BY <1>1
  <2> QED
    BY <2>1 DEF IInv, MovesPending, Idle
<1>4. FoundOpen'
  BY <1>2 DEF FoundOpen, IInv, Survives, IsOpen
<1>5. MovesPending'
  <2> SUFFICES ASSUME NEW c \in Clerk
               PROVE  /\ \A t \in serial'[c].moved : Pending(t)'
                      /\ serial'[c].op \in {"idle", "close", "handover", "refund"} =>
                           serial'[c].moved = {}
                      /\ serial'[c].op = "handover" =>
                           serial'[c].to \in Shift /\ serial'[c].to # serial'[c].shift
    BY DEF MovesPending
  <2>1. CASE serial'[c].op = "idle"
    BY <2>1, <1>3
  <2>2. CASE serial'[c].op # "idle"
    BY <2>2, <1>2 DEF IInv, MovesPending, Survives, Pending
  <2> QED
    BY <2>1, <2>2
<1>6. SeesTheTill'
  BY <1>2 DEF SeesTheTill, Survives, HandoversAfter
<1> QED
  BY <1>1, <1>4, <1>5, <1>6

-----------------------------------------------------------------------------
(* One row for an open shift, the shifts and the handovers as they were.      *)
LEMMA TillStep ==
  ASSUME IInv, NEW s \in Shift, IsOpen(s), NEW row \in Entry, row.transfer = None,
         Post(s, row), Updates(s, {}), UNCHANGED <<shift, transfer>>
  PROVE  IInv'
<1>1. Dropped(OnRow(s) \cup Moving({}))
  BY DEF Updates
<1>2. ledger \in [Shift -> Seq(Entry)] /\ ledger' \in [Shift -> Seq(Entry)]
  BY PostLedger DEF IInv, Typed
<1>3. ASSUME NEW c \in Clerk, c \notin OnRow(s) \cup Moving({}), serial[c].op # "idle"
      PROVE  Survives(c)
  <2>1. serial[c].shift # s
    BY <1>3 DEF OnRow
  <2>2. serial[c].op \in {"close", "force"} =>
          HandoversIn(ledger', serial[c].shift, serial[c].rows)
    BY <1>2, <1>3, <2>1, PostHandoversStay DEF IInv, SeesTheTill, FoundOpen, HandoversAfter
  <2>3. shift' = shift /\ transfer' = transfer
    OBVIOUS
  <2>4. IsOpen(serial[c].shift) /\ (serial[c].to \in Shift => IsOpen(serial[c].to))
    BY <1>3 DEF IInv, FoundOpen
  <2>5. \A t \in serial[c].moved : Pending(t)
    BY DEF IInv, MovesPending
  <2> QED
    BY <2>2, <2>3, <2>4, <2>5 DEF Survives, IsOpen, Pending
<1>4. serial' \in [Clerk -> InFlight] /\ FoundOpen' /\ MovesPending' /\ SeesTheTill'
  BY <1>1, <1>3, InFlightKept
<1>5. Typed' /\ Sourced'
  BY <1>2, <1>4 DEF IInv, Typed, Sourced
<1>6. SettledOnce'
  <2>1. ASSUME NEW t \in Transfer PROVE SettledAt(t)'
    <3>1. row.transfer # t
      BY CashAssumption
    <3>2. /\ RowsOf(t, "CASH_OUT")' = RowsOf(t, "CASH_OUT")
          /\ RowsOf(t, "CASH_IN")' = RowsOf(t, "CASH_IN")
      BY <1>2, <3>1, OtherRow
    <3>3. SettledAt(t)
      BY SettledParts DEF IInv
    <3> QED
      BY <3>2, <3>3, SettledKept
  <2> QED
    BY <2>1, SettledPartsNext
<1>7. ClosingCountsTill'
  <2>1. ASSUME NEW z \in Shift PROVE CountsAt(z)'
    <3>1. CountsAt(z)
      BY CountsParts DEF IInv
    <3>2. CASE z = s
      BY <3>2 DEF CountsAt, IsOpen
    <3>3. CASE z # s
      <4>1. ledger'[z] = ledger[z]
        BY <1>2, <3>3, PostLedger
      <4> QED
        BY <3>1, <4>1 DEF CountsAt, HandoversIn
    <3> QED
      BY <3>2, <3>3
  <2> QED
    BY <2>1, CountsPartsNext
<1> QED
  BY <1>4, <1>5, <1>6, <1>7 DEF IInv

LEMMA AtTheTillKeeps ==
  ASSUME IInv, NEW s \in Shift
  PROVE  /\ \A amount \in Sales : Sell(s, amount) => IInv'
         /\ \A kind \in Kinds, amount \in Entries : ManualEntry(s, kind, amount) => IInv'
         /\ \A amount \in Entries : CancelItem(s, amount) => IInv'
<1>1. ASSUME NEW amount \in Sales, Sell(s, amount) PROVE IInv'
  <2>1. /\ Row("SALE", amount, None) \in Entry
        /\ Row("SALE", amount, None).transfer = None
    BY RowType, CashAssumption DEF Kinds, Credits
  <2> QED
    BY <1>1, <2>1, TillStep DEF Sell
<1>2. ASSUME NEW kind \in Kinds, NEW amount \in Entries, ManualEntry(s, kind, amount)
      PROVE  IInv'
  <2>1. Row(kind, amount, None) \in Entry /\ Row(kind, amount, None).transfer = None
    BY RowType, CashAssumption
  <2> QED
    BY <1>2, <2>1, TillStep DEF ManualEntry
<1>3. ASSUME NEW amount \in Entries, CancelItem(s, amount) PROVE IInv'
  <2>1. /\ Row("REFUND", amount, None) \in Entry
        /\ Row("REFUND", amount, None).transfer = None
    BY RowType, CashAssumption DEF Kinds, Debits
  <2> QED
    BY <1>3, <2>1, TillStep DEF CancelItem
<1> QED
  BY <1>1, <1>2, <1>3

LEMMA RefundKeeps ==
  ASSUME IInv, NEW c \in Clerk, Refund(c)
  PROVE  IInv'
<1>1. serial[c].shift \in Shift /\ IsOpen(serial[c].shift) /\ serial[c].amount \in Nat
  BY DEF Refund, Commits, IInv, FoundOpen, Typed, InFlight
<1>2. /\ Row("REFUND", serial[c].amount, None) \in Entry
      /\ Row("REFUND", serial[c].amount, None).transfer = None
  BY <1>1, RowType DEF Kinds, Debits
<1> QED
  BY <1>1, <1>2, TillStep DEF Refund

-----------------------------------------------------------------------------
(* A handover is written; the shifts stay as they are.                        *)

\* Everything but what the step must say of handover t itself.  The row, if
\* there is one, is the handover's.
LEMMA WrittenKeepsDropping ==
  ASSUME IInv, NEW t \in Transfer, NEW new, new \in Handover(new.parts),
         new.status # "NONE" => new.from \in Shift,
         transfer' = [transfer EXCEPT ![t] = new],
         NEW failed, Dropped(failed),
         \A c \in Clerk : t \in serial[c].moved => c \in failed,
         shift' = shift,
         ledger' \in [Shift -> Seq(Entry)],
         \A z \in Shift : \A n : HandoversIn(ledger, z, n) => HandoversIn(ledger', z, n),
         \A z \in Shift : ~ IsOpen(z) => ledger'[z] = ledger[z],
         \A u \in Transfer : u # t =>
           /\ RowsOf(u, "CASH_OUT")' = RowsOf(u, "CASH_OUT")
           /\ RowsOf(u, "CASH_IN")' = RowsOf(u, "CASH_IN"),
         SettledAt(t)'
  PROVE  IInv'
<1>1. Dropped(failed)
  OBVIOUS
<1>2. /\ transfer'[t] = new
      /\ \A u \in Transfer : u # t => transfer'[u] = transfer[u]
      /\ transfer' = [u \in Transfer |-> transfer'[u]]
  BY DEF IInv, Typed
<1>3. ASSUME NEW c \in Clerk, c \notin failed, serial[c].op # "idle"
      PROVE  Survives(c)
  <2>1. t \notin serial[c].moved /\ serial[c].moved \subseteq Transfer
    BY <1>3 DEF IInv, Typed, InFlight
  <2>2. \A u \in serial[c].moved : transfer'[u].status = "PENDING"
    BY <1>2, <2>1 DEF IInv, MovesPending, Pending
  <2>3. serial[c].op \in {"close", "force"} =>
          HandoversIn(ledger', serial[c].shift, serial[c].rows)
    BY <1>3 DEF IInv, SeesTheTill, FoundOpen, HandoversAfter
  <2>4. IsOpen(serial[c].shift) /\ (serial[c].to \in Shift => IsOpen(serial[c].to))
    BY <1>3 DEF IInv, FoundOpen
  <2> QED
    BY <2>2, <2>3, <2>4 DEF Survives, IsOpen
<1>4. serial' \in [Clerk -> InFlight] /\ FoundOpen' /\ MovesPending' /\ SeesTheTill'
  BY <1>1, <1>3, InFlightKept
<1>5. \A u \in Transfer : transfer'[u] \in Handover(transfer'[u].parts)
  BY <1>2 DEF IInv, Typed
<1>6. Typed'
  BY <1>2, <1>4, <1>5 DEF IInv, Typed
<1>7. Sourced'
  BY <1>2 DEF IInv, Sourced
<1>8. SettledOnce'
  <2>1. ASSUME NEW u \in Transfer, u # t PROVE SettledAt(u)'
    BY <1>2, <2>1, SettledKept, SettledParts DEF IInv
  <2> QED
    BY <2>1, SettledPartsNext
<1>9. ClosingCountsTill'
  <2>1. ASSUME NEW z \in Shift PROVE CountsAt(z)'
    <3>1. CountsAt(z)
      BY CountsParts DEF IInv
    <3> QED
      BY <3>1 DEF CountsAt
  <2> QED
    BY <2>1, CountsPartsNext
<1> QED
  BY <1>4, <1>6, <1>7, <1>8, <1>9 DEF IInv

LEMMA WrittenKeeps ==
  ASSUME IInv, NEW t \in Transfer, NEW new, new \in Handover(new.parts),
         new.status # "NONE" => new.from \in Shift,
         transfer' = [transfer EXCEPT ![t] = new],
         Locks(t), shift' = shift,
         ledger' \in [Shift -> Seq(Entry)],
         \A z \in Shift : \A n : HandoversIn(ledger, z, n) => HandoversIn(ledger', z, n),
         \A z \in Shift : ~ IsOpen(z) => ledger'[z] = ledger[z],
         \A u \in Transfer : u # t =>
           /\ RowsOf(u, "CASH_OUT")' = RowsOf(u, "CASH_OUT")
           /\ RowsOf(u, "CASH_IN")' = RowsOf(u, "CASH_IN"),
         SettledAt(t)'
  PROVE  IInv'
<1>1. PICK failed : failed = Moving({t}) /\ Dropped(failed)
  BY DEF Locks
<1>2. \A c \in Clerk : t \in serial[c].moved => c \in failed
  BY <1>1 DEF Moving
<1> QED
  BY <1>1, <1>2, WrittenKeepsDropping

\* What a posted row of handover t leaves alone.
LEMMA PostedElsewhere ==
  ASSUME IInv, NEW t \in Transfer, NEW s \in Shift, IsOpen(s), NEW row \in Entry,
         row.transfer = t, row.type \in NotTill, Post(s, row)
  PROVE  /\ ledger' \in [Shift -> Seq(Entry)]
         /\ \A z \in Shift : \A n : HandoversIn(ledger, z, n) => HandoversIn(ledger', z, n)
         /\ \A z \in Shift : ~ IsOpen(z) => ledger'[z] = ledger[z]
         /\ \A u \in Transfer : u # t =>
              /\ RowsOf(u, "CASH_OUT")' = RowsOf(u, "CASH_OUT")
              /\ RowsOf(u, "CASH_IN")' = RowsOf(u, "CASH_IN")
<1>1. ledger \in [Shift -> Seq(Entry)]
  BY DEF IInv, Typed
<1>2. ledger' \in [Shift -> Seq(Entry)] /\ \A z \in Shift : z # s => ledger'[z] = ledger[z]
  BY <1>1, PostLedger
<1>3. ASSUME NEW z \in Shift, NEW n, HandoversIn(ledger, z, n) PROVE HandoversIn(ledger', z, n)
  <2>1. Extended(ledger, ledger', s, row)
    BY DEF Post, Extended
  <2> QED
    BY <1>1, <1>3, <2>1, HandoversStay
<1>4. ASSUME NEW u \in Transfer, u # t
      PROVE  /\ RowsOf(u, "CASH_OUT")' = RowsOf(u, "CASH_OUT")
             /\ RowsOf(u, "CASH_IN")' = RowsOf(u, "CASH_IN")
  BY <1>1, <1>4, OtherRow
<1> QED
  BY <1>2, <1>3, <1>4

\* The rows of handover t itself after such a row.
LEMMA PostedOut ==
  ASSUME IInv, NEW t \in Transfer, NEW s \in Shift, NEW row \in Entry,
         row.transfer = t, row.type = "CASH_OUT", Post(s, row)
  PROVE  /\ RowsOf(t, "CASH_OUT")' = RowsOf(t, "CASH_OUT") \cup {<<s, Len(ledger[s]) + 1>>}
         /\ RowsOf(t, "CASH_IN")' = RowsOf(t, "CASH_IN")
<1>1. ledger \in [Shift -> Seq(Entry)]
  BY DEF IInv, Typed
<1>2. RowsOf(t, "CASH_OUT")' = RowsOf(t, "CASH_OUT") \cup {<<s, Len(ledger[s]) + 1>>}
  BY <1>1, PostRows
<1>3. RowsOf(t, "CASH_IN")' = RowsOf(t, "CASH_IN")
  BY <1>1, PostRows
<1> QED
  BY <1>2, <1>3

LEMMA PostedIn ==
  ASSUME IInv, NEW t \in Transfer, NEW s \in Shift, NEW row \in Entry,
         row.transfer = t, row.type = "CASH_IN", Post(s, row)
  PROVE  /\ RowsOf(t, "CASH_IN")' = RowsOf(t, "CASH_IN") \cup {<<s, Len(ledger[s]) + 1>>}
         /\ RowsOf(t, "CASH_OUT")' = RowsOf(t, "CASH_OUT")
<1>1. ledger \in [Shift -> Seq(Entry)]
  BY DEF IInv, Typed
<1>2. RowsOf(t, "CASH_IN")' = RowsOf(t, "CASH_IN") \cup {<<s, Len(ledger[s]) + 1>>}
  BY <1>1, PostRows
<1>3. RowsOf(t, "CASH_OUT")' = RowsOf(t, "CASH_OUT")
  BY <1>1, PostRows
<1> QED
  BY <1>2, <1>3

LEMMA CreateTransferKeeps ==
  ASSUME IInv, NEW t \in Transfer, NEW s \in Shift, NEW r \in Shift,
         NEW amount \in Portions, CreateTransfer(t, s, r, amount)
  PROVE  IInv'
<1>1. PICK parts : transfer' = [transfer EXCEPT ![t] =
          [status |-> "PENDING", from |-> s, to |-> r, amount |-> amount, parts |-> parts]]
  BY DEF CreateTransfer
<1>2. /\ transfer[t] = NoTransfer /\ IsOpen(s) /\ shift' = shift /\ Locks(t)
      /\ Post(s, Row("CASH_OUT", amount, t))
  BY DEF CreateTransfer
<1>3. PICK row \in Entry : /\ row.type = "CASH_OUT" /\ row.transfer = t
                            /\ Post(s, row)
  BY <1>2, CashAssumption, RowType DEF Kinds, Debits
<1>4. PICK new : /\ new = [status |-> "PENDING", from |-> s, to |-> r,
                            amount |-> amount, parts |-> parts]
                 /\ transfer' = [transfer EXCEPT ![t] = new]
  BY <1>1
<1>5. /\ new.status = "PENDING" /\ new.from = s
      /\ new \in Handover(new.parts)
  BY <1>4, CashAssumption DEF Handover
<1>6. transfer'[t] = new
  BY <1>4 DEF IInv, Typed
<1>7. SettledAt(t)'
  <2>1. RowsOf(t, "CASH_OUT") = {} /\ RowsOf(t, "CASH_IN") = {}
    BY <1>2, SettledParts DEF IInv, SettledAt, NoTransfer
  <2>2. /\ RowsOf(t, "CASH_OUT")' = RowsOf(t, "CASH_OUT") \cup {<<s, Len(ledger[s]) + 1>>}
        /\ RowsOf(t, "CASH_IN")' = RowsOf(t, "CASH_IN")
    BY <1>3, PostedOut
  <2>3. PICK place : /\ place = <<s, Len(ledger[s]) + 1>>
                     /\ RowsOf(t, "CASH_OUT")' = {place}
                     /\ RowsOf(t, "CASH_IN")' = {}
    BY <2>1, <2>2
  <2> QED
    BY <1>5, <1>6, <2>3 DEF SettledAt, OnlyRow
<1>8. row.type \in NotTill
  BY <1>3 DEF NotTill
<1> QED
  BY <1>2, <1>3, <1>4, <1>5, <1>7, <1>8, PostedElsewhere, WrittenKeeps

LEMMA AcceptTransferKeeps ==
  ASSUME IInv, NEW t \in Transfer, NEW r \in Shift, AcceptTransfer(t, r)
  PROVE  IInv'
<1>1. PICK new : /\ new = [transfer[t] EXCEPT !.status = "ACCEPTED", !.to = r]
                 /\ transfer' = [transfer EXCEPT ![t] = new]
  BY DEF AcceptTransfer
<1>2. /\ Pending(t) /\ IsOpen(r) /\ shift' = shift /\ Locks(t)
      /\ Post(r, Row("CASH_IN", transfer[t].amount, t))
      /\ transfer[t].amount \in Nat
  BY DEF AcceptTransfer, ForReceiver, IInv, Typed, Handover
<1>3. PICK row \in Entry : /\ row.type = "CASH_IN" /\ row.transfer = t
                            /\ Post(r, row)
  BY <1>2, RowType DEF Kinds, Credits
<1>4. /\ new.status = "ACCEPTED" /\ new.to = r /\ new.from = transfer[t].from
      /\ new.from \in Shift
      /\ new \in Handover(new.parts)
  BY <1>1, <1>2 DEF IInv, Typed, Handover, Sourced, Pending
<1>5. transfer'[t] = new
  BY <1>1 DEF IInv, Typed
<1>6. SettledAt(t)'
  <2>1. OnlyRow(RowsOf(t, "CASH_OUT"), transfer[t].from) /\ RowsOf(t, "CASH_IN") = {}
    BY <1>2, SettledParts DEF IInv, SettledAt, Pending
  <2>2. PICK place : /\ place = <<r, Len(ledger[r]) + 1>>
                     /\ RowsOf(t, "CASH_IN")' = {place}
                     /\ RowsOf(t, "CASH_OUT")' = RowsOf(t, "CASH_OUT")
    BY <1>3, <2>1, PostedIn
  <2> QED
    BY <1>4, <1>5, <2>1, <2>2 DEF SettledAt, OnlyRow
<1>7. row.type \in NotTill
  BY <1>3 DEF NotTill
<1> QED
  BY <1>1, <1>2, <1>3, <1>4, <1>6, <1>7, PostedElsewhere, WrittenKeeps

LEMMA RejectTransferKeeps ==
  ASSUME IInv, NEW t \in Transfer, NEW e \in Employee, RejectTransfer(t, e)
  PROVE  IInv'
<1>1. /\ Pending(t) /\ shift' = shift /\ Locks(t)
      /\ transfer[t].amount \in Nat /\ transfer[t].from \in Shift
  BY DEF RejectTransfer, IInv, Typed, Handover, Sourced, Pending
<1>2. OnlyRow(RowsOf(t, "CASH_OUT"), transfer[t].from) /\ RowsOf(t, "CASH_IN") = {}
  BY <1>1, SettledParts DEF IInv, SettledAt, Pending
<1>3. ASSUME NEW status \in {"REJECTED", "DISPUTED"}, transfer' = Settled(t, status)
      PROVE  \E new : /\ transfer' = [transfer EXCEPT ![t] = new]
                      /\ transfer'[t] = new
                      /\ new.status = status
                      /\ new.from = transfer[t].from
                      /\ new \in Handover(new.parts)
  <2>1. PICK new : /\ new = [transfer[t] EXCEPT !.status = status]
                   /\ transfer' = [transfer EXCEPT ![t] = new]
    BY <1>3 DEF Settled
  <2>2. new.status = status /\ new.from = transfer[t].from /\ new \in Handover(new.parts)
    BY <2>1 DEF IInv, Typed, Handover
  <2>3. transfer'[t] = new
    BY <2>1 DEF IInv, Typed
  <2> QED
    BY <2>1, <2>2, <2>3
<1>4. CASE /\ Returns(t)
           /\ Post(transfer[t].from, Row("CASH_IN", transfer[t].amount, t))
           /\ transfer' = Settled(t, "REJECTED")
  <2>1. PICK new : /\ transfer' = [transfer EXCEPT ![t] = new]
                   /\ transfer'[t] = new
                   /\ new.status = "REJECTED"
                   /\ new.from = transfer[t].from
                   /\ new \in Handover(new.parts)
    BY <1>3, <1>4
  <2>2. PICK s \in Shift : s = transfer[t].from
    BY <1>1
  <2>3. PICK row \in Entry : /\ row.type = "CASH_IN" /\ row.transfer = t
                              /\ Post(s, row)
    BY <1>1, <1>4, <2>2, RowType DEF Kinds, Credits
  <2>4. SettledAt(t)'
    <3>1. PICK place : /\ place = <<s, Len(ledger[s]) + 1>>
                       /\ RowsOf(t, "CASH_IN")' = {place}
                       /\ RowsOf(t, "CASH_OUT")' = RowsOf(t, "CASH_OUT")
      BY <1>2, <2>3, PostedIn
    <3> QED
      BY <1>2, <2>1, <2>2, <3>1 DEF SettledAt, OnlyRow
  <2>5. IsOpen(s) /\ row.type \in NotTill
    BY <1>4, <2>2, <2>3 DEF Returns, NotTill
  <2> QED
    BY <1>1, <2>1, <2>3, <2>4, <2>5, PostedElsewhere, WrittenKeeps
<1>5. CASE UNCHANGED ledger /\ transfer' = Settled(t, "DISPUTED")
  <2>1. PICK new : /\ transfer' = [transfer EXCEPT ![t] = new]
                   /\ transfer'[t] = new
                   /\ new.status = "DISPUTED"
                   /\ new.from = transfer[t].from
                   /\ new \in Handover(new.parts)
    BY <1>3, <1>5
  <2>2. /\ \A u \in Transfer : /\ RowsOf(u, "CASH_OUT")' = RowsOf(u, "CASH_OUT")
                                /\ RowsOf(u, "CASH_IN")' = RowsOf(u, "CASH_IN")
    BY <1>5 DEF RowsOf
  <2>3. SettledAt(t)'
    BY <1>2, <2>1, <2>2 DEF SettledAt, OnlyRow
  <2>4. /\ ledger' \in [Shift -> Seq(Entry)]
        /\ \A z \in Shift : \A n : HandoversIn(ledger, z, n) => HandoversIn(ledger', z, n)
        /\ \A z \in Shift : ~ IsOpen(z) => ledger'[z] = ledger[z]
    BY <1>5 DEF IInv, Typed
  <2> QED
    BY <1>1, <2>1, <2>2, <2>3, <2>4, WrittenKeeps
<1> QED
  BY <1>4, <1>5 DEF RejectTransfer

-----------------------------------------------------------------------------
(* Opening, beginning and failing.                                            *)
LEMMA OpenShiftKeeps ==
  ASSUME IInv, NEW s \in Shift, NEW e \in Employee, NEW amount \in Openings,
         OpenShift(s, e, amount)
  PROVE  IInv'
<1>1. /\ shift[s].status = "NONE"
      /\ shift' = [shift EXCEPT ![s] = [status |-> "OPEN", employee |-> e, counted |-> 0]]
      /\ Post(s, Row("OPENING_BALANCE", amount, None))
      /\ transfer' = transfer /\ serial' = serial
  BY DEF OpenShift, Unopened
<1>2. PICK row \in Entry : /\ row.transfer = None
                            /\ Post(s, row)
  BY <1>1, CashAssumption, RowType DEF Kinds, Credits
<1>3. ledger \in [Shift -> Seq(Entry)] /\ ledger' \in [Shift -> Seq(Entry)]
  BY <1>2, PostLedger DEF IInv, Typed
<1>4. /\ shift'[s].status = "OPEN"
      /\ \A z \in Shift : z # s => shift'[z] = shift[z]
      /\ shift' \in [Shift -> [status : {"NONE", "OPEN", "CLOSED"},
                               employee : Employee \cup {None}, counted : Nat]]
  BY <1>1 DEF IInv, Typed
<1>5. Dropped({})
  BY <1>1 DEF Dropped, IInv, Typed
<1>6. ASSUME NEW c \in Clerk, c \notin {}, serial[c].op # "idle"
      PROVE  Survives(c)
  <2>1. /\ serial[c].shift \in Shift /\ IsOpen(serial[c].shift)
        /\ serial[c].to \in Shift => IsOpen(serial[c].to)
    BY <1>6 DEF IInv, FoundOpen
  <2>2. serial[c].shift # s
    BY <1>1, <2>1 DEF IsOpen
  <2>3. serial[c].op \in {"close", "force"} =>
          HandoversIn(ledger', serial[c].shift, serial[c].rows)
    BY <1>2, <1>3, <2>1, <2>2, PostHandoversStay DEF IInv, SeesTheTill, HandoversAfter
  <2>4. \A t \in serial[c].moved : transfer'[t].status = "PENDING"
    BY <1>1 DEF IInv, MovesPending, Pending
  <2> QED
    BY <1>4, <2>1, <2>3, <2>4 DEF Survives, IsOpen
<1>7. serial' \in [Clerk -> InFlight] /\ FoundOpen' /\ MovesPending' /\ SeesTheTill'
  BY <1>5, <1>6, InFlightKept
<1>8. Typed' /\ Sourced'
  BY <1>1, <1>3, <1>4, <1>7 DEF IInv, Typed, Sourced
<1>9. SettledOnce'
  <2>1. ASSUME NEW t \in Transfer PROVE SettledAt(t)'
    <3>1. row.transfer # t
      BY <1>2, CashAssumption
    <3>2. /\ RowsOf(t, "CASH_OUT")' = RowsOf(t, "CASH_OUT")
          /\ RowsOf(t, "CASH_IN")' = RowsOf(t, "CASH_IN")
      BY <1>2, <1>3, <3>1, OtherRow
    <3> QED
      BY <1>1, <3>2, SettledKept, SettledParts DEF IInv
  <2> QED
    BY <2>1, SettledPartsNext
<1>10. ClosingCountsTill'
  <2>1. ASSUME NEW z \in Shift PROVE CountsAt(z)'
    <3>1. CASE z = s
      BY <1>4, <3>1 DEF CountsAt
    <3>2. CASE z # s
      <4>1. ledger'[z] = ledger[z] /\ shift'[z] = shift[z] /\ CountsAt(z)
        BY <1>2, <1>3, <1>4, <3>2, PostLedger, CountsParts DEF IInv
      <4> QED
        BY <4>1 DEF CountsAt, HandoversIn
    <3> QED
      BY <3>1, <3>2
  <2> QED
    BY <2>1, CountsPartsNext
<1> QED
  BY <1>7, <1>8, <1>9, <1>10 DEF IInv

\* Nothing but the transactions in flight changes.
LEMMA OnlySerialKeeps ==
  ASSUME IInv, UNCHANGED <<shift, ledger, transfer>>,
         serial' \in [Clerk -> InFlight], FoundOpen', MovesPending', SeesTheTill'
  PROVE  IInv'
<1>1. Typed' /\ Sourced'
  BY DEF IInv, Typed, Sourced
<1>2. SettledOnce'
  <2>1. ASSUME NEW t \in Transfer PROVE SettledAt(t)'
    <3>1. /\ RowsOf(t, "CASH_OUT")' = RowsOf(t, "CASH_OUT")
          /\ RowsOf(t, "CASH_IN")' = RowsOf(t, "CASH_IN")
      BY DEF RowsOf
    <3> QED
      BY <3>1, SettledKept, SettledParts DEF IInv
  <2> QED
    BY <2>1, SettledPartsNext
<1>3. ClosingCountsTill'
  BY DEF IInv, ClosingCountsTill
<1> QED
  BY <1>1, <1>2, <1>3 DEF IInv

LEMMA FailKeeps ==
  ASSUME IInv, NEW c \in Clerk, Fail(c)
  PROVE  IInv'
<1>1. /\ serial' = [serial EXCEPT ![c] = Idle]
      /\ UNCHANGED <<shift, ledger, transfer>>
  BY DEF Fail
<1>2. Dropped({c})
  BY <1>1 DEF Dropped, IInv, Typed
<1>3. ASSUME NEW d \in Clerk, d \notin {c}, serial[d].op # "idle"
      PROVE  Survives(d)
  BY <1>1, <1>3
     DEF Survives, IInv, FoundOpen, MovesPending, SeesTheTill, HandoversAfter, IsOpen, Pending
<1>4. serial' \in [Clerk -> InFlight] /\ FoundOpen' /\ MovesPending' /\ SeesTheTill'
  BY <1>2, <1>3, InFlightKept
<1> QED
  BY <1>1, <1>4, OnlySerialKeeps

\* A transaction begins with a snapshot snap of open shifts.
LEMMA SnapshotKeeps ==
  ASSUME IInv, NEW c \in Clerk, NEW snap \in InFlight, Snapshot(c, snap),
         snap.shift \in Shift,
         \A t \in snap.moved : Pending(t),
         snap.op \in {"idle", "close", "handover", "refund"} => snap.moved = {},
         snap.op = "handover" => snap.to \in Shift /\ snap.to # snap.shift,
         snap.op \in {"close", "force"} => HandoversIn(ledger, snap.shift, snap.rows)
  PROVE  IInv'
<1>1. /\ serial' = [serial EXCEPT ![c] = snap]
      /\ UNCHANGED <<shift, ledger, transfer>>
      /\ IsOpen(snap.shift) /\ (snap.to \in Shift => IsOpen(snap.to))
  BY CashAssumption DEF Snapshot
<1>2. /\ serial' \in [Clerk -> InFlight]
      /\ serial'[c] = snap
      /\ \A d \in Clerk : d # c => serial'[d] = serial[d]
  BY <1>1 DEF IInv, Typed
<1>3. FoundOpen'
  BY <1>1, <1>2 DEF IInv, FoundOpen, IsOpen
<1>4. MovesPending'
  BY <1>1, <1>2 DEF IInv, MovesPending, Pending
<1>5. SeesTheTill'
  BY <1>1, <1>2 DEF IInv, SeesTheTill, HandoversAfter
<1> QED
  BY <1>1, <1>2, <1>3, <1>4, <1>5, OnlySerialKeeps

LEMMA ViewSeesAll ==
  ASSUME IInv, NEW s \in Shift
  PROVE  View(s) \in Nat /\ HandoversIn(ledger, s, View(s))
<1>1. ledger[s] \in Seq(Entry)
  BY DEF IInv, Typed
<1> QED
  BY <1>1 DEF View, HandoversIn

LEMMA BeginsKeep ==
  ASSUME IInv, NEW c \in Clerk, NEW s \in Shift
  PROVE  /\ BeginClose(c, s) => IInv'
         /\ BeginForceClose(c, s) => IInv'
         /\ \A r \in Shift, amount \in Portions : BeginHandover(c, s, r, amount) => IInv'
         /\ \A amount \in Entries : BeginRefund(c, s, amount) => IInv'
<1>1. ASSUME BeginClose(c, s) PROVE IInv'
  <2>1. PICK snap : /\ snap = [Idle EXCEPT !.op = "close", !.shift = s, !.rows = View(s)]
                    /\ Snapshot(c, snap)
    BY <1>1 DEF BeginClose
  <2>2. /\ snap \in InFlight /\ snap.shift = s /\ snap.op = "close" /\ snap.moved = {}
        /\ snap.rows = View(s)
    BY <2>1, ViewSeesAll DEF Idle, InFlight
  <2> QED
    BY <2>1, <2>2, ViewSeesAll, SnapshotKeeps
<1>2. ASSUME BeginForceClose(c, s) PROVE IInv'
  <2>1. PICK snap : /\ snap = [Idle EXCEPT !.op = "force", !.shift = s, !.rows = View(s),
                                           !.moved = From(s) \cup To(s)]
                    /\ Snapshot(c, snap)
    BY <1>2 DEF BeginForceClose
  <2>2. From(s) \cup To(s) \subseteq Transfer /\ \A t \in From(s) \cup To(s) : Pending(t)
    BY DEF From, To
  <2>3. /\ snap \in InFlight /\ snap.shift = s /\ snap.op = "force"
        /\ snap.moved = From(s) \cup To(s) /\ snap.rows = View(s)
    BY <2>1, <2>2, ViewSeesAll DEF Idle, InFlight
  <2> QED
    BY <2>1, <2>2, <2>3, ViewSeesAll, SnapshotKeeps
<1>3. ASSUME NEW r \in Shift, NEW amount \in Portions, BeginHandover(c, s, r, amount)
      PROVE  IInv'
  <2>1. PICK snap : /\ snap = [Idle EXCEPT !.op = "handover", !.shift = s, !.to = r,
                                           !.amount = amount, !.rows = View(s)]
                    /\ Snapshot(c, snap)
    BY <1>3 DEF BeginHandover
  <2>2. /\ snap \in InFlight /\ snap.shift = s /\ snap.to = r /\ snap.op = "handover"
        /\ snap.moved = {}
    BY <2>1, ViewSeesAll, CashAssumption DEF Idle, InFlight
  <2>3. s # r
    BY <1>3 DEF BeginHandover
  <2> QED
    BY <2>1, <2>2, <2>3, SnapshotKeeps
<1>4. ASSUME NEW amount \in Entries, BeginRefund(c, s, amount) PROVE IInv'
  <2>1. PICK snap : /\ snap = [Idle EXCEPT !.op = "refund", !.shift = s, !.amount = amount]
                    /\ Snapshot(c, snap)
    BY <1>4 DEF BeginRefund
  <2>2. /\ snap \in InFlight /\ snap.shift = s /\ snap.op = "refund" /\ snap.moved = {}
    BY <2>1, CashAssumption DEF Idle, InFlight
  <2> QED
    BY <2>1, <2>2, SnapshotKeeps
<1> QED
  BY <1>1, <1>2, <1>3, <1>4

-----------------------------------------------------------------------------
(* Closing.                                                                   *)

\* A closing from snapshot n of shift s, with the handovers in moved.
LEMMA ClosingKeeps ==
  ASSUME IInv, NEW s \in Shift, IsOpen(s), NEW n \in Nat, HandoversIn(ledger, s, n),
         NEW moved \in SUBSET Transfer,
         Closed(s, n), Updates(s, moved),
         transfer' = [t \in Transfer |-> transfer'[t]],
         \A t \in Transfer : t \notin moved => transfer'[t] = transfer[t],
         \A t \in moved : /\ Pending(t)
                          /\ transfer'[t].status \in {"PENDING", "DISPUTED"}
                          /\ transfer'[t].from = transfer[t].from
                          /\ transfer'[t] \in Handover(transfer'[t].parts)
  PROVE  IInv'
<1>1. /\ shift' = [shift EXCEPT ![s].status = "CLOSED", ![s].counted = n]
      /\ Post(s, Row("CLOSING_BALANCE", 0, None))
      /\ Dropped(OnRow(s) \cup Moving(moved))
  BY DEF Closed, Updates
<1>2. PICK row \in Entry : row.transfer = None /\ row.type = "CLOSING_BALANCE" /\ Post(s, row)
  BY <1>1, RowType DEF Kinds
<1>3. ledger \in [Shift -> Seq(Entry)] /\ ledger' \in [Shift -> Seq(Entry)]
  BY <1>2, PostLedger DEF IInv, Typed
<1>4. /\ shift'[s].status = "CLOSED" /\ shift'[s].counted = n
      /\ \A z \in Shift : z # s => shift'[z] = shift[z]
      /\ shift' \in [Shift -> [status : {"NONE", "OPEN", "CLOSED"},
                               employee : Employee \cup {None}, counted : Nat]]
  <2>1. /\ shift \in [Shift -> [status : {"NONE", "OPEN", "CLOSED"},
                                employee : Employee \cup {None}, counted : Nat]]
        /\ shift' = [shift EXCEPT ![s] = [shift[s] EXCEPT !.status = "CLOSED",
                                                          !.counted = n]]
    BY <1>1 DEF IInv, Typed
  <2>2. PICK new \in [status : {"NONE", "OPEN", "CLOSED"},
                      employee : Employee \cup {None}, counted : Nat] :
          /\ new.status = "CLOSED" /\ new.counted = n
          /\ shift' = [shift EXCEPT ![s] = new]
    BY <2>1
  <2> QED
    BY <2>1, <2>2
<1>5. row.type \in NotTill
  BY <1>2 DEF NotTill
<1>6. ASSUME NEW c \in Clerk, c \notin OnRow(s) \cup Moving(moved), serial[c].op # "idle"
      PROVE  Survives(c)
  <2>1. /\ serial[c].shift \in Shift /\ IsOpen(serial[c].shift)
        /\ serial[c].to \in Shift => IsOpen(serial[c].to)
        /\ serial[c].shift # s /\ serial[c].to # s
    BY <1>6 DEF IInv, FoundOpen, OnRow
  <2>2. serial[c].op \in {"close", "force"} =>
          HandoversIn(ledger', serial[c].shift, serial[c].rows)
    BY <1>2, <1>3, <2>1, PostHandoversStay DEF IInv, SeesTheTill, HandoversAfter
  <2>3. serial[c].moved \cap moved = {} /\ serial[c].moved \subseteq Transfer
    BY <1>6 DEF Moving, IInv, Typed, InFlight
  <2>4. \A t \in serial[c].moved : transfer'[t].status = "PENDING"
    BY <2>3 DEF IInv, MovesPending, Pending
  <2> QED
    BY <1>4, <2>1, <2>2, <2>4 DEF Survives, IsOpen
<1>7. serial' \in [Clerk -> InFlight] /\ FoundOpen' /\ MovesPending' /\ SeesTheTill'
  BY <1>1, <1>6, InFlightKept
<1>8. \A t \in Transfer : transfer'[t] \in Handover(transfer'[t].parts)
  BY DEF IInv, Typed
<1>9. Typed'
  BY <1>3, <1>4, <1>7, <1>8 DEF Typed
<1>10. Sourced'
  BY DEF IInv, Sourced, Pending
<1>11. SettledOnce'
  <2>1. ASSUME NEW t \in Transfer PROVE SettledAt(t)'
    <3>1. row.transfer # t
      BY <1>2, CashAssumption
    <3>2. /\ RowsOf(t, "CASH_OUT")' = RowsOf(t, "CASH_OUT")
          /\ RowsOf(t, "CASH_IN")' = RowsOf(t, "CASH_IN")
      BY <1>2, <1>3, <3>1, OtherRow
    <3>3. SettledAt(t)
      BY SettledParts DEF IInv
    <3>4. CASE t \notin moved
      BY <3>2, <3>3, <3>4, SettledKept
    <3>5. CASE t \in moved
      BY <3>2, <3>3, <3>5 DEF SettledAt, OnlyRow, Pending
    <3> QED
      BY <3>4, <3>5
  <2> QED
    BY <2>1, SettledPartsNext
<1>12. ClosingCountsTill'
  <2>1. ASSUME NEW z \in Shift PROVE CountsAt(z)'
    <3>1. CASE z = s
      <4>1. HandoversIn(ledger', s, n)
        BY <1>2, <1>3, <1>5, PostHandoversStay DEF HandoversAfter
      <4> QED
        BY <1>4, <3>1, <4>1 DEF CountsAt
    <3>2. CASE z # s
      <4>1. ledger'[z] = ledger[z] /\ shift'[z] = shift[z] /\ CountsAt(z)
        BY <1>2, <1>3, <1>4, <3>2, PostLedger, CountsParts DEF IInv
      <4> QED
        BY <4>1 DEF CountsAt, HandoversIn
    <3> QED
      BY <3>1, <3>2
  <2> QED
    BY <2>1, CountsPartsNext
<1> QED
  BY <1>7, <1>9, <1>10, <1>11, <1>12 DEF IInv

LEMMA CloseShiftKeeps ==
  ASSUME IInv, NEW c \in Clerk, CloseShift(c)
  PROVE  IInv'
<1>1. PICK s \in Shift, n \in Nat :
        /\ s = serial[c].shift /\ n = serial[c].rows
        /\ IsOpen(s) /\ HandoversIn(ledger, s, n)
  BY DEF CloseShift, Commits, IInv, FoundOpen, SeesTheTill, HandoversAfter, Typed, InFlight
<1>2. Closed(s, n) /\ Updates(s, {}) /\ transfer' = transfer
  BY <1>1 DEF CloseShift
<1>3. /\ transfer' = [t \in Transfer |-> transfer'[t]]
      /\ \A t \in Transfer : transfer'[t] = transfer[t]
  BY <1>2 DEF IInv, Typed
<1> QED
  BY <1>1, <1>2, <1>3, ClosingKeeps

LEMMA ForceCloseShiftKeeps ==
  ASSUME IInv, NEW c \in Clerk, ForceCloseShift(c)
  PROVE  IInv'
<1>1. PICK s \in Shift, n \in Nat, moved \in SUBSET Transfer :
        /\ s = serial[c].shift /\ n = serial[c].rows /\ moved = serial[c].moved
        /\ IsOpen(s) /\ HandoversIn(ledger, s, n)
        /\ \A t \in moved : Pending(t)
  BY DEF ForceCloseShift, Commits, IInv, FoundOpen, SeesTheTill, HandoversAfter, Typed,
         InFlight, MovesPending
<1>2. /\ Closed(s, n) /\ Updates(s, moved)
      /\ transfer' = [t \in Transfer |->
           IF t \notin moved THEN transfer[t]
           ELSE IF transfer[t].from = s THEN [transfer[t] EXCEPT !.status = "DISPUTED"]
           ELSE [transfer[t] EXCEPT !.to = None]]
  BY <1>1 DEF ForceCloseShift
<1>3. transfer' = [t \in Transfer |-> transfer'[t]]
  BY <1>2
<1>4. \A t \in Transfer : t \notin moved => transfer'[t] = transfer[t]
  BY <1>2
<1>5. ASSUME NEW t \in moved
      PROVE  /\ Pending(t)
             /\ transfer'[t].status \in {"PENDING", "DISPUTED"}
             /\ transfer'[t].from = transfer[t].from
             /\ transfer'[t] \in Handover(transfer'[t].parts)
  <2>1. transfer[t] \in Handover(transfer[t].parts) /\ transfer[t].status = "PENDING"
    BY <1>1 DEF IInv, Typed, Pending
  <2>2. \/ transfer'[t] = [transfer[t] EXCEPT !.status = "DISPUTED"]
        \/ transfer'[t] = [transfer[t] EXCEPT !.to = None]
    BY <1>2
  <2> QED
    BY <1>1, <2>1, <2>2 DEF Handover
<1> QED
  BY <1>1, <1>2, <1>3, <1>4, <1>5, ClosingKeeps

\* A forced handover posts two rows.
LEMMA ForceHandoverKeeps ==
  ASSUME IInv, NEW c \in Clerk, NEW t \in Transfer, ForceHandover(c, t)
  PROVE  IInv'
<1>1. PICK s \in Shift, r \in Shift, amount \in Nat :
        /\ s = serial[c].shift /\ r = serial[c].to /\ amount = serial[c].amount
        /\ s # r /\ IsOpen(s) /\ IsOpen(r)
  BY DEF ForceHandover, Commits, IInv, FoundOpen, MovesPending, Typed, InFlight
<1>2. PICK out \in Entry, in \in Entry :
        /\ out = Row("CASH_OUT", amount, t) /\ in = Row("CASH_IN", amount, t)
        /\ out.type = "CASH_OUT" /\ out.transfer = t
        /\ in.type = "CASH_IN" /\ in.transfer = t
  BY RowType DEF Kinds, Credits, Debits
<1>3. /\ ledger' = [ledger EXCEPT ![s] = Append(@, out), ![r] = Append(@, in)]
      /\ transfer[t] = NoTransfer /\ shift' = shift /\ Crosses(s, r)
  BY <1>1, <1>2 DEF ForceHandover
<1>4. PICK parts : transfer' = [transfer EXCEPT ![t] =
        [status |-> "ACCEPTED", from |-> s, to |-> r, amount |-> amount, parts |-> parts]]
  BY <1>1 DEF ForceHandover
<1>5. PICK new : /\ new = [status |-> "ACCEPTED", from |-> s, to |-> r,
                            amount |-> amount, parts |-> parts]
                 /\ transfer' = [transfer EXCEPT ![t] = new]
  BY <1>4
<1>6. /\ new.status = "ACCEPTED" /\ new.from = s /\ new.to = r
      /\ new \in Handover(new.parts)
      /\ transfer'[t] = new
  BY <1>5 DEF Handover, IInv, Typed
<1>7. PICK mid : mid = [ledger EXCEPT ![s] = Append(@, out)]
  OBVIOUS
<1>8. ledger \in [Shift -> Seq(Entry)]
  BY DEF IInv, Typed
<1>9. Extended(ledger, mid, s, out)
  BY <1>7 DEF Extended
<1>10. mid \in [Shift -> Seq(Entry)]
  BY <1>8, <1>9, Appended
<1>11. Extended(mid, ledger', r, in)
  BY <1>1, <1>3, <1>7, <1>8 DEF Extended
<1>12. ledger' \in [Shift -> Seq(Entry)]
  BY <1>10, <1>11, Appended
<1>13. out.type \in NotTill /\ in.type \in NotTill
  BY <1>2 DEF NotTill
<1>14. ASSUME NEW z \in Shift, NEW n, HandoversIn(ledger, z, n)
       PROVE  HandoversIn(ledger', z, n)
  <2>1. HandoversIn(mid, z, n)
    BY <1>8, <1>9, <1>13, <1>14, HandoversStay
  <2> QED
    BY <1>10, <1>11, <1>13, <2>1, HandoversStay
<1>15. \A z \in Shift : ~ IsOpen(z) => ledger'[z] = ledger[z]
  <2>1. \A z \in Shift : z # s => mid[z] = ledger[z]
    BY <1>8, <1>9, Appended
  <2>2. \A z \in Shift : z # r => ledger'[z] = mid[z]
    BY <1>10, <1>11, Appended
  <2> QED
    BY <1>1, <2>1, <2>2
<1>16. \A u \in Transfer, kind \in Kinds :
         /\ RowsOf(u, kind) = RowsIn(ledger, u, kind)
         /\ RowsOf(u, kind)' = RowsIn(ledger', u, kind)
  BY DEF RowsOf, RowsIn
<1>17. "CASH_IN" \in Kinds /\ "CASH_OUT" \in Kinds
  BY DEF Kinds, Debits, Credits
<1>18. ASSUME NEW u \in Transfer, u # t
       PROVE  /\ RowsOf(u, "CASH_OUT")' = RowsOf(u, "CASH_OUT")
              /\ RowsOf(u, "CASH_IN")' = RowsOf(u, "CASH_IN")
  <2>1. out.transfer # u /\ in.transfer # u
    BY <1>2, <1>18
  <2>2. RowsIn(mid, u, "CASH_OUT") = RowsIn(ledger, u, "CASH_OUT")
    BY <1>8, <1>9, <2>1, AppendedRows
  <2>3. RowsIn(mid, u, "CASH_IN") = RowsIn(ledger, u, "CASH_IN")
    BY <1>8, <1>9, <2>1, AppendedRows
  <2>4. RowsIn(ledger', u, "CASH_OUT") = RowsIn(mid, u, "CASH_OUT")
    BY <1>10, <1>11, <2>1, AppendedRows
  <2>5. RowsIn(ledger', u, "CASH_IN") = RowsIn(mid, u, "CASH_IN")
    BY <1>10, <1>11, <2>1, AppendedRows
  <2> QED
    BY <1>16, <1>17, <2>2, <2>3, <2>4, <2>5
<1>19. SettledAt(t)'
  <2>1. RowsIn(ledger, t, "CASH_OUT") = {} /\ RowsIn(ledger, t, "CASH_IN") = {}
    BY <1>3, <1>16, <1>17, SettledParts DEF IInv, SettledAt, NoTransfer
  <2>2. RowsIn(mid, t, "CASH_OUT") = RowsIn(ledger, t, "CASH_OUT") \cup {<<s, Len(ledger[s]) + 1>>}
    <3>1. out.transfer = t /\ out.type = "CASH_OUT"
      BY <1>2
    <3> QED
      BY <1>8, <1>9, <3>1, AppendedRows
  <2>3. RowsIn(mid, t, "CASH_IN") = RowsIn(ledger, t, "CASH_IN")
    BY <1>2, <1>8, <1>9, AppendedRows
  <2>4. RowsIn(ledger', t, "CASH_OUT") = RowsIn(mid, t, "CASH_OUT")
    BY <1>2, <1>10, <1>11, AppendedRows
  <2>5. RowsIn(ledger', t, "CASH_IN") = RowsIn(mid, t, "CASH_IN") \cup {<<r, Len(mid[r]) + 1>>}
    BY <1>2, <1>10, <1>11, AppendedRows
  <2>6. PICK left : left = <<s, Len(ledger[s]) + 1>> /\ RowsIn(ledger', t, "CASH_OUT") = {left}
    BY <2>1, <2>2, <2>4
  <2>7. PICK got : got = <<r, Len(mid[r]) + 1>> /\ RowsIn(ledger', t, "CASH_IN") = {got}
    BY <2>1, <2>3, <2>5
  <2>8. RowsOf(t, "CASH_OUT")' = {left} /\ RowsOf(t, "CASH_IN")' = {got}
    BY <1>16, <1>17, <2>6, <2>7
  <2> QED
    BY <1>6, <2>6, <2>7, <2>8 DEF SettledAt, OnlyRow
<1>20. PICK failed : Dropped(failed)
  BY <1>3 DEF Crosses
<1>21. \A d \in Clerk : t \in serial[d].moved => d \in failed
  BY <1>3 DEF IInv, MovesPending, Pending, NoTransfer
<1> QED
  BY <1>3, <1>5, <1>6, <1>12, <1>14, <1>15, <1>18, <1>19, <1>20, <1>21, WrittenKeepsDropping

-----------------------------------------------------------------------------
(* Every step, and what follows.                                              *)
LEMMA NextIInv == IInv /\ [Next]_vars => IInv'
<1> SUFFICES ASSUME IInv, [Next]_vars PROVE IInv'
  OBVIOUS
<1>1. CASE AtTheTill
  BY <1>1, OpenShiftKeeps, AtTheTillKeeps DEF AtTheTill
<1>2. CASE BetweenDrawers
  BY <1>2, CreateTransferKeeps, AcceptTransferKeeps, RejectTransferKeeps DEF BetweenDrawers
<1>3. CASE Begins
  BY <1>3, BeginsKeep DEF Begins
<1>4. CASE Ends
  BY <1>4, CloseShiftKeeps, ForceCloseShiftKeeps, ForceHandoverKeeps, RefundKeeps, FailKeeps
     DEF Ends
<1>5. CASE UNCHANGED vars
  <2>1. UNCHANGED <<shift, ledger, transfer>> /\ serial' = serial
    BY <1>5 DEF vars
  <2>2. serial' \in [Clerk -> InFlight]
    BY <2>1 DEF IInv, Typed
  <2>3. FoundOpen' /\ MovesPending' /\ SeesTheTill'
    BY <2>1 DEF IInv, FoundOpen, MovesPending, SeesTheTill, HandoversAfter, IsOpen, Pending
  <2> QED
    BY <2>1, <2>2, <2>3, OnlySerialKeeps
<1> QED
  BY <1>1, <1>2, <1>3, <1>4, <1>5 DEF Next

THEOREM Inductive == Spec => []IInv
<1> QED
  BY InitIInv, NextIInv, PTL DEF Spec

\* The cash of a handover leaves its source once and is in exactly one place
\* afterwards, however accepting, rejecting and closing race for it.
THEOREM SettledOnceHolds == Spec => []SettledOnce
<1>1. IInv => SettledOnce
  BY DEF IInv
<1> QED
  BY <1>1, Inductive, PTL

\* A closing's totals count every sale, manual entry and refund of the shift.
THEOREM ClosingCountsTillHolds == Spec => []ClosingCountsTill
<1>1. IInv => ClosingCountsTill
  BY DEF IInv
<1> QED
  BY <1>1, Inductive, PTL

LEMMA FrozenStep ==
  ASSUME IInv, [Next]_vars, NEW s \in Shift, shift[s].status = "CLOSED"
  PROVE  shift'[s] = shift[s] /\ ledger'[s] = ledger[s]
<1>1. ledger \in [Shift -> Seq(Entry)] /\ shift \in [Shift -> [status : {"NONE", "OPEN", "CLOSED"},
                          employee : Employee \cup {None}, counted : Nat]]
  BY DEF IInv, Typed
<1>2. ASSUME NEW z, NEW row, Post(z, row), IsOpen(z) \/ shift[z].status = "NONE"
      PROVE  ledger'[s] = ledger[s]
  BY <1>1, <1>2 DEF Post, IsOpen
<1>3. CASE AtTheTill
  <2>1. ASSUME NEW z \in Shift, NEW e, NEW amount, OpenShift(z, e, amount)
        PROVE  shift'[s] = shift[s] /\ ledger'[s] = ledger[s]
    BY <1>1, <1>2, <2>1 DEF OpenShift, Unopened
  <2>2. ASSUME NEW z \in Shift, NEW kind, NEW amount,
               Sell(z, amount) \/ ManualEntry(z, kind, amount) \/ CancelItem(z, amount)
        PROVE  shift'[s] = shift[s] /\ ledger'[s] = ledger[s]
    BY <1>2, <2>2 DEF Sell, ManualEntry, CancelItem
  <2> QED
    BY <1>3, <2>1, <2>2 DEF AtTheTill
<1>4. CASE BetweenDrawers
  <2>1. ASSUME NEW t \in Transfer, NEW z \in Shift, NEW r \in Shift, NEW amount,
               CreateTransfer(t, z, r, amount) \/ AcceptTransfer(t, z)
        PROVE  shift'[s] = shift[s] /\ ledger'[s] = ledger[s]
    BY <1>2, <2>1 DEF CreateTransfer, AcceptTransfer, ForReceiver
  <2>2. ASSUME NEW t \in Transfer, NEW e, RejectTransfer(t, e)
        PROVE  shift'[s] = shift[s] /\ ledger'[s] = ledger[s]
    BY <1>2, <2>2 DEF RejectTransfer, Returns
  <2> QED
    BY <1>4, <2>1, <2>2 DEF BetweenDrawers
<1>5. CASE Begins
  <2>1. \A c, snap : Snapshot(c, snap) => shift' = shift /\ ledger' = ledger
    BY DEF Snapshot
  <2>2. ASSUME NEW c \in Clerk, NEW z \in Shift, NEW r, NEW amount,
               \/ BeginClose(c, z) \/ BeginForceClose(c, z)
               \/ BeginHandover(c, z, r, amount) \/ BeginRefund(c, z, amount)
        PROVE  shift' = shift /\ ledger' = ledger
    BY <2>1, <2>2, Zenon DEF BeginClose, BeginForceClose, BeginHandover, BeginRefund
  <2> QED
    BY <1>5, <2>2 DEF Begins
<1>6. ASSUME NEW c \in Clerk, serial[c].op # "idle"
      PROVE  IsOpen(serial[c].shift) /\ (serial[c].to \in Shift => IsOpen(serial[c].to))
  BY <1>6 DEF IInv, FoundOpen
<1>7. CASE Ends
  <2>1. ASSUME NEW c \in Clerk, CloseShift(c) \/ ForceCloseShift(c)
        PROVE  shift'[s] = shift[s] /\ ledger'[s] = ledger[s]
    <3>1. /\ IsOpen(serial[c].shift)
          /\ Closed(serial[c].shift, serial[c].rows)
      BY <1>6, <2>1 DEF CloseShift, ForceCloseShift, Commits
    <3> QED
      BY <1>1, <1>2, <3>1 DEF Closed, IsOpen
  <2>2. ASSUME NEW c \in Clerk, NEW t \in Transfer, ForceHandover(c, t)
        PROVE  shift'[s] = shift[s] /\ ledger'[s] = ledger[s]
    <3>1. /\ serial[c].shift # s /\ serial[c].to # s
          /\ shift' = shift
          /\ ledger' = [ledger EXCEPT
               ![serial[c].shift] = Append(@, Row("CASH_OUT", serial[c].amount, t)),
               ![serial[c].to] = Append(@, Row("CASH_IN", serial[c].amount, t))]
      BY <1>6, <2>2 DEF ForceHandover, Commits, IsOpen
    <3> QED
      BY <1>1, <3>1
  <2>3. ASSUME NEW c \in Clerk, Refund(c)
        PROVE  shift'[s] = shift[s] /\ ledger'[s] = ledger[s]
    BY <1>2, <1>6, <2>3 DEF Refund, Commits
  <2>4. ASSUME NEW c \in Clerk, Fail(c)
        PROVE  shift'[s] = shift[s] /\ ledger'[s] = ledger[s]
    BY <2>4 DEF Fail
  <2> QED
    BY <1>7, <2>1, <2>2, <2>3, <2>4 DEF Ends
<1>8. CASE UNCHANGED vars
  BY <1>8 DEF vars
<1> QED
  BY <1>3, <1>4, <1>5, <1>7, <1>8 DEF Next

\* The ledger and the totals of a closed shift never change: whatever commits
\* after the close was dropped by it.
THEOREM ClosedIsFrozenHolds == Spec => ClosedIsFrozen
<1>1. IInv /\ [Next]_vars => [\A s \in Shift : shift[s].status = "CLOSED" =>
        shift'[s] = shift[s] /\ ledger'[s] = ledger[s]]_vars
  BY FrozenStep
<1> QED
  BY <1>1, Inductive, PTL DEF Spec, ClosedIsFrozen

-----------------------------------------------------------------------------
(* The buckets of a drawer, row by row.                                       *)
Bucket == [source : Shift \X (Nat \ {0}), amount : Nat]
Part == [source : Shift \X (Nat \ {0}), amount : Nat \ {0}]

\* What row i of ledger l[s] makes of the buckets before it, with the handovers w.
Replayed(l, w, s, buckets, i) ==
  CASE l[s][i].type = "CASH_IN" -> buckets \o w[l[s][i].transfer].parts
    [] l[s][i].type \in Credits \ {"CASH_IN"} ->
         Append(buckets, [source |-> <<s, i>>, amount |-> l[s][i].amount])
    [] l[s][i].type \in Debits -> Consumed(buckets, l[s][i].amount)
    [] OTHER -> buckets

BucketsIn(l, w, s, n) ==
  FoldLeft(LAMBDA buckets, i : Replayed(l, w, s, buckets, i), <<>>, [i \in 1..n |-> i])

LEMMA BucketsAre ==
  ASSUME NEW s, NEW n
  PROVE  Buckets(s, n) = BucketsIn(ledger, transfer, s, n)
BY DEF Buckets, BucketsIn, Replayed, FoldLeft, MapThenFoldSet

\* Every row that brings cash in names the parts it consists of.
Readable(l, w, s) ==
  /\ l[s] \in Seq(Entry)
  /\ \A i \in DOMAIN l[s] : l[s][i].type = "CASH_IN" =>
       w[l[s][i].transfer].parts \in Seq(Part)

LEMMA DrawnType ==
  ASSUME NEW buckets \in Seq(Bucket), NEW amount \in Nat
  PROVE  /\ Drawn(buckets, amount) \in Seq(Bucket)
         /\ Consumed(buckets, amount) \in Seq(Bucket)
         /\ Len(Drawn(buckets, amount)) = Len(buckets)
         /\ Len(Consumed(buckets, amount)) = Len(buckets)
         /\ \A i \in 1..Len(buckets) :
              /\ Drawn(buckets, amount)[i].source = buckets[i].source
              /\ Consumed(buckets, amount)[i].source = buckets[i].source
              /\ Drawn(buckets, amount)[i].amount \in Nat
              /\ Consumed(buckets, amount)[i].amount
                   = buckets[i].amount - Drawn(buckets, amount)[i].amount
<1>1. PICK n \in Nat : n = Len(buckets) /\ DOMAIN buckets = 1..n
  OBVIOUS
<1>b. \A k \in 1..n : buckets[k] \in Bucket /\ buckets[k].amount \in Nat
  <2>1. \A k \in 1..n : buckets[k] \in Bucket
    BY <1>1
  <2> QED
    BY <2>1 DEF Bucket
<1>2. ASSUME NEW i \in 1..n PROVE Before(buckets, i) \in Int
  <2>1. PICK f : f = [k \in DOMAIN buckets |-> buckets[k].amount]
    OBVIOUS
  <2>2. PICK S : S = 1..(i - 1)
    OBVIOUS
  <2>3. IsFiniteSet(S)
    BY <2>2, FS_Interval
  <2>4. \A k \in S : f[k] \in Int
    <3>1. S \subseteq 1..n
      BY <2>2
    <3> QED
      BY <1>1, <1>b, <2>1, <3>1
  <2> QED
    BY <2>1, <2>2, <2>3, <2>4, SumType DEF Before
<1>3. PICK share : share = [i \in 1..n |-> Least(buckets[i].amount,
                                                Over(amount - Before(buckets, i)))]
  OBVIOUS
<1>4. ASSUME NEW i \in 1..n
      PROVE  share[i] \in Nat /\ buckets[i].amount - share[i] \in Nat
  <2>1. PICK before \in Int : before = Before(buckets, i)
    BY <1>2
  <2>2. PICK a \in Nat : a = buckets[i].amount
    BY <1>b
  <2>3. share[i] = Least(a, Over(amount - before))
    BY <1>3, <2>1, <2>2
  <2>4. share[i] \in Nat /\ a - share[i] \in Nat
    BY <2>3 DEF Least, Over
  <2> QED
    BY <2>2, <2>4
<1>5. PICK drawn : drawn = [i \in 1..n |-> [buckets[i] EXCEPT !.amount = share[i]]]
  OBVIOUS
<1>6. Drawn(buckets, amount) = drawn
  BY <1>1, <1>3, <1>5 DEF Drawn
<1>7. ASSUME NEW i \in 1..n
      PROVE  /\ drawn[i] \in Bucket /\ drawn[i].source = buckets[i].source
             /\ drawn[i].amount = share[i]
  BY <1>b, <1>4, <1>5 DEF Bucket
<1>8. drawn \in Seq(Bucket) /\ Len(drawn) = n
  <2>1. drawn \in [1..n -> Bucket]
    BY <1>5, <1>7
  <2> QED
    BY <2>1
<1>9. PICK left : left = [i \in 1..n |-> [buckets[i] EXCEPT !.amount =
                                            buckets[i].amount - share[i]]]
  OBVIOUS
<1>10. Consumed(buckets, amount) = left
  BY <1>1, <1>6, <1>7, <1>9 DEF Consumed
<1>11. ASSUME NEW i \in 1..n
       PROVE  /\ left[i] \in Bucket /\ left[i].source = buckets[i].source
              /\ left[i].amount = buckets[i].amount - share[i]
  BY <1>b, <1>4, <1>9 DEF Bucket
<1>12. left \in Seq(Bucket) /\ Len(left) = n
  <2>1. left \in [1..n -> Bucket]
    BY <1>9, <1>11
  <2> QED
    BY <2>1
<1> QED
  BY <1>1, <1>4, <1>6, <1>7, <1>8, <1>10, <1>11, <1>12


LEMMA ReplayedType ==
  ASSUME NEW s \in Shift, NEW l, NEW w, Readable(l, w, s),
         NEW buckets \in Seq(Bucket), NEW i \in DOMAIN l[s]
  PROVE  Replayed(l, w, s, buckets, i) \in Seq(Bucket)
<1>1. l[s][i].amount \in Nat /\ i \in Nat \ {0}
  <2>1. l[s][i] \in Entry /\ i \in Nat \ {0}
    BY DEF Readable
  <2> QED
    BY <2>1 DEF Entry
<1>2. PICK new : new = Replayed(l, w, s, buckets, i)
  OBVIOUS
<1>3. CASE l[s][i].type = "CASH_IN"
  <2>1. PICK parts : parts = w[l[s][i].transfer].parts
    OBVIOUS
  <2>2. parts \in Seq(Part) /\ Part \subseteq Bucket
    BY <1>3, <2>1 DEF Readable, Part, Bucket
  <2>3. parts \in Seq(Bucket)
    BY <2>2
  <2>4. new = buckets \o parts
    BY <1>2, <1>3, <2>1 DEF Replayed, Credits, Debits
  <2> QED
    BY <1>2, <2>3, <2>4
<1>4. CASE l[s][i].type \in Credits \ {"CASH_IN"}
  <2>1. PICK b : b = [source |-> <<s, i>>, amount |-> l[s][i].amount]
    OBVIOUS
  <2>2. b \in Bucket
    BY <1>1, <2>1 DEF Bucket
  <2>3. new = Append(buckets, b)
    BY <1>2, <1>4, <2>1 DEF Replayed, Credits, Debits
  <2> QED
    BY <1>2, <2>2, <2>3
<1>5. CASE l[s][i].type \in Debits
  <2>1. new = Consumed(buckets, l[s][i].amount)
    BY <1>2, <1>5 DEF Replayed, Credits, Debits
  <2> QED
    BY <1>1, <1>2, <2>1, DrawnType
<1>6. CASE l[s][i].type \notin Credits \cup Debits
  <2>1. new = buckets
    BY <1>2, <1>6 DEF Replayed, Credits, Debits
  <2> QED
    BY <1>2, <2>1
<1> QED
  BY <1>3, <1>4, <1>5, <1>6

\* The fold takes the last row off first.
ReplaysOn(it, l, w, s, n) ==
  \A u \in SUBSET (1..n) :
    it[u] = IF u = {} THEN <<>>
            ELSE Replayed(l, w, s, it[u \ {Greatest(u)}], Greatest(u))

FoldedBy(it, l, w, s, n) ==
  /\ it \in [SUBSET (1..n) -> Seq(Bucket)]
  /\ BucketsIn(l, w, s, n) = it[1..n]
  /\ ReplaysOn(it, l, w, s, n)

LEMMA BucketsFold ==
  ASSUME NEW s \in Shift, NEW l, NEW w, Readable(l, w, s), NEW n \in 0..Len(l[s])
  PROVE  \E it : FoldedBy(it, l, w, s, n)
<1> DEFINE rows == [i \in 1..n |-> i]
           Is(it) == it = [u \in SUBSET (DOMAIN rows) |->
             IF u = {} THEN <<>>
             ELSE Replayed(l, w, s, it[u \ {Greatest(u)}], rows[Greatest(u)])]
<1>1. PICK V, empty, D : V = Seq(Bucket) /\ empty = <<>> /\ D = 1..n
  OBVIOUS
<1>2. n \in Nat /\ D \subseteq DOMAIN l[s]
  BY <1>1 DEF Readable
<1>3. PICK step : step = [xv \in D \X V |-> Replayed(l, w, s, xv[2], xv[1])]
  OBVIOUS
<1>4. \A x \in D, v \in V : /\ step[<<x, v>>] = Replayed(l, w, s, v, x)
                            /\ step[<<x, v>>] \in V
  BY <1>1, <1>2, <1>3, ReplayedType
<1>5. PICK typed \in [SUBSET D -> V] : LeftOn(typed, n, empty, step)
  <2>1. StaysIn(step, 1..n, V) /\ empty \in V
    BY <1>1, <1>4 DEF StaysIn
  <2> HIDE DEF Is
  <2>2. \E it \in [SUBSET (1..n) -> V] : LeftOn(it, n, empty, step)
    BY <1>2, <2>1, LeftExists
  <2> QED
    BY <1>1, <2>2
<1>6. \A u \in SUBSET D : u # {} => Greatest(u) \in D /\ u \ {Greatest(u)} \in SUBSET D
  BY <1>1, <1>2, GreatestNumber
<1>7. DOMAIN rows = D /\ \A i \in D : rows[i] = i
  BY <1>1
<1>8. Is(typed)
  <2>1. ASSUME NEW u \in SUBSET D, u # {}
        PROVE  typed[u] = Replayed(l, w, s, typed[u \ {Greatest(u)}], rows[Greatest(u)])
    <3>1. Greatest(u) \in D /\ typed[u \ {Greatest(u)}] \in V
      BY <1>5, <1>6, <2>1
    <3>2. typed[u] = step[<<Greatest(u), typed[u \ {Greatest(u)}]>>]
      BY <1>1, <1>5, <2>1 DEF LeftOn
    <3>3. rows[Greatest(u)] = Greatest(u)
      BY <1>7, <3>1
    <3> HIDE DEF rows
    <3> QED
      BY <1>4, <3>1, <3>2, <3>3
  <2>2. typed[{}] = <<>>
    BY <1>1, <1>5 DEF LeftOn
  <2> HIDE DEF rows
  <2> QED
    BY <1>5, <1>7, <2>1, <2>2
<1>9. BucketsIn(l, w, s, n) = (CHOOSE it : Is(it))[DOMAIN rows]
  BY DEF BucketsIn, FoldLeft, MapThenFoldSet, Max, Greatest
<1>10. PICK it : it = CHOOSE g : Is(g)
  OBVIOUS
<1>11. Is(it)
  <2> HIDE DEF Is
  <2> QED
    BY <1>8, <1>10
<1>12. ReplaysOn(it, l, w, s, n) /\ ReplaysOn(typed, l, w, s, n)
  <2> HIDE DEF rows
  <2> QED
    BY <1>1, <1>6, <1>7, <1>8, <1>11 DEF ReplaysOn
<1>13. \A u \in SUBSET (1..n) : it[u] = typed[u]
  <2>1. StepsAlike(it, typed, n)
    BY <1>12 DEF ReplaysOn, StepsAlike
  <2> HIDE DEF Is
  <2> QED
    BY <1>2, <2>1, LeftAgree
<1>14. typed[1..n] = it[1..n]
  BY <1>13
<1>15. BucketsIn(l, w, s, n) = typed[1..n]
  BY <1>1, <1>7, <1>9, <1>10, <1>14
<1> HIDE DEF Is
<1> QED
  BY <1>1, <1>5, <1>12, <1>15 DEF FoldedBy

\* What the rows say, one after the other.
LEMMA BucketsStep ==
  ASSUME NEW s \in Shift, NEW l, NEW w, Readable(l, w, s)
  PROVE  /\ BucketsIn(l, w, s, 0) = <<>>
         /\ \A n \in 0..Len(l[s]) : BucketsIn(l, w, s, n) \in Seq(Bucket)
         /\ \A n \in Nat : n + 1 <= Len(l[s]) =>
              BucketsIn(l, w, s, n + 1)
                = Replayed(l, w, s, BucketsIn(l, w, s, n), n + 1)
<1>1. Len(l[s]) \in Nat
  BY DEF Readable
<1>2. ASSUME NEW n \in 0..Len(l[s])
      PROVE  BucketsIn(l, w, s, n) \in Seq(Bucket)
  <2>1. PICK it : FoldedBy(it, l, w, s, n)
    BY BucketsFold
  <2> QED
    BY <2>1 DEF FoldedBy
<1>3. BucketsIn(l, w, s, 0) = <<>>
  <2>1. PICK n \in 0..Len(l[s]) : n = 0
    BY <1>1
  <2>2. PICK it : FoldedBy(it, l, w, s, n)
    BY BucketsFold
  <2>3. 1..n = {}
    BY <2>1
  <2> QED
    BY <2>1, <2>2, <2>3 DEF FoldedBy, ReplaysOn
<1>4. ASSUME NEW n \in Nat, n + 1 <= Len(l[s])
      PROVE  BucketsIn(l, w, s, n + 1) = Replayed(l, w, s, BucketsIn(l, w, s, n), n + 1)
  <2>1. PICK m \in 0..Len(l[s]) : m = n + 1
    BY <1>1, <1>4
  <2>2. PICK new : FoldedBy(new, l, w, s, m)
    BY BucketsFold
  <2>3. n \in 0..Len(l[s])
    BY <1>1, <1>4
  <2>4. PICK old : FoldedBy(old, l, w, s, n)
    BY <2>3, BucketsFold
  <2>5. PICK D, E : D = 1..n /\ E = 1..m
    OBVIOUS
  <2>6. D \subseteq E /\ E # {} /\ Greatest(E) = n + 1 /\ E \ {n + 1} = D
    BY <2>1, <2>5, UpTo, GreatestUpTo
  <2>7. StepsAlike(old, new, n)
    BY <2>2, <2>4, <2>5, <2>6 DEF FoldedBy, ReplaysOn, StepsAlike
  <2>8. \A u \in SUBSET D : old[u] = new[u]
    BY <2>5, <2>7, LeftAgree
  <2>9. new[E] = Replayed(l, w, s, new[D], n + 1)
    BY <2>2, <2>5, <2>6 DEF FoldedBy, ReplaysOn
  <2> QED
    BY <2>1, <2>2, <2>4, <2>5, <2>8, <2>9 DEF FoldedBy
<1> QED
  BY <1>2, <1>3, <1>4

\* The first n rows, and the parts they name, are all that counts.
SameRows(l, w, m, v, s, n) ==
  /\ n <= Len(l[s]) /\ n <= Len(m[s])
  /\ \A i \in 1..n : m[s][i] = l[s][i]
  /\ \A i \in 1..n : l[s][i].type = "CASH_IN" =>
       v[l[s][i].transfer].parts = w[l[s][i].transfer].parts

LEMMA BucketsSame ==
  ASSUME NEW s \in Shift, NEW l, NEW w, Readable(l, w, s),
         NEW m, NEW v, Readable(m, v, s), NEW n \in Nat, SameRows(l, w, m, v, s, n)
  PROVE  BucketsIn(m, v, s, n) = BucketsIn(l, w, s, n)
<1> USE DEF SameRows
<1> DEFINE T == {k \in Nat : k <= n => BucketsIn(m, v, s, k) = BucketsIn(l, w, s, k)}
<1>0. Len(l[s]) \in Nat /\ Len(m[s]) \in Nat
  BY DEF Readable
<1>1. 0 \in T
  BY BucketsStep
<1>2. ASSUME NEW k \in T PROVE k + 1 \in T
  <2> SUFFICES ASSUME k + 1 <= n
               PROVE  BucketsIn(m, v, s, k + 1) = BucketsIn(l, w, s, k + 1)
    OBVIOUS
  <2>1. k + 1 \in 1..n /\ k + 1 <= Len(l[s]) /\ k + 1 <= Len(m[s]) /\ k <= n
    BY <1>0
  <2>2. PICK b : b = BucketsIn(l, w, s, k) /\ b = BucketsIn(m, v, s, k)
    BY <2>1
  <2>3. /\ BucketsIn(l, w, s, k + 1) = Replayed(l, w, s, b, k + 1)
        /\ BucketsIn(m, v, s, k + 1) = Replayed(m, v, s, b, k + 1)
    BY <2>1, <2>2, BucketsStep
  <2>4. PICK i \in 1..n : i = k + 1
    BY <2>1
  <2>5. Replayed(m, v, s, b, i) = Replayed(l, w, s, b, i)
    <3>1. m[s][i] = l[s][i]
      OBVIOUS
    <3>2. CASE l[s][i].type = "CASH_IN"
      BY <3>1, <3>2 DEF Replayed, Credits, Debits
    <3>3. CASE l[s][i].type \in Credits \ {"CASH_IN"}
      BY <3>1, <3>3 DEF Replayed, Credits, Debits
    <3>4. CASE l[s][i].type \in Debits
      BY <3>1, <3>4 DEF Replayed, Credits, Debits
    <3>5. CASE l[s][i].type \notin Credits \cup Debits
      BY <3>1, <3>5 DEF Replayed, Credits, Debits
    <3> QED
      BY <3>2, <3>3, <3>4, <3>5
  <2> QED
    BY <2>3, <2>4, <2>5
<1>3. T = Nat
  <2>1. T \in SUBSET Nat
    OBVIOUS
  <2> HIDE DEF T
  <2> QED
    BY <1>1, <1>2, <2>1, Induction
<1> QED
  BY <1>3

-----------------------------------------------------------------------------
(* What parts hold of the cash of one source.                                 *)
Share(k, p) == IF p.source = k THEN p.amount ELSE 0
Held(k, b) == [i \in DOMAIN b |-> IF b[i].source = k THEN b[i].amount ELSE 0]

\* f says, position by position, what the n parts in b hold of source k.
IsHeld(k, b, n, f) ==
  /\ n \in Nat /\ n = Len(b) /\ DOMAIN b = 1..n
  /\ \A i \in 1..n :
       /\ b[i] \in Bucket /\ b[i].amount \in Nat
       /\ f[i] \in Nat /\ f[i] = Share(k, b[i])
  /\ CashOf(k, b) = SumFunctionOnSet(f, 1..n)
  /\ CashOf(k, b) \in Int

LEMMA HeldType ==
  ASSUME NEW k, NEW b \in Seq(Bucket)
  PROVE  IsHeld(k, b, Len(b), Held(k, b))
<1>1. Len(b) \in Nat /\ DOMAIN b = 1..Len(b)
  OBVIOUS
<1>2. ASSUME NEW i \in 1..Len(b)
      PROVE  /\ b[i] \in Bucket /\ b[i].amount \in Nat
             /\ Held(k, b)[i] \in Nat /\ Held(k, b)[i] = Share(k, b[i])
  <2>1. b[i] \in Bucket
    BY <1>1
  <2> QED
    BY <1>1, <2>1 DEF Bucket, Held, Share
<1>3. CashOf(k, b) = SumFunctionOnSet(Held(k, b), 1..Len(b))
  <2>1. DOMAIN Held(k, b) = 1..Len(b)
    BY <1>1 DEF Held
  <2> QED
    BY <2>1 DEF CashOf, Held, SumFunction, SumFunctionOnSet, FoldFunction, FoldFunctionOnSet
<1>4. CashOf(k, b) \in Int
  BY <1>1, <1>2, <1>3, UpTo, SumType
<1> QED
  BY <1>1, <1>2, <1>3, <1>4 DEF IsHeld

LEMMA CashOfNone == ASSUME NEW k PROVE CashOf(k, <<>>) = 0
<1>1. <<>> \in Seq(Bucket) /\ Len(<<>>) = 0 /\ 1..0 = {}
  OBVIOUS
<1>2. CashOf(k, <<>>) = SumFunctionOnSet(Held(k, <<>>), {})
  BY <1>1, HeldType DEF IsHeld
<1> QED
  BY <1>2, SumEmpty

LEMMA CashOfAppend ==
  ASSUME NEW k, NEW b \in Seq(Bucket), NEW p \in Bucket
  PROVE  /\ Append(b, p) \in Seq(Bucket)
         /\ CashOf(k, Append(b, p))
              = CashOf(k, b) + Share(k, p)
<1>1. PICK n \in Nat : n = Len(b)
  OBVIOUS
<1>0. Append(b, p) \in Seq(Bucket)
  OBVIOUS
<1>2. PICK c : c = Append(b, p) /\ c \in Seq(Bucket)
  BY <1>0
<1>3. Len(c) = n + 1 /\ c[n + 1] = p /\ \A i \in 1..n : c[i] = b[i]
  BY <1>1, <1>2
<1>4. PICK f, g : f = Held(k, b) /\ g = Held(k, c)
  OBVIOUS
<1>5. IsHeld(k, b, n, f) /\ IsHeld(k, c, n + 1, g)
  BY <1>1, <1>2, <1>3, <1>4, HeldType
<1>7. SumFunctionOnSet(g, 1..(n + 1)) = SumFunctionOnSet(g, 1..n) + g[n + 1]
  <2>1. \A i \in 1..(n + 1) : g[i] \in Int
    BY <1>5 DEF IsHeld
  <2> QED
    BY <2>1, SumLast
<1>8. SumFunctionOnSet(g, 1..n) = SumFunctionOnSet(f, 1..n)
  <2>1. \A i \in 1..n : g[i] \in Int /\ g[i] = f[i]
    <3> TAKE i \in 1..n
    <3>1. i \in 1..(n + 1) /\ c[i] = b[i]
      BY <1>3
    <3>2. f[i] \in Nat /\ f[i] = Share(k, b[i])
      BY <1>5 DEF IsHeld
    <3>3. g[i] = Share(k, c[i])
      BY <1>5, <3>1 DEF IsHeld
    <3> QED
      BY <3>1, <3>2, <3>3
  <2> QED
    BY <2>1, UpTo, SumSame
<1>9. g[n + 1] = Share(k, p)
  BY <1>3, <1>5, UpTo DEF IsHeld
<1>10. CashOf(k, b) = SumFunctionOnSet(f, 1..n) /\ CashOf(k, c) = SumFunctionOnSet(g, 1..(n + 1))
  BY <1>5 DEF IsHeld
<1> QED
  BY <1>2, <1>7, <1>8, <1>9, <1>10

LEMMA CashOfBoth ==
  ASSUME NEW k, NEW b \in Seq(Bucket), NEW c \in Seq(Bucket)
  PROVE  /\ b \o c \in Seq(Bucket)
         /\ CashOf(k, b \o c) = CashOf(k, b) + CashOf(k, c)
<1>1. PICK m \in Nat, n \in Nat : m = Len(b) /\ n = Len(c)
  OBVIOUS
<1>0. b \o c \in Seq(Bucket)
  OBVIOUS
<1>2. PICK d : d = b \o c /\ d \in Seq(Bucket)
  BY <1>0
<1>3. /\ Len(d) = m + n
      /\ \A i \in 1..m : i \in 1..(m + n) /\ d[i] = b[i]
      /\ \A i \in 1..n : m + i \in 1..(m + n) /\ d[m + i] = c[i]
  BY <1>1, <1>2
<1>4. PICK f, g, h : f = Held(k, b) /\ g = Held(k, c) /\ h = Held(k, d)
  OBVIOUS
<1>5. IsHeld(k, b, m, f) /\ IsHeld(k, c, n, g) /\ IsHeld(k, d, m + n, h)
  BY <1>1, <1>2, <1>3, <1>4, HeldType
<1>6. ASSUME NEW i \in 1..m PROVE f[i] \in Int /\ h[i] = f[i]
  <2>1. i \in 1..(m + n) /\ d[i] = b[i]
    BY <1>3
  <2>2. f[i] \in Nat /\ f[i] = Share(k, b[i])
    BY <1>5 DEF IsHeld
  <2>3. h[i] = Share(k, d[i])
    BY <1>5, <2>1 DEF IsHeld
  <2> QED
    BY <2>1, <2>2, <2>3
<1>7. ASSUME NEW i \in 1..n PROVE g[i] \in Int /\ h[m + i] = g[i]
  <2>1. m + i \in 1..(m + n) /\ d[m + i] = c[i]
    BY <1>3
  <2>2. g[i] \in Nat /\ g[i] = Share(k, c[i])
    BY <1>5 DEF IsHeld
  <2>3. h[m + i] = Share(k, d[m + i])
    BY <1>5, <2>1 DEF IsHeld
  <2> QED
    BY <2>1, <2>2, <2>3
<1>8. SumFunctionOnSet(h, 1..(m + n))
        = SumFunctionOnSet(f, 1..m) + SumFunctionOnSet(g, 1..n)
  <2>1. Concatenates(h, m, f, n, g)
    BY <1>6, <1>7 DEF Concatenates
  <2> QED
    BY <2>1, SumsConcatenate
<1>9. /\ CashOf(k, b) = SumFunctionOnSet(f, 1..m)
      /\ CashOf(k, c) = SumFunctionOnSet(g, 1..n)
      /\ CashOf(k, d) = SumFunctionOnSet(h, 1..(m + n))
  BY <1>5 DEF IsHeld
<1> QED
  BY <1>2, <1>8, <1>9

\* What is drawn of a source is no longer there afterwards.
LEMMA CashOfDrawn ==
  ASSUME NEW k, NEW b \in Seq(Bucket), NEW amount \in Nat
  PROVE  /\ CashOf(k, b) = CashOf(k, Consumed(b, amount)) + CashOf(k, Drawn(b, amount))
         /\ CashOf(k, Consumed(b, amount)) <= CashOf(k, b)
<1>1. PICK c \in Seq(Bucket), d \in Seq(Bucket) :
        c = Consumed(b, amount) /\ d = Drawn(b, amount)
  BY DrawnType
<1>2. PICK n \in Nat : n = Len(b) /\ n = Len(c) /\ n = Len(d)
  BY <1>1, DrawnType
<1>3. \A i \in 1..n : /\ d[i].source = b[i].source /\ c[i].source = b[i].source
                      /\ d[i].amount \in Nat
                      /\ c[i].amount = b[i].amount - d[i].amount
  BY <1>1, <1>2, DrawnType
<1>4. PICK f, g, h : f = Held(k, c) /\ g = Held(k, d) /\ h = Held(k, b)
  OBVIOUS
<1>5. IsHeld(k, c, n, f) /\ IsHeld(k, d, n, g) /\ IsHeld(k, b, n, h)
  BY <1>2, <1>4, HeldType
<1>8. \A i \in 1..n : f[i] \in Int /\ g[i] \in Int /\ h[i] \in Int
                      /\ h[i] = f[i] + g[i] /\ f[i] <= h[i]
  <2> TAKE i \in 1..n
  <2>1. PICK x \in Nat, y \in Nat : x = b[i].amount /\ y = d[i].amount
    BY <1>3, <1>5 DEF IsHeld
  <2>2. c[i].amount = x - y /\ d[i].source = b[i].source /\ c[i].source = b[i].source
    BY <1>3, <2>1
  <2>3. /\ f[i] \in Nat /\ f[i] = (IF b[i].source = k THEN x - y ELSE 0)
        /\ g[i] \in Nat /\ g[i] = (IF b[i].source = k THEN y ELSE 0)
        /\ h[i] \in Nat /\ h[i] = (IF b[i].source = k THEN x ELSE 0)
    BY <1>5, <2>1, <2>2 DEF IsHeld, Share
  <2> QED
    BY <2>3
<1>9. SumFunctionOnSet(h, 1..n) = SumFunctionOnSet(f, 1..n) + SumFunctionOnSet(g, 1..n)
  <2>1. \A i \in 1..n : f[i] \in Int /\ g[i] \in Int /\ h[i] = f[i] + g[i]
    BY <1>8
  <2> QED
    BY <2>1, SumsAdd
<1>10. SumFunctionOnSet(f, 1..n) <= SumFunctionOnSet(h, 1..n)
  <2>1. \A i \in 1..n : f[i] \in Int /\ h[i] \in Int /\ f[i] <= h[i]
    BY <1>8
  <2> QED
    BY <2>1, UpTo, SumMonotone
<1>11. /\ CashOf(k, c) = SumFunctionOnSet(f, 1..n)
       /\ CashOf(k, d) = SumFunctionOnSet(g, 1..n)
       /\ CashOf(k, b) = SumFunctionOnSet(h, 1..n)
  BY <1>5 DEF IsHeld
<1> QED
  BY <1>1, <1>9, <1>10, <1>11

-----------------------------------------------------------------------------
(* The composition of a handover: what was drawn, without the empty parts.    *)
Keep(parts, part) == IF part.amount > 0 THEN Append(parts, part) ELSE parts

KeptOf(b) ==
  FoldLeft(LAMBDA parts, part : IF part.amount > 0 THEN Append(parts, part) ELSE parts,
           <<>>, b)

LEMMA KeepType ==
  ASSUME NEW k, NEW parts \in Seq(Part), NEW part \in Bucket
  PROVE  /\ Keep(parts, part) \in Seq(Part)
         /\ CashOf(k, Keep(parts, part)) = CashOf(k, parts) + Share(k, part)
<1>1. Part \subseteq Bucket /\ parts \in Seq(Bucket)
  <2>1. Part \subseteq Bucket
    BY DEF Part, Bucket
  <2> QED
    BY <2>1
<1>2. CashOf(k, parts) \in Int
  BY <1>1, HeldType DEF IsHeld
<1>3. part.amount \in Nat
  BY DEF Bucket
<1>4. CASE part.amount > 0
  <2>1. Keep(parts, part) = Append(parts, part)
    BY <1>4 DEF Keep
  <2>2. part \in Part
    BY <1>3, <1>4 DEF Bucket, Part
  <2>3. Append(parts, part) \in Seq(Part)
    BY <2>2
  <2>4. CashOf(k, Append(parts, part)) = CashOf(k, parts) + Share(k, part)
    BY <1>1, CashOfAppend
  <2> QED
    BY <2>1, <2>3, <2>4
<1>5. CASE ~ (part.amount > 0)
  <2>1. Keep(parts, part) = parts
    BY <1>5 DEF Keep
  <2>2. Share(k, part) = 0
    BY <1>3, <1>5 DEF Share
  <2> QED
    BY <1>2, <2>1, <2>2
<1> QED
  BY <1>4, <1>5

KeepsOn(it, b, n) ==
  \A u \in SUBSET (1..n) :
    it[u] = IF u = {} THEN <<>> ELSE Keep(it[u \ {Greatest(u)}], b[Greatest(u)])

KeptBy(it, b, n) ==
  /\ it \in [SUBSET (1..n) -> Seq(Part)]
  /\ KeptOf(b) = it[1..n]
  /\ KeepsOn(it, b, n)

LEMMA KeptFold ==
  ASSUME NEW b \in Seq(Bucket), NEW n \in Nat, n = Len(b)
  PROVE  \E it : KeptBy(it, b, n)
<1> DEFINE Is(it) == it = [u \in SUBSET (DOMAIN b) |->
             IF u = {} THEN <<>> ELSE Keep(it[u \ {Greatest(u)}], b[Greatest(u)])]
<1>1. PICK V, empty, D : V = Seq(Part) /\ empty = <<>> /\ D = 1..n
  OBVIOUS
<1>2. D = DOMAIN b /\ \A x \in D : b[x] \in Bucket
  BY <1>1
<1>3. PICK step : step = [xv \in D \X V |-> Keep(xv[2], b[xv[1]])]
  OBVIOUS
<1>4. \A x \in D, v \in V : /\ step[<<x, v>>] = Keep(v, b[x])
                            /\ step[<<x, v>>] \in V
  BY <1>1, <1>2, <1>3, KeepType
<1>5. PICK typed \in [SUBSET D -> V] : LeftOn(typed, n, empty, step)
  <2>1. StaysIn(step, 1..n, V) /\ empty \in V
    BY <1>1, <1>4 DEF StaysIn
  <2> HIDE DEF Is
  <2>2. \E it \in [SUBSET (1..n) -> V] : LeftOn(it, n, empty, step)
    BY <2>1, LeftExists
  <2> QED
    BY <1>1, <2>2
<1>6. \A u \in SUBSET D : u # {} => Greatest(u) \in D /\ u \ {Greatest(u)} \in SUBSET D
  BY <1>1, GreatestNumber
<1>8. Is(typed)
  <2>1. ASSUME NEW u \in SUBSET D, u # {}
        PROVE  typed[u] = Keep(typed[u \ {Greatest(u)}], b[Greatest(u)])
    <3>1. Greatest(u) \in D /\ typed[u \ {Greatest(u)}] \in V
      BY <1>5, <1>6, <2>1
    <3>2. typed[u] = step[<<Greatest(u), typed[u \ {Greatest(u)}]>>]
      BY <1>1, <1>5, <2>1 DEF LeftOn
    <3> QED
      BY <1>4, <3>1, <3>2
  <2>2. typed[{}] = <<>>
    BY <1>1, <1>5 DEF LeftOn
  <2> QED
    BY <1>2, <1>5, <2>1, <2>2
<1>9. KeptOf(b) = (CHOOSE it : Is(it))[DOMAIN b]
  BY DEF KeptOf, FoldLeft, MapThenFoldSet, Max, Greatest, Keep
<1>10. PICK it : it = CHOOSE g : Is(g)
  OBVIOUS
<1>11. Is(it)
  <2> HIDE DEF Is
  <2> QED
    BY <1>8, <1>10
<1>12. KeepsOn(it, b, n) /\ KeepsOn(typed, b, n)
  BY <1>1, <1>2, <1>8, <1>11 DEF KeepsOn
<1>13. \A u \in SUBSET (1..n) : it[u] = typed[u]
  <2>1. StepsAlike(it, typed, n)
    BY <1>12 DEF KeepsOn, StepsAlike
  <2>2. PICK one, other : one = it /\ other = typed
    OBVIOUS
  <2>3. StepsAlike(one, other, n)
    BY <2>1, <2>2
  <2> HIDE DEF Is
  <2>4. \A u \in SUBSET (1..n) : one[u] = other[u]
    BY <2>3, LeftAgree
  <2> QED
    BY <2>2, <2>4
<1>14. typed[1..n] = it[1..n]
  BY <1>13
<1>15. KeptOf(b) = typed[1..n]
  BY <1>1, <1>2, <1>9, <1>10, <1>14
<1> HIDE DEF Is
<1> QED
  BY <1>1, <1>5, <1>12, <1>15 DEF KeptBy

\* Nothing but empty parts is left out.
LEMMA KeptType ==
  ASSUME NEW k, NEW b \in Seq(Bucket)
  PROVE  KeptOf(b) \in Seq(Part) /\ CashOf(k, KeptOf(b)) = CashOf(k, b)
<1>1. PICK n \in Nat : n = Len(b)
  OBVIOUS
<1>2. PICK it : KeptBy(it, b, n)
  BY <1>1, KeptFold
<1>3. PICK f : f = Held(k, b)
  OBVIOUS
<1>4. IsHeld(k, b, n, f)
  BY <1>1, <1>3, HeldType
<1>5. ASSUME NEW j \in Nat, j <= n PROVE it[1..j] \in Seq(Part)
  <2>1. 1..j \in SUBSET (1..n)
    BY <1>5
  <2> QED
    BY <1>2, <2>1 DEF KeptBy
<1> DEFINE T == {j \in Nat : j <= n => CashOf(k, it[1..j]) = SumFunctionOnSet(f, 1..j)}
<1>6. 0 \in T
  <2>1. 1..0 = {} /\ {} \in SUBSET (1..n)
    OBVIOUS
  <2>2. it[{}] = <<>>
    BY <1>2, <2>1 DEF KeptBy, KeepsOn
  <2>3. SumFunctionOnSet(f, {}) = 0 /\ CashOf(k, <<>>) = 0
    BY SumEmpty, CashOfNone
  <2> QED
    BY <2>1, <2>2, <2>3
<1>7. ASSUME NEW j \in T PROVE j + 1 \in T
  <2> SUFFICES ASSUME j + 1 <= n
               PROVE  CashOf(k, it[1..(j + 1)]) = SumFunctionOnSet(f, 1..(j + 1))
    OBVIOUS
  <2>1. PICK v \in Seq(Part) : v = it[1..j]
    BY <1>5
  <2>2. j + 1 \in 1..n /\ 1..(j + 1) \in SUBSET (1..n) /\ 1..(j + 1) # {}
    <3>1. j + 1 \in 1..n /\ 1..(j + 1) \subseteq 1..n /\ 1 \in 1..(j + 1)
      OBVIOUS
    <3> QED
      BY <3>1
  <2>3. PICK E : E = 1..(j + 1)
    OBVIOUS
  <2>4. Greatest(E) = j + 1 /\ E \ {j + 1} = 1..j
    BY <2>3, UpTo, GreatestUpTo
  <2>5. it[E] = Keep(v, b[j + 1])
    BY <1>2, <2>1, <2>2, <2>3, <2>4 DEF KeptBy, KeepsOn
  <2>6. b[j + 1] \in Bucket /\ f[j + 1] = Share(k, b[j + 1])
    BY <1>4, <2>2 DEF IsHeld
  <2>7. CashOf(k, it[E]) = CashOf(k, v) + f[j + 1]
    BY <2>5, <2>6, KeepType
  <2>8. SumFunctionOnSet(f, 1..(j + 1)) = SumFunctionOnSet(f, 1..j) + f[j + 1]
    <3>1. \A i \in 1..(j + 1) : f[i] \in Int
      BY <1>4, <2>2 DEF IsHeld
    <3> QED
      BY <3>1, SumLast
  <2>9. CashOf(k, v) = SumFunctionOnSet(f, 1..j)
    BY <2>1
  <2> QED
    BY <2>3, <2>7, <2>8, <2>9
<1>8. T = Nat
  <2>1. T \in SUBSET Nat
    OBVIOUS
  <2> HIDE DEF T
  <2> QED
    BY <1>6, <1>7, <2>1, Induction
<1>9. CashOf(k, it[1..n]) = SumFunctionOnSet(f, 1..n)
  BY <1>8
<1> HIDE DEF T
<1> QED
  BY <1>2, <1>4, <1>5, <1>9 DEF KeptBy, IsHeld

LEMMA Composed ==
  ASSUME NEW k, NEW s \in Shift, Readable(ledger, transfer, s),
         NEW n \in 0..Len(ledger[s]), NEW amount \in Nat
  PROVE  /\ Composition(s, n, amount) \in Seq(Part)
         /\ CashOf(k, Composition(s, n, amount))
              = CashOf(k, Drawn(BucketsIn(ledger, transfer, s, n), amount))
<1>1. PICK b \in Seq(Bucket) : b = BucketsIn(ledger, transfer, s, n)
  BY BucketsStep
<1>2. PICK d \in Seq(Bucket) : d = Drawn(b, amount)
  BY DrawnType
<1>3. Composition(s, n, amount) = KeptOf(d)
  <2>1. Buckets(s, n) = b
    BY <1>1, BucketsAre
  <2> QED
    BY <1>2, <2>1 DEF Composition, KeptOf
<1> QED
  BY <1>1, <1>2, <1>3, KeptType

-----------------------------------------------------------------------------
(* What a step does to the cash.                                              *)
OnWay(status) == status \in {"PENDING", "DISPUTED"}

\* Every handover is on its way if it was, with the same parts.
KeptCash == \A t \in Transfer :
  /\ transfer'[t].parts = transfer[t].parts
  /\ OnWay(transfer'[t].status) <=> OnWay(transfer[t].status)

Stays == ledger' = ledger /\ KeptCash

\* A row that is no handover's.
Books(s, row) == Post(s, row) /\ row.type \notin {"CASH_IN", "CASH_OUT"} /\ KeptCash

OthersKept(t) == \A u \in Transfer : u # t => transfer'[u] = transfer[u]

\* Handover t leaves drawer s, composed as drawer s was.
Leaves(t, s, row) ==
  /\ transfer[t].status = "NONE" /\ transfer'[t].status = "PENDING"
  /\ row.type = "CASH_OUT"
  /\ Post(s, row)
  /\ transfer'[t].parts = Composition(s, Len(ledger[s]), row.amount)
  /\ OthersKept(t)

\* Handover t arrives in drawer r.
Arrives(t, r, row) ==
  /\ transfer[t].status = "PENDING" /\ transfer'[t].status \in {"ACCEPTED", "REJECTED"}
  /\ row.type = "CASH_IN" /\ row.transfer = t
  /\ Post(r, row)
  /\ transfer'[t].parts = transfer[t].parts
  /\ OthersKept(t)

\* Handover t leaves s, composed as its first n rows say, and arrives in r.
Carries(t, s, r, n, out, in) ==
  /\ transfer[t].status = "NONE" /\ transfer'[t].status = "ACCEPTED"
  /\ s # r
  /\ out.type = "CASH_OUT" /\ in.type = "CASH_IN" /\ in.transfer = t
  /\ ledger' = [ledger EXCEPT ![s] = Append(@, out), ![r] = Append(@, in)]
  /\ transfer'[t].parts = Composition(s, n, out.amount)
  /\ OthersKept(t)

Handovers(c, t) ==
  \E s, r \in Shift, n \in Nat, out, in \in Entry :
    /\ serial[c].op = "handover" /\ s = serial[c].shift /\ n = serial[c].rows
    /\ Carries(t, s, r, n, out, in)

CashStep ==
  \/ Stays
  \/ \E s \in Shift, row \in Entry : Books(s, row)
  \/ \E t \in Transfer, s \in Shift, row \in Entry : Leaves(t, s, row)
  \/ \E t \in Transfer, r \in Shift, row \in Entry : Arrives(t, r, row)
  \/ \E c \in Clerk, t \in Transfer : Handovers(c, t)

LEMMA BookedStep ==
  ASSUME NEW s \in Shift, NEW kind \in Kinds, NEW amount \in Nat,
         Post(s, Row(kind, amount, None)), kind \notin {"CASH_IN", "CASH_OUT"}, KeptCash
  PROVE  CashStep
<1>1. PICK row \in Entry : row = Row(kind, amount, None) /\ row.type = kind
  BY RowType
<1>2. Books(s, row)
  BY <1>1 DEF Books
<1> QED
  BY <1>2 DEF CashStep

LEMMA AtTheTillCash == ASSUME IInv, AtTheTill PROVE CashStep
<1>1. ASSUME transfer' = transfer PROVE KeptCash
  BY <1>1 DEF KeptCash
<1>2. {"OPENING_BALANCE", "SALE", "INCOME", "EXPENSE", "WITHDRAW", "REFUND"} \subseteq Kinds
  BY DEF Kinds, Credits, Debits
<1>3. ASSUME NEW s \in Shift, NEW e \in Employee, NEW amount \in Openings,
             OpenShift(s, e, amount)
      PROVE  CashStep
  <2>1. amount \in Nat /\ Post(s, Row("OPENING_BALANCE", amount, None)) /\ transfer' = transfer
    BY <1>3, CashAssumption DEF OpenShift
  <2> QED
    BY <1>1, <1>2, <2>1, BookedStep
<1>4. ASSUME NEW s \in Shift, NEW amount \in Sales, Sell(s, amount) PROVE CashStep
  <2>1. amount \in Nat /\ Post(s, Row("SALE", amount, None)) /\ transfer' = transfer
    BY <1>4, CashAssumption DEF Sell
  <2> QED
    BY <1>1, <1>2, <2>1, BookedStep
<1>5. ASSUME NEW s \in Shift, NEW kind \in Kinds, NEW amount \in Entries,
             ManualEntry(s, kind, amount)
      PROVE  CashStep
  <2>1. /\ amount \in Nat /\ Post(s, Row(kind, amount, None)) /\ transfer' = transfer
        /\ kind \notin {"CASH_IN", "CASH_OUT"}
    BY <1>5, CashAssumption DEF ManualEntry
  <2> QED
    BY <1>1, <2>1, BookedStep
<1>6. ASSUME NEW s \in Shift, NEW amount \in Entries, CancelItem(s, amount) PROVE CashStep
  <2>1. amount \in Nat /\ Post(s, Row("REFUND", amount, None)) /\ transfer' = transfer
    BY <1>6, CashAssumption DEF CancelItem
  <2> QED
    BY <1>1, <1>2, <2>1, BookedStep
<1> QED
  BY <1>3, <1>4, <1>5, <1>6 DEF AtTheTill

LEMMA BetweenDrawersCash == ASSUME IInv, BetweenDrawers PROVE CashStep
<1>1. \A t \in Transfer : /\ transfer[t] \in Handover(transfer[t].parts)
                          /\ transfer[t].amount \in Nat
  BY DEF IInv, Typed, Handover
<1>2. "CASH_IN" \in Kinds /\ "CASH_OUT" \in Kinds
  BY DEF Kinds, Credits, Debits
<1>3. ASSUME NEW t \in Transfer, NEW s \in Shift, NEW r \in Shift, NEW amount \in Portions,
             CreateTransfer(t, s, r, amount)
      PROVE  CashStep
  <2>1. PICK row \in Entry : /\ row.type = "CASH_OUT" /\ row.amount = amount
                             /\ Post(s, row)
    BY <1>2, <1>3, CashAssumption, RowType DEF CreateTransfer, Row
  <2>0. transfer[t].status = "NONE"
    BY <1>3 DEF CreateTransfer, NoTransfer
  <2>2. PICK new : /\ new = [status |-> "PENDING", from |-> s, to |-> r, amount |-> amount,
                             parts |-> Composition(s, Len(ledger[s]), amount)]
                   /\ transfer' = [transfer EXCEPT ![t] = new]
    BY <1>3 DEF CreateTransfer
  <2>3. /\ new.status = "PENDING" /\ new.parts = Composition(s, Len(ledger[s]), amount)
        /\ transfer'[t] = new /\ OthersKept(t)
    BY <2>2 DEF OthersKept, IInv, Typed
  <2>4. Leaves(t, s, row)
    BY <2>0, <2>1, <2>2, <2>3 DEF Leaves
  <2> QED
    BY <2>4 DEF CashStep
<1>4. ASSUME NEW t \in Transfer, NEW r \in Shift, NEW new, Pending(t),
             transfer' = [transfer EXCEPT ![t] = new],
             new.status \in {"ACCEPTED", "REJECTED"}, new.parts = transfer[t].parts,
             Post(r, Row("CASH_IN", transfer[t].amount, t))
      PROVE  CashStep
  <2>1. PICK row \in Entry : row.type = "CASH_IN" /\ row.transfer = t /\ Post(r, row)
    BY <1>1, <1>2, <1>4, RowType
  <2>2. transfer'[t] = new /\ OthersKept(t)
    BY <1>4 DEF OthersKept, IInv, Typed
  <2>3. Arrives(t, r, row)
    BY <1>4, <2>1, <2>2 DEF Arrives, Pending
  <2> QED
    BY <2>3 DEF CashStep
<1>5. ASSUME NEW t \in Transfer, NEW r \in Shift, AcceptTransfer(t, r) PROVE CashStep
  <2>1. PICK new : /\ new = [transfer[t] EXCEPT !.status = "ACCEPTED", !.to = r]
                   /\ transfer' = [transfer EXCEPT ![t] = new]
    BY <1>5 DEF AcceptTransfer
  <2>2. new.status = "ACCEPTED" /\ new.parts = transfer[t].parts
    BY <1>1, <2>1 DEF Handover
  <2>3. Pending(t) /\ Post(r, Row("CASH_IN", transfer[t].amount, t))
    BY <1>5 DEF AcceptTransfer
  <2> QED
    BY <1>4, <2>1, <2>2, <2>3
<1>6. ASSUME NEW t \in Transfer, NEW e \in Employee, RejectTransfer(t, e) PROVE CashStep
  <2>1. PICK s \in Shift : s = transfer[t].from
    BY <1>6 DEF RejectTransfer, Pending, IInv, Sourced
  <2>2. Pending(t)
    BY <1>6 DEF RejectTransfer
  <2>3. CASE /\ Post(s, Row("CASH_IN", transfer[t].amount, t))
             /\ transfer' = Settled(t, "REJECTED")
    <3>1. PICK new : /\ new = [transfer[t] EXCEPT !.status = "REJECTED"]
                     /\ transfer' = [transfer EXCEPT ![t] = new]
      BY <2>3 DEF Settled
    <3>2. new.status = "REJECTED" /\ new.parts = transfer[t].parts
      BY <1>1, <3>1 DEF Handover
    <3> QED
      BY <1>4, <2>2, <2>3, <3>1, <3>2
  <2>4. CASE transfer' = Settled(t, "DISPUTED") /\ ledger' = ledger
    <3>1. PICK new : /\ new = [transfer[t] EXCEPT !.status = "DISPUTED"]
                     /\ transfer' = [transfer EXCEPT ![t] = new]
      BY <2>4 DEF Settled
    <3>2. new.status = "DISPUTED" /\ new.parts = transfer[t].parts
      BY <1>1, <3>1 DEF Handover
    <3>3. transfer'[t] = new /\ \A u \in Transfer : u # t => transfer'[u] = transfer[u]
      BY <3>1 DEF IInv, Typed
    <3>4. KeptCash
      BY <2>2, <3>2, <3>3 DEF KeptCash, OnWay, Pending
    <3> QED
      BY <2>4, <3>4 DEF CashStep, Stays
  <2> QED
    BY <1>6, <2>1, <2>3, <2>4 DEF RejectTransfer
<1> QED
  BY <1>3, <1>5, <1>6 DEF BetweenDrawers

LEMMA EndsCash == ASSUME IInv, Ends PROVE CashStep
<1>1. "CLOSING_BALANCE" \in Kinds /\ "REFUND" \in Kinds
  BY DEF Kinds, Debits
<1>2. ASSUME NEW c \in Clerk, CloseShift(c) PROVE CashStep
  <2>1. /\ serial[c].shift \in Shift
        /\ Post(serial[c].shift, Row("CLOSING_BALANCE", 0, None))
        /\ transfer' = transfer
    BY <1>2 DEF CloseShift, Commits, Closed, IInv, FoundOpen
  <2>2. KeptCash
    BY <2>1 DEF KeptCash
  <2> QED
    BY <1>1, <2>1, <2>2, BookedStep
<1>3. ASSUME NEW c \in Clerk, ForceCloseShift(c) PROVE CashStep
  <2>1. PICK s \in Shift, moved \in SUBSET Transfer :
          /\ s = serial[c].shift /\ moved = serial[c].moved
          /\ \A t \in moved : Pending(t)
    BY <1>3 DEF ForceCloseShift, Commits, IInv, FoundOpen, Typed, InFlight, MovesPending
  <2>2. /\ Post(s, Row("CLOSING_BALANCE", 0, None))
        /\ transfer' = [t \in Transfer |->
             IF t \notin moved THEN transfer[t]
             ELSE IF transfer[t].from = s THEN [transfer[t] EXCEPT !.status = "DISPUTED"]
             ELSE [transfer[t] EXCEPT !.to = None]]
    BY <1>3, <2>1 DEF ForceCloseShift, Closed
  <2>3. ASSUME NEW t \in Transfer
        PROVE  /\ transfer'[t].parts = transfer[t].parts
               /\ OnWay(transfer'[t].status) <=> OnWay(transfer[t].status)
    <3>1. CASE t \notin moved
      BY <2>2, <3>1
    <3>2. CASE t \in moved
      <4>1. transfer[t] \in Handover(transfer[t].parts) /\ transfer[t].status = "PENDING"
        BY <2>1, <3>2 DEF IInv, Typed, Pending
      <4>2. \/ transfer'[t] = [transfer[t] EXCEPT !.status = "DISPUTED"]
            \/ transfer'[t] = [transfer[t] EXCEPT !.to = None]
        BY <2>2, <3>2
      <4> QED
        BY <4>1, <4>2 DEF Handover, OnWay
    <3> QED
      BY <3>1, <3>2
  <2>4. KeptCash
    BY <2>3 DEF KeptCash
  <2> QED
    BY <1>1, <2>2, <2>4, BookedStep
<1>4. ASSUME NEW c \in Clerk, NEW t \in Transfer, ForceHandover(c, t) PROVE CashStep
  <2>1. PICK s \in Shift, r \in Shift, amount \in Nat, n \in Nat :
          /\ s = serial[c].shift /\ r = serial[c].to /\ amount = serial[c].amount
          /\ n = serial[c].rows /\ s # r /\ serial[c].op = "handover"
    BY <1>4 DEF ForceHandover, Commits, IInv, FoundOpen, MovesPending, Typed, InFlight
  <2>2. PICK out \in Entry, in \in Entry :
          /\ out = Row("CASH_OUT", amount, t) /\ in = Row("CASH_IN", amount, t)
          /\ out.type = "CASH_OUT" /\ in.type = "CASH_IN" /\ in.transfer = t
    BY RowType DEF Kinds, Credits, Debits
  <2>8. out.amount = amount
    BY <2>2 DEF Row
  <2>0. transfer[t].status = "NONE"
    BY <1>4 DEF ForceHandover, NoTransfer
  <2>3. PICK new : /\ new = [status |-> "ACCEPTED", from |-> s, to |-> r, amount |-> amount,
                             parts |-> Composition(s, n, amount)]
                   /\ transfer' = [transfer EXCEPT ![t] = new]
    BY <1>4, <2>1 DEF ForceHandover
  <2>4. ledger' = [ledger EXCEPT ![s] = Append(@, out), ![r] = Append(@, in)]
    BY <1>4, <2>1, <2>2 DEF ForceHandover
  <2>5. /\ new.status = "ACCEPTED" /\ new.parts = Composition(s, n, amount)
        /\ transfer'[t] = new /\ OthersKept(t)
    BY <2>3 DEF OthersKept, IInv, Typed
  <2>6. Carries(t, s, r, n, out, in)
    BY <2>0, <2>1, <2>2, <2>4, <2>5, <2>8 DEF Carries
  <2>7. Handovers(c, t)
    BY <2>1, <2>6 DEF Handovers
  <2> QED
    BY <2>7 DEF CashStep
<1>5. ASSUME NEW c \in Clerk, Refund(c) PROVE CashStep
  <2>1. /\ serial[c].shift \in Shift /\ serial[c].amount \in Nat
        /\ Post(serial[c].shift, Row("REFUND", serial[c].amount, None))
        /\ transfer' = transfer
    BY <1>5 DEF Refund, Commits, IInv, FoundOpen, Typed, InFlight
  <2>2. KeptCash
    BY <2>1 DEF KeptCash
  <2> QED
    BY <1>1, <2>1, <2>2, BookedStep
<1>6. ASSUME NEW c \in Clerk, Fail(c) PROVE CashStep
  BY <1>6 DEF Fail, CashStep, Stays, KeptCash
<1> QED
  BY <1>2, <1>3, <1>4, <1>5, <1>6 DEF Ends

LEMMA NextCash == ASSUME IInv, [Next]_vars PROVE CashStep
<1>1. CASE Begins
  <2>1. \A c, snap : Snapshot(c, snap) => ledger' = ledger /\ transfer' = transfer
    BY DEF Snapshot
  <2>2. ASSUME NEW c \in Clerk, NEW z \in Shift, NEW r, NEW amount,
               \/ BeginClose(c, z) \/ BeginForceClose(c, z)
               \/ BeginHandover(c, z, r, amount) \/ BeginRefund(c, z, amount)
        PROVE  ledger' = ledger /\ transfer' = transfer
    BY <2>1, <2>2, Zenon DEF BeginClose, BeginForceClose, BeginHandover, BeginRefund
  <2>3. ledger' = ledger /\ transfer' = transfer
    BY <1>1, <2>2 DEF Begins
  <2> QED
    BY <2>3 DEF CashStep, Stays, KeptCash
<1>2. CASE UNCHANGED vars
  BY <1>2 DEF vars, CashStep, Stays, KeptCash
<1> QED
  BY <1>1, <1>2, AtTheTillCash, BetweenDrawersCash, EndsCash DEF Next

-----------------------------------------------------------------------------
(* Every composition consists of parts of real rows.                          *)
PartsTyped == \A t \in Transfer : transfer[t].parts \in Seq(Part)

NamedIn(l) == \A s \in Shift : \A i \in DOMAIN l[s] :
  l[s][i].type = "CASH_IN" => l[s][i].transfer \in Transfer
CashInNamed == NamedIn(ledger)

\* A snapshot is not ahead of the ledger.
RowsSeen == \A c \in Clerk : serial[c].op # "idle" =>
  serial[c].rows <= Len(ledger[serial[c].shift])

PInv == IInv /\ PartsTyped /\ CashInNamed /\ RowsSeen

LEMMA AllReadable ==
  ASSUME PInv, NEW s \in Shift
  PROVE  Readable(ledger, transfer, s)
<1>1. ledger[s] \in Seq(Entry)
  BY DEF PInv, IInv, Typed
<1>2. ASSUME NEW i \in DOMAIN ledger[s], ledger[s][i].type = "CASH_IN"
      PROVE  transfer[ledger[s][i].transfer].parts \in Seq(Part)
  BY <1>2 DEF PInv, PartsTyped, CashInNamed, NamedIn
<1> QED
  BY <1>1, <1>2 DEF Readable

LEMMA NamedExtended ==
  ASSUME NEW l \in [Shift -> Seq(Entry)], NEW s \in Shift, NEW row \in Entry,
         NEW m, Extended(l, m, s, row), NamedIn(l),
         row.type = "CASH_IN" => row.transfer \in Transfer
  PROVE  NamedIn(m)
<1> SUFFICES ASSUME NEW z \in Shift, NEW i \in DOMAIN m[z], m[z][i].type = "CASH_IN"
             PROVE  m[z][i].transfer \in Transfer
  BY DEF NamedIn
<1>1. CASE z # s
  <2>1. m[z] = l[z]
    BY <1>1, Appended
  <2> QED
    BY <2>1 DEF NamedIn
<1>2. CASE z = s
  <2>1. /\ DOMAIN m[s] = 1..(Len(l[s]) + 1) /\ Len(l[s]) \in Nat /\ DOMAIN l[s] = 1..Len(l[s])
        /\ \A j \in 1..Len(l[s]) : m[s][j] = l[s][j]
        /\ m[s][Len(l[s]) + 1] = row
    BY Appended
  <2>2. i \in 1..Len(l[s]) \/ i = Len(l[s]) + 1
    BY <1>2, <2>1
  <2>3. CASE i \in 1..Len(l[s])
    BY <1>2, <2>1, <2>3 DEF NamedIn
  <2>4. CASE i = Len(l[s]) + 1
    BY <1>2, <2>1, <2>4
  <2> QED
    BY <2>2, <2>3, <2>4
<1> QED
  BY <1>1, <1>2

\* The two rows of a forced handover, one after the other.
LEMMA TwoRows ==
  ASSUME NEW l \in [Shift -> Seq(Entry)], NEW s \in Shift, NEW r \in Shift, s # r,
         NEW out \in Entry, NEW in \in Entry,
         NEW m, m = [l EXCEPT ![s] = Append(@, out), ![r] = Append(@, in)]
  PROVE  \E mid \in [Shift -> Seq(Entry)] : Extended(l, mid, s, out) /\ Extended(mid, m, r, in)
<1>1. PICK mid : mid = [l EXCEPT ![s] = Append(@, out)]
  OBVIOUS
<1>2. Extended(l, mid, s, out)
  BY <1>1 DEF Extended
<1>3. mid \in [Shift -> Seq(Entry)]
  BY <1>2, Appended
<1>4. Extended(mid, m, r, in)
  BY <1>1 DEF Extended
<1> QED
  BY <1>2, <1>3, <1>4

LEMMA PartsKeep ==
  ASSUME PInv, CashStep
  PROVE  PartsTyped' /\ CashInNamed'
<1>0. ledger \in [Shift -> Seq(Entry)]
  BY DEF PInv, IInv, Typed
<1>1. CASE Stays
  BY <1>1 DEF Stays, KeptCash, PInv, PartsTyped, CashInNamed
<1>2. ASSUME NEW s \in Shift, NEW row \in Entry, Books(s, row)
      PROVE  PartsTyped' /\ CashInNamed'
  <2>1. Extended(ledger, ledger', s, row) /\ row.type # "CASH_IN"
    BY <1>2 DEF Books, Post, Extended
  <2>2. CashInNamed'
    BY <1>0, <2>1, NamedExtended DEF PInv, CashInNamed
  <2> QED
    BY <1>2, <2>2 DEF Books, KeptCash, PInv, PartsTyped
<1>3. ASSUME NEW t \in Transfer, NEW s \in Shift, NEW row \in Entry, Leaves(t, s, row)
      PROVE  PartsTyped' /\ CashInNamed'
  <2>1. Extended(ledger, ledger', s, row) /\ row.type # "CASH_IN"
    BY <1>3 DEF Leaves, Post, Extended
  <2>2. CashInNamed'
    BY <1>0, <2>1, NamedExtended DEF PInv, CashInNamed
  <2>3. PICK n : n = Len(ledger[s]) /\ n \in 0..Len(ledger[s])
    BY <1>0
  <2>4. row.amount \in Nat
    BY DEF Entry
  <2>5. Composition(s, n, row.amount) \in Seq(Part)
    BY <2>3, <2>4, AllReadable, Composed
  <2>6. transfer'[t].parts \in Seq(Part) /\ OthersKept(t)
    BY <1>3, <2>3, <2>5 DEF Leaves
  <2> QED
    BY <2>2, <2>6 DEF OthersKept, PInv, PartsTyped
<1>4. ASSUME NEW t \in Transfer, NEW r \in Shift, NEW row \in Entry, Arrives(t, r, row)
      PROVE  PartsTyped' /\ CashInNamed'
  <2>1. Extended(ledger, ledger', r, row) /\ row.transfer \in Transfer
    BY <1>4 DEF Arrives, Post, Extended
  <2>2. CashInNamed'
    BY <1>0, <2>1, NamedExtended DEF PInv, CashInNamed
  <2> QED
    BY <1>4, <2>2 DEF Arrives, OthersKept, PInv, PartsTyped
<1>5. ASSUME NEW c \in Clerk, NEW t \in Transfer, Handovers(c, t)
      PROVE  PartsTyped' /\ CashInNamed'
  <2>1. PICK s \in Shift, r \in Shift, n \in Nat, out \in Entry, in \in Entry :
          /\ serial[c].op = "handover" /\ s = serial[c].shift /\ n = serial[c].rows
          /\ Carries(t, s, r, n, out, in)
    BY <1>5 DEF Handovers
  <2>2. PICK mid \in [Shift -> Seq(Entry)] :
          Extended(ledger, mid, s, out) /\ Extended(mid, ledger', r, in)
    BY <1>0, <2>1, TwoRows DEF Carries
  <2>3. NamedIn(mid)
    BY <1>0, <2>1, <2>2, NamedExtended DEF Carries, PInv, CashInNamed
  <2>4. CashInNamed'
    BY <2>1, <2>2, <2>3, NamedExtended DEF Carries, CashInNamed
  <2>7. out.amount \in Nat
    BY DEF Entry
  <2>8. n <= Len(ledger[s])
    <3>1. RowsSeen /\ serial[c].op # "idle"
      BY <2>1 DEF PInv
    <3> QED
      BY <2>1, <3>1 DEF RowsSeen
  <2>9. Len(ledger[s]) \in Nat
    BY <1>0
  <2>5. n \in 0..Len(ledger[s]) /\ out.amount \in Nat
    BY <2>7, <2>8, <2>9
  <2>6. Composition(s, n, out.amount) \in Seq(Part)
    BY <2>5, AllReadable, Composed
  <2> QED
    BY <2>1, <2>4, <2>6 DEF Carries, OthersKept, PInv, PartsTyped
<1> QED
  BY <1>1, <1>2, <1>3, <1>4, <1>5 DEF CashStep

LEMMA LedgersGrow ==
  ASSUME IInv, CashStep, NEW z \in Shift
  PROVE  Len(ledger'[z]) \in Nat /\ Len(ledger[z]) \in Nat /\ Len(ledger[z]) <= Len(ledger'[z])
<1>0. ledger \in [Shift -> Seq(Entry)]
  BY DEF IInv, Typed
<1>1. ASSUME NEW l \in [Shift -> Seq(Entry)], NEW m, NEW s \in Shift, NEW row \in Entry,
             Extended(l, m, s, row)
      PROVE  /\ Len(m[z]) \in Nat /\ Len(l[z]) \in Nat /\ Len(l[z]) <= Len(m[z])
             /\ m \in [Shift -> Seq(Entry)]
  <2>1. m \in [Shift -> Seq(Entry)] /\ (z # s => m[z] = l[z])
    BY <1>1, Appended
  <2>2. m[s] = Append(l[s], row)
    BY <1>1 DEF Extended
  <2> QED
    BY <2>1, <2>2
<1>2. CASE Stays
  BY <1>0, <1>2 DEF Stays
<1>3. ASSUME NEW s \in Shift, NEW row \in Entry, Post(s, row)
      PROVE  Len(ledger'[z]) \in Nat /\ Len(ledger[z]) \in Nat /\ Len(ledger[z]) <= Len(ledger'[z])
  BY <1>0, <1>1, <1>3 DEF Post, Extended
<1>4. ASSUME NEW c \in Clerk, NEW t \in Transfer, Handovers(c, t)
      PROVE  Len(ledger'[z]) \in Nat /\ Len(ledger[z]) \in Nat /\ Len(ledger[z]) <= Len(ledger'[z])
  <2>1. PICK s \in Shift, r \in Shift, n \in Nat, out \in Entry, in \in Entry :
          Carries(t, s, r, n, out, in)
    BY <1>4 DEF Handovers
  <2>2. PICK mid \in [Shift -> Seq(Entry)] :
          Extended(ledger, mid, s, out) /\ Extended(mid, ledger', r, in)
    BY <1>0, <2>1, TwoRows DEF Carries
  <2>3. Len(mid[z]) \in Nat /\ Len(ledger[z]) \in Nat /\ Len(ledger[z]) <= Len(mid[z])
    BY <1>0, <1>1, <2>2
  <2>4. Len(ledger'[z]) \in Nat /\ Len(mid[z]) <= Len(ledger'[z])
    BY <1>1, <2>2
  <2> QED
    BY <2>3, <2>4
<1> QED
  BY <1>2, <1>3, <1>4 DEF CashStep, Books, Leaves, Arrives

\* A transaction in flight stays as it is, ends, or has just begun.
Begun(c) ==
  /\ Quiet /\ serial[c] = Idle /\ ledger' = ledger
  /\ serial'[c].op # "idle" /\ serial'[c].shift \in Shift
  /\ serial'[c].rows <= Len(ledger[serial'[c].shift])
  /\ serial'[c].op = "handover" => serial'[c].rows = Len(ledger[serial'[c].shift])
  /\ \A d \in Clerk : d # c => serial'[d] = serial[d]

SerialStep ==
  \A c \in Clerk : serial'[c] = serial[c] \/ serial'[c] = Idle \/ Begun(c)

LEMMA DroppedStep == ASSUME NEW failed, Dropped(failed) PROVE SerialStep
BY DEF Dropped, SerialStep

Fresh(snap) ==
  /\ snap.op # "idle" /\ snap.shift \in Shift
  /\ snap.rows <= Len(ledger[snap.shift])
  /\ snap.op = "handover" => snap.rows = Len(ledger[snap.shift])

LEMMA BegunStep ==
  ASSUME IInv, Quiet, NEW c \in Clerk, NEW snap, Snapshot(c, snap), Fresh(snap)
  PROVE  SerialStep
<1>1. /\ serial[c] = Idle /\ ledger' = ledger /\ serial'[c] = snap
      /\ \A d \in Clerk : d # c => serial'[d] = serial[d]
  BY DEF Snapshot, IInv, Typed
<1>2. Begun(c)
  BY <1>1 DEF Begun, Fresh
<1> QED
  BY <1>1, <1>2 DEF SerialStep

LEMMA BeginsSerial == ASSUME IInv, Quiet, Begins PROVE SerialStep
<1>0. \A s \in Shift : View(s) = Len(ledger[s]) /\ Len(ledger[s]) \in Nat
  BY DEF View, IInv, Typed
<1>1. ASSUME NEW c \in Clerk, NEW s \in Shift, BeginClose(c, s) PROVE SerialStep
  <2>1. PICK snap : /\ snap = [Idle EXCEPT !.op = "close", !.shift = s, !.rows = View(s)]
                    /\ Snapshot(c, snap)
    BY <1>1 DEF BeginClose
  <2>2. snap.shift = s /\ snap.op = "close" /\ snap.rows = View(s)
    BY <2>1 DEF Idle
  <2>3. Fresh(snap)
    BY <1>0, <2>2 DEF Fresh
  <2> QED
    BY <2>1, <2>3, BegunStep
<1>2. ASSUME NEW c \in Clerk, NEW s \in Shift, BeginForceClose(c, s) PROVE SerialStep
  <2>1. PICK snap : /\ snap = [Idle EXCEPT !.op = "force", !.shift = s, !.rows = View(s),
                                           !.moved = From(s) \cup To(s)]
                    /\ Snapshot(c, snap)
    BY <1>2 DEF BeginForceClose
  <2>2. snap.shift = s /\ snap.op = "force" /\ snap.rows = View(s)
    BY <2>1 DEF Idle
  <2>3. Fresh(snap)
    BY <1>0, <2>2 DEF Fresh
  <2> QED
    BY <2>1, <2>3, BegunStep
<1>3. ASSUME NEW c \in Clerk, NEW s \in Shift, NEW r \in Shift, NEW amount \in Portions,
             BeginHandover(c, s, r, amount)
      PROVE  SerialStep
  <2>1. PICK snap : /\ snap = [Idle EXCEPT !.op = "handover", !.shift = s, !.to = r,
                                           !.amount = amount, !.rows = View(s)]
                    /\ Snapshot(c, snap)
    BY <1>3 DEF BeginHandover
  <2>2. snap.shift = s /\ snap.op = "handover" /\ snap.rows = View(s)
    BY <2>1 DEF Idle
  <2>3. Fresh(snap)
    BY <1>0, <2>2 DEF Fresh
  <2> QED
    BY <2>1, <2>3, BegunStep
<1>4. ASSUME NEW c \in Clerk, NEW s \in Shift, NEW amount \in Entries,
             BeginRefund(c, s, amount)
      PROVE  SerialStep
  <2>1. PICK snap : /\ snap = [Idle EXCEPT !.op = "refund", !.shift = s, !.amount = amount]
                    /\ Snapshot(c, snap)
    BY <1>4 DEF BeginRefund
  <2>2. snap.shift = s /\ snap.op = "refund" /\ snap.rows = 0
    BY <2>1 DEF Idle
  <2>3. Fresh(snap)
    BY <1>0, <2>2 DEF Fresh
  <2> QED
    BY <2>1, <2>3, BegunStep
<1> QED
  BY <1>1, <1>2, <1>3, <1>4 DEF Begins

LEMMA NextSerial == ASSUME IInv, [Next]_vars PROVE SerialStep
<1>1. \A failed : Dropped(failed) => SerialStep
  BY DroppedStep
<1>2. serial' = serial => SerialStep
  BY DEF SerialStep
<1>3. CASE AtTheTill
  BY <1>1, <1>2, <1>3
     DEF AtTheTill, OpenShift, Sell, ManualEntry, CancelItem, Updates
<1>4. CASE BetweenDrawers
  BY <1>1, <1>4 DEF BetweenDrawers, CreateTransfer, AcceptTransfer, RejectTransfer, Locks
<1>5. CASE Ends
  <2>1. ASSUME NEW c \in Clerk, Fail(c) PROVE SerialStep
    BY <2>1 DEF Fail, SerialStep, IInv, Typed
  <2>2. ASSUME NEW c \in Clerk, CloseShift(c) \/ ForceCloseShift(c) \/ Refund(c)
        PROVE  SerialStep
    BY <1>1, <2>2 DEF CloseShift, ForceCloseShift, Refund, Updates
  <2>3. ASSUME NEW c \in Clerk, NEW t \in Transfer, ForceHandover(c, t) PROVE SerialStep
    BY <1>1, <2>3 DEF ForceHandover, Crosses
  <2> QED
    BY <1>5, <2>1, <2>2, <2>3 DEF Ends
<1>6. CASE UNCHANGED vars
  BY <1>2, <1>6 DEF vars
<1> QED
  BY <1>3, <1>4, <1>5, <1>6, BeginsSerial DEF Next

LEMMA RowsSeenKeeps ==
  ASSUME PInv, CashStep, SerialStep
  PROVE  RowsSeen'
<1> SUFFICES ASSUME NEW c \in Clerk, serial'[c].op # "idle"
             PROVE  serial'[c].rows <= Len(ledger'[serial'[c].shift])
  BY DEF RowsSeen
<1>1. CASE serial'[c] = serial[c]
  <2>1. PICK s \in Shift, n \in Nat : /\ s = serial[c].shift /\ n = serial[c].rows
                                      /\ n <= Len(ledger[s])
    BY <1>1 DEF PInv, IInv, Typed, InFlight, FoundOpen, RowsSeen
  <2>2. Len(ledger[s]) <= Len(ledger'[s]) /\ Len(ledger[s]) \in Nat /\ Len(ledger'[s]) \in Nat
    BY LedgersGrow DEF PInv
  <2> QED
    BY <1>1, <2>1, <2>2
<1>2. CASE serial'[c] = Idle
  BY <1>2 DEF Idle
<1>3. CASE Begun(c)
  BY <1>3 DEF Begun
<1> QED
  BY <1>1, <1>2, <1>3 DEF SerialStep

LEMMA InitPInv == Init => PInv
<1> SUFFICES ASSUME Init PROVE PInv
  OBVIOUS
<1>1. <<>> \in Seq(Part)
  OBVIOUS
<1>2. PartsTyped
  BY <1>1 DEF Init, PartsTyped, NoTransfer
<1>3. CashInNamed
  BY DEF Init, CashInNamed, NamedIn
<1>4. RowsSeen
  BY DEF Init, RowsSeen, Idle
<1> QED
  BY <1>2, <1>3, <1>4, InitIInv DEF PInv

LEMMA NextPInv == PInv /\ [Next]_vars => PInv'
<1> SUFFICES ASSUME PInv, [Next]_vars PROVE PInv'
  OBVIOUS
<1>1. IInv' /\ CashStep /\ SerialStep
  BY NextIInv, NextCash, NextSerial DEF PInv
<1> QED
  BY <1>1, PartsKeep, RowsSeenKeeps DEF PInv

LEMMA PartsInductive == Spec => []PInv
BY InitPInv, NextPInv, PTL DEF Spec

\* Every variable has its type: the parts of every handover name rows that
\* brought cash in, and none is empty, whichever operations overlap.
THEOREM TypeOKHolds == Spec => []TypeOK
<1>1. PInv => TypeOK
  <2> SUFFICES ASSUME PInv PROVE TypeOK
    OBVIOUS
  <2>1. \A t \in Transfer :
          transfer[t] \in [status : {"NONE", "PENDING", "ACCEPTED", "REJECTED", "DISPUTED"},
                           from : Shift \cup {None}, to : Shift \cup {None}, amount : Nat,
                           parts : Seq(Part)]
    BY DEF PInv, IInv, Typed, Handover, PartsTyped
  <2>2. transfer = [t \in Transfer |-> transfer[t]]
    BY DEF PInv, IInv, Typed
  <2> QED
    BY <2>1, <2>2 DEF PInv, IInv, Typed, TypeOK, Part, Entry, InFlight
<1> QED
  BY <1>1, PartsInductive, PTL

-----------------------------------------------------------------------------
(* The cash of one source: in the drawers, and on its way between them.       *)
Key == Shift \X (Nat \ {0})

InDrawer(k, l, w) == [z \in Shift |-> CashOf(k, BucketsIn(l, w, z, Len(l[z])))]
Drawers(k, l, w) == SumFunctionOnSet(InDrawer(k, l, w), Shift)

AwayIn(w) == {t \in Transfer : OnWay(w[t].status)}
InParts(k, w) == [t \in Transfer |-> CashOf(k, w[t].parts)]
Away(k, w) == SumFunctionOnSet(InParts(k, w), AwayIn(w))

\* What row k brought into its drawer.
Brought(k, l) ==
  IF k[2] \in DOMAIN l[k[1]] /\ l[k[1]][k[2]].type \in Credits \ {"CASH_IN"}
  THEN l[k[1]][k[2]].amount ELSE 0

ConservedIn(l, w) == \A k \in Key : Drawers(k, l, w) + Away(k, w) <= Brought(k, l)

\* The ledgers l can be read with the handovers w.
Legible(l, w) ==
  /\ l \in [Shift -> Seq(Entry)]
  /\ \A z \in Shift : Readable(l, w, z)
  /\ \A t \in Transfer : w[t].parts \in Seq(Part)

LEMMA PartsAreBuckets == Seq(Part) \subseteq Seq(Bucket)
<1>1. Part \subseteq Bucket
  BY DEF Part, Bucket
<1> QED
  BY <1>1

LEMMA CashOfType == ASSUME NEW k, NEW b \in Seq(Bucket) PROVE CashOf(k, b) \in Int
BY HeldType DEF IsHeld

LEMMA DrawerType ==
  ASSUME NEW l, NEW w, Legible(l, w), NEW k
  PROVE  \A z \in Shift : /\ BucketsIn(l, w, z, Len(l[z])) \in Seq(Bucket)
                          /\ InDrawer(k, l, w)[z] = CashOf(k, BucketsIn(l, w, z, Len(l[z])))
                          /\ InDrawer(k, l, w)[z] \in Int
<1> SUFFICES ASSUME NEW z \in Shift
             PROVE  /\ BucketsIn(l, w, z, Len(l[z])) \in Seq(Bucket)
                    /\ InDrawer(k, l, w)[z] = CashOf(k, BucketsIn(l, w, z, Len(l[z])))
                    /\ InDrawer(k, l, w)[z] \in Int
  OBVIOUS
<1>1. PICK n : n = Len(l[z]) /\ n \in 0..Len(l[z])
  BY DEF Legible
<1>2. Readable(l, w, z)
  BY DEF Legible
<1>3. BucketsIn(l, w, z, n) \in Seq(Bucket)
  BY <1>1, <1>2, BucketsStep
<1>4. CashOf(k, BucketsIn(l, w, z, n)) \in Int
  BY <1>3, CashOfType
<1> QED
  BY <1>1, <1>3, <1>4 DEF InDrawer

LEMMA AwayType ==
  ASSUME NEW l, NEW w, Legible(l, w), NEW k
  PROVE  /\ \A t \in Transfer : /\ InParts(k, w)[t] = CashOf(k, w[t].parts)
                                /\ InParts(k, w)[t] \in Int
         /\ AwayIn(w) \subseteq Transfer
<1>1. ASSUME NEW t \in Transfer
      PROVE  InParts(k, w)[t] = CashOf(k, w[t].parts) /\ InParts(k, w)[t] \in Int
  <2>1. w[t].parts \in Seq(Bucket)
    BY PartsAreBuckets DEF Legible
  <2> QED
    BY <2>1, CashOfType DEF InParts
<1> QED
  BY <1>1 DEF AwayIn

\* Nobody who could be read differently: the rows of l name the same parts.
SameParts(l, w, v) ==
  \A z \in Shift : \A i \in DOMAIN l[z] : l[z][i].type = "CASH_IN" =>
    v[l[z][i].transfer].parts = w[l[z][i].transfer].parts

\* The buckets of every drawer after one more row in drawer s.
LEMMA OneMoreRow ==
  ASSUME NEW l, NEW w, Legible(l, w), NEW m, NEW v, Legible(m, v), SameParts(l, w, v),
         NEW s \in Shift, NEW row \in Entry, Extended(l, m, s, row),
         NEW z \in Shift
  PROVE  /\ z # s => BucketsIn(m, v, z, Len(m[z])) = BucketsIn(l, w, z, Len(l[z]))
         /\ BucketsIn(m, v, s, Len(m[s]))
              = Replayed(m, v, s, BucketsIn(l, w, s, Len(l[s])), Len(m[s]))
         /\ m[s][Len(m[s])] = row
         /\ Len(m[s]) = Len(l[s]) + 1
<1>1. /\ l \in [Shift -> Seq(Entry)]
      /\ \A y \in Shift : Readable(l, w, y) /\ Readable(m, v, y)
  BY DEF Legible
<1>2. /\ \A y \in Shift : y # s => m[y] = l[y]
      /\ Len(l[s]) \in Nat /\ DOMAIN l[s] = 1..Len(l[s])
      /\ \A i \in 1..Len(l[s]) : m[s][i] = l[s][i]
      /\ m[s][Len(l[s]) + 1] = row
  BY <1>1, Appended
<1>3. PICK n \in Nat : n = Len(l[s])
  BY <1>2
<1>4. Len(m[s]) = n + 1
  <2>1. m[s] = Append(l[s], row) /\ l[s] \in Seq(Entry)
    BY <1>1 DEF Extended
  <2> QED
    BY <1>3, <2>1
<1>5. ASSUME z # s
      PROVE  BucketsIn(m, v, z, Len(m[z])) = BucketsIn(l, w, z, Len(l[z]))
  <2>1. m[z] = l[z] /\ l[z] \in Seq(Entry)
    BY <1>1, <1>2, <1>5
  <2>2. PICK j \in Nat : j = Len(l[z]) /\ DOMAIN l[z] = 1..j
    BY <2>1
  <2>3. \A i \in 1..j : l[z][i].type = "CASH_IN" =>
          v[l[z][i].transfer].parts = w[l[z][i].transfer].parts
    BY <2>2 DEF SameParts
  <2>4. \A i \in 1..j : m[z][i] = l[z][i]
    BY <2>1
  <2>5. j <= Len(l[z]) /\ j <= Len(m[z])
    BY <2>1, <2>2
  <2>6. BucketsIn(m, v, z, j) = BucketsIn(l, w, z, j)
    <3>1. SameRows(l, w, m, v, z, j)
      BY <2>3, <2>4, <2>5 DEF SameRows
    <3> QED
      BY <1>1, <3>1, BucketsSame
  <2> QED
    BY <2>1, <2>2, <2>6
<1>6. BucketsIn(m, v, s, n) = BucketsIn(l, w, s, n)
  <2>1. \A i \in 1..n : l[s][i].type = "CASH_IN" =>
          v[l[s][i].transfer].parts = w[l[s][i].transfer].parts
    BY <1>2, <1>3 DEF SameParts
  <2>2. \A i \in 1..n : m[s][i] = l[s][i]
    BY <1>2, <1>3
  <2>3. n <= Len(l[s]) /\ n <= Len(m[s])
    BY <1>3, <1>4
  <2>4. SameRows(l, w, m, v, s, n)
    BY <2>1, <2>2, <2>3 DEF SameRows
  <2> QED
    BY <1>1, <2>4, BucketsSame
<1>7. BucketsIn(m, v, s, n + 1) = Replayed(m, v, s, BucketsIn(m, v, s, n), n + 1)
  <2>1. n + 1 <= Len(m[s])
    BY <1>4
  <2> QED
    BY <1>1, <2>1, BucketsStep
<1> QED
  BY <1>2, <1>3, <1>4, <1>5, <1>6, <1>7

\* What that row does to the cash of source k, with b the buckets before it.
LEMMA OneMoreRowsCash ==
  ASSUME NEW l, NEW w, Legible(l, w), NEW m, NEW v, Legible(m, v), SameParts(l, w, v),
         IsFiniteSet(Shift),
         NEW s \in Shift, NEW row \in Entry, Extended(l, m, s, row), NEW k,
         NEW b, b = BucketsIn(l, w, s, Len(l[s])),
         NEW c, c = Replayed(m, v, s, b, Len(m[s]))
  PROVE  /\ b \in Seq(Bucket) /\ c \in Seq(Bucket)
         /\ Drawers(k, l, w) \in Int
         /\ Drawers(k, m, v) = Drawers(k, l, w) - CashOf(k, b) + CashOf(k, c)
<1>1. PICK f, g : f = InDrawer(k, l, w) /\ g = InDrawer(k, m, v)
  OBVIOUS
<1>2. \A z \in Shift : f[z] \in Int /\ g[z] \in Int
  BY <1>1, DrawerType
<1>3. \A z \in Shift : z # s => f[z] = g[z]
  BY <1>1, OneMoreRow DEF InDrawer
<1>4. f[s] = CashOf(k, b) /\ g[s] = CashOf(k, c)
  BY <1>1, OneMoreRow DEF InDrawer
<1>5. b \in Seq(Bucket) /\ c \in Seq(Bucket)
  <2>1. c = BucketsIn(m, v, s, Len(m[s]))
    BY OneMoreRow
  <2>2. BucketsIn(m, v, s, Len(m[s])) \in Seq(Bucket)
    BY DrawerType
  <2>3. BucketsIn(l, w, s, Len(l[s])) \in Seq(Bucket)
    BY DrawerType
  <2> QED
    BY <2>1, <2>2, <2>3
<1>6. SumFunctionOnSet(g, Shift) = SumFunctionOnSet(f, Shift) - f[s] + g[s]
  BY <1>2, <1>3, SumChange
<1>7. SumFunctionOnSet(f, Shift) \in Int
  BY <1>2, SumType
<1> QED
  BY <1>1, <1>4, <1>5, <1>6, <1>7 DEF Drawers

\* The three kinds of rows.
Gained(k, s, i, row) ==
  IF row.type \in Credits \ {"CASH_IN"} /\ k = <<s, i>> THEN row.amount ELSE 0

LEMMA RowCash ==
  ASSUME NEW m, NEW v, Legible(m, v), NEW s \in Shift, NEW row \in Entry,
         NEW i \in DOMAIN m[s], m[s][i] = row,
         NEW k, NEW b \in Seq(Bucket), NEW c, c = Replayed(m, v, s, b, i)
  PROVE  /\ CashOf(k, b) \in Int /\ CashOf(k, c) \in Int
         /\ row.type = "CASH_IN" =>
              CashOf(k, c) = CashOf(k, b) + CashOf(k, v[row.transfer].parts)
         /\ row.type = "CASH_OUT" =>
              CashOf(k, b) = CashOf(k, c) + CashOf(k, Drawn(b, row.amount))
         /\ row.type \notin {"CASH_IN", "CASH_OUT"} =>
              CashOf(k, c) <= CashOf(k, b) + Gained(k, s, i, row)
<1>1. row.amount \in Nat /\ row.type \in Kinds
  BY DEF Entry
<1>2. i \in Nat \ {0} /\ Readable(m, v, s)
  <2>1. m[s] \in Seq(Entry) /\ Readable(m, v, s)
    BY DEF Legible
  <2> QED
    BY <2>1
<1>3. c \in Seq(Bucket)
  BY <1>2, ReplayedType
<1>4. CashOf(k, b) \in Int /\ CashOf(k, c) \in Int
  BY <1>3, CashOfType
<1>5. ASSUME row.type = "CASH_IN"
      PROVE  CashOf(k, c) = CashOf(k, b) + CashOf(k, v[row.transfer].parts)
  <2>1. PICK parts : parts = v[row.transfer].parts /\ parts \in Seq(Part)
    BY <1>2, <1>5 DEF Readable
  <2>2. c = b \o parts
    BY <1>5, <2>1 DEF Replayed, Credits, Debits
  <2> QED
    BY <2>1, <2>2, PartsAreBuckets, CashOfBoth
<1>6. ASSUME row.type \in Debits PROVE c = Consumed(b, row.amount)
  BY <1>6 DEF Replayed, Credits, Debits
<1>7. ASSUME row.type = "CASH_OUT"
      PROVE  CashOf(k, b) = CashOf(k, c) + CashOf(k, Drawn(b, row.amount))
  <2>1. c = Consumed(b, row.amount)
    BY <1>6, <1>7 DEF Debits
  <2> QED
    BY <1>1, <2>1, CashOfDrawn
<1>8. ASSUME row.type \notin {"CASH_IN", "CASH_OUT"}
      PROVE  CashOf(k, c) <= CashOf(k, b) + Gained(k, s, i, row)
  <2>0. Gained(k, s, i, row) \in Nat
    BY <1>1 DEF Gained
  <2>1. CASE row.type \in Credits \ {"CASH_IN"}
    <3>1. PICK p : p = [source |-> <<s, i>>, amount |-> row.amount]
      OBVIOUS
    <3>2. p \in Bucket
      BY <1>1, <1>2, <3>1 DEF Bucket
    <3>3. c = Append(b, p)
      BY <2>1, <3>1 DEF Replayed, Credits, Debits
    <3>4. CashOf(k, c) = CashOf(k, b) + Share(k, p)
      BY <3>2, <3>3, CashOfAppend
    <3>5. Share(k, p) = Gained(k, s, i, row)
      BY <2>1, <3>1 DEF Share, Gained
    <3> QED
      BY <1>4, <2>0, <3>4, <3>5
  <2>2. CASE row.type \in Debits
    <3>1. CashOf(k, c) <= CashOf(k, b)
      BY <1>1, <1>6, <2>2, CashOfDrawn
    <3> QED
      BY <1>4, <2>0, <3>1
  <2>3. CASE row.type \notin Credits \cup Debits
    <3>1. c = b
      BY <2>3 DEF Replayed, Credits, Debits
    <3> QED
      BY <1>4, <2>0, <3>1
  <2> QED
    BY <1>8, <2>1, <2>2, <2>3
<1> QED
  BY <1>4, <1>5, <1>7, <1>8

LEMMA BroughtGrows ==
  ASSUME NEW l \in [Shift -> Seq(Entry)], NEW s \in Shift, NEW row \in Entry,
         NEW m, Extended(l, m, s, row), NEW k \in Key, NEW i, i = Len(m[s])
  PROVE  /\ Brought(k, l) \in Nat /\ Brought(k, m) \in Nat
         /\ Brought(k, m) = Brought(k, l) + Gained(k, s, i, row)
<1>1. PICK z \in Shift, j \in Nat \ {0} : k = <<z, j>> /\ k[1] = z /\ k[2] = j
  BY DEF Key
<1>2. /\ m \in [Shift -> Seq(Entry)]
      /\ \A y \in Shift : y # s => m[y] = l[y]
      /\ Len(l[s]) \in Nat /\ DOMAIN l[s] = 1..Len(l[s])
      /\ DOMAIN m[s] = 1..(Len(l[s]) + 1)
      /\ \A x \in 1..Len(l[s]) : m[s][x] = l[s][x]
      /\ m[s][Len(l[s]) + 1] = row
  BY Appended
<1>3. PICK n \in Nat : n = Len(l[s]) /\ i = n + 1
  <2>1. m[s] = Append(l[s], row) /\ l[s] \in Seq(Entry)
    BY DEF Extended
  <2> QED
    BY <2>1
<1>4. ASSUME NEW h \in [Shift -> Seq(Entry)] PROVE Brought(k, h) \in Nat
  <2>1. h[z] \in Seq(Entry)
    OBVIOUS
  <2>2. ASSUME j \in DOMAIN h[z] PROVE h[z][j].amount \in Nat
    <3>1. h[z][j] \in Entry
      BY <2>1, <2>2
    <3> QED
      BY <3>1 DEF Entry
  <2> QED
    BY <1>1, <2>2 DEF Brought
<1>5. Brought(k, l) \in Nat /\ Brought(k, m) \in Nat
  BY <1>2, <1>4
<1>6. CASE z # s
  <2>1. m[z] = l[z] /\ Gained(k, s, i, row) = 0
    BY <1>1, <1>2, <1>6 DEF Gained
  <2>2. Brought(k, m) = Brought(k, l)
    BY <1>1, <2>1 DEF Brought
  <2> QED
    BY <1>5, <2>1, <2>2
<1>7. CASE z = s /\ j # i
  <2>1. Gained(k, s, i, row) = 0
    BY <1>1, <1>7 DEF Gained
  <2>2. j \in DOMAIN m[s] <=> j \in DOMAIN l[s]
    BY <1>2, <1>3, <1>7
  <2>3. j \in DOMAIN l[s] => m[s][j] = l[s][j]
    BY <1>2
  <2>4. Brought(k, m) = Brought(k, l)
    BY <1>1, <1>7, <2>2, <2>3 DEF Brought
  <2> QED
    BY <1>5, <2>1, <2>4
<1>8. CASE z = s /\ j = i
  <2>1. j \notin DOMAIN l[s] /\ j \in DOMAIN m[s] /\ m[s][j] = row
    BY <1>2, <1>3, <1>8
  <2>2. Brought(k, l) = 0
    BY <1>1, <1>8, <2>1 DEF Brought
  <2>3. Brought(k, m) = Gained(k, s, i, row)
    BY <1>1, <1>8, <2>1 DEF Brought, Gained
  <2> QED
    BY <1>5, <2>2, <2>3
<1> QED
  BY <1>5, <1>6, <1>7, <1>8

-----------------------------------------------------------------------------
(* Handovers on their way.                                                    *)
LEMMA AwaySame ==
  ASSUME IsFiniteSet(Transfer), NEW l, NEW w, Legible(l, w), NEW v, NEW k,
         \A t \in Transfer : /\ v[t].parts = w[t].parts
                             /\ OnWay(v[t].status) <=> OnWay(w[t].status)
  PROVE  Away(k, v) = Away(k, w) /\ Away(k, w) \in Int
<1>1. AwayIn(v) = AwayIn(w)
  BY DEF AwayIn
<1>2. PICK S, f, g : S = AwayIn(w) /\ f = InParts(k, w) /\ g = InParts(k, v)
  OBVIOUS
<1>3. IsFiniteSet(S)
  BY <1>2, AwayType, FS_Subset
<1>4. \A t \in S : f[t] \in Int /\ f[t] = g[t]
  BY <1>2, AwayType DEF InParts
<1> QED
  BY <1>1, <1>2, <1>3, <1>4, SumSame, SumType DEF Away

\* Handover t is on its way with v, and is not with w; all others are the same.
LEMMA AwayMore ==
  ASSUME IsFiniteSet(Transfer), NEW l, NEW w, NEW m, NEW v, Legible(l, w), Legible(m, v),
         NEW k, NEW t \in Transfer, OnWay(v[t].status), ~ OnWay(w[t].status),
         \A u \in Transfer : u # t => v[u] = w[u]
  PROVE  /\ Away(k, w) \in Int /\ Away(k, v) \in Int
         /\ Away(k, v) = Away(k, w) + CashOf(k, v[t].parts)
<1>1. PICK R, S, f, g : /\ R = AwayIn(v) /\ S = AwayIn(w)
                        /\ f = InParts(k, w) /\ g = InParts(k, v)
  OBVIOUS
<1>2. t \in R /\ R \ {t} = S
  BY <1>1 DEF AwayIn
<1>3. IsFiniteSet(R) /\ IsFiniteSet(S)
  BY <1>1, AwayType, FS_Subset
<1>4. /\ \A u \in R : g[u] \in Int
      /\ \A u \in S : f[u] \in Int
      /\ g[t] = CashOf(k, v[t].parts)
  BY <1>1, AwayType
<1>5. \A u \in S : f[u] = g[u]
  BY <1>1, <1>2 DEF InParts, AwayIn
<1>6. SumFunctionOnSet(f, S) = SumFunctionOnSet(g, S)
  BY <1>3, <1>4, <1>5, SumSame
<1>7. SumFunctionOnSet(g, R) = g[t] + SumFunctionOnSet(g, R \ {t})
  BY <1>2, <1>3, <1>4, SumRemove
<1>8. SumFunctionOnSet(f, S) \in Int /\ g[t] \in Int
  BY <1>2, <1>3, <1>4, SumType
<1>9. Away(k, w) = SumFunctionOnSet(f, S) /\ Away(k, v) = SumFunctionOnSet(g, R)
  BY <1>1 DEF Away
<1>10. SumFunctionOnSet(g, R) = g[t] + SumFunctionOnSet(f, S)
  BY <1>2, <1>6, <1>7
<1> QED
  BY <1>4, <1>8, <1>9, <1>10

\* Handover t is on its way with neither.
LEMMA AwayAsMuch ==
  ASSUME IsFiniteSet(Transfer), NEW l, NEW w, Legible(l, w), NEW v,
         NEW k, NEW t \in Transfer, ~ OnWay(v[t].status), ~ OnWay(w[t].status),
         \A u \in Transfer : u # t => v[u] = w[u]
  PROVE  Away(k, v) = Away(k, w) /\ Away(k, w) \in Int
<1>1. AwayIn(v) = AwayIn(w) /\ t \notin AwayIn(w)
  BY DEF AwayIn
<1>2. PICK S, f, g : S = AwayIn(w) /\ f = InParts(k, w) /\ g = InParts(k, v)
  OBVIOUS
<1>3. IsFiniteSet(S)
  BY <1>2, AwayType, FS_Subset
<1>4. \A u \in S : f[u] \in Int /\ f[u] = g[u]
  BY <1>1, <1>2, AwayType DEF InParts
<1> QED
  BY <1>1, <1>2, <1>3, <1>4, SumSame, SumType DEF Away

-----------------------------------------------------------------------------
(* No step makes the cash of a source more than the source brought in.        *)

\* Nothing has been entered since the snapshot of a forced handover.
HandoverCurrent == \A c \in Clerk : serial[c].op = "handover" =>
  serial[c].rows = Len(ledger[serial[c].shift])

LEMMA LegibleIf ==
  ASSUME NEW l \in [Shift -> Seq(Entry)], NEW w, NamedIn(l),
         \A t \in Transfer : w[t].parts \in Seq(Part)
  PROVE  Legible(l, w)
<1>1. ASSUME NEW z \in Shift PROVE Readable(l, w, z)
  BY DEF Readable, NamedIn
<1> QED
  BY <1>1 DEF Legible

LEMMA NowLegible == ASSUME PInv PROVE Legible(ledger, transfer)
BY LegibleIf DEF PInv, IInv, Typed, PartsTyped, CashInNamed

LEMMA NextLegible == ASSUME PInv' PROVE Legible(ledger', transfer')
BY LegibleIf DEF PInv, IInv, Typed, PartsTyped, CashInNamed

\* The parts of a handover do not change once it exists, and no row brings in
\* a handover that does not.
LEMMA PartsStay ==
  ASSUME PInv, \A t \in Transfer :
           transfer'[t].parts = transfer[t].parts \/ transfer[t].status = "NONE"
  PROVE  SameParts(ledger, transfer, transfer')
<1> SUFFICES ASSUME NEW z \in Shift, NEW i \in DOMAIN ledger[z],
                    ledger[z][i].type = "CASH_IN"
             PROVE  transfer'[ledger[z][i].transfer].parts = transfer[ledger[z][i].transfer].parts
  BY DEF SameParts
<1>1. PICK t \in Transfer : t = ledger[z][i].transfer
  BY DEF PInv, CashInNamed, NamedIn
<1>2. transfer[t].status # "NONE"
  <2>1. <<z, i>> \in RowsOf(t, "CASH_IN")
    BY <1>1 DEF RowsOf
  <2>2. SettledAt(t)
    BY SettledParts DEF PInv, IInv
  <2> QED
    BY <2>1, <2>2 DEF SettledAt
<1> QED
  BY <1>1, <1>2

\* One row is posted, with what it brings or takes.
Moves(k, l, w, m, v, s, row, b, c, i) ==
  /\ b \in Seq(Bucket) /\ b = BucketsIn(l, w, s, Len(l[s]))
  /\ CashOf(k, b) \in Int /\ CashOf(k, c) \in Int
  /\ Drawers(k, l, w) \in Int
  /\ Drawers(k, m, v) = Drawers(k, l, w) - CashOf(k, b) + CashOf(k, c)
  /\ Gained(k, s, i, row) \in Nat
  /\ Brought(k, l) \in Nat
  /\ Brought(k, m) = Brought(k, l) + Gained(k, s, i, row)
  /\ row.type = "CASH_IN" =>
       CashOf(k, c) = CashOf(k, b) + CashOf(k, v[row.transfer].parts)
  /\ row.type = "CASH_OUT" =>
       CashOf(k, b) = CashOf(k, c) + CashOf(k, Drawn(b, row.amount))
  /\ row.type \notin {"CASH_IN", "CASH_OUT"} =>
       CashOf(k, c) <= CashOf(k, b) + Gained(k, s, i, row)

LEMMA PostMoves ==
  ASSUME IsFiniteSet(Shift),
         NEW l, NEW w, Legible(l, w), NEW m, NEW v, Legible(m, v), SameParts(l, w, v),
         NEW s \in Shift, NEW row \in Entry, Extended(l, m, s, row), NEW k \in Key
  PROVE  \E b, c, i : Moves(k, l, w, m, v, s, row, b, c, i)
<1>1. PICK i : i = Len(m[s])
  OBVIOUS
<1>2. PICK b : b = BucketsIn(l, w, s, Len(l[s]))
  OBVIOUS
<1>3. PICK c : c = Replayed(m, v, s, b, i)
  OBVIOUS
<1>4. /\ b \in Seq(Bucket) /\ Drawers(k, l, w) \in Int
      /\ Drawers(k, m, v) = Drawers(k, l, w) - CashOf(k, b) + CashOf(k, c)
  BY <1>1, <1>2, <1>3, OneMoreRowsCash
<1>5. l \in [Shift -> Seq(Entry)] /\ m \in [Shift -> Seq(Entry)]
  BY DEF Legible
<1>6. i \in DOMAIN m[s] /\ m[s][i] = row
  <2>1. m[s][i] = row /\ i = Len(l[s]) + 1
    BY <1>1, OneMoreRow
  <2>2. DOMAIN m[s] = 1..(Len(l[s]) + 1) /\ Len(l[s]) \in Nat
    BY <1>5, Appended
  <2> QED
    BY <2>1, <2>2
<1>7. /\ CashOf(k, b) \in Int /\ CashOf(k, c) \in Int
      /\ row.type = "CASH_IN" =>
           CashOf(k, c) = CashOf(k, b) + CashOf(k, v[row.transfer].parts)
      /\ row.type = "CASH_OUT" =>
           CashOf(k, b) = CashOf(k, c) + CashOf(k, Drawn(b, row.amount))
      /\ row.type \notin {"CASH_IN", "CASH_OUT"} =>
           CashOf(k, c) <= CashOf(k, b) + Gained(k, s, i, row)
  BY <1>3, <1>4, <1>6, RowCash
<1>8. /\ Brought(k, l) \in Nat
      /\ Brought(k, m) = Brought(k, l) + Gained(k, s, i, row)
  BY <1>1, <1>5, BroughtGrows
<1>9. Gained(k, s, i, row) \in Nat
  BY DEF Gained, Entry
<1>10. Moves(k, l, w, m, v, s, row, b, c, i)
  BY <1>2, <1>4, <1>7, <1>8, <1>9 DEF Moves
<1> QED
  BY <1>10

LEMMA BooksConserve ==
  ASSUME IsFiniteSet(Shift), IsFiniteSet(Transfer), PInv, PInv',
         ConservedIn(ledger, transfer), NEW s \in Shift, NEW row \in Entry, Books(s, row)
  PROVE  ConservedIn(ledger', transfer')
<1> SUFFICES ASSUME NEW k \in Key
             PROVE  Drawers(k, ledger', transfer') + Away(k, transfer') <= Brought(k, ledger')
  BY DEF ConservedIn
<1>1. Legible(ledger, transfer) /\ Legible(ledger', transfer')
  BY NowLegible, NextLegible
<1>2. Extended(ledger, ledger', s, row) /\ row.type \notin {"CASH_IN", "CASH_OUT"}
  BY DEF Books, Post, Extended
<1>3. \A t \in Transfer : /\ transfer'[t].parts = transfer[t].parts
                          /\ OnWay(transfer'[t].status) <=> OnWay(transfer[t].status)
  BY DEF Books, KeptCash
<1>4. SameParts(ledger, transfer, transfer')
  BY <1>3, PartsStay
<1>5. PICK b, c, i : Moves(k, ledger, transfer, ledger', transfer', s, row, b, c, i)
  BY <1>1, <1>2, <1>4, PostMoves
<1>6. Away(k, transfer') = Away(k, transfer) /\ Away(k, transfer) \in Int
  BY <1>1, <1>3, AwaySame
<1>7. Drawers(k, ledger, transfer) + Away(k, transfer) <= Brought(k, ledger)
  BY DEF ConservedIn
<1> QED
  BY <1>2, <1>5, <1>6, <1>7 DEF Moves

LEMMA LeavesConserve ==
  ASSUME IsFiniteSet(Shift), IsFiniteSet(Transfer), PInv, PInv',
         ConservedIn(ledger, transfer),
         NEW t \in Transfer, NEW s \in Shift, NEW row \in Entry, Leaves(t, s, row)
  PROVE  ConservedIn(ledger', transfer')
<1> SUFFICES ASSUME NEW k \in Key
             PROVE  Drawers(k, ledger', transfer') + Away(k, transfer') <= Brought(k, ledger')
  BY DEF ConservedIn
<1>1. Legible(ledger, transfer) /\ Legible(ledger', transfer')
  BY NowLegible, NextLegible
<1>2. Extended(ledger, ledger', s, row) /\ row.type = "CASH_OUT"
  BY DEF Leaves, Post, Extended
<1>3. /\ OnWay(transfer'[t].status) /\ ~ OnWay(transfer[t].status)
      /\ \A u \in Transfer : u # t => transfer'[u] = transfer[u]
      /\ transfer[t].status = "NONE"
  BY DEF Leaves, OthersKept, OnWay
<1>4. SameParts(ledger, transfer, transfer')
  BY <1>3, PartsStay
<1>5. PICK b, c, i : Moves(k, ledger, transfer, ledger', transfer', s, row, b, c, i)
  BY <1>1, <1>2, <1>4, PostMoves
<1>6. /\ Away(k, transfer) \in Int
      /\ Away(k, transfer') = Away(k, transfer) + CashOf(k, transfer'[t].parts)
  BY <1>1, <1>3, AwayMore
<1>7. CashOf(k, transfer'[t].parts) = CashOf(k, Drawn(b, row.amount))
  <2>0. ledger \in [Shift -> Seq(Entry)]
    BY DEF PInv, IInv, Typed
  <2>1. PICK n : n = Len(ledger[s]) /\ n \in 0..Len(ledger[s])
    BY <2>0
  <2>2. row.amount \in Nat
    BY DEF Entry
  <2>3. b = BucketsIn(ledger, transfer, s, n)
    BY <1>5, <2>1 DEF Moves
  <2>4. transfer'[t].parts = Composition(s, n, row.amount)
    BY <2>1 DEF Leaves
  <2> QED
    BY <2>1, <2>2, <2>3, <2>4, AllReadable, Composed
<1>8. CashOf(k, transfer'[t].parts) \in Int
  BY <1>1, PartsAreBuckets, CashOfType DEF Legible
<1>9. Drawers(k, ledger, transfer) + Away(k, transfer) <= Brought(k, ledger)
  BY DEF ConservedIn
<1>10. /\ Drawers(k, ledger, transfer) \in Int /\ Brought(k, ledger) \in Nat
       /\ Drawers(k, ledger', transfer')
            = Drawers(k, ledger, transfer) - CashOf(k, transfer'[t].parts)
       /\ Brought(k, ledger') \in Nat /\ Brought(k, ledger') >= Brought(k, ledger)
  BY <1>2, <1>5, <1>7, <1>8 DEF Moves
<1> QED
  BY <1>6, <1>8, <1>9, <1>10

LEMMA ArrivesConserve ==
  ASSUME IsFiniteSet(Shift), IsFiniteSet(Transfer), PInv, PInv',
         ConservedIn(ledger, transfer),
         NEW t \in Transfer, NEW r \in Shift, NEW row \in Entry, Arrives(t, r, row)
  PROVE  ConservedIn(ledger', transfer')
<1> SUFFICES ASSUME NEW k \in Key
             PROVE  Drawers(k, ledger', transfer') + Away(k, transfer') <= Brought(k, ledger')
  BY DEF ConservedIn
<1>1. Legible(ledger, transfer) /\ Legible(ledger', transfer')
  BY NowLegible, NextLegible
<1>2. Extended(ledger, ledger', r, row) /\ row.type = "CASH_IN" /\ row.transfer = t
  BY DEF Arrives, Post, Extended
<1>3. /\ ~ OnWay(transfer'[t].status) /\ OnWay(transfer[t].status)
      /\ \A u \in Transfer : u # t => transfer[u] = transfer'[u]
      /\ transfer'[t].parts = transfer[t].parts
  BY DEF Arrives, OthersKept, OnWay
<1>4. SameParts(ledger, transfer, transfer')
  BY <1>3, PartsStay
<1>5. PICK b, c, i : Moves(k, ledger, transfer, ledger', transfer', r, row, b, c, i)
  BY <1>1, <1>2, <1>4, PostMoves
<1>6. /\ Away(k, transfer') \in Int
      /\ Away(k, transfer) = Away(k, transfer') + CashOf(k, transfer[t].parts)
  BY <1>1, <1>3, AwayMore
<1>7. CashOf(k, transfer[t].parts) \in Int
  BY <1>1, PartsAreBuckets, CashOfType DEF Legible
<1>8. Drawers(k, ledger, transfer) + Away(k, transfer) <= Brought(k, ledger)
  BY DEF ConservedIn
<1> QED
  BY <1>2, <1>3, <1>5, <1>6, <1>7, <1>8 DEF Moves

LEMMA HandoversConserve ==
  ASSUME IsFiniteSet(Shift), IsFiniteSet(Transfer), PInv, PInv', HandoverCurrent,
         ConservedIn(ledger, transfer),
         NEW c \in Clerk, NEW t \in Transfer, Handovers(c, t)
  PROVE  ConservedIn(ledger', transfer')
<1> SUFFICES ASSUME NEW k \in Key
             PROVE  Drawers(k, ledger', transfer') + Away(k, transfer') <= Brought(k, ledger')
  BY DEF ConservedIn
<1>0. ledger \in [Shift -> Seq(Entry)]
  BY DEF PInv, IInv, Typed
<1>1. PICK s \in Shift, r \in Shift, n \in Nat, out \in Entry, in \in Entry :
        /\ serial[c].op = "handover" /\ s = serial[c].shift /\ n = serial[c].rows
        /\ Carries(t, s, r, n, out, in)
  BY DEF Handovers
<1>2. n = Len(ledger[s])
  BY <1>1 DEF HandoverCurrent
<1>3. PICK mid \in [Shift -> Seq(Entry)] :
        Extended(ledger, mid, s, out) /\ Extended(mid, ledger', r, in)
  BY <1>0, <1>1, TwoRows DEF Carries
<1>4. out.type = "CASH_OUT" /\ in.type = "CASH_IN" /\ in.transfer = t
  BY <1>1 DEF Carries
<1>5. NamedIn(mid)
  BY <1>0, <1>3, <1>4, NamedExtended DEF PInv, CashInNamed
<1>6. Legible(ledger, transfer) /\ Legible(ledger', transfer')
  BY NowLegible, NextLegible
<1>7. Legible(mid, transfer')
  BY <1>5, <1>6, LegibleIf DEF Legible
<1>8. /\ ~ OnWay(transfer'[t].status) /\ ~ OnWay(transfer[t].status)
      /\ \A u \in Transfer : u # t => transfer'[u] = transfer[u]
      /\ transfer[t].status = "NONE"
  BY <1>1 DEF Carries, OthersKept, OnWay
<1>9. SameParts(ledger, transfer, transfer') /\ SameParts(mid, transfer', transfer')
  <2>1. SameParts(mid, transfer', transfer')
    BY DEF SameParts
  <2> QED
    BY <1>8, <2>1, PartsStay
<1>10. PICK b, d, i : Moves(k, ledger, transfer, mid, transfer', s, out, b, d, i)
  BY <1>3, <1>6, <1>7, <1>9, PostMoves
<1>11. PICK g, h, j : Moves(k, mid, transfer', ledger', transfer', r, in, g, h, j)
  BY <1>3, <1>6, <1>7, <1>9, PostMoves
<1>12. Away(k, transfer') = Away(k, transfer) /\ Away(k, transfer) \in Int
  BY <1>6, <1>8, AwayAsMuch
<1>13. CashOf(k, transfer'[t].parts) = CashOf(k, Drawn(b, out.amount))
  <2>1. n \in 0..Len(ledger[s])
    BY <1>2
  <2>2. out.amount \in Nat
    BY DEF Entry
  <2>3. b = BucketsIn(ledger, transfer, s, n)
    BY <1>2, <1>10 DEF Moves
  <2>4. transfer'[t].parts = Composition(s, n, out.amount)
    BY <1>1 DEF Carries
  <2> QED
    BY <2>1, <2>2, <2>3, <2>4, AllReadable, Composed
<1>14. CashOf(k, transfer'[t].parts) \in Int
  BY <1>6, PartsAreBuckets, CashOfType DEF Legible
<1>15. Drawers(k, ledger, transfer) + Away(k, transfer) <= Brought(k, ledger)
  BY DEF ConservedIn
<1>16. /\ Drawers(k, ledger, transfer) \in Int /\ Brought(k, ledger) \in Nat
       /\ Drawers(k, mid, transfer')
            = Drawers(k, ledger, transfer) - CashOf(k, transfer'[t].parts)
       /\ Brought(k, mid) \in Nat /\ Brought(k, mid) >= Brought(k, ledger)
  <2>1. /\ Drawers(k, ledger, transfer) \in Int
        /\ CashOf(k, b) \in Int /\ CashOf(k, d) \in Int
        /\ Drawers(k, mid, transfer')
             = Drawers(k, ledger, transfer) - CashOf(k, b) + CashOf(k, d)
        /\ CashOf(k, b) = CashOf(k, d) + CashOf(k, Drawn(b, out.amount))
    BY <1>4, <1>10 DEF Moves
  <2>2. Drawers(k, mid, transfer')
          = Drawers(k, ledger, transfer) - CashOf(k, transfer'[t].parts)
    BY <1>13, <1>14, <2>1
  <2>3. /\ Brought(k, ledger) \in Nat
        /\ Brought(k, mid) \in Nat /\ Brought(k, mid) >= Brought(k, ledger)
    BY <1>10 DEF Moves
  <2> QED
    BY <2>1, <2>2, <2>3
<1>17. /\ Drawers(k, ledger', transfer')
            = Drawers(k, mid, transfer') + CashOf(k, transfer'[t].parts)
       /\ Brought(k, ledger') \in Nat /\ Brought(k, ledger') >= Brought(k, mid)
  BY <1>4, <1>11, <1>14 DEF Moves
<1>18. /\ Drawers(k, ledger', transfer') = Drawers(k, ledger, transfer)
       /\ Brought(k, ledger') >= Brought(k, ledger)
  BY <1>14, <1>16, <1>17
<1> QED
  BY <1>12, <1>15, <1>16, <1>17, <1>18

-----------------------------------------------------------------------------
(* A forced handover that overlaps with nothing decides from what is there.   *)

\* An operation outside Overlapping is under way on its own.
Alone == \A c, d \in Clerk :
  serial[c].op \notin Overlapping \cup {"idle"}
    /\ serial[d].op \notin Overlapping \cup {"idle"} => c = d

LEMMA AloneKeeps ==
  ASSUME Alone, SerialStep
  PROVE  Alone'
<1> SUFFICES ASSUME NEW c \in Clerk, NEW d \in Clerk, c # d,
                    serial'[c].op \notin Overlapping \cup {"idle"},
                    serial'[d].op \notin Overlapping \cup {"idle"}
             PROVE  FALSE
  BY DEF Alone
<1>1. Idle.op = "idle"
  BY DEF Idle
<1>2. /\ serial'[c] = serial[c] \/ Begun(c)
      /\ serial'[d] = serial[d] \/ Begun(d)
  BY <1>1 DEF SerialStep
<1>3. CASE Begun(c)
  BY <1>3 DEF Begun, Quiet
<1>4. CASE Begun(d)
  BY <1>4 DEF Begun, Quiet
<1>5. CASE serial'[c] = serial[c] /\ serial'[d] = serial[d]
  BY <1>5 DEF Alone
<1> QED
  BY <1>2, <1>3, <1>4, <1>5

LEMMA NothingEntered ==
  ASSUME IInv, Alone, "handover" \notin Overlapping, [Next]_vars,
         NEW c \in Clerk, serial[c].op = "handover", serial'[c] = serial[c]
  PROVE  ledger' = ledger
<1>1. ~ Quiet
  BY DEF Quiet
<1>2. ASSUME NEW d \in Clerk, NEW op, Commits(d, op), op # "idle" PROVE d = c
  BY <1>1, <1>2 DEF Commits, Alone
<1>3. CASE Ends
  <2>1. ASSUME NEW d \in Clerk, CloseShift(d) \/ ForceCloseShift(d) \/ Refund(d)
        PROVE  FALSE
    <3>1. Commits(d, "close") \/ Commits(d, "force") \/ Commits(d, "refund")
      BY <2>1 DEF CloseShift, ForceCloseShift, Refund
    <3>2. d = c
      BY <1>2, <3>1
    <3> QED
      BY <3>1, <3>2 DEF Commits
  <2>2. ASSUME NEW d \in Clerk, NEW t \in Transfer, ForceHandover(d, t)
        PROVE  FALSE
    <3>1. Commits(d, "handover") /\ Crosses(serial[d].shift, serial[d].to)
      BY <2>2 DEF ForceHandover
    <3>2. d = c
      BY <1>2, <3>1
    <3>3. serial'[c] = Idle
      BY <3>1, <3>2 DEF Crosses, Dropped
    <3> QED
      BY <3>3 DEF Idle
  <2>3. ASSUME NEW d \in Clerk, Fail(d) PROVE ledger' = ledger
    BY <2>3 DEF Fail
  <2> QED
    BY <1>3, <2>1, <2>2, <2>3 DEF Ends
<1>4. CASE UNCHANGED vars
  BY <1>4 DEF vars
<1> QED
  BY <1>1, <1>3, <1>4 DEF Next

LEMMA CurrentKeeps ==
  ASSUME IInv, Alone, HandoverCurrent, "handover" \notin Overlapping, [Next]_vars, SerialStep
  PROVE  HandoverCurrent'
<1> SUFFICES ASSUME NEW c \in Clerk, serial'[c].op = "handover"
             PROVE  serial'[c].rows = Len(ledger'[serial'[c].shift])
  BY DEF HandoverCurrent
<1>1. CASE serial'[c] = serial[c]
  <2>1. ledger' = ledger
    BY <1>1, NothingEntered
  <2> QED
    BY <1>1, <2>1 DEF HandoverCurrent
<1>2. CASE serial'[c] = Idle
  BY <1>2 DEF Idle
<1>3. CASE Begun(c)
  BY <1>3 DEF Begun
<1> QED
  BY <1>1, <1>2, <1>3 DEF SerialStep

MInv == PInv /\ Alone /\ HandoverCurrent /\ ConservedIn(ledger, transfer)

LEMMA InitMInv ==
  ASSUME IsFiniteSet(Shift), IsFiniteSet(Transfer)
  PROVE  Init => MInv
<1> SUFFICES ASSUME Init PROVE MInv
  OBVIOUS
<1>1. PInv
  BY InitPInv
<1>2. Alone /\ HandoverCurrent
  BY DEF Init, Alone, HandoverCurrent, Idle
<1>3. Legible(ledger, transfer)
  BY <1>1, NowLegible
<1>4. ASSUME NEW k \in Key
      PROVE  Drawers(k, ledger, transfer) + Away(k, transfer) <= Brought(k, ledger)
  <2>1. ASSUME NEW z \in Shift PROVE InDrawer(k, ledger, transfer)[z] = 0
    <3>1. ledger[z] = <<>> /\ Len(<<>>) = 0
      BY DEF Init
    <3>2. Readable(ledger, transfer, z)
      BY <1>3 DEF Legible
    <3>3. BucketsIn(ledger, transfer, z, 0) = <<>>
      BY <3>2, BucketsStep
    <3> QED
      BY <3>1, <3>3, CashOfNone DEF InDrawer
  <2>2. PICK f : f = InDrawer(k, ledger, transfer)
    OBVIOUS
  <2>3. SumFunctionOnSet(f, Shift) <= 0 /\ SumFunctionOnSet(f, Shift) \in Int
    <3>1. \A z \in Shift : f[z] \in Int /\ f[z] <= (IF z \in {} THEN 1 ELSE 0)
      BY <2>1, <2>2
    <3>2. PICK P : P = {}
      OBVIOUS
    <3>3. IsFiniteSet(P) /\ Cardinality(P) = 0
      BY <3>2, FS_EmptySet
    <3>4. SumFunctionOnSet(f, Shift) <= Cardinality(P)
      BY <3>1, <3>2, <3>3, SumCounts
    <3> QED
      BY <3>1, <3>3, <3>4, SumType
  <2>4. AwayIn(transfer) = {}
    BY DEF Init, AwayIn, OnWay, NoTransfer
  <2>5. Away(k, transfer) = 0
    BY <2>4, SumEmpty DEF Away
  <2>6. Brought(k, ledger) = 0
    BY DEF Init, Brought, Key
  <2> QED
    BY <2>2, <2>3, <2>5, <2>6 DEF Drawers
<1> QED
  BY <1>1, <1>2, <1>4 DEF MInv, ConservedIn

LEMMA NextMInv ==
  ASSUME IsFiniteSet(Shift), IsFiniteSet(Transfer), "handover" \notin Overlapping
  PROVE  MInv /\ [Next]_vars => MInv'
<1> SUFFICES ASSUME MInv, [Next]_vars PROVE MInv'
  OBVIOUS
<1>1. PInv /\ IInv /\ Alone /\ HandoverCurrent /\ ConservedIn(ledger, transfer)
  BY DEF MInv, PInv
<1>2. PInv' /\ CashStep /\ SerialStep
  BY <1>1, NextPInv, NextCash, NextSerial
<1>3. Alone' /\ HandoverCurrent'
  BY <1>1, <1>2, AloneKeeps, CurrentKeeps
<1>4. CASE Stays
  <2>1. Legible(ledger, transfer)
    BY <1>1, NowLegible
  <2>2. \A t \in Transfer : /\ transfer'[t].parts = transfer[t].parts
                            /\ OnWay(transfer'[t].status) <=> OnWay(transfer[t].status)
    BY <1>4 DEF Stays, KeptCash
  <2>3. ASSUME NEW k \in Key
        PROVE  Drawers(k, ledger', transfer') + Away(k, transfer') <= Brought(k, ledger')
    <3>1. Away(k, transfer') = Away(k, transfer)
      BY <2>1, <2>2, AwaySame
    <3>2. InDrawer(k, ledger, transfer') = InDrawer(k, ledger, transfer)
      <4>1. Legible(ledger', transfer') /\ ledger' = ledger
        BY <1>2, <1>4, NextLegible DEF Stays
      <4>2. ASSUME NEW z \in Shift
            PROVE  BucketsIn(ledger, transfer', z, Len(ledger[z]))
                     = BucketsIn(ledger, transfer, z, Len(ledger[z]))
        <5>1. Readable(ledger, transfer, z) /\ Readable(ledger, transfer', z)
          BY <2>1, <4>1 DEF Legible
        <5>2. PICK n \in Nat : n = Len(ledger[z]) /\ DOMAIN ledger[z] = 1..n
          BY <5>1 DEF Readable
        <5>3. \A i \in 1..n : ledger[z][i].type = "CASH_IN" =>
                transfer'[ledger[z][i].transfer].parts = transfer[ledger[z][i].transfer].parts
          BY <1>1, <2>2, <5>2 DEF PInv, CashInNamed, NamedIn
        <5>4. SameRows(ledger, transfer, ledger, transfer', z, n)
          BY <5>2, <5>3 DEF SameRows
        <5> QED
          BY <5>1, <5>2, <5>4, BucketsSame
      <4> QED
        BY <4>2 DEF InDrawer
    <3>3. Drawers(k, ledger, transfer) + Away(k, transfer) <= Brought(k, ledger)
      BY <1>1 DEF ConservedIn
    <3> QED
      BY <1>4, <3>1, <3>2, <3>3 DEF Stays, Drawers
  <2> QED
    BY <1>2, <1>3, <2>3 DEF MInv, ConservedIn
<1>5. ConservedIn(ledger', transfer') => MInv'
  BY <1>2, <1>3 DEF MInv
<1>6. ASSUME NEW s \in Shift, NEW row \in Entry, Books(s, row) PROVE MInv'
  BY <1>1, <1>2, <1>5, <1>6, BooksConserve
<1>7. ASSUME NEW t \in Transfer, NEW s \in Shift, NEW row \in Entry, Leaves(t, s, row)
      PROVE  MInv'
  BY <1>1, <1>2, <1>5, <1>7, LeavesConserve
<1>8. ASSUME NEW t \in Transfer, NEW r \in Shift, NEW row \in Entry, Arrives(t, r, row)
      PROVE  MInv'
  BY <1>1, <1>2, <1>5, <1>8, ArrivesConserve
<1>9. ASSUME NEW c \in Clerk, NEW t \in Transfer, Handovers(c, t) PROVE MInv'
  BY <1>1, <1>2, <1>5, <1>9, HandoversConserve
<1> QED
  BY <1>2, <1>4, <1>6, <1>7, <1>8, <1>9 DEF CashStep

\* The cash of one source, wherever it went, is never more than the source
\* brought in, if no forced handover decides from a snapshot older than its
\* lock: no two handovers are composed of the same money.  With "handover" in
\* Overlapping the model breaks the property, so the hypothesis cannot be spared.
THEOREM SourcesNotDoubledHolds ==
  ASSUME IsFiniteSet(Shift), IsFiniteSet(Transfer), "handover" \notin Overlapping
  PROVE  Spec => []SourcesNotDoubled
<1>1. MInv => SourcesNotDoubled
  <2> SUFFICES ASSUME MInv PROVE SourcesNotDoubled
    OBVIOUS
  <2> DEFINE onTheWay == {t \in Transfer : transfer[t].status \in {"PENDING", "DISPUTED"}}
             drawer == [z \in Shift |-> Buckets(z, Len(ledger[z]))]
  <2>1. onTheWay = AwayIn(transfer)
    BY DEF AwayIn, OnWay
  <2>2. \A z \in Shift : drawer[z] = BucketsIn(ledger, transfer, z, Len(ledger[z]))
    BY BucketsAre
  <2> HIDE DEF onTheWay, drawer
  <2>3. ASSUME NEW s \in Shift, NEW i \in DOMAIN ledger[s], ledger[s][i].type \in Credits
        PROVE  SumFunction([z \in Shift |-> CashOf(<<s, i>>, drawer[z])])
                 + SumFunctionOnSet([t \in Transfer |-> CashOf(<<s, i>>, transfer[t].parts)],
                                    onTheWay)
                 <= ledger[s][i].amount
    <3>0. ledger[s] \in Seq(Entry)
      BY DEF MInv, PInv, IInv, Typed
    <3>1. ledger[s][i] \in Entry /\ i \in Nat \ {0}
      BY <3>0
    <3>2. PICK k \in Key : k = <<s, i>>
      BY <3>1 DEF Key
    <3>3. Drawers(k, ledger, transfer) + Away(k, transfer) <= Brought(k, ledger)
      BY DEF MInv, ConservedIn
    <3>4. Brought(k, ledger) \in Nat /\ ledger[s][i].amount \in Nat
          /\ Brought(k, ledger) <= ledger[s][i].amount
      BY <3>1, <3>2 DEF Brought, Entry
    <3>5. [z \in Shift |-> CashOf(k, drawer[z])] = InDrawer(k, ledger, transfer)
      BY <2>2 DEF InDrawer
    <3>6. SumFunction(InDrawer(k, ledger, transfer)) = Drawers(k, ledger, transfer)
      BY DEF SumFunction, Drawers, InDrawer
    <3>7. SumFunctionOnSet([t \in Transfer |-> CashOf(k, transfer[t].parts)], onTheWay)
            = Away(k, transfer)
      BY <2>1 DEF Away, InParts
    <3>8. Legible(ledger, transfer)
      BY NowLegible DEF MInv
    <3>9. Drawers(k, ledger, transfer) \in Int
      BY <3>8, DrawerType, SumType DEF Drawers
    <3>10. Away(k, transfer) \in Int
      <4>1. IsFiniteSet(AwayIn(transfer)) /\ AwayIn(transfer) \subseteq Transfer
        BY <3>8, AwayType, FS_Subset
      <4>2. \A t \in AwayIn(transfer) : InParts(k, transfer)[t] \in Int
        BY <3>8, <4>1, AwayType
      <4> QED
        BY <4>1, <4>2, SumType DEF Away
    <3> QED
      BY <3>2, <3>3, <3>4, <3>5, <3>6, <3>7, <3>9, <3>10
  <2> QED
    BY <2>3 DEF SourcesNotDoubled, onTheWay, drawer
<1> QED
  BY <1>1, InitMInv, NextMInv, PTL DEF Spec

=============================================================================
