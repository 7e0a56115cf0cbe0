------------------------ MODULE RealtimeCatchUpProofs ------------------------
(***************************************************************************)
(* The safety properties of RealtimeCatchUp for any branches, events,      *)
(* panels, page sizes and faults.                                          *)
(***************************************************************************)
EXTENDS RealtimeCatchUp, TLAPS

\* The row of the branch, held until the commit, numbers the events of a branch
\* in the order in which they can be seen.
InOrder ==
  /\ \A e \in Event : stage[e] # "new" =>
       rev[e] \in 1..revision[BranchOf[e]] /\ stamp[e] \in 1..clock
  /\ \A e, f \in Event : stage[e] = "open" /\ stage[f] = "open"
       /\ BranchOf[e] = BranchOf[f] => e = f
  /\ \A e, f \in Event : stage[e] = "open" /\ stage[f] = "done"
       /\ BranchOf[e] = BranchOf[f] => rev[f] < rev[e] /\ stamp[f] < stamp[e]

\* A cursor covers nothing that may still become visible.
Behind(c) ==
  /\ \A b \in Branch : c.at[b] <= revision[b]
  /\ c.stamp <= clock
  /\ c.exact \/ OfOneBranch =>
       \A e \in Event : stage[e] = "open" /\ BranchOf[e] \in panel.scope => ~Covers(c, e)

OneKind == OfOneBranch \/ (cursor.exact = checkpoint.exact /\ stored.exact = cursor.exact)

CursorsBehind == OneKind /\ Behind(cursor) /\ Behind(checkpoint) /\ Behind(stored)

\* What a pass has read, and how far it is.
PassInv ==
  /\ seen \subseteq {e \in Visible : ~Covers(cursor, e)}
  /\ asked \subseteq panel.scope
  /\ pc # "read" => asked = {} /\ seen = {} /\ ~got
  /\ pc \in {"snapshot", "read"} /\ ~got => cursor = checkpoint
  /\ pc = "load" <=> load.by = "pass"
  /\ load.by = "nobody" => load.answer = "none"

\* The set reflects what the cursor has left behind.
Reflects(S, c) == \A e \in Visible : Covers(c, e) => e \in S \cup jumped

ShownInv ==
  Ordered =>
    /\ origin = "live" => Reflects(shown, Settled)
    /\ origin = "live" /\ pc \in {"detail", "save"} => Reflects(shown, cursor)
    /\ load.answer = "live" => Reflects(load.has, Settled)
    /\ load.answer = "live" /\ pc \in {"load", "detail", "save"} => Reflects(load.has, cursor)

\* What has become of a signal.
HeardInv ==
  \A e \in heard :
    /\ e \in Visible
    /\ \/ again
       \/ Covers(cursor, e)
       \/ e \in seen
       \/ pc = "snapshot"
       \/ pc = "read" /\ BranchOf[e] \notin asked
       \/ pc = "idle" /\ outcome # "done"

\* What is not shown from the backend is labelled so, or being reloaded, or the
\* reload has failed visibly.
LabelInv ==
  /\ load.answer # "none" => label = load.answer
  /\ origin # "live" => Told

IInv == TypeOK /\ InOrder /\ CursorsBehind /\ PassInv /\ ShownInv /\ LabelInv /\ HeardInv

-----------------------------------------------------------------------------

\* A page ends at a cursor that covers what the old one did, whose positions
\* are the old ones or those of rows.
LEMMA EndsAhead ==
  ASSUME TypeOK, seen \subseteq {e \in Visible : ~Covers(cursor, e)}, NEW next \in Ends
  PROVE  /\ next \in Cursor /\ next.exact = cursor.exact
         /\ next.exact => next.stamp = cursor.stamp
         /\ ~next.exact => next.at = cursor.at
         /\ \A b \in Branch : \/ next.at[b] = cursor.at[b]
                              \/ \E e \in seen : BranchOf[e] = b /\ next.at[b] = rev[e]
         /\ next.stamp = cursor.stamp \/ \E e \in seen : next.stamp = stamp[e]
         /\ \A e \in Event : Covers(cursor, e) => Covers(next, e)
         /\ seen = {} => next = cursor
<1>1. seen \subseteq Event /\ cursor \in Cursor /\ rev \in [Event -> Nat] /\ stamp \in [Event -> Nat]
      /\ BranchOf \in [Event -> Branch]
  BY RealtimeAssumption DEF TypeOK
<1>2. \A e \in seen : ~Covers(cursor, e)
  OBVIOUS
<1>3. CASE cursor.exact
  <2>1. PICK f \in [Branch -> {cursor.at[b] : b \in Branch} \cup {rev[e] : e \in seen}] :
          /\ next = [cursor EXCEPT !.at = f]
          /\ \A b \in Branch : f[b] = cursor.at[b] \/ \E e \in seen : BranchOf[e] = b /\ f[b] = rev[e]
    BY <1>3 DEF Ends
  <2>2. f \in [Branch -> Nat]
    <3>1. {cursor.at[b] : b \in Branch} \cup {rev[e] : e \in seen} \subseteq Nat
      BY <1>1 DEF Cursor
    <3> QED BY <3>1
  <2>3. next.at = f /\ next.exact = cursor.exact /\ next.stamp = cursor.stamp /\ next \in Cursor
    BY <1>1, <2>1, <2>2 DEF Cursor
  <2>4. \A b \in Branch : cursor.at[b] <= f[b]
    <3> SUFFICES ASSUME NEW b \in Branch, NEW e \in seen, BranchOf[e] = b, f[b] = rev[e]
                 PROVE  cursor.at[b] <= f[b]
      BY <1>1, <2>1 DEF Cursor
    <3> QED BY <1>1, <1>2, <1>3 DEF Covers, Cursor
  <2>5. \A e \in Event : Covers(cursor, e) => Covers(next, e)
    BY <1>1, <1>3, <2>2, <2>3, <2>4 DEF Covers, Cursor
  <2>6. seen = {} => next = cursor
    <3> SUFFICES ASSUME seen = {} PROVE next = cursor
      OBVIOUS
    <3>1. \A b \in Branch : f[b] = cursor.at[b]
      BY <2>1
    <3>2. f = cursor.at
      BY <1>1, <2>2, <3>1 DEF Cursor
    <3> QED BY <1>1, <2>1, <3>2 DEF Cursor
  <2>7. \A b \in Branch : \/ next.at[b] = cursor.at[b]
                          \/ \E e \in seen : BranchOf[e] = b /\ next.at[b] = rev[e]
    BY <2>1, <2>3
  <2> QED BY <1>3, <2>3, <2>5, <2>6, <2>7
<1>4. CASE ~cursor.exact
  <2>1. PICK s \in {cursor.stamp} \cup {stamp[e] : e \in seen} : next = [cursor EXCEPT !.stamp = s]
    BY <1>4 DEF Ends
  <2>2. s \in Nat /\ next.at = cursor.at /\ next.exact = cursor.exact /\ next.stamp = s /\ next \in Cursor
    BY <1>1, <2>1 DEF Cursor
  <2>3. cursor.stamp <= s
    BY <1>1, <1>2, <1>4, <2>1 DEF Covers, Cursor
  <2>4. \A e \in Event : Covers(cursor, e) => Covers(next, e)
    BY <1>1, <1>4, <2>2, <2>3 DEF Covers, Cursor
  <2>5. seen = {} => next = cursor
    BY <1>1, <2>1 DEF Cursor
  <2> QED BY <1>4, <2>1, <2>2, <2>4, <2>5
<1> QED BY <1>3, <1>4

LEMMA FaultStep == TypeOK /\ Fault => faults' \in 0..MaxFaults
BY RealtimeAssumption DEF TypeOK, Fault

\* Types, action by action.
LEMMA TypeStep == TypeOK /\ PassInv /\ [Next]_vars => TypeOK'
<1> SUFFICES ASSUME TypeOK, PassInv, [Next]_vars PROVE TypeOK'
  OBVIOUS
<1> USE RealtimeAssumption
<1>0. Visible \subseteq Event /\ Committed \subseteq Event
  BY DEF Visible, Committed
<1>1. ASSUME NEW e \in Event, Record(e) PROVE TypeOK'
  BY <1>1 DEF TypeOK, Record, page, view
<1>2. ASSUME NEW e \in Event, Commit(e) PROVE TypeOK'
  BY <1>2 DEF TypeOK, Commit, page, view
<1>3. ASSUME Starts, faults' = faults, heard' \subseteq Event PROVE TypeOK'
  BY <1>3 DEF TypeOK, Starts, database, view
<1>4. ASSUME NEW e \in Event, Signal(e) PROVE TypeOK'
  <2>1. heard' \subseteq Event /\ faults' = faults
    BY <1>4 DEF Signal, TypeOK
  <2>2. CASE Starts
    BY <1>3, <2>1, <2>2
  <2>3. CASE ~Starts
    BY <1>4, <2>1, <2>3 DEF Signal, TypeOK, database, page, view, Rerun
  <2> QED BY <2>2, <2>3
<1>5. CASE CatchUp
  BY <1>5, <1>3 DEF CatchUp, TypeOK
<1>6. ASSUME Snapshot PROVE TypeOK'
  <2>1. cursor' \in Cursor /\ stored' \in Cursor /\ jumped' \subseteq Event /\ faults' \in 0..MaxFaults
    <3>1. CASE Adopt
      <4>1. faults' \in 0..MaxFaults
        BY <3>1, FaultStep DEF Adopt, TypeOK
      <4>2. PICK b \in Branch, n \in Nat :
              cursor' = [exact |-> TRUE, stamp |-> 0,
                         at |-> [c \in Branch |-> IF c = b THEN n ELSE 0]]
        <5>1. \A b \in Branch : 0..revision[b] \subseteq Nat
          BY DEF TypeOK
        <5> QED BY <3>1, <5>1 DEF Adopt
      <4>4. cursor' \in Cursor
        BY <4>2 DEF Cursor
      <4>5. stored' \in {stored, cursor'} /\ \E k \in Int : jumped' = jumped \cup {e \in Visible : rev[e] <= k}
        BY <3>1 DEF Adopt
      <4>6. stored' \in Cursor
        BY <4>4, <4>5 DEF TypeOK
      <4>7. jumped' \subseteq Event
        BY <4>5, <1>0 DEF TypeOK
      <4> QED BY <4>1, <4>4, <4>6, <4>7
    <3>2. CASE ~Adopt
      BY <1>6, <3>2, FaultStep DEF Snapshot, TypeOK
    <3> QED BY <3>1, <3>2
  <2> QED BY <1>6, <2>1 DEF Snapshot, TypeOK, database, page, view
<1>7. CASE Query
  <2>1. asked' \subseteq Branch /\ seen' \subseteq Event
    BY <1>7, <1>0 DEF Query, TypeOK
  <2> QED BY <1>7, <2>1 DEF Query, TypeOK, database, view
<1>8. CASE FullPage
  <2>1. cursor' \in Cursor
    BY <1>8, EndsAhead DEF FullPage, PassInv
  <2> QED BY <1>8, <2>1 DEF FullPage, TypeOK, database, view
<1>9. CASE LastPage
  <2>1. cursor' \in Cursor
    BY <1>9, EndsAhead DEF LastPage, PassInv
  <2>2. pc' \in {"load", "save"} /\ load' \in Answers
    BY <1>9 DEF LastPage, TypeOK, Asked, Answers
  <2> QED BY <1>9, <2>1, <2>2 DEF LastPage, TypeOK, database
<1>10. CASE Save \/ Detail
  BY <1>10, FaultStep DEF Save, Detail, TypeOK, database, page, view
<1>11. CASE FailPass \/ Decline \/ FailDetail
  <2>1. faults' \in 0..MaxFaults
    BY <1>11, FaultStep DEF FailPass, Decline, FailDetail
  <2> QED
    BY <1>11, <2>1 DEF FailPass, Decline, FailDetail, GiveUp, Rests, TypeOK, database, view
<1>12. CASE Reload
  <2>1. load' \in Answers /\ faults' \in 0..MaxFaults
    BY <1>12, FaultStep DEF Reload, Asked, Answers
  <2>2. cursor' \in Cursor /\ pc' \in {pc, "idle"} /\ outcome' \in {outcome, "deferred"}
    BY <1>12 DEF Reload, GiveUp, Rests, TypeOK
  <2>3. asked' \subseteq Branch /\ seen' \subseteq Event /\ got' \in BOOLEAN
    BY <1>12 DEF Reload, GiveUp, TypeOK, page
  <2>4. UNCHANGED <<database, panel, stored, checkpoint, again, booted, heard, jumped>>
    BY <1>12 DEF Reload, GiveUp
  <2>5. UNCHANGED <<cache, shown, label, error, origin>>
    BY <1>12 DEF Reload
  <2> QED BY <2>1, <2>2, <2>3, <2>4, <2>5 DEF TypeOK, database
<1>13. CASE Answer
  <2>1. load' \in Answers /\ cache' \subseteq Event
    BY <1>13, <1>0 DEF Answer, Answers, TypeOK
  <2> QED BY <1>13, <2>1 DEF Answer, TypeOK, database, page
<1>14. CASE AnswerFromCache
  <2>1. load' \in Answers /\ faults' \in 0..MaxFaults
    BY <1>14, FaultStep DEF AnswerFromCache, Answers, TypeOK
  <2> QED BY <1>14, <2>1 DEF AnswerFromCache, TypeOK, database, page
<1>15. CASE FailLoad
  <2>1. load' \in Answers /\ faults' \in 0..MaxFaults
    BY <1>15, FaultStep DEF FailLoad, NoLoad, Answers
  <2>2. cursor' \in Cursor /\ pc' \in {pc, "idle"} /\ outcome' \in {outcome, "deferred"}
    BY <1>15 DEF FailLoad, GiveUp, Rests, TypeOK
  <2>3. asked' \subseteq Branch /\ seen' \subseteq Event /\ got' \in BOOLEAN
    BY <1>15 DEF FailLoad, GiveUp, TypeOK, page
  <2>4. UNCHANGED <<database, panel, stored, checkpoint, again, booted, heard, jumped>>
    BY <1>15 DEF FailLoad, GiveUp
  <2>5. UNCHANGED <<cache, shown, origin>> /\ error' = TRUE /\ label' \in {label, "live"}
    BY <1>15 DEF FailLoad
  <2> QED BY <2>1, <2>2, <2>3, <2>4, <2>5 DEF TypeOK, database
<1>16. CASE Show
  <2>1. load' \in Answers /\ origin' \in {"live", "cached"} /\ shown' \subseteq Event
    BY <1>16 DEF Show, Answered, NoLoad, Answers, TypeOK
  <2> QED BY <1>16, <2>1 DEF Show, TypeOK, database, page
<1>17. CASE Reopen
  <2>1. load' \in Answers /\ faults' \in 0..MaxFaults
    BY <1>17, FaultStep DEF Reopen, Asked, Answers
  <2> QED BY <1>17, <2>1 DEF Reopen, TypeOK, database
<1>18. CASE UNCHANGED vars
  BY <1>18 DEF TypeOK, vars, database, page, view
<1> QED
  BY <1>1, <1>2, <1>4, <1>5, <1>6, <1>7, <1>8, <1>9, <1>10, <1>11, <1>12, <1>13,
     <1>14, <1>15, <1>16, <1>17, <1>18 DEF Next, Pass

\* What every step but the two of the database leaves alone.
LEMMA Database ==
  ASSUME [Next]_vars
  PROVE  \/ UNCHANGED database
         \/ \E e \in Event : Record(e) \/ Commit(e)
BY DEF Next, Pass, Signal, CatchUp, Starts, Snapshot, Query, FullPage, LastPage,
   Save, FailPass, Decline, GiveUp, Reload, Answer, AnswerFromCache, FailLoad, Show,
   Detail, FailDetail, Reopen, vars

LEMMA OrderStep == TypeOK /\ InOrder /\ [Next]_vars => InOrder'
<1> SUFFICES ASSUME TypeOK, InOrder, [Next]_vars PROVE InOrder'
  OBVIOUS
<1> USE RealtimeAssumption
<1>1. CASE UNCHANGED database
  BY <1>1 DEF database, InOrder
<1>2. ASSUME NEW e \in Event, Record(e) PROVE InOrder'
  BY <1>2 DEF Record, RowIsFree, InOrder, TypeOK
<1>3. ASSUME NEW e \in Event, Commit(e) PROVE InOrder'
  BY <1>3 DEF Commit, InOrder, TypeOK
<1> QED BY <1>1, <1>2, <1>3, Database

\* A cursor stays behind what the database does.
LEMMA BehindRecord ==
  ASSUME TypeOK, InOrder, NEW e \in Event, Record(e), NEW c \in Cursor, Behind(c)
  PROVE  Behind(c)'
<1> USE RealtimeAssumption
<1>1. /\ \A b \in Branch : c.at[b] \in Nat /\ revision[b] \in Nat
      /\ c.stamp \in Nat /\ clock \in Nat /\ BranchOf[e] \in Branch
  BY DEF Cursor, TypeOK
<1>2. \A b \in Branch : c.at[b] <= revision'[b]
  BY <1>1 DEF Record, Behind, TypeOK
<1>3. c.stamp <= clock'
  BY <1>1 DEF Record, Behind
<1>4. ASSUME c.exact \/ OfOneBranch', NEW f \in Event, stage'[f] = "open",
             BranchOf[f] \in panel'.scope
      PROVE  ~Covers(c, f)'
  <2>1. c.exact \/ OfOneBranch
    BY <1>4 DEF Record, OfOneBranch
  <2>2. CASE f = e
    <3>1. rev'[e] > c.at[BranchOf[e]] /\ stamp'[e] > c.stamp
      BY <1>1 DEF Record, Behind, TypeOK
    <3> QED BY <1>1, <2>2, <3>1 DEF Covers, TypeOK, Record
  <2>3. CASE f # e
    <3>1. rev'[f] = rev[f] /\ stamp'[f] = stamp[f] /\ stage[f] = "open"
      BY <1>4, <2>3 DEF Record, TypeOK
    <3> QED BY <1>4, <2>1, <3>1 DEF Record, Behind, Covers
  <2> QED BY <2>2, <2>3
<1> QED BY <1>2, <1>3, <1>4 DEF Behind

LEMMA BehindElse ==
  ASSUME TypeOK, NEW c, Behind(c), panel' = panel,
         UNCHANGED database \/ \E e \in Event : Commit(e)
  PROVE  Behind(c)'
<1>1. /\ revision' = revision /\ clock' = clock /\ rev' = rev /\ stamp' = stamp
      /\ \A f \in Event : stage'[f] = "open" => stage[f] = "open"
  BY DEF database, Commit, TypeOK
<1> QED BY <1>1 DEF Behind, Covers, OfOneBranch

\* A page's cursor is behind what is still to come, as its rows are.
LEMMA EndsBehind ==
  ASSUME TypeOK, InOrder, Behind(cursor), seen \subseteq {e \in Visible : ~Covers(cursor, e)},
         NEW next \in Ends
  PROVE  Behind(next)
<1> USE RealtimeAssumption
<1>1. /\ next \in Cursor /\ next.exact = cursor.exact
      /\ next.exact => next.stamp = cursor.stamp
      /\ ~next.exact => next.at = cursor.at
      /\ \A b \in Branch : \/ next.at[b] = cursor.at[b]
                           \/ \E e \in seen : BranchOf[e] = b /\ next.at[b] = rev[e]
      /\ next.stamp = cursor.stamp \/ \E e \in seen : next.stamp = stamp[e]
  BY EndsAhead
<1>2. \A e \in seen : e \in Event /\ stage[e] = "done" /\ BranchOf[e] \in panel.scope
  BY DEF Visible, Committed
<1>3. \A b \in Branch : next.at[b] <= revision[b]
  BY <1>1, <1>2 DEF Behind, InOrder, TypeOK
<1>4. next.stamp <= clock
  BY <1>1, <1>2 DEF Behind, InOrder, TypeOK
<1>5. ASSUME next.exact \/ OfOneBranch, NEW f \in Event, stage[f] = "open",
             BranchOf[f] \in panel.scope
      PROVE  ~Covers(next, f)
  <2>0. ~Covers(cursor, f)
    BY <1>1, <1>5 DEF Behind
  <2>1. CASE next.exact
    <3>1. CASE next.at[BranchOf[f]] = cursor.at[BranchOf[f]]
      BY <1>1, <2>0, <2>1, <3>1 DEF Covers
    <3>2. CASE \E e \in seen : BranchOf[e] = BranchOf[f] /\ next.at[BranchOf[f]] = rev[e]
      BY <1>2, <1>5, <2>1, <3>2 DEF InOrder, Covers, TypeOK
    <3> QED BY <1>1, <3>1, <3>2
  <2>2. CASE ~next.exact
    <3>1. CASE next.stamp = cursor.stamp
      BY <1>1, <2>0, <2>2, <3>1 DEF Covers
    <3>2. CASE \E e \in seen : next.stamp = stamp[e]
      <4>1. PICK e \in seen : next.stamp = stamp[e]
        BY <3>2
      <4>2. BranchOf[e] = BranchOf[f]
        BY <1>2, <1>5, <2>2 DEF OfOneBranch
      <4> QED BY <1>2, <1>5, <2>2, <4>1, <4>2 DEF InOrder, Covers, TypeOK
    <3> QED BY <1>1, <3>1, <3>2
  <2> QED BY <2>1, <2>2
<1> QED BY <1>3, <1>4, <1>5 DEF Behind

\* So is the cursor of a snapshot.
LEMMA AdoptBehind == TypeOK /\ InOrder /\ Adopt => Behind(cursor') /\ cursor'.exact /\ OfOneBranch
<1> SUFFICES ASSUME TypeOK, InOrder, Adopt
             PROVE  Behind(cursor') /\ cursor'.exact /\ OfOneBranch
  OBVIOUS
<1> USE RealtimeAssumption
<1>1. PICK b \in Branch, n \in Nat :
        /\ n <= revision[b]
        /\ panel.scope = {b}
        /\ WasRevision(b, n)
        /\ cursor' = [exact |-> TRUE, stamp |-> 0,
                      at |-> [c \in Branch |-> IF c = b THEN n ELSE 0]]
  <2>1. \A b \in Branch : \A n \in 0..revision[b] : n \in Nat /\ n <= revision[b]
    BY DEF TypeOK
  <2> QED BY <2>1 DEF Adopt
<1>2. /\ cursor'.exact /\ cursor'.stamp = 0
      /\ \A c \in Branch : cursor'.at[c] = IF c = b THEN n ELSE 0
  BY <1>1
<1>3. clock \in Nat /\ \A c \in Branch : revision[c] \in Nat
  BY DEF TypeOK
<1>4. ASSUME NEW f \in Event, stage[f] = "open", BranchOf[f] \in panel.scope
      PROVE  ~Covers(cursor', f)
  <2>1. BranchOf[f] = b /\ rev[f] \in 1..revision[b]
    BY <1>1, <1>4 DEF InOrder
  <2>2. rev[f] > n
    <3>1. CASE n = 0
      BY <1>3, <2>1, <3>1
    <3>2. CASE \E e \in Committed : BranchOf[e] = b /\ rev[e] = n
      BY <1>3, <1>4, <2>1, <3>2 DEF InOrder, Committed
    <3> QED BY <1>1, <3>1, <3>2 DEF WasRevision
  <2> QED BY <1>2, <1>3, <2>1, <2>2 DEF Covers
<1>5. (\A c \in Branch : cursor'.at[c] <= revision[c]) /\ cursor'.stamp <= clock
  <2>1. ASSUME NEW c \in Branch PROVE cursor'.at[c] <= revision[c]
    <3>1. CASE c = b BY <1>1, <1>2, <3>1
    <3>2. CASE c # b BY <1>2, <1>3, <3>2
    <3> QED BY <3>1, <3>2
  <2> QED BY <1>2, <1>3, <2>1
<1> QED BY <1>1, <1>2, <1>4, <1>5 DEF Behind, OfOneBranch

-----------------------------------------------------------------------------

\* The panel's kind never changes, and only a snapshot's cursor changes a
\* cursor's kind, in a panel of one branch.
LEMMA CursorStep ==
  TypeOK /\ InOrder /\ CursorsBehind /\ PassInv /\ [Next]_vars => CursorsBehind'
<1> SUFFICES ASSUME TypeOK, InOrder, CursorsBehind, PassInv, [Next]_vars
             PROVE  CursorsBehind'
  OBVIOUS
<1> USE RealtimeAssumption
<1>0. cursor \in Cursor /\ checkpoint \in Cursor /\ stored \in Cursor
  BY DEF TypeOK
<1>a. ASSUME NEW c, Behind(c), UNCHANGED <<database, panel>> PROVE Behind(c)'
  BY <1>a, BehindElse
<1>b. ASSUME UNCHANGED <<database, panel>>, OneKind',
             \A c \in {cursor', checkpoint', stored'} : Behind(c)
      PROVE  CursorsBehind'
  <2>1. UNCHANGED <<stage, revision, rev, stamp, clock, panel>>
    BY <1>b DEF database
  <2> QED BY <1>b, <2>1 DEF CursorsBehind, Behind, Covers, OfOneBranch
<1>1. ASSUME NEW e \in Event, Record(e) PROVE CursorsBehind'
  <2>1. UNCHANGED <<panel, cursor, checkpoint, stored>>
    BY <1>1 DEF Record
  <2>2. Behind(cursor)' /\ Behind(checkpoint)' /\ Behind(stored)'
    <3>1. \A c \in {cursor, checkpoint, stored} : Behind(c)'
      BY <1>0, <1>1, BehindRecord DEF CursorsBehind
    <3> QED BY <2>1, <3>1 DEF Behind, Covers, OfOneBranch
  <2> QED BY <2>1, <2>2 DEF CursorsBehind, OneKind, OfOneBranch
<1>2. ASSUME NEW e \in Event, Commit(e) PROVE CursorsBehind'
  <2>1. UNCHANGED <<panel, cursor, checkpoint, stored>>
    BY <1>2 DEF Commit
  <2>2. Behind(cursor)' /\ Behind(checkpoint)' /\ Behind(stored)'
    <3>1. \A c \in {cursor, checkpoint, stored} : Behind(c)'
      BY <1>2, <2>1, BehindElse DEF CursorsBehind
    <3> QED BY <2>1, <3>1 DEF Behind, Covers, OfOneBranch
  <2> QED BY <2>1, <2>2 DEF CursorsBehind, OneKind, OfOneBranch
<1>3. ASSUME UNCHANGED <<database, panel>>,
             \A c \in {cursor', checkpoint', stored'} : c \in {cursor, checkpoint, stored}
      PROVE  CursorsBehind'
  <2>1. OneKind'
    BY <1>3 DEF CursorsBehind, OneKind, OfOneBranch
  <2> QED BY <1>3, <1>b, <2>1 DEF CursorsBehind
<1>4. ASSUME Snapshot PROVE CursorsBehind'
  <2>1. CASE Adopt
    <3>1. Behind(cursor') /\ OfOneBranch /\ panel' = panel /\ UNCHANGED database
      BY <1>4, <2>1, AdoptBehind DEF Snapshot
    <3>2. checkpoint' = cursor' /\ stored' \in {cursor', stored}
      BY <1>4, <2>1 DEF Snapshot, Adopt
    <3>3. OneKind'
      BY <3>1 DEF OneKind, OfOneBranch
    <3> QED BY <1>b, <3>1, <3>2, <3>3 DEF CursorsBehind
  <2>2. CASE ~Adopt
    BY <1>3, <1>4, <2>2 DEF Snapshot
  <2> QED BY <2>1, <2>2
<1>5. ASSUME NEW next \in Ends, cursor' = next, UNCHANGED <<database, panel, checkpoint, stored>>
      PROVE  CursorsBehind'
  <2>1. Behind(next)
    BY EndsBehind DEF CursorsBehind, PassInv
  <2>2. next.exact = cursor.exact
    BY EndsAhead DEF PassInv
  <2>3. OneKind'
    BY <1>5, <2>2 DEF CursorsBehind, OneKind, OfOneBranch
  <2> QED BY <1>5, <1>b, <2>1, <2>3 DEF CursorsBehind
<1>6. CASE FullPage
  BY <1>5, <1>6 DEF FullPage
<1>7. CASE LastPage
  BY <1>5, <1>7 DEF LastPage
<1>8. ASSUME NEW e \in Event, Signal(e) PROVE CursorsBehind'
  BY <1>3, <1>8 DEF Signal, Starts
<1>9. CASE CatchUp \/ Query \/ Save \/ Answer \/ AnswerFromCache \/ Show \/ Detail \/ Reopen
  BY <1>3, <1>9 DEF CatchUp, Starts, Query, Save, Answer, AnswerFromCache, Show, Detail, Reopen
<1>10. CASE FailPass \/ Decline \/ Reload \/ FailLoad \/ FailDetail
  BY <1>3, <1>10 DEF FailPass, Decline, Reload, FailLoad, FailDetail, GiveUp
<1>11. CASE UNCHANGED vars
  BY <1>3, <1>11 DEF vars
<1> QED
  BY <1>1, <1>2, <1>4, <1>6, <1>7, <1>8, <1>9, <1>10, <1>11 DEF Next, Pass

LEMMA PassStep ==
  TypeOK /\ InOrder /\ CursorsBehind /\ PassInv /\ [Next]_vars => PassInv'
<1> SUFFICES ASSUME TypeOK, InOrder, CursorsBehind, PassInv, [Next]_vars
             PROVE  PassInv'
  OBVIOUS
<1> USE RealtimeAssumption
<1>1. ASSUME NEW e \in Event, Record(e) PROVE PassInv'
  <2>1. \A f \in Visible : f \in Visible' /\ rev'[f] = rev[f] /\ stamp'[f] = stamp[f]
    BY <1>1 DEF Record, Visible, Committed, TypeOK
  <2>2. seen' \subseteq {f \in Visible' : ~Covers(cursor, f)'}
    BY <1>1, <2>1 DEF Record, page, PassInv, Covers
  <2> QED BY <1>1, <2>2 DEF Record, page, view, PassInv
<1>2. ASSUME NEW e \in Event, Commit(e) PROVE PassInv'
  <2>1. Visible \subseteq Visible'
    BY <1>2 DEF Commit, Visible, Committed, TypeOK
  <2> QED BY <1>2, <2>1 DEF Commit, page, view, PassInv, Covers
<1>3. ASSUME Starts PROVE PassInv'
  BY <1>3 DEF Starts, view, PassInv
<1>4. ASSUME NEW e \in Event, Signal(e) PROVE PassInv'
  <2>1. CASE Starts
    BY <1>3, <2>1
  <2>2. CASE ~Starts
    BY <1>4, <2>2 DEF Signal, database, page, view, PassInv, Visible, Committed, Covers
  <2> QED BY <2>1, <2>2
<1>5. CASE CatchUp
  BY <1>3, <1>5 DEF CatchUp
<1>6. CASE Snapshot
  BY <1>6 DEF Snapshot, page, view, PassInv
<1>7. CASE Query
  <2>1. seen' \subseteq {f \in Visible : ~Covers(cursor, f)} /\ asked' \subseteq panel.scope
    <3>1. PICK B \in SUBSET (panel.scope \ asked) :
            /\ asked' = asked \cup B
            /\ seen' = seen \cup {e \in Committed : BranchOf[e] \in B /\ ~Covers(cursor, e)}
      BY <1>7 DEF Query
    <3> QED BY <3>1 DEF PassInv, Visible
  <2> QED BY <1>7, <2>1 DEF Query, database, view, PassInv, Visible, Committed, Covers
<1>8. CASE FullPage
  BY <1>8 DEF FullPage, view, PassInv
<1>9. CASE LastPage
  BY <1>9 DEF LastPage, Asked, PassInv
<1>10. CASE Save \/ Detail
  BY <1>10 DEF Save, Detail, database, page, view, PassInv, Visible, Committed, Covers
<1>11. CASE FailPass \/ Decline \/ FailDetail
  BY <1>11 DEF FailPass, Decline, FailDetail, GiveUp, Rests, view, PassInv
<1>12. CASE Reload
  BY <1>12 DEF Reload, Asked, GiveUp, Rests, database, page, PassInv, Visible, Committed, Covers
<1>13. CASE Answer \/ AnswerFromCache
  <2>1. load'.by = load.by /\ load.by # "nobody"
    BY <1>13 DEF Answer, AnswerFromCache, TypeOK, Answers
  <2>2. UNCHANGED <<stage, rev, stamp, panel, pc, cursor, checkpoint, asked, seen, got>>
    BY <1>13 DEF Answer, AnswerFromCache, database, page
  <2> QED BY <2>1, <2>2 DEF PassInv, Visible, Committed, Covers
<1>14. CASE FailLoad
  BY <1>14 DEF FailLoad, NoLoad, GiveUp, Rests, database, page, PassInv, Visible, Committed, Covers
<1>15. CASE Show
  BY <1>15 DEF Show, Answered, NoLoad, database, page, PassInv, Visible, Committed, Covers
<1>16. CASE Reopen
  BY <1>16 DEF Reopen, Asked, PassInv
<1>17. CASE UNCHANGED vars
  BY <1>17 DEF vars, database, page, view, PassInv, Visible, Committed, Covers
<1> QED
  BY <1>1, <1>2, <1>4, <1>5, <1>6, <1>7, <1>8, <1>9, <1>10, <1>11, <1>12, <1>13,
     <1>14, <1>15, <1>16, <1>17 DEF Next, Pass

-----------------------------------------------------------------------------

\* What is covered was visible when it became so: a commit adds nothing to it.
LEMMA ReflectsStep ==
  ASSUME TypeOK, NEW c, Behind(c), c.exact \/ OfOneBranch, NEW S, NEW T,
         panel' = panel, jumped \subseteq jumped', S \subseteq T,
         UNCHANGED database \/ \E e \in Event : Record(e) \/ Commit(e),
         Reflects(S, c)
  PROVE  \A e \in Visible' : Covers(c, e)' => e \in T \cup jumped'
<1> SUFFICES ASSUME NEW e \in Visible', Covers(c, e)'
             PROVE  e \in Visible /\ Covers(c, e)
  BY DEF Reflects
<1>1. CASE UNCHANGED database
  BY <1>1 DEF database, Visible, Committed, Covers
<1>2. ASSUME NEW f \in Event, Record(f) PROVE e \in Visible /\ Covers(c, e)
  BY <1>2 DEF Record, Visible, Committed, Covers, TypeOK
<1>3. ASSUME NEW f \in Event, Commit(f) PROVE e \in Visible /\ Covers(c, e)
  <2>1. CASE f = e
    BY <1>3, <2>1 DEF Commit, Behind, Visible, Committed, Covers, TypeOK
  <2>2. CASE f # e
    BY <1>3, <2>2 DEF Commit, Visible, Committed, Covers, TypeOK
  <2> QED BY <2>1, <2>2
<1> QED BY <1>1, <1>2, <1>3

\* A pass without events has not moved the cursor.
LEMMA EmptyPass ==
  ASSUME TypeOK, PassInv, LastPage, pc' = "save"
  PROVE  cursor' = cursor /\ cursor = checkpoint
<1>1. ~got /\ seen = {} /\ pc = "read"
  BY DEF LastPage
<1> QED BY <1>1, EndsAhead DEF LastPage, PassInv

\* The sets a step compares, when the cursors stay.
LEMMA ShownKept ==
  ASSUME TypeOK, CursorsBehind, ShownInv, [Next]_vars,
         UNCHANGED <<panel, cursor, checkpoint, origin, shown, load>>,
         Settled' = Settled, jumped \subseteq jumped',
         pc' = pc \/ pc' \notin {"load", "detail", "save"}
  PROVE  ShownInv'
<1> SUFFICES ASSUME Ordered' PROVE
      /\ origin = "live" => \A e \in Visible' : Covers(Settled, e)' => e \in shown \cup jumped'
      /\ origin = "live" /\ pc' \in {"detail", "save"} => \A e \in Visible' : Covers(cursor, e)' => e \in shown \cup jumped'
      /\ load.answer = "live" => \A e \in Visible' : Covers(Settled, e)' => e \in load.has \cup jumped'
      /\ load.answer = "live" /\ pc' \in {"load", "detail", "save"} =>
           \A e \in Visible' : Covers(cursor, e)' => e \in load.has \cup jumped'
  BY DEF ShownInv, Reflects, Covers
<1>1. Ordered
  BY DEF Ordered, OfOneBranch
<1>2. \A c \in {cursor, checkpoint} : Behind(c) /\ (c.exact \/ OfOneBranch)
  BY <1>1 DEF CursorsBehind, OneKind, Ordered
<1>3. Settled \in {cursor, checkpoint}
  BY DEF Settled
<1>4. \A c \in {cursor, checkpoint} : \A S \in {shown, load.has} :
        Reflects(S, c) => \A e \in Visible' : Covers(c, e)' => e \in S \cup jumped'
  BY <1>2, ReflectsStep, Database
<1> QED BY <1>1, <1>3, <1>4 DEF ShownInv

\* Cursors and the sets they are compared with, action by action.
LEMMA ShownStep ==
  TypeOK /\ InOrder /\ CursorsBehind /\ PassInv /\ ShownInv /\ [Next]_vars => ShownInv'
<1> SUFFICES ASSUME TypeOK, InOrder, CursorsBehind, PassInv, ShownInv, [Next]_vars
             PROVE  ShownInv'
  OBVIOUS
<1>a. ASSUME UNCHANGED <<database, panel>>, jumped \subseteq jumped',
             Ordered' =>
               /\ origin' = "live" => Reflects(shown', Settled')
               /\ origin' = "live" /\ pc' \in {"detail", "save"} => Reflects(shown', cursor')
               /\ load'.answer = "live" => Reflects(load'.has, Settled')
               /\ load'.answer = "live" /\ pc' \in {"load", "detail", "save"} => Reflects(load'.has, cursor')
      PROVE  ShownInv'
  <2>1. UNCHANGED <<stage, revision, rev, stamp, clock, panel>>
    BY <1>a DEF database
  <2> QED BY <1>a, <2>1 DEF ShownInv, Reflects, Visible, Committed, Covers
<1>b. ASSUME UNCHANGED panel, cursor'.exact => cursor.exact PROVE Ordered' => Ordered
  BY <1>b DEF Ordered, OfOneBranch
<1>k. OneKind
  BY DEF CursorsBehind
<1>1. ASSUME NEW e \in Event, Record(e) PROVE ShownInv'
  <2>1. Settled' = Settled
    BY <1>1 DEF Record, Settled
  <2> QED BY <1>1, <2>1, ShownKept DEF Record, view
<1>2. ASSUME NEW e \in Event, Commit(e) PROVE ShownInv'
  <2>1. Settled' = Settled
    BY <1>2 DEF Commit, Settled
  <2> QED BY <1>2, <2>1, ShownKept DEF Commit, view
<1>3. ASSUME Starts PROVE ShownInv'
  <2>1. UNCHANGED <<database, panel, cursor, load, shown, origin, jumped>>
    BY <1>3 DEF Starts, view
  <2>2. Settled' = Settled /\ pc' \notin {"load", "detail", "save"}
    BY <1>3 DEF Starts, Settled
  <2> QED BY <1>a, <1>b, <2>1, <2>2 DEF ShownInv
<1>4. ASSUME NEW e \in Event, Signal(e) PROVE ShownInv'
  <2>1. CASE Starts
    BY <1>3, <2>1
  <2>2. CASE ~Starts
    <3>1. UNCHANGED <<database, panel, pc, cursor, checkpoint, load, shown, origin, jumped>>
      BY <1>4, <2>2 DEF Signal, view
    <3>2. Settled' = Settled
      BY <3>1 DEF Settled
    <3> QED BY <1>a, <1>b, <3>1, <3>2 DEF ShownInv
  <2> QED BY <2>1, <2>2
<1>5. CASE CatchUp
  BY <1>3, <1>5 DEF CatchUp
<1>6. ASSUME Snapshot PROVE ShownInv'
  <2>1. UNCHANGED <<database, panel, load, shown, origin>> /\ pc' = "read" /\ checkpoint' = cursor'
        /\ pc = "snapshot"
    BY <1>6 DEF Snapshot, view
  <2>2. Settled' = cursor'
    BY <2>1 DEF Settled
  <2>3. CASE Adopt
    <3>1. PICK b \in Branch, n \in Nat :
            /\ panel.scope = {b}
            /\ cursor' = [exact |-> TRUE, stamp |-> 0,
                          at |-> [c \in Branch |-> IF c = b THEN n ELSE 0]]
            /\ jumped' = jumped \cup {e \in Visible : rev[e] <= n}
      <4>1. \A b \in Branch : 0..revision[b] \subseteq Nat
        BY DEF TypeOK
      <4> QED BY <2>3, <4>1 DEF Adopt
    <3>2. cursor'.exact /\ cursor'.at[b] = n
      BY <3>1
    <3>3. ASSUME NEW e \in Visible, rev[e] <= n PROVE e \in jumped'
      BY <3>1, <3>3
    <3>4. \A e \in Visible : BranchOf[e] = b
      BY <2>1, <3>1 DEF Visible
    <3>5. Visible' = Visible /\ rev' = rev
      BY <2>1 DEF database, Visible, Committed
    <3>6. ASSUME NEW e \in Visible', Covers(Settled, e)' PROVE e \in jumped'
      <4>1. rev'[e] <= (Settled').at[BranchOf[e]]
        BY <2>2, <3>2, <3>6 DEF Covers
      <4> QED BY <2>2, <3>2, <3>3, <3>4, <3>5, <3>6, <4>1
    <3> QED BY <2>1, <3>6 DEF ShownInv, Reflects
  <2>4. CASE ~Adopt
    <3>1. cursor' = cursor /\ jumped' = jumped
      BY <1>6, <2>4 DEF Snapshot
    <3>2. Settled = cursor
      BY <2>1 DEF PassInv, Settled
    <3> QED BY <1>a, <1>b, <2>1, <2>2, <3>1, <3>2 DEF ShownInv
  <2> QED BY <2>3, <2>4
<1>7. CASE Query
  <2>1. Settled' = Settled
    BY <1>7 DEF Query, Settled
  <2> QED BY <1>7, <2>1, ShownKept DEF Query, view
<1>8. CASE FullPage
  <2>1. UNCHANGED <<database, panel, load, shown, origin, jumped>> /\ pc' = "read" /\ pc = "read"
    BY <1>8 DEF FullPage, view
  <2>2. cursor'.exact = cursor.exact
    BY <1>8, EndsAhead DEF FullPage, PassInv
  <2>3. Settled' = Settled
    BY <1>8 DEF FullPage, Settled
  <2> QED BY <1>a, <1>b, <2>1, <2>2, <2>3 DEF ShownInv
<1>9. CASE LastPage
  <2>1. UNCHANGED <<database, panel, checkpoint, shown, origin, jumped>> /\ pc = "read"
        /\ pc' \in {"load", "save"}
    BY <1>9 DEF LastPage
  <2>2. cursor'.exact = cursor.exact
    BY <1>9, EndsAhead DEF LastPage, PassInv
  <2>3. Settled' = Settled
    BY <2>1 DEF Settled
  <2>4. CASE pc' = "load"
    <3>1. load'.answer = "none"
      BY <1>9, <2>4 DEF LastPage, Asked
    <3> QED BY <1>a, <1>b, <2>1, <2>2, <2>3, <2>4, <3>1 DEF ShownInv
  <2>5. CASE pc' = "save"
    <3>1. load' = load
      BY <1>9, <2>5 DEF LastPage
    <3>2. cursor' = Settled
      BY <1>9, <2>1, <2>5, EmptyPass DEF Settled
    <3> QED BY <1>a, <1>b, <2>1, <2>2, <2>3, <2>5, <3>1, <3>2 DEF ShownInv
  <2> QED BY <2>1, <2>4, <2>5
<1>10. CASE Save
  <2>1. UNCHANGED <<database, panel, cursor, load, shown, origin, jumped>> /\ pc' = "idle" /\ pc = "save"
    BY <1>10 DEF Save, view
  <2>2. Settled' = cursor
    BY <2>1 DEF Settled
  <2> QED BY <1>a, <1>b, <2>1, <2>2 DEF ShownInv
<1>g. ASSUME NEW how, GiveUp(how), pc # "idle", UNCHANGED <<shown, origin>>,
             load' = load \/ load'.answer = "none"
      PROVE  ShownInv'
  <2>1. UNCHANGED <<database, panel, jumped>> /\ pc' = "idle" /\ cursor' = checkpoint
    BY <1>g DEF GiveUp, Rests
  <2>2. Settled' = Settled
    BY <1>g, <2>1 DEF Settled
  <2>3. Ordered' => Ordered
    BY <1>k, <2>1 DEF OneKind, Ordered, OfOneBranch
  <2> QED BY <1>a, <1>g, <2>1, <2>2, <2>3 DEF ShownInv
<1>h. ASSUME UNCHANGED <<database, panel, pc, cursor, checkpoint, shown, origin, jumped>>,
             load' = load \/ load'.answer # "live"
      PROVE  ShownInv'
  <2>1. Settled' = Settled
    BY <1>h DEF Settled
  <2> QED BY <1>a, <1>b, <1>h, <2>1 DEF ShownInv
<1>11. CASE FailPass \/ Decline \/ FailDetail
  BY <1>g, <1>11 DEF FailPass, Decline, FailDetail, view
<1>12. CASE Reload
  <2>1. load'.answer = "none" /\ UNCHANGED <<shown, origin>>
    BY <1>12 DEF Reload, Asked
  <2> QED BY <1>g, <1>h, <1>12, <2>1 DEF Reload
<1>13. CASE Answer
  <2>1. UNCHANGED <<database, panel, pc, cursor, checkpoint, shown, origin, jumped>>
    BY <1>13 DEF Answer
  <2>2. Settled' = Settled
    BY <2>1 DEF Settled
  <2>3. load'.has = Visible
    BY <1>13 DEF Answer, TypeOK, Answers
  <2> QED BY <1>a, <1>b, <2>1, <2>2, <2>3 DEF ShownInv, Reflects
<1>14. CASE AnswerFromCache
  <2>1. load'.answer = "cached"
    BY <1>14 DEF AnswerFromCache, TypeOK, Answers
  <2> QED BY <1>h, <1>14, <2>1 DEF AnswerFromCache
<1>15. CASE FailLoad
  <2>1. load'.answer = "none" /\ UNCHANGED <<shown, origin>>
    BY <1>15 DEF FailLoad, NoLoad
  <2>2. CASE load.by = "pass"
    BY <1>g, <1>15, <2>1, <2>2 DEF FailLoad, PassInv
  <2>3. CASE load.by # "pass"
    BY <1>h, <1>15, <2>1, <2>3 DEF FailLoad
  <2> QED BY <2>2, <2>3
<1>16. CASE Show
  <2>1. /\ UNCHANGED <<database, panel, cursor, checkpoint, jumped>>
        /\ shown' = load.has /\ origin' = load.answer /\ load'.answer = "none"
    BY <1>16 DEF Show, NoLoad
  <2>2. CASE load.by = "pass"
    <3>1. pc = "load" /\ pc' \in {"detail", "save"}
      BY <1>16, <2>2 DEF Show, PassInv
    <3>2. Settled' = Settled
      BY <2>1, <3>1 DEF Settled
    <3> QED BY <1>a, <1>b, <2>1, <3>1, <3>2 DEF ShownInv
  <2>3. CASE load.by # "pass"
    <3>1. pc' = pc
      BY <1>16, <2>3 DEF Show
    <3>2. Settled' = Settled
      BY <2>1, <3>1 DEF Settled
    <3> QED BY <1>a, <1>b, <2>1, <3>1, <3>2 DEF ShownInv
  <2> QED BY <2>2, <2>3
<1>d. CASE Detail
  <2>1. UNCHANGED <<database, panel, cursor, checkpoint, load, shown, origin, jumped>>
        /\ pc = "detail" /\ pc' = "save"
    BY <1>d DEF Detail, view
  <2>2. Settled' = Settled
    BY <2>1 DEF Settled
  <2> QED BY <1>a, <1>b, <2>1, <2>2 DEF ShownInv
<1>17. CASE Reopen
  <2>1. origin' = "blank" /\ load'.answer = "none"
    BY <1>17 DEF Reopen, Asked
  <2> QED BY <2>1 DEF ShownInv
<1>18. CASE UNCHANGED vars
  <2>1. UNCHANGED <<database, panel, pc, cursor, checkpoint, shown, origin, jumped, load>>
    BY <1>18 DEF vars, view
  <2> QED BY <1>h, <2>1
<1> QED
  BY <1>1, <1>2, <1>4, <1>5, <1>6, <1>7, <1>8, <1>9, <1>10, <1>11, <1>12, <1>13,
     <1>14, <1>15, <1>16, <1>17, <1>18, <1>d DEF Next, Pass

-----------------------------------------------------------------------------

\* The label follows the last answer, which is the one shown when no load is
\* under way and none has failed since.
LEMMA LabelStep == TypeOK /\ LabelInv /\ [Next]_vars => LabelInv'
<1> SUFFICES ASSUME TypeOK, LabelInv, [Next]_vars PROVE LabelInv'
  OBVIOUS
<1> USE DEF LabelInv, Told
<1>1. CASE UNCHANGED <<load, label, error, origin>>
  BY <1>1
<1>2. CASE UNCHANGED <<label, error, origin>> /\ \E who \in {"user", "pass"} : load' = Asked(who)
  BY <1>2 DEF Asked
<1>3. CASE Answer \/ AnswerFromCache
  BY <1>3 DEF Answer, AnswerFromCache, TypeOK, Answers
<1>4. CASE FailLoad
  BY <1>4 DEF FailLoad, NoLoad
<1>5. CASE Show
  BY <1>5 DEF Show, Answered, NoLoad, TypeOK, Answers
<1>6. CASE Reopen
  BY <1>6 DEF Reopen, Asked
<1>7. CASE LastPage \/ Reload
  BY <1>1, <1>2, <1>7 DEF LastPage, Reload
<1>8. CASE \E e \in Event : Record(e) \/ Commit(e) \/ Signal(e)
  BY <1>1, <1>8 DEF Record, Commit, Signal, Starts, view
<1>9. CASE CatchUp \/ Snapshot \/ Query \/ FullPage \/ Detail \/ Save
  BY <1>1, <1>9 DEF CatchUp, Starts, Snapshot, Query, FullPage, Detail, Save, view
<1>10. CASE FailPass \/ Decline \/ FailDetail
  BY <1>1, <1>10 DEF FailPass, Decline, FailDetail, view
<1>11. CASE UNCHANGED vars
  BY <1>1, <1>11 DEF vars, view
<1> QED
  BY <1>3, <1>4, <1>5, <1>6, <1>7, <1>8, <1>9, <1>10, <1>11 DEF Next, Pass

\* A signal is covered, read, about to be read, or another pass will follow.
LEMMA HeardStep ==
  TypeOK /\ InOrder /\ PassInv /\ HeardInv /\ [Next]_vars => HeardInv'
<1> SUFFICES ASSUME TypeOK, InOrder, PassInv, HeardInv, [Next]_vars PROVE HeardInv'
  OBVIOUS
<1> USE RealtimeAssumption
<1>a. ASSUME UNCHANGED <<database, panel, heard>>, (pc' = "read" /\ asked' = {}) \/ pc' = "snapshot"
      PROVE  HeardInv'
  BY <1>a DEF HeardInv, database, Visible, Committed
<1>b. ASSUME UNCHANGED <<database, panel, heard, pc, cursor, again, outcome, asked, seen>>
      PROVE  HeardInv'
  BY <1>b DEF HeardInv, database, Visible, Committed, Covers
<1>1. ASSUME NEW e \in Event, Record(e) PROVE HeardInv'
  <2>1. \A f \in Visible : f \in Visible' /\ (Covers(cursor, f) => Covers(cursor, f)')
    BY <1>1 DEF Record, Visible, Committed, Covers, TypeOK
  <2> QED BY <1>1, <2>1 DEF HeardInv, Record, page
<1>2. ASSUME NEW e \in Event, Commit(e) PROVE HeardInv'
  <2>1. \A f \in Visible : f \in Visible' /\ (Covers(cursor, f) => Covers(cursor, f)')
    BY <1>2 DEF Commit, Visible, Committed, Covers, TypeOK
  <2> QED BY <1>2, <2>1 DEF HeardInv, Commit, page
<1>3. ASSUME Starts, heard' \subseteq Visible PROVE HeardInv'
  BY <1>3 DEF Starts, HeardInv, database, Visible, Committed
<1>4. ASSUME NEW e \in Event, Signal(e) PROVE HeardInv'
  <2>1. heard' \subseteq Visible
    BY <1>4 DEF Signal, HeardInv
  <2>2. CASE Starts
    BY <1>3, <2>1, <2>2
  <2>3. CASE ~Starts
    <3>1. again' /\ UNCHANGED <<database, panel>>
      BY <1>4, <2>3 DEF Signal, Rerun
    <3> QED BY <2>1, <3>1 DEF HeardInv, database, Visible, Committed
  <2> QED BY <2>2, <2>3
<1>5. CASE CatchUp
  BY <1>3, <1>5 DEF CatchUp, HeardInv
<1>6. CASE Snapshot
  <2>1. asked' = {} /\ pc' = "read"
    BY <1>6 DEF Snapshot, PassInv, page
  <2> QED BY <1>a, <1>6, <2>1 DEF Snapshot
<1>7. CASE Query
  <2>1. PICK B \in SUBSET (panel.scope \ asked) :
          /\ asked' = asked \cup B
          /\ seen' = seen \cup {e \in Committed : BranchOf[e] \in B /\ ~Covers(cursor, e)}
    BY <1>7 DEF Query
  <2>2. UNCHANGED <<database, panel, heard, pc, cursor, again, outcome>> /\ pc = "read"
    BY <1>7 DEF Query
  <2> QED BY <2>1, <2>2 DEF HeardInv, database, Visible, Committed, Covers
<1>8. CASE FullPage
  BY <1>a, <1>8 DEF FullPage
<1>9. CASE LastPage
  <2>1. PICK next \in Ends : Rows(next) = seen /\ cursor' = next
    BY <1>9 DEF LastPage
  <2>2. UNCHANGED <<database, panel, heard, again>> /\ pc = "read" /\ asked = panel.scope
    BY <1>9 DEF LastPage
  <2>3. \A e \in Event : Covers(cursor, e) \/ e \in seen => Covers(next, e)
    BY <2>1, EndsAhead DEF PassInv, Rows
  <2>4. \A e \in heard : e \in Visible /\ (again \/ Covers(next, e))
    BY <2>2, <2>3 DEF HeardInv, Visible, Committed
  <2> QED BY <2>1, <2>2, <2>4 DEF HeardInv, database, Visible, Committed, Covers
<1>10. CASE Save \/ Detail
  <2>1. seen = {} /\ UNCHANGED <<database, panel, heard, again, cursor>> /\ pc \in {"detail", "save"}
    BY <1>10 DEF Save, Detail, PassInv
  <2> QED BY <2>1 DEF HeardInv, database, Visible, Committed, Covers
<1>g. ASSUME NEW how, GiveUp(how), how # "done" PROVE HeardInv'
  BY <1>g DEF GiveUp, Rests, HeardInv, database, Visible, Committed
<1>11. CASE FailPass \/ Decline \/ FailDetail
  BY <1>g, <1>11 DEF FailPass, Decline, FailDetail
<1>12. CASE Reload
  BY <1>b, <1>g, <1>12 DEF Reload, page
<1>13. CASE Answer \/ AnswerFromCache
  BY <1>b, <1>13 DEF Answer, AnswerFromCache, page
<1>14. CASE FailLoad
  BY <1>b, <1>g, <1>14 DEF FailLoad, page
<1>15. CASE Show
  <2>1. UNCHANGED <<database, panel, heard, cursor, again, outcome, asked, seen>>
    BY <1>15 DEF Show, page
  <2>2. pc' = pc \/ (pc = "load" /\ pc' \in {"detail", "save"})
    BY <1>15 DEF Show, PassInv
  <2> QED BY <2>1, <2>2 DEF HeardInv, database, Visible, Committed, Covers
<1>16. CASE Reopen
  BY <1>16 DEF Reopen, HeardInv
<1>17. CASE UNCHANGED vars
  BY <1>b, <1>17 DEF vars, page
<1> QED
  BY <1>1, <1>2, <1>4, <1>5, <1>6, <1>7, <1>8, <1>9, <1>10, <1>11, <1>12, <1>13,
     <1>14, <1>15, <1>16, <1>17 DEF Next, Pass

LEMMA InitStep == Init => IInv
<1> SUFFICES ASSUME Init PROVE IInv
  OBVIOUS
<1> USE RealtimeAssumption
<1>1. Kept(panel) \in Cursor
  <2>1. panel.kept \in BOOLEAN
    BY DEF Init
  <2> QED BY <2>1 DEF Kept, Cursor
<1>2. TypeOK
  <2>1. load \in Answers
    BY DEF Init, Asked, Answers
  <2>2. stored \in Cursor /\ cursor \in Cursor /\ checkpoint \in Cursor
    BY <1>1 DEF Init
  <2>3. /\ stage \in [Event -> {"new", "open", "done"}] /\ revision \in [Branch -> Nat]
        /\ rev \in [Event -> Nat] /\ stamp \in [Event -> Nat]
        /\ faults \in 0..MaxFaults
    BY DEF Init
  <2> QED BY <2>1, <2>2, <2>3 DEF Init, TypeOK
<1>3. InOrder
  BY DEF Init, InOrder
<1>4. Behind(Kept(panel))
  BY DEF Init, Behind, Kept
<1>5. CursorsBehind
  BY <1>4 DEF Init, CursorsBehind, OneKind
<1>6. PassInv
  BY DEF Init, PassInv, Asked
<1>7. ShownInv
  BY DEF Init, ShownInv, Asked
<1>8. HeardInv
  BY DEF Init, HeardInv
<1>9. LabelInv
  BY DEF Init, LabelInv, Told, Asked
<1> QED BY <1>2, <1>3, <1>5, <1>6, <1>7, <1>8, <1>9 DEF IInv

\* The inductive invariant: what has been numbered, what the cursors cover,
\* how far the pass is, what the panel shows and what has become of the signals.
THEOREM Inductive == Spec => []IInv
<1>1. IInv /\ [Next]_vars => IInv'
  BY TypeStep, OrderStep, CursorStep, PassStep, ShownStep, LabelStep, HeardStep DEF IInv
<1> QED BY InitStep, <1>1, PTL DEF Spec

\* Every variable keeps its type.
THEOREM TypeOKHolds == Spec => []TypeOK
<1>1. IInv => TypeOK
  BY DEF IInv
<1> QED BY Inductive, <1>1, PTL

\* No event is passed over, for any panel, page size and number of branches,
\* events and faults: the panel is refreshed before its cursor is kept
\* (useStaffRealtime's catchUp), and the branch's row makes the order of the
\* revisions that of the commits (recordOrderEvent).
THEOREM NothingSkippedHolds == Spec => []NothingSkipped
<1>1. IInv => NothingSkipped
  BY DEF IInv, ShownInv, LabelInv, Reflects, NothingSkipped, Reflected
<1> QED BY Inductive, <1>1, PTL

\* A signal during a pass is answered by the pass or by one after it
\* (catchUpRequested).
THEOREM HeardIsShownHolds == Spec => []HeardIsShown
<1>1. IInv => HeardIsShown
  <2> SUFFICES ASSUME IInv, Ordered, pc = "idle", ~again, outcome = "done", NEW e \in heard
               PROVE  Reflected(e)
    BY DEF HeardIsShown
  <2>1. e \in Visible /\ Covers(cursor, e)
    BY DEF IInv, HeardInv, PassInv
  <2>2. Settled = cursor
    BY DEF Settled
  <2> QED BY <2>1, <2>2 DEF IInv, ShownInv, LabelInv, Reflects, Reflected
<1> QED BY Inductive, <1>1, PTL
=============================================================================
