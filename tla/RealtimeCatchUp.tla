--------------------------- MODULE RealtimeCatchUp ---------------------------
(***************************************************************************)
(* How a staff panel follows the orders of its branches.  A transaction    *)
(* that changes an order inserts an event (recordOrderEvent); the panel    *)
(* asks for the events after its cursor (RealtimeService.catchUp), reloads *)
(* what it shows, and only then keeps the new cursor (useStaffRealtime).   *)
(* A socket's signal merely makes it ask sooner.                           *)
(*                                                                         *)
(* A cursor is of one of two kinds: the stamp of the last event (createdAt *)
(* and id), or a revision for each branch, which a panel gets with the     *)
(* snapshot of its first start on a desktop.                               *)
(***************************************************************************)
EXTENDS Integers, FiniteSets

CONSTANTS
  Branch,      \* branches of the restaurant
  Event,       \* order changes, each a transaction with one event
  BranchOf,    \* the branch of an event
  Panels,      \* kinds of panel: the branches shown, on a desktop or in a
               \* browser, with the snapshot or without, the cursor it kept
  Limit,       \* events on a page
  MaxFaults    \* bound on failures, reloads and restarts

ASSUME RealtimeAssumption ==
  /\ BranchOf \in [Event -> Branch]
  /\ Panels \subseteq [scope : (SUBSET Branch) \ {{}}, desktop : BOOLEAN,
                       snapshot : BOOLEAN, kept : BOOLEAN]
  /\ Limit \in Nat \ {0}
  /\ MaxFaults \in Nat

VARIABLES
  \* the database
  stage,       \* a transaction is yet to come, has inserted its event, is done
  revision,    \* branches.realtime_revision, with the increment not yet committed
  rev, stamp,  \* branchRevision and createdAt of an event
  clock,       \* the stamp given last
  \* the panel and what it has stored
  panel, stored,
  \* useStaffRealtime
  pc, cursor, checkpoint,
  asked, seen, \* branches queried for the page, and the rows found
  got,         \* this pass has had an event (lastEvent)
  again,       \* catchUpRequested
  booted,      \* bootstrapAttempted
  outcome,     \* how the last pass ended, when none runs
  \* what the panel shows
  load,        \* the load awaited: by whom, and its answer
  cache,       \* the desktop's cached copy of the panel's response
  shown,
  label,       \* the freshness recorded with the last answer (StaffSync)
  error,       \* loadError is displayed
  \* history
  origin,      \* the answer that is shown, if any
  heard,       \* events signalled since the panel was opened
  jumped,      \* events the snapshot's cursor left behind
  faults

database == <<stage, revision, rev, stamp, clock>>
page     == <<asked, seen, got>>
view     == <<load, cache, shown, label, error, origin>>
vars     == <<database, panel, stored, pc, cursor, checkpoint, page, again,
              booted, outcome, view, heard, jumped, faults>>

Cursor == [exact : BOOLEAN, at : [Branch -> Nat], stamp : Nat]

\* A panel that has kept nothing, and one that kept a snapshot's cursor.
Kept(p) == [exact |-> p.kept, at |-> [b \in Branch |-> 0], stamp |-> 0]

NoLoad == [by |-> "nobody", answer |-> "none", has |-> {}]
Asked(who) == [by |-> who, answer |-> "none", has |-> {}]
Answers == [by : {"nobody", "user", "pass"}, answer : {"none", "live", "cached"},
            has : SUBSET Event]

Init ==
  /\ stage = [e \in Event |-> "new"]
  /\ revision = [b \in Branch |-> 0]
  /\ rev = [e \in Event |-> 0]
  /\ stamp = [e \in Event |-> 0]
  /\ clock = 0
  /\ panel \in Panels
  /\ stored = Kept(panel)
  /\ pc = "idle"
  /\ cursor = stored
  /\ checkpoint = stored
  /\ asked = {} /\ seen = {} /\ got = FALSE
  /\ again = TRUE /\ booted = FALSE /\ outcome = "failed"
  /\ load = Asked("user") /\ cache = {} /\ shown = {}
  /\ label = "live" /\ error = FALSE /\ origin = "blank"
  /\ heard = {} /\ jumped = {}
  /\ faults = 0

Fault == faults < MaxFaults /\ faults' = faults + 1

-----------------------------------------------------------------------------
(* The database.                                                           *)

Committed == {e \in Event : stage[e] = "done"}
Visible == {e \in Committed : BranchOf[e] \in panel.scope}

\* Mutant: the revision is drawn from a sequence, which no transaction holds.
NumberedWithoutLock(b) == b \in Branch

\* The UPDATE of the branch's row waits for the transaction that updated it.
RowIsFree(b) == \A e \in Event : stage[e] = "open" => BranchOf[e] # b

\* recordOrderEvent increments the branch's revision and inserts the event.
\* Branches the panel does not show are left out.
Record(e) ==
  LET b == BranchOf[e] IN
  /\ stage[e] = "new"
  /\ b \in panel.scope
  /\ RowIsFree(b)
  /\ stage' = [stage EXCEPT ![e] = "open"]
  /\ revision' = [revision EXCEPT ![b] = @ + 1]
  /\ rev' = [rev EXCEPT ![e] = revision[b] + 1]
  /\ clock' = clock + 1
  /\ stamp' = [stamp EXCEPT ![e] = clock + 1]
  /\ UNCHANGED <<panel, stored, pc, cursor, checkpoint, page, again, booted,
                 outcome, view, heard, jumped, faults>>

Commit(e) ==
  /\ stage[e] = "open"
  /\ stage' = [stage EXCEPT ![e] = "done"]
  /\ UNCHANGED <<revision, rev, stamp, clock, panel, stored, pc, cursor,
                 checkpoint, page, again, booted, outcome, view, heard, jumped,
                 faults>>

-----------------------------------------------------------------------------
(* A pass of catchUp.                                                      *)

Covers(c, e) ==
  IF c.exact THEN rev[e] <= c.at[BranchOf[e]] ELSE stamp[e] <= c.stamp

WantsSnapshot == panel.desktop /\ panel.snapshot /\ ~booted

Starts ==
  /\ pc = "idle"
  /\ pc' = IF WantsSnapshot THEN "snapshot" ELSE "read"
  /\ checkpoint' = cursor
  /\ again' = FALSE
  /\ got' = FALSE /\ asked' = {} /\ seen' = {}
  /\ outcome' = "failed"
  /\ UNCHANGED <<database, panel, stored, cursor, booted, view, jumped>>

\* The timer, the window becoming visible, the network or the socket coming
\* back, or a pass that was asked for while another ran.
CatchUp == Starts /\ UNCHANGED <<heard, faults>>

\* Mutant: a signal during a pass is taken for answered by it.
NoRerun == FALSE

\* While a pass runs a signal asks for another one.
Rerun == TRUE

Signal(e) ==
  /\ e \in Visible \ heard
  /\ heard' = heard \cup {e}
  /\ UNCHANGED faults
  /\ \/ Starts
     \/ /\ pc # "idle"
        /\ again' = (again \/ Rerun)
        /\ UNCHANGED <<database, panel, stored, pc, cursor, checkpoint, page,
                       booted, outcome, view, jumped>>

OfOneBranch == \E b \in Branch : panel.scope = {b}

\* A revision the branch had in some REPEATABLE READ snapshot, and the one it
\* has now.
WasRevision(b, n) ==
  n = 0 \/ \E e \in Committed : BranchOf[e] = b /\ rev[e] = n
IsRevision(b, n) ==
  WasRevision(b, n) /\ \A e \in Committed : BranchOf[e] = b => rev[e] <= n

\* The snapshot's cursor replaces one that has no revision of its branch, and
\* is stored at once.  The snapshot is of one branch.  It may be a copy from
\* the gateway's cache, and the write may fail.
Adopt ==
  /\ ~cursor.exact
  /\ \E b \in Branch : \E n \in 0..revision[b] :
       /\ panel.scope = {b}
       /\ WasRevision(b, n)
       /\ cursor' = [exact |-> TRUE, stamp |-> 0,
                     at |-> [c \in Branch |-> IF c = b THEN n ELSE 0]]
       /\ jumped' = jumped \cup {e \in Visible : rev[e] <= n}
       /\ \/ IsRevision(b, n) /\ stored' = cursor' /\ UNCHANGED faults
          \/ Fault /\ stored' \in {stored, cursor'}

Snapshot ==
  /\ pc = "snapshot"
  /\ \/ Adopt
     \/ /\ cursor.exact \/ ~OfOneBranch
        /\ UNCHANGED <<cursor, stored, jumped, faults>>
     \/ Fault /\ UNCHANGED <<cursor, stored, jumped>>
  /\ pc' = "read"
  /\ booted' = TRUE
  /\ checkpoint' = cursor'
  /\ UNCHANGED <<database, panel, page, again, outcome, view, heard>>

\* One query for all branches after a stamp, one for each branch after its
\* revision; the latter run side by side.
Query ==
  /\ pc = "read"
  /\ \E B \in (SUBSET (panel.scope \ asked)) \ {{}} :
       /\ IF cursor.exact THEN \E b \in B : B = {b} ELSE B = panel.scope
       /\ asked' = asked \cup B
       /\ seen' = seen \cup {e \in Committed : BranchOf[e] \in B /\ ~Covers(cursor, e)}
  /\ UNCHANGED <<database, panel, stored, pc, cursor, checkpoint, got, again,
                 booted, outcome, view, heard, jumped, faults>>

\* The cursors a page can end at: each position is the old one or a row's.
Ends ==
  IF cursor.exact
  THEN {[cursor EXCEPT !.at = at] : at \in
         {f \in [Branch -> {cursor.at[b] : b \in Branch} \cup {rev[e] : e \in seen}] :
            \A b \in Branch : \/ f[b] = cursor.at[b]
                              \/ \E e \in seen : BranchOf[e] = b /\ f[b] = rev[e]}}
  ELSE {[cursor EXCEPT !.stamp = s] : s \in {cursor.stamp} \cup {stamp[e] : e \in seen}}

\* Mutant: a pass that fails is taken to be running still.
NeverRests == pc' = "load"

\* Whatever happened, the next pass may start.
Rests == pc' = "idle"

\* A pass that does not reach its end keeps the old cursor.
GiveUp(how) ==
  /\ cursor' = checkpoint
  /\ Rests
  /\ outcome' = how
  /\ asked' = {} /\ seen' = {} /\ got' = FALSE
  /\ UNCHANGED <<database, panel, stored, checkpoint, again, booted, heard, jumped>>

\* The page holds the first rows after the cursor, at most Limit of them, and
\* says whether there are more.  Which branch goes first on it is left open.
Rows(next) == {e \in seen : Covers(next, e)}

FullPage ==
  /\ pc = "read" /\ asked = panel.scope
  /\ \E next \in Ends :
       /\ Rows(next) # seen
       /\ Cardinality(Rows(next)) = Limit
       /\ cursor' = next
  /\ got' = TRUE
  /\ asked' = {} /\ seen' = {}
  /\ UNCHANGED <<database, panel, stored, pc, checkpoint, again, booted, outcome,
                 view, heard, jumped, faults>>

\* After the last page onEvent reloads the panel if the pass has had an event;
\* a load under way is aborted.
LastPage ==
  /\ pc = "read" /\ asked = panel.scope
  /\ Cardinality(seen) <= Limit
  /\ \E next \in Ends : Rows(next) = seen /\ cursor' = next
  /\ IF got \/ seen # {} THEN pc' = "load" /\ load' = Asked("pass")
                         ELSE pc' = "save" /\ UNCHANGED load
  /\ asked' = {} /\ seen' = {} /\ got' = FALSE
  /\ UNCHANGED <<database, panel, stored, checkpoint, again, booted, outcome,
                 cache, shown, label, error, origin, heard, jumped, faults>>

\* The panel is in the middle of an action and declines to be reloaded.
Decline ==
  /\ pc = "read" /\ asked = panel.scope
  /\ Cardinality(seen) <= Limit
  /\ got \/ seen # {}
  /\ Fault
  /\ GiveUp("deferred")
  /\ UNCHANGED view

\* A request fails: the panel says that it is offline.
FailPass ==
  /\ pc = "read"
  /\ Fault
  /\ GiveUp("failed")
  /\ UNCHANGED view

\* The cursor is stored after the refresh, or the write fails.
Save ==
  /\ pc = "save"
  /\ pc' = "idle"
  /\ outcome' = "done"
  /\ checkpoint' = cursor
  /\ \/ stored' = cursor /\ UNCHANGED faults
     \/ Fault /\ UNCHANGED stored
  /\ UNCHANGED <<database, panel, cursor, page, again, booted, view, heard,
                 jumped>>

-----------------------------------------------------------------------------
(* What the panel shows.                                                   *)

\* The user reloads; a pass whose refresh this supersedes ends without saving.
Reload ==
  /\ Fault
  /\ load' = Asked("user")
  /\ IF pc = "load" THEN GiveUp("deferred")
     ELSE UNCHANGED <<database, panel, stored, pc, cursor, checkpoint, page, again,
                      booted, outcome, heard, jumped>>
  /\ UNCHANGED <<cache, shown, label, error, origin>>

\* The freshness of an answer is recorded when it arrives, before it is shown.
Answer ==
  /\ load.by # "nobody" /\ load.answer = "none"
  /\ load' = [load EXCEPT !.answer = "live", !.has = Visible]
  /\ label' = "live"
  /\ cache' = IF panel.desktop THEN Visible ELSE cache
  /\ UNCHANGED <<database, panel, stored, pc, cursor, checkpoint, page, again, booted,
                 outcome, shown, error, origin, heard, jumped, faults>>

\* Without the backend the desktop's gateway answers from its cache.
AnswerFromCache ==
  /\ load.by # "nobody" /\ load.answer = "none"
  /\ panel.desktop
  /\ Fault
  /\ load' = [load EXCEPT !.answer = "cached", !.has = cache]
  /\ label' = "cached"
  /\ UNCHANGED <<database, panel, stored, pc, cursor, checkpoint, page, again, booted,
                 outcome, cache, shown, error, origin, heard, jumped>>

\* An error that the backend answered counts as an answer of its own.
FailLoad ==
  /\ load.by # "nobody" /\ load.answer = "none"
  /\ Fault
  /\ load' = NoLoad
  /\ error' = TRUE
  /\ label' \in {label, "live"}
  /\ IF load.by = "pass" THEN GiveUp("deferred")
     ELSE UNCHANGED <<database, panel, stored, pc, cursor, checkpoint, page, again,
                      booted, outcome, heard, jumped>>
  /\ UNCHANGED <<cache, shown, origin>>

Answered == load.answer # "none"

\* A waiter's panel goes on to load the table that is open.
Show ==
  /\ Answered
  /\ shown' = load.has
  /\ origin' = load.answer
  /\ error' = FALSE
  /\ load' = NoLoad
  /\ IF load.by = "pass" THEN pc' \in {"detail", "save"} ELSE pc' = pc
  /\ UNCHANGED <<database, panel, stored, cursor, checkpoint, page, again, booted,
                 outcome, cache, label, heard, jumped, faults>>

Detail ==
  /\ pc = "detail"
  /\ pc' = "save"
  /\ UNCHANGED <<database, panel, stored, cursor, checkpoint, page, again, booted,
                 outcome, view, heard, jumped, faults>>

\* The table's load fails, or another table is opened meanwhile.
FailDetail ==
  /\ pc = "detail"
  /\ Fault
  /\ GiveUp("deferred")
  /\ UNCHANGED view

\* The panel is closed, or its desktop or browser stops, and is opened again.
Reopen ==
  /\ Fault
  /\ cursor' = stored /\ checkpoint' = stored
  /\ pc' = "idle" /\ again' = TRUE /\ booted' = FALSE /\ outcome' = "failed"
  /\ asked' = {} /\ seen' = {} /\ got' = FALSE
  /\ load' = Asked("user") /\ shown' = {}
  /\ label' \in {label, "live"} /\ error' = FALSE /\ origin' = "blank"
  /\ heard' = {} /\ jumped' = {}
  /\ UNCHANGED <<database, panel, stored, cache>>

-----------------------------------------------------------------------------
Pass == Snapshot \/ Query \/ FullPage \/ LastPage \/ Detail \/ Save
Next ==
  \/ \E e \in Event : Record(e) \/ Commit(e) \/ Signal(e)
  \/ CatchUp \/ Pass \/ FailPass \/ Decline
  \/ Reload \/ Answer \/ AnswerFromCache \/ FailLoad \/ Show \/ FailDetail
  \/ Reopen

Spec == Init /\ [][Next]_vars

\* A desktop's timer starts a pass every five seconds, or thirty while the
\* socket is connected; a pass that was asked for starts in any panel; what
\* has begun goes on.  A browser has no timer.
FairSpec ==
  /\ Spec
  /\ WF_vars((panel.desktop \/ again) /\ CatchUp)
  /\ WF_vars(Pass)
  /\ WF_vars(Answer)
  /\ WF_vars(Show)

-----------------------------------------------------------------------------
(* Properties.                                                             *)

TypeOK ==
  /\ stage \in [Event -> {"new", "open", "done"}]
  /\ revision \in [Branch -> Nat]
  /\ rev \in [Event -> Nat] /\ stamp \in [Event -> Nat] /\ clock \in Nat
  /\ panel \in Panels
  /\ stored \in Cursor /\ cursor \in Cursor /\ checkpoint \in Cursor
  /\ pc \in {"idle", "snapshot", "read", "load", "detail", "save"}
  /\ asked \subseteq Branch /\ seen \subseteq Event
  /\ got \in BOOLEAN /\ again \in BOOLEAN /\ booted \in BOOLEAN
  /\ outcome \in {"done", "failed", "deferred"}
  /\ load \in Answers
  /\ cache \subseteq Event /\ shown \subseteq Event
  /\ label \in {"live", "cached"} /\ error \in BOOLEAN
  /\ origin \in {"blank", "live", "cached"}
  /\ heard \subseteq Event /\ jumped \subseteq Event
  /\ faults \in 0..MaxFaults

\* A stamp orders the events of one branch only.
Ordered == cursor.exact \/ OfOneBranch

\* The cursor a pass leaves behind if it goes no further.
Settled == IF pc = "idle" THEN cursor ELSE checkpoint

\* The panel says that what it shows may be old: a copy from the cache, a
\* reload under way, or one that failed.
Told == label = "cached" \/ load.by # "nobody" \/ error

\* What the panel shows, or what the snapshot's cursor left behind; or what is
\* shown is nothing yet or a copy from the cache, and the panel says so.
Reflected(e) == e \in shown \cup jumped \/ (origin # "live" /\ Told)

\* No event is passed over: what the cursor has left behind is on the panel
\* (refreshBeforeCursorCheckpoint), however transactions, pages, loads,
\* failures and restarts interleave.
NothingSkipped == Ordered => \A e \in Visible : Covers(Settled, e) => Reflected(e)

\* A signal that arrives while a pass is running is not lost: when the panel is
\* at rest after a pass that ended well, it shows what it was told of
\* (catchUpRequested).
HeardIsShown ==
  (Ordered /\ pc = "idle" /\ ~again /\ outcome = "done")
    => \A e \in heard : Reflected(e)

\* A desktop's panel ends up with every change, whatever was lost on the way
\* (the catch-up that polling repeats).
PanelCatchesUp ==
  <>[](panel.desktop /\ Ordered => \A e \in Visible : Reflected(e))

\* The same without the exceptions: the cached copy counts as a refresh, the
\* snapshot's cursor may pass events the panel's first load missed, and stamps
\* do not order the events of several branches.
NothingSkippedAtAll == \A e \in Visible : Covers(Settled, e) => e \in shown \/ origin = "blank"
=============================================================================
