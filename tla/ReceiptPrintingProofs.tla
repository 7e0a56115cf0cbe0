------------------------ MODULE ReceiptPrintingProofs ------------------------
(* What holds of ReceiptPrinting for every number of desktops, printers, jobs *)
(* and retries, with any number of faults.                                    *)
EXTENDS ReceiptPrinting, FoldTheorems

-----------------------------------------------------------------------------
(* The inductive invariant: nothing of a request is on paper while it can     *)
(* still be claimed, and one desktop at most is at work on it.                *)

\* No sheet of request r, among the sheets of one copy.
Blank(sheets, r) == \A p \in Printer : sheets[p][r] = 0

\* What a desktop at work on a server job knows of the sheets of its request.
KnowsSheets(w, sheets) ==
  /\ w.stage = "claimed" => Blank(sheets, w.request) /\ w.at = {} /\ ~w.any
  /\ ~w.any /\ w.failure # "ambiguous" => Blank(sheets, w.request)
  /\ \A p \in w.todo \cup w.at : sheets[p][w.request] = 0
  /\ w.todo \cap w.at = {}

ServerWork ==
  \A d \in Desktop, j \in Job :
    ~Resting(d, j) => KnowsSheets(work[d][j], paper[j])

\* Only Origin works on the offline copy, while it is being printed; what it
\* sends to is marked, and what is unmarked has no sheet of this request.
LocalWork ==
  /\ \A d \in Desktop : d # Origin => Resting(d, Offline)
  /\ ~Resting(Origin, Offline) =>
       /\ local.state = "printing"
       /\ ~work[Origin][Offline].allow
       /\ work[Origin][Offline].request = retried[Offline]
       /\ \A p \in work[Origin][Offline].at :
            /\ target[Origin][Offline][p] = "ambiguous"
            /\ paper[Offline][p][retried[Offline]] = 0
  /\ \A p \in Printer : target[Origin][Offline][p] = "none" =>
       paper[Offline][p][retried[Offline]] = 0

\* Nothing is printed for a request that has not been made.
RequestsMade ==
  \A c \in Copy :
    /\ \A d \in Desktop : work[d][c].request <= retried[c]
    /\ \A r \in 0 .. MaxAsked : r > retried[c] => Blank(paper[c], r)

\* The holder of a job's lease works on its last request.
HolderCurrent ==
  \A d \in Desktop, j \in Job :
    job[j].holder = d /\ ~Resting(d, j) => work[d][j].request = retried[j]

\* No two desktops work on the same request.
OneWorker ==
  \A j \in Job : \A d, e \in Desktop :
    d # e /\ ~Resting(d, j) /\ ~Resting(e, j) =>
      work[d][j].request # work[e][j].request

\* A job that may still be claimed has nothing of its last request on paper or
\* under way.
Fresh(j) ==
  \/ job[j].status \in {"NONE", "PENDING"}
  \/ job[j].status = "PROCESSING" /\ ~MayHavePrinted(j)

FreshIsBlank ==
  \A j \in Job : Fresh(j) =>
    /\ Blank(paper[j], retried[j])
    /\ \A d \in Desktop : ~Resting(d, j) => work[d][j].request # retried[j]

FlagIsPending == \A j \in Job : job[j].flag => job[j].status = "PENDING"

\* A desktop that is not at work on a copy is sending it to no target.
RestIsIdle == \A d \in Desktop, c \in Copy : Resting(d, c) => work[d][c].at = {}

IInv ==
  /\ TypeOK
  /\ ServerWork
  /\ LocalWork
  /\ RequestsMade
  /\ HolderCurrent
  /\ OneWorker
  /\ FreshIsBlank
  /\ FlagIsPending
  /\ RestIsIdle
  /\ OneSheetPerRequest

\* What is recorded printed has a sheet; a copy without a failure so far has one
\* on each printer it is not still to be sent to.
Served(c, p) == HasSheet(c, p) \/ (c \in Sync /\ HasSheet(Offline, p))

RecordedIsPrinted ==
  \A d \in Desktop, c \in Copy, p \in Printer :
    target[d][c][p] = "printed" => HasSheet(c, p)

WorkServes ==
  \A d \in Desktop, c \in Copy :
    ~Resting(d, c) /\ work[d][c].failure = "none" =>
      \A p \in Targets[c] : p \in work[d][c].todo \cup work[d][c].at \/ Served(c, p)

DInv ==
  /\ TypeOK
  /\ RecordedIsPrinted
  /\ WorkServes
  /\ DoneIsPrinted

-----------------------------------------------------------------------------
(* Types.                                                                     *)

JobType ==
  [status : {"NONE", "PENDING", "PROCESSING", "SUBMITTED", "DEAD_LETTER"},
   holder : Desktop \cup {None}, expired : BOOLEAN, attempts : Nat,
   flag : BOOLEAN, outcome : {"NONE", "CLAIMED", "DISPATCHING", "SUBMITTED",
                              "FAILED", "AMBIGUOUS", "DEAD_LETTER"}]
MarkType == {"none", "ambiguous", "printed"}
LocalType == [state : {"pending", "printing", "printed", "dead_letter"},
              attempts : Nat]

\* The types, with each record's type named.
Typed ==
  /\ job \in [Job -> JobType]
  /\ local \in LocalType
  /\ target \in [Desktop -> [Copy -> [Printer -> MarkType]]]
  /\ work \in [Desktop -> [Copy -> WorkType]]
  /\ mapped \in BOOLEAN /\ unaware \in BOOLEAN
  /\ retried \in [Copy -> 0 .. MaxAsked]
  /\ paper \in [Copy -> [Printer -> [0 .. MaxAsked -> Nat]]]
  /\ faults \in 0 .. MaxFaults

LEMMA TypedIsTypeOK == TypeOK <=> Typed
BY DEF TypeOK, Typed, JobType, MarkType, LocalType

LEMMA TypedPrimed == Typed' => TypeOK'
BY DEF TypeOK, Typed, JobType, MarkType, LocalType

LEMMA Constants ==
  /\ Origin \in Desktop /\ None \notin Desktop /\ Offline \notin Job
  /\ Offline \in Copy /\ Job \subseteq Copy /\ Sync \subseteq Job
  /\ \A c \in Copy : Targets[c] \subseteq Printer /\ Targets[c] # {}
  /\ MaxAsked \in Nat /\ MaxFaults \in Nat /\ 0 \in 0 .. MaxAsked
BY PrintingAssumption DEF Copy, Sync

LEMMA IdleType ==
  Idle \in WorkType /\ Idle.stage = "idle" /\ Idle.request = 0 /\ Idle.at = {}
BY Constants DEF Idle, WorkType

LEMMA UnqueuedType == Unqueued \in JobType
BY DEF Unqueued, JobType

\* What a desktop puts down of its work on one copy changes nothing else.
LEMMA Putting ==
  ASSUME work \in [Desktop -> [Copy -> WorkType]],
         NEW d \in Desktop, NEW c \in Copy, NEW w \in WorkType, Put(d, c, w)
  PROVE  /\ work' \in [Desktop -> [Copy -> WorkType]]
         /\ work'[d][c] = w
         /\ \A e \in Desktop, k \in Copy : e # d \/ k # c => work'[e][k] = work[e][k]
BY DEF Put

LEMMA Recording ==
  ASSUME target \in [Desktop -> [Copy -> [Printer -> MarkType]]],
         NEW d \in Desktop, NEW c \in Copy, NEW p \in Printer,
         NEW state \in MarkType, Records(d, c, p, state)
  PROVE  /\ target' \in [Desktop -> [Copy -> [Printer -> MarkType]]]
         /\ target'[d][c][p] = state
         /\ \A e \in Desktop, k \in Copy, q \in Printer :
              e # d \/ k # c \/ q # p => target'[e][k][q] = target[e][k][q]
BY DEF Records

LEMMA PuttingOut ==
  ASSUME paper \in [Copy -> [Printer -> [0 .. MaxAsked -> Nat]]],
         NEW c \in Copy, NEW p \in Printer, NEW r \in 0 .. MaxAsked,
         PutsOut(c, p, r)
  PROVE  /\ paper' \in [Copy -> [Printer -> [0 .. MaxAsked -> Nat]]]
         /\ paper'[c][p][r] = paper[c][p][r] + 1
         /\ \A k \in Copy, q \in Printer, s \in 0 .. MaxAsked :
              k # c \/ q # p \/ s # r => paper'[k][q][s] = paper[k][q][s]
<1>1. PICK n : n = paper[c][p][r] + 1
  OBVIOUS
<1>2. n \in Nat
  <2>1. paper[c][p] \in [0 .. MaxAsked -> Nat]
    OBVIOUS
  <2>2. paper[c][p][r] \in Nat
    BY <2>1
  <2> QED
    BY <1>1, <2>2
<1>3. paper' = [paper EXCEPT ![c][p][r] = n]
  BY <1>1 DEF PutsOut
<1>4. PICK row : row = [paper[c][p] EXCEPT ![r] = n]
  OBVIOUS
<1>5. /\ row \in [0 .. MaxAsked -> Nat] /\ row[r] = n
      /\ \A s \in 0 .. MaxAsked : s # r => row[s] = paper[c][p][s]
  BY <1>2, <1>4
<1>6. paper' = [paper EXCEPT ![c][p] = row]
  BY <1>3, <1>4
<1>7. /\ paper' \in [Copy -> [Printer -> [0 .. MaxAsked -> Nat]]]
      /\ paper'[c][p] = row
      /\ \A k \in Copy, q \in Printer : k # c \/ q # p => paper'[k][q] = paper[k][q]
  BY <1>5, <1>6
<1> QED
  BY <1>1, <1>5, <1>7

\* Only the row of job j changes.
OnlyJob(j) ==
  /\ job' \in [Job -> JobType]
  /\ \A k \in Job : k # j => job'[k] = job[k]

LEMMA Becoming ==
  ASSUME job \in [Job -> JobType], NEW j \in Job, NEW row \in JobType,
         Becomes(j, row)
  PROVE  OnlyJob(j) /\ job'[j] = row
BY DEF Becomes, OnlyJob

LEMMA Taking ==
  ASSUME job \in [Job -> JobType], NEW j \in Job, NEW d \in Desktop \cup {None},
         NEW outcome \in {"CLAIMED", job[j].outcome}, Taken(j, d, outcome)
  PROVE  /\ OnlyJob(j)
         /\ job'[j].status = "PROCESSING" /\ job'[j].holder = d
         /\ ~job'[j].flag /\ job'[j].outcome = outcome
<1>1. PICK row : row = [status |-> "PROCESSING", holder |-> d, expired |-> FALSE,
                        attempts |-> job[j].attempts + 1, flag |-> FALSE,
                        outcome |-> outcome]
  OBVIOUS
<1>2. /\ row \in JobType
      /\ row.status = "PROCESSING" /\ row.holder = d /\ ~row.flag
      /\ row.outcome = outcome
  BY <1>1 DEF JobType
<1>3. Becomes(j, row)
  BY <1>1 DEF Taken
<1> QED
  BY <1>2, <1>3, Becoming

LEMMA Completing ==
  ASSUME job \in [Job -> JobType], NEW j \in Job, Completes(j)
  PROVE  /\ OnlyJob(j)
         /\ job'[j].status = "SUBMITTED" /\ job'[j].holder = None
         /\ job'[j].flag = job[j].flag
<1>1. PICK row : row = [job[j] EXCEPT !.status = "SUBMITTED", !.holder = None,
                                      !.outcome = "SUBMITTED"]
  OBVIOUS
<1>2. /\ row \in JobType
      /\ row.status = "SUBMITTED" /\ row.holder = None /\ row.flag = job[j].flag
  BY <1>1 DEF JobType
<1>3. Becomes(j, row)
  BY <1>1 DEF Completes
<1> QED
  BY <1>2, <1>3, Becoming

LEMMA Failing ==
  ASSUME job \in [Job -> JobType], NEW j \in Job, NEW doubtful \in BOOLEAN,
         Fails(j, doubtful)
  PROVE  /\ OnlyJob(j)
         /\ job'[j].status \in {"DEAD_LETTER", "PENDING"}
         /\ doubtful => job'[j].status = "DEAD_LETTER"
         /\ job'[j].holder = None
         /\ job'[j].flag = job[j].flag
<1>1. PICK status \in {"DEAD_LETTER", "PENDING"},
           outcome \in {"AMBIGUOUS", "DEAD_LETTER", "FAILED"} :
        /\ Becomes(j, [job[j] EXCEPT !.status = status, !.holder = None,
                                     !.outcome = outcome])
        /\ doubtful => status = "DEAD_LETTER"
  BY DEF Fails
<1>2. PICK row : row = [job[j] EXCEPT !.status = status, !.holder = None,
                                      !.outcome = outcome]
  OBVIOUS
<1>3. /\ row \in JobType
      /\ row.status = status /\ row.holder = None /\ row.flag = job[j].flag
  BY <1>2 DEF JobType
<1>4. Becomes(j, row)
  BY <1>1, <1>2
<1> QED
  BY <1>1, <1>3, <1>4, Becoming

\* What is left to do after an error.
LEMMA AfterErrorType ==
  ASSUME NEW w \in WorkType
  PROVE  /\ AfterError(w) \in WorkType
         /\ AfterError(w).stage = "failing" /\ AfterError(w).todo = {}
         /\ AfterError(w).at = w.at /\ AfterError(w).any = w.any
         /\ AfterError(w).request = w.request /\ AfterError(w).allow = w.allow
         /\ AfterError(w).failure = IF w.any THEN "ambiguous" ELSE "plain"
BY DEF AfterError, WorkType

-----------------------------------------------------------------------------
(* A desktop's step on a job it has claimed: what Dispatch, Start, End,       *)
(* Complete and Fail have in common.                                          *)
OthersRest(d, c) ==
  /\ work' \in [Desktop -> [Copy -> WorkType]]
  /\ \A e \in Desktop, k \in Copy : e # d \/ k # c => work'[e][k] = work[e][k]

OthersMarks(d, c) ==
  /\ target' \in [Desktop -> [Copy -> [Printer -> MarkType]]]
  /\ \A e \in Desktop, k \in Copy : e # d \/ k # c => target'[e][k] = target[e][k]

\* A sheet is added at most for the work's own request, on a target being sent to.
AddsSheets(c, w) ==
  /\ paper' \in [Copy -> [Printer -> [0 .. MaxAsked -> Nat]]]
  /\ \A k \in Copy, q \in Printer, n \in 0 .. MaxAsked :
       \/ paper'[k][q][n] = paper[k][q][n]
       \/ /\ k = c /\ q \in w.at /\ n = w.request
          /\ paper'[k][q][n] = paper[k][q][n] + 1

WorkStep(d, j) ==
  /\ OnlyJob(j)
  /\ job'[j].holder \in {job[j].holder, None}
  /\ job'[j].flag => job'[j] = job[j]
  /\ Fresh(j)' => \/ Fresh(j)
                  \/ /\ job[j].holder = d /\ Resting(d, j)'
                     /\ Blank(paper'[j], work[d][j].request)
  /\ ~Resting(d, j)
  /\ OthersRest(d, j)
  /\ work'[d][j] = Idle \/ KnowsSheets(work'[d][j], paper'[j])
  /\ \/ work'[d][j].request = work[d][j].request /\ ~Resting(d, j)'
     \/ work'[d][j] = Idle
  /\ AddsSheets(j, work[d][j])
  /\ OthersMarks(d, j)
  /\ faults' \in 0 .. MaxFaults
  /\ UNCHANGED <<local, mapped, unaware, retried>>

LEMMA WorkStepKeeps ==
  ASSUME IInv, NEW d \in Desktop, NEW j \in Job, WorkStep(d, j)
  PROVE  IInv'
<1>1. Typed /\ Typed'
  BY TypedIsTypeOK DEF IInv, WorkStep, Typed, OnlyJob, OthersRest, OthersMarks, AddsSheets
<1>2. /\ j \in Copy /\ j # Offline /\ 0 \in 0 .. MaxAsked
      /\ Origin \in Desktop /\ Offline \in Copy
      /\ work'[d][j] = Idle =>
           Resting(d, j)' /\ work'[d][j].request = 0 /\ work'[d][j].at = {}
  BY Constants, IdleType DEF Resting
<1> DEFINE r == work[d][j].request
<1>3. /\ r \in 0 .. MaxAsked /\ r <= retried[j] /\ retried[j] \in 0 .. MaxAsked
      /\ work[d][j].at \subseteq Printer
  BY <1>1, <1>2 DEF Typed, WorkType, IInv, RequestsMade
<1>4. \A q \in Printer, n \in 0 .. MaxAsked : n # r => paper'[j][q][n] = paper[j][q][n]
  BY <1>2 DEF WorkStep, AddsSheets
<1>5. \A k \in Copy : k # j =>
        \A q \in Printer, n \in 0 .. MaxAsked : paper'[k][q][n] = paper[k][q][n]
  BY DEF WorkStep, AddsSheets
<1>6. \A e \in Desktop, k \in Copy : e # d \/ k # j => work'[e][k] = work[e][k]
  BY DEF WorkStep, OthersRest
<1>7. retried' = retried
  BY DEF WorkStep
<1>8. ServerWork'
  <2>1. SUFFICES ASSUME NEW e \in Desktop, NEW k \in Job, ~Resting(e, k)'
                 PROVE  KnowsSheets(work'[e][k], paper'[k])
    BY DEF ServerWork
  <2>2. CASE e = d /\ k = j
    BY <1>2, <2>1, <2>2 DEF WorkStep
  <2>3. CASE e # d /\ k = j
    <3>1. work'[e][k] = work[e][k] /\ ~Resting(e, k)
      BY <1>2, <1>6, <2>1, <2>3 DEF Resting
    <3>2. work[e][j].request # r /\ work[e][j].request \in 0 .. MaxAsked
      <4>1. work[e][j].request # r
        BY <2>3, <3>1 DEF IInv, OneWorker, WorkStep
      <4> QED
        BY <1>1, <1>2, <4>1 DEF Typed, WorkType
    <3>3. work[e][j].todo \cup work[e][j].at \subseteq Printer
      <4>1. work[e][j] \in WorkType
        BY <1>1, <1>2 DEF Typed
      <4> QED
        BY <4>1 DEF WorkType
    <3>4. KnowsSheets(work[e][j], paper[j])
      BY <2>3, <3>1 DEF IInv, ServerWork
    <3> QED
      BY <1>4, <2>3, <3>1, <3>2, <3>3, <3>4 DEF KnowsSheets, Blank
  <2>4. CASE k # j
    <3>1. work'[e][k] = work[e][k] /\ ~Resting(e, k) /\ k \in Copy
      BY <1>6, <2>1, <2>4, Constants DEF Resting
    <3>2. /\ work[e][k].request \in 0 .. MaxAsked
          /\ work[e][k].todo \cup work[e][k].at \subseteq Printer
      BY <1>1, <3>1 DEF Typed, WorkType
    <3> QED
      BY <1>5, <2>4, <3>1, <3>2 DEF IInv, ServerWork, KnowsSheets, Blank
  <2> QED
    BY <2>2, <2>3, <2>4
<1>9. LocalWork'
  <2>1. /\ \A e \in Desktop : work'[e][Offline] = work[e][Offline]
        /\ target'[Origin][Offline] = target[Origin][Offline]
        /\ local' = local
    BY <1>2, <1>6 DEF WorkStep, OthersMarks
  <2>2. retried[Offline] \in 0 .. MaxAsked /\ work[Origin][Offline].at \subseteq Printer
    BY <1>1, <1>2 DEF Typed, WorkType
  <2> QED
    BY <1>2, <1>5, <1>7, <2>1, <2>2 DEF IInv, LocalWork, Resting
<1>10. RequestsMade'
  <2>1. SUFFICES ASSUME NEW k \in Copy
                 PROVE  /\ \A e \in Desktop : work'[e][k].request <= retried[k]
                        /\ \A n \in 0 .. MaxAsked : n > retried[k] => Blank(paper'[k], n)
    BY <1>7 DEF RequestsMade
  <2>2. /\ \A e \in Desktop : work[e][k].request <= retried[k]
        /\ \A n \in 0 .. MaxAsked : n > retried[k] => Blank(paper[k], n)
        /\ retried[k] \in 0 .. MaxAsked
    BY <1>1 DEF IInv, RequestsMade, Typed
  <2>3. work'[d][j].request = r \/ work'[d][j].request = 0
    BY <1>2 DEF WorkStep
  <2>4. \A e \in Desktop : work'[e][k].request <= retried[k]
    BY <1>3, <1>6, <2>2, <2>3
  <2>5. ASSUME NEW n \in 0 .. MaxAsked, n > retried[k], NEW q \in Printer
        PROVE  paper'[k][q][n] = 0
    <3>1. paper[k][q][n] = 0
      BY <2>2, <2>5 DEF Blank
    <3>2. k = j => n # r
      BY <1>3, <2>5
    <3> QED
      BY <1>4, <1>5, <3>1, <3>2
  <2> QED
    BY <2>4, <2>5 DEF Blank
<1>11. HolderCurrent'
  <2>1. SUFFICES ASSUME NEW e \in Desktop, NEW k \in Job,
                        job'[k].holder = e, ~Resting(e, k)'
                 PROVE  work'[e][k].request = retried[k]
    BY <1>7 DEF HolderCurrent
  <2>2. job[k].holder = e
    BY <2>1, Constants DEF WorkStep, OnlyJob
  <2>3. ~Resting(e, k) /\ (work'[e][k].request = work[e][k].request)
    BY <1>2, <1>6, <2>1, Constants DEF WorkStep, Resting
  <2> QED
    BY <2>2, <2>3 DEF IInv, HolderCurrent
<1>12. OneWorker'
  <2>1. \A e \in Desktop, k \in Job : ~Resting(e, k)' =>
          ~Resting(e, k) /\ work'[e][k].request = work[e][k].request
    BY <1>2, <1>6, Constants DEF WorkStep, Resting
  <2> QED
    BY <2>1 DEF IInv, OneWorker
<1>13. FreshIsBlank'
  <2>1. SUFFICES ASSUME NEW k \in Job, Fresh(k)'
                 PROVE  /\ Blank(paper'[k], retried[k])
                        /\ \A e \in Desktop : ~Resting(e, k)' => work'[e][k].request # retried[k]
    BY <1>7 DEF FreshIsBlank
  <2>2. retried[k] \in 0 .. MaxAsked
    BY <1>1, Constants DEF Typed
  <2>3. CASE Fresh(k)
    <3>1. /\ Blank(paper[k], retried[k])
          /\ \A e \in Desktop : ~Resting(e, k) => work[e][k].request # retried[k]
      BY <2>3 DEF IInv, FreshIsBlank
    <3>2. k = j => retried[k] # r
      BY <3>1 DEF WorkStep
    <3>3. \A e \in Desktop : ~Resting(e, k)' =>
            ~Resting(e, k) /\ work'[e][k].request = work[e][k].request
      BY <1>2, <1>6, Constants DEF WorkStep, Resting
    <3> QED
      BY <1>4, <1>5, <2>2, <3>1, <3>2, <3>3, Constants DEF Blank
  <2>4. CASE ~Fresh(k)
    <3>1. k = j
      BY <2>1, <2>4 DEF WorkStep, OnlyJob, Fresh, MayHavePrinted
    <3>2. job[j].holder = d /\ Resting(d, j)' /\ Blank(paper'[j], r)
      BY <2>1, <2>4, <3>1 DEF WorkStep
    <3>3. r = retried[j]
      BY <3>2 DEF IInv, HolderCurrent, WorkStep
    <3>4. \A e \in Desktop : e # d /\ ~Resting(e, j) => work[e][j].request # r
      BY DEF IInv, OneWorker, WorkStep
    <3>5. \A e \in Desktop : ~Resting(e, j)' => e # d /\ ~Resting(e, j)
            /\ work'[e][j].request = work[e][j].request
      BY <1>2, <1>6, <3>2 DEF Resting
    <3> QED
      BY <3>1, <3>2, <3>3, <3>4, <3>5
  <2> QED
    BY <2>3, <2>4
<1>14. FlagIsPending'
  BY DEF IInv, FlagIsPending, WorkStep, OnlyJob
<1>15. OneSheetPerRequest'
  <2>1. SUFFICES ASSUME NEW k \in Copy, NEW q \in Printer, NEW n \in 0 .. MaxAsked
                 PROVE  paper'[k][q][n] <= 1
    BY DEF OneSheetPerRequest
  <2>2. paper[k][q][n] <= 1
    BY DEF IInv, OneSheetPerRequest
  <2>3. CASE paper'[k][q][n] = paper[k][q][n]
    BY <2>2, <2>3
  <2>4. CASE paper'[k][q][n] # paper[k][q][n]
    <3>1. /\ k = j /\ q \in work[d][j].at /\ n = r
          /\ paper'[k][q][n] = paper[k][q][n] + 1
      BY <2>4 DEF WorkStep, AddsSheets
    <3>2. paper[j][q][r] = 0
      BY <3>1 DEF IInv, ServerWork, KnowsSheets, WorkStep
    <3> QED
      BY <3>1, <3>2
  <2> QED
    BY <2>3, <2>4
<1>16. RestIsIdle'
  BY <1>2, <1>6 DEF IInv, RestIsIdle, Resting, WorkStep
<1> QED
  BY <1>1, <1>8, <1>9, <1>10, <1>11, <1>12, <1>13, <1>14, <1>15, <1>16, TypedPrimed DEF IInv

\* The parts of a step that leave something as it is.
LEMMA Frames ==
  ASSUME Typed, NEW d \in Desktop, NEW c \in Copy
  PROVE  /\ UNCHANGED paper => \A w \in WorkType : AddsSheets(c, w)
         /\ UNCHANGED target => OthersMarks(d, c)
         /\ NoFault \/ Fault => faults' \in 0 .. MaxFaults
         /\ UNCHANGED job => \A j \in Job : OnlyJob(j) /\ job'[j] = job[j]
<1>1. UNCHANGED paper => \A w \in WorkType : AddsSheets(c, w)
  BY DEF Typed, AddsSheets
<1>2. UNCHANGED target => OthersMarks(d, c)
  BY DEF Typed, OthersMarks
<1>3. NoFault \/ Fault => faults' \in 0 .. MaxFaults
  BY Constants DEF Typed, NoFault, Fault
<1>4. UNCHANGED job => \A j \in Job : OnlyJob(j) /\ job'[j] = job[j]
  BY DEF Typed, OnlyJob
<1> QED
  BY <1>1, <1>2, <1>3, <1>4

\* A job under a valid lease is not fresh once dispatched, and has no flag.
LEMMA Leased ==
  ASSUME IInv, NEW d \in Desktop, NEW j \in Job, LeaseValid(d, j)
  PROVE  job[j].status = "PROCESSING" /\ job[j].holder = d /\ ~job[j].flag
BY TypedIsTypeOK DEF LeaseValid, IInv, FlagIsPending, Typed, JobType

LEMMA DispatchKeeps ==
  ASSUME IInv, NEW d \in Desktop, NEW j \in Job, Dispatch(d, j)
  PROVE  WorkStep(d, j)
<1>1. /\ Typed /\ j \in Copy
      /\ job \in [Job -> JobType]
      /\ work \in [Desktop -> [Copy -> WorkType]]
  BY TypedIsTypeOK, Constants DEF IInv, Typed
<1>2. /\ work[d][j].stage = "claimed" /\ ~Resting(d, j)
      /\ UNCHANGED <<local, target, mapped, unaware, retried, paper>>
      /\ faults' \in 0 .. MaxFaults
  BY <1>1, Frames DEF Dispatch, Resting
<1>3. PICK v \in WorkType : v = work[d][j]
  BY <1>1
<1>4. /\ Blank(paper[j], v.request) /\ v.at = {} /\ ~v.any
      /\ KnowsSheets(v, paper[j])
  BY <1>2, <1>3 DEF IInv, ServerWork, KnowsSheets
<1>5. PICK w \in WorkType : /\ w = [v EXCEPT !.stage = "printing"] \/ w = AfterError(v)
                            /\ Put(d, j, w)
  <2>1. [v EXCEPT !.stage = "printing"] \in WorkType /\ AfterError(v) \in WorkType
    BY AfterErrorType DEF WorkType
  <2> QED
    BY <1>3, <2>1 DEF Dispatch
<1>6. /\ w.stage # "idle" /\ w.stage # "claimed" /\ w.request = v.request
      /\ w.at = {} /\ w.todo \subseteq v.todo /\ v.todo \subseteq Printer
  BY <1>4, <1>5, AfterErrorType DEF WorkType
<1>7. KnowsSheets(w, paper[j])
  BY <1>4, <1>6 DEF KnowsSheets, Blank
<1>8. /\ OthersRest(d, j) /\ work'[d][j] = w /\ work[d][j] = v /\ ~Resting(d, j)'
  BY <1>1, <1>3, <1>5, <1>6, Putting DEF OthersRest, Resting
<1>9. /\ OnlyJob(j)
      /\ job'[j].holder = job[j].holder
      /\ job'[j].flag => job'[j] = job[j]
      /\ Fresh(j)' => Fresh(j)
  <2>1. CASE UNCHANGED job
    BY <1>1, <2>1, Frames DEF Fresh, MayHavePrinted
  <2>2. CASE LeaseValid(d, j) /\ Becomes(j, [job[j] EXCEPT !.outcome = "DISPATCHING"])
    <3>1. PICK row : row = [job[j] EXCEPT !.outcome = "DISPATCHING"]
      OBVIOUS
    <3>2. /\ row \in JobType /\ row.holder = job[j].holder /\ row.flag = job[j].flag
          /\ row.status = job[j].status /\ row.outcome = "DISPATCHING"
      BY <1>1, <3>1 DEF JobType
    <3>3. OnlyJob(j) /\ job'[j] = row
      BY <1>1, <2>2, <3>1, <3>2, Becoming
    <3> QED
      BY <2>2, <3>2, <3>3, Leased DEF Fresh, MayHavePrinted
  <2> QED
    BY <2>1, <2>2 DEF Dispatch
<1>10. AddsSheets(j, work[d][j]) /\ OthersMarks(d, j)
  BY <1>1, <1>2, <1>3, Frames
<1>11. UNCHANGED <<local, mapped, unaware, retried>> /\ paper' = paper
  BY <1>2
<1> QED
  BY <1>2, <1>6, <1>7, <1>8, <1>9, <1>10, <1>11 DEF WorkStep

LEMMA CompleteKeeps ==
  ASSUME IInv, NEW d \in Desktop, NEW j \in Job, Complete(d, j)
  PROVE  WorkStep(d, j)
<1>1. /\ Typed /\ j \in Copy
      /\ job \in [Job -> JobType]
      /\ work \in [Desktop -> [Copy -> WorkType]]
  BY TypedIsTypeOK, Constants DEF IInv, Typed
<1>2. /\ work[d][j].stage = "printing" /\ ~Resting(d, j)
      /\ work[d][j].todo = {} /\ work[d][j].at = {} /\ work[d][j].failure = "none"
      /\ UNCHANGED <<local, target, mapped, unaware, retried, paper>>
      /\ faults' \in 0 .. MaxFaults
  BY <1>1, Frames DEF Complete, Resting, AllSent
<1>3. PICK v \in WorkType : v = work[d][j]
  BY <1>1
<1>4. KnowsSheets(v, paper[j]) /\ v.failure = "none" /\ v.at = {}
  BY <1>2, <1>3 DEF IInv, ServerWork
<1>5. PICK w \in WorkType : /\ w = Idle \/ w = AfterError(v)
                            /\ Put(d, j, w)
  BY <1>3, IdleType, AfterErrorType DEF Complete
<1>6. /\ OthersRest(d, j) /\ work'[d][j] = w /\ work[d][j] = v
  BY <1>1, <1>3, <1>5, Putting DEF OthersRest
<1>7. \/ work'[d][j] = Idle
      \/ /\ KnowsSheets(work'[d][j], paper[j])
         /\ w.request = v.request /\ ~Resting(d, j)'
  <2>1. CASE w = Idle
    BY <1>6, <2>1
  <2>2. CASE w = AfterError(v)
    BY <1>4, <1>6, <2>2, AfterErrorType DEF KnowsSheets, Resting
  <2> QED
    BY <1>5, <2>1, <2>2
<1>8. /\ OnlyJob(j)
      /\ job'[j].holder \in {job[j].holder, None}
      /\ job'[j].flag => job'[j] = job[j]
      /\ Fresh(j)' => Fresh(j)
  <2>1. CASE UNCHANGED job
    BY <1>1, <2>1, Frames DEF Fresh, MayHavePrinted
  <2>2. CASE LeaseValid(d, j) /\ Completes(j)
    BY <1>1, <2>2, Completing, Leased DEF Fresh
  <2> QED
    BY <2>1, <2>2 DEF Complete
<1>9. AddsSheets(j, work[d][j]) /\ OthersMarks(d, j)
  BY <1>1, <1>2, <1>3, Frames
<1>10. UNCHANGED <<local, mapped, unaware, retried>> /\ paper' = paper
  BY <1>2
<1> QED
  BY <1>2, <1>6, <1>7, <1>8, <1>9, <1>10 DEF WorkStep

LEMMA FailKeeps ==
  ASSUME IInv, NEW d \in Desktop, NEW j \in Job, Fail(d, j)
  PROVE  WorkStep(d, j)
<1>1. /\ Typed /\ j \in Copy
      /\ job \in [Job -> JobType]
      /\ work \in [Desktop -> [Copy -> WorkType]]
  BY TypedIsTypeOK, Constants DEF IInv, Typed
<1>2. /\ ~Resting(d, j) /\ Put(d, j, Idle)
      /\ UNCHANGED <<local, target, mapped, unaware, retried, paper>>
      /\ faults' \in 0 .. MaxFaults
  BY <1>1, Frames DEF Fail, Resting
<1>3. PICK v \in WorkType : v = work[d][j]
  BY <1>1
<1>4. KnowsSheets(v, paper[j])
  BY <1>2, <1>3 DEF IInv, ServerWork
<1>5. /\ OthersRest(d, j) /\ work[d][j] = v /\ Resting(d, j)' /\ work'[d][j] = Idle
  BY <1>1, <1>2, <1>3, IdleType, Putting DEF OthersRest, Resting
<1>6. InDoubt(v) \in BOOLEAN /\ (~InDoubt(v) => Blank(paper[j], v.request))
  BY <1>4 DEF InDoubt, KnowsSheets, WorkType
<1>7. /\ OnlyJob(j)
      /\ job'[j].holder \in {job[j].holder, None}
      /\ job'[j].flag => job'[j] = job[j]
      /\ Fresh(j)' => Fresh(j) \/ (job[j].holder = d /\ Blank(paper[j], v.request))
  <2>1. CASE UNCHANGED job
    BY <1>1, <2>1, Frames DEF Fresh, MayHavePrinted
  <2>2. CASE LeaseValid(d, j) /\ Fails(j, InDoubt(v))
    BY <1>1, <1>6, <2>2, Failing, Leased DEF Fresh
  <2> QED
    BY <1>3, <2>1, <2>2 DEF Fail
<1>8. AddsSheets(j, work[d][j]) /\ OthersMarks(d, j)
  BY <1>1, <1>2, <1>3, Frames
<1>9. UNCHANGED <<local, mapped, unaware, retried>> /\ paper' = paper
  BY <1>2
<1> QED
  BY <1>2, <1>5, <1>7, <1>8, <1>9 DEF WorkStep

\* What sending to a target does to a desktop's work, marks and sheets.
LEMMA Starting ==
  ASSUME Typed, NEW d \in Desktop, NEW c \in Copy, NEW p \in Printer, Start(d, c, p)
  PROVE  /\ work[d][c].stage = "printing" /\ p \in work[d][c].todo
         /\ OthersRest(d, c) /\ OthersMarks(d, c)
         /\ \A q \in Printer : q # p => target'[d][c][q] = target[d][c][q]
         /\ work'[d][c].stage = "printing"
         /\ work'[d][c].request = work[d][c].request
         /\ work'[d][c].any = work[d][c].any
         /\ work'[d][c].allow = work[d][c].allow
         /\ work'[d][c].todo = work[d][c].todo \ {p}
         /\ \/ /\ work'[d][c].at = work[d][c].at
               /\ target'[d][c][p] = target[d][c][p]
               /\ \/ target[d][c][p] = "printed" /\ work'[d][c].failure = work[d][c].failure
                  \/ target[d][c][p] = "ambiguous" /\ work'[d][c].failure = "ambiguous"
            \/ /\ work'[d][c].at = work[d][c].at \cup {p}
               /\ target'[d][c][p] = "ambiguous"
               /\ target[d][c][p] = "none" \/ work[d][c].allow
               /\ work'[d][c].failure = work[d][c].failure
<1>1. /\ work \in [Desktop -> [Copy -> WorkType]]
      /\ target \in [Desktop -> [Copy -> [Printer -> MarkType]]]
  BY DEF Typed
<1>2. PICK v \in WorkType : v = work[d][c]
  BY <1>1
<1>3. PICK u : u = [v EXCEPT !.todo = @ \ {p}]
  OBVIOUS
<1>4. /\ u \in WorkType /\ u.todo = v.todo \ {p} /\ u.stage = v.stage
      /\ u.request = v.request /\ u.any = v.any /\ u.allow = v.allow
      /\ u.at = v.at /\ u.failure = v.failure /\ u.before = v.before
  BY <1>3 DEF WorkType
<1>5. v.stage = "printing" /\ p \in v.todo
  BY <1>2 DEF Start
<1>6. CASE target[d][c][p] = "printed" /\ Put(d, c, u) /\ UNCHANGED target
  BY <1>1, <1>2, <1>4, <1>5, <1>6, Putting DEF OthersRest, OthersMarks
<1>7. CASE /\ target[d][c][p] = "ambiguous"
           /\ Put(d, c, [u EXCEPT !.failure = "ambiguous"]) /\ UNCHANGED target
  <2>1. PICK w : w = [u EXCEPT !.failure = "ambiguous"]
    OBVIOUS
  <2>2. /\ w \in WorkType /\ w.todo = u.todo /\ w.stage = u.stage
        /\ w.request = u.request /\ w.any = u.any /\ w.allow = u.allow
        /\ w.at = u.at /\ w.failure = "ambiguous"
    BY <1>4, <2>1 DEF WorkType
  <2>3. Put(d, c, w)
    BY <1>7, <2>1
  <2>4. OthersRest(d, c) /\ work'[d][c] = w
    BY <1>1, <2>2, <2>3, Putting DEF OthersRest
  <2>5. OthersMarks(d, c)
    BY <1>1, <1>7 DEF OthersMarks
  <2> QED
    BY <1>2, <1>4, <1>5, <1>7, <2>2, <2>4, <2>5
<1>8. CASE /\ target[d][c][p] = "none" \/ v.allow
           /\ Put(d, c, [u EXCEPT !.at = @ \cup {p},
                  !.before = IF target[d][c][p] = "ambiguous" THEN @ \cup {p} ELSE @])
           /\ Records(d, c, p, "ambiguous")
  <2>1. PICK b : b = IF target[d][c][p] = "ambiguous" THEN u.before \cup {p} ELSE u.before
    OBVIOUS
  <2>2. PICK w : w = [u EXCEPT !.at = @ \cup {p}, !.before = b]
    OBVIOUS
  <2>3. b \in SUBSET Printer
    BY <1>4, <2>1 DEF WorkType
  <2>4. /\ w \in WorkType /\ w.todo = u.todo /\ w.stage = u.stage
        /\ w.request = u.request /\ w.any = u.any /\ w.allow = u.allow
        /\ w.at = u.at \cup {p} /\ w.failure = u.failure
    BY <1>4, <2>2, <2>3 DEF WorkType
  <2>5. Put(d, c, w)
    BY <1>8, <2>1, <2>2
  <2>6. /\ target' \in [Desktop -> [Copy -> [Printer -> MarkType]]]
        /\ target'[d][c][p] = "ambiguous"
        /\ \A e \in Desktop, k \in Copy, q \in Printer :
             e # d \/ k # c \/ q # p => target'[e][k][q] = target[e][k][q]
    BY <1>1, <1>8, Recording DEF MarkType
  <2>7. OthersMarks(d, c)
    BY <1>1, <2>6 DEF OthersMarks
  <2> QED
    BY <1>1, <1>2, <1>4, <1>5, <1>8, <2>4, <2>5, <2>6, <2>7, Putting DEF OthersRest
<1> QED
  BY <1>2, <1>3, <1>6, <1>7, <1>8 DEF Start

LEMMA Ending ==
  ASSUME Typed, NEW d \in Desktop, NEW c \in Copy, NEW p \in Printer, End(d, c, p)
  PROVE  /\ p \in work[d][c].at
         /\ OthersRest(d, c) /\ OthersMarks(d, c)
         /\ AddsSheets(c, work[d][c])
         /\ \A q \in Printer : q # p => target'[d][c][q] = target[d][c][q]
         /\ \A q \in Printer : q # p => paper'[c][q] = paper[c][q]
         /\ work'[d][c].stage = work[d][c].stage
         /\ work'[d][c].request = work[d][c].request
         /\ work'[d][c].allow = work[d][c].allow
         /\ work'[d][c].todo = work[d][c].todo
         /\ work'[d][c].at = work[d][c].at \ {p}
         /\ \/ /\ target'[d][c][p] = "printed" /\ work'[d][c].any
               /\ work'[d][c].failure = work[d][c].failure
               /\ paper'[c][p][work[d][c].request] = paper[c][p][work[d][c].request] + 1
            \/ /\ target'[d][c][p] = target[d][c][p]
               /\ work'[d][c].failure = "ambiguous"
            \/ /\ target'[d][c][p] \in {target[d][c][p], "none"}
               /\ paper' = paper
               /\ work'[d][c].failure # "none"
               /\ work[d][c].failure = "ambiguous" => work'[d][c].failure = "ambiguous"
               /\ work'[d][c].any = work[d][c].any
<1>1. /\ work \in [Desktop -> [Copy -> WorkType]]
      /\ target \in [Desktop -> [Copy -> [Printer -> MarkType]]]
      /\ paper \in [Copy -> [Printer -> [0 .. MaxAsked -> Nat]]]
  BY DEF Typed
<1>2. PICK v \in WorkType : v = work[d][c]
  BY <1>1
<1>3. PICK u : u = [v EXCEPT !.at = @ \ {p}]
  OBVIOUS
<1>4. /\ u \in WorkType /\ u.at = v.at \ {p} /\ u.stage = v.stage
      /\ u.request = v.request /\ u.any = v.any /\ u.allow = v.allow
      /\ u.todo = v.todo /\ u.failure = v.failure /\ u.before = v.before
  BY <1>3 DEF WorkType
<1>5. p \in v.at /\ v.request \in 0 .. MaxAsked
  BY <1>2 DEF End, WorkType
\* The new work is u but for any and failure.
<1>6. PICK any \in BOOLEAN, failure \in {"none", "plain", "ambiguous"} :
        /\ Put(d, c, [u EXCEPT !.any = any, !.failure = failure])
        /\ \/ /\ PutsOut(c, p, v.request) /\ Records(d, c, p, "printed")
              /\ any /\ failure = v.failure
           \/ /\ PutsOut(c, p, v.request) /\ UNCHANGED target
              /\ failure = "ambiguous"
           \/ /\ UNCHANGED paper /\ UNCHANGED target
              /\ failure = "ambiguous"
           \/ /\ UNCHANGED paper
              /\ UNCHANGED target \/ Records(d, c, p, "none")
              /\ failure # "none" /\ any = v.any
              /\ v.failure = "ambiguous" => failure = "ambiguous"
  <2>1. /\ [u EXCEPT !.any = TRUE] = [u EXCEPT !.any = TRUE, !.failure = v.failure]
        /\ [[u EXCEPT !.failure = "ambiguous"] EXCEPT !.any = TRUE]
             = [u EXCEPT !.any = TRUE, !.failure = "ambiguous"]
        /\ \A f \in {"none", "plain", "ambiguous"} :
             [u EXCEPT !.failure = f] = [u EXCEPT !.any = v.any, !.failure = f]
        /\ v.failure \in {"none", "plain", "ambiguous"} /\ v.any \in BOOLEAN
        /\ u.failure = v.failure
    BY <1>4 DEF WorkType
  <2> DEFINE With(any, failure) == [u EXCEPT !.any = any, !.failure = failure]
  <2>2. CASE /\ PutsOut(c, p, u.request) /\ Records(d, c, p, "printed")
             /\ Put(d, c, [u EXCEPT !.any = TRUE])
    BY <1>4, <2>1, <2>2
  <2>3. CASE /\ PutsOut(c, p, u.request) /\ UNCHANGED target
             /\ Put(d, c, [[u EXCEPT !.failure = "ambiguous"] EXCEPT !.any = TRUE])
    BY <1>4, <2>1, <2>3
  <2>4. CASE /\ PutsOut(c, p, u.request) \/ UNCHANGED paper
             /\ Put(d, c, [u EXCEPT !.failure = "ambiguous"]) /\ UNCHANGED target
    BY <1>4, <2>1, <2>4
  <2>5. CASE /\ Put(d, c, [u EXCEPT !.failure =
                  IF u.failure = "none" THEN "plain" ELSE u.failure])
             /\ IF p \in u.before THEN UNCHANGED target ELSE Records(d, c, p, "none")
             /\ UNCHANGED paper
    <3>1. PICK f \in {"none", "plain", "ambiguous"} :
            f = IF v.failure = "none" THEN "plain" ELSE v.failure
      BY <2>1
    <3>2. Put(d, c, [u EXCEPT !.any = v.any, !.failure = f])
      BY <2>1, <2>5, <3>1
    <3> QED
      BY <2>1, <2>5, <3>1, <3>2
  <2> QED
    BY <1>2, <1>3, <2>2, <2>3, <2>4, <2>5 DEF End
<1>w. PICK w : w = [u EXCEPT !.any = any, !.failure = failure]
  OBVIOUS
<1>7. /\ w \in WorkType /\ w.at = v.at \ {p} /\ w.stage = v.stage
      /\ w.request = v.request /\ w.any = any /\ w.allow = v.allow
      /\ w.todo = v.todo /\ w.failure = failure
  BY <1>4, <1>6, <1>w DEF WorkType
<1>8. OthersRest(d, c) /\ work'[d][c] = w
  BY <1>1, <1>6, <1>w, <1>7, Putting DEF OthersRest
<1>9. /\ OthersMarks(d, c)
      /\ \A q \in Printer : q # p => target'[d][c][q] = target[d][c][q]
      /\ Records(d, c, p, "printed") => target'[d][c][p] = "printed"
      /\ Records(d, c, p, "none") => target'[d][c][p] = "none"
  <2>1. CASE UNCHANGED target
    BY <1>1, <2>1, Recording DEF OthersMarks, MarkType
  <2>2. CASE \E state \in MarkType : Records(d, c, p, state)
    BY <1>1, <2>2, Recording DEF OthersMarks, MarkType
  <2> QED
    BY <1>6, <1>w, <2>1, <2>2 DEF MarkType
<1>10. /\ AddsSheets(c, v)
       /\ \A q \in Printer : q # p => paper'[c][q] = paper[c][q]
       /\ PutsOut(c, p, v.request) =>
            paper'[c][p][v.request] = paper[c][p][v.request] + 1
  <2>1. CASE UNCHANGED paper
    BY <1>1, <1>5, <2>1, PuttingOut DEF AddsSheets
  <2>2. CASE PutsOut(c, p, v.request)
    <3>1. \A q \in Printer : q # p => paper'[c][q] = paper[c][q]
      BY <1>1, <2>2 DEF PutsOut
    <3> QED
      BY <1>1, <1>5, <2>2, <3>1, PuttingOut DEF AddsSheets
  <2> QED
    BY <1>6, <1>w, <2>1, <2>2
<1> QED
  BY <1>2, <1>5, <1>6, <1>w, <1>7, <1>8, <1>9, <1>10

LEMMA StartKeeps ==
  ASSUME IInv, NEW d \in Desktop, NEW j \in Job, NEW p \in Printer, Start(d, j, p)
  PROVE  WorkStep(d, j)
<1>1. Typed /\ j \in Copy /\ work[d][j] \in WorkType
  BY TypedIsTypeOK, Constants DEF IInv, Typed
<1>2. /\ UNCHANGED <<job, local, mapped, unaware, retried, paper, faults>>
      /\ ~Resting(d, j) /\ ~Resting(d, j)'
  BY <1>1, Starting DEF Start, Resting
<1>3. /\ OnlyJob(j) /\ job' = job /\ (Fresh(j)' => Fresh(j))
      /\ job'[j].holder \in {job[j].holder, None}
  BY <1>1, <1>2, Frames DEF Fresh, MayHavePrinted
<1>4. KnowsSheets(work[d][j], paper[j])
  BY <1>2 DEF IInv, ServerWork
<1>5. KnowsSheets(work'[d][j], paper[j])
  BY <1>1, <1>4, Starting DEF KnowsSheets, Blank
<1>6. AddsSheets(j, work[d][j]) /\ faults' \in 0 .. MaxFaults
  BY <1>1, <1>2, Frames DEF NoFault
<1>7. UNCHANGED <<local, mapped, unaware, retried>> /\ paper' = paper
  BY <1>2
<1> QED
  BY <1>1, <1>2, <1>3, <1>5, <1>6, <1>7, Starting DEF WorkStep

LEMMA EndKeeps ==
  ASSUME IInv, NEW d \in Desktop, NEW j \in Job, NEW p \in Printer, End(d, j, p)
  PROVE  WorkStep(d, j)
<1>1. Typed /\ j \in Copy /\ work[d][j] \in WorkType /\ Idle \in WorkType
  BY TypedIsTypeOK, Constants, IdleType DEF IInv, Typed
<1>2. UNCHANGED <<job, local, mapped, unaware, retried>>
  BY DEF End
<1>3. work[d][j].at # {}
  BY DEF End
<1>4. ~Resting(d, j) /\ ~Resting(d, j)'
  <2>1. ~Resting(d, j)
    BY <1>1, <1>3 DEF IInv, RestIsIdle
  <2> QED
    BY <1>1, <2>1, Ending DEF Resting
<1>5. /\ OnlyJob(j) /\ job' = job /\ (Fresh(j)' => Fresh(j))
      /\ job'[j].holder \in {job[j].holder, None}
  BY <1>1, <1>2, Frames DEF Fresh, MayHavePrinted
<1>6. KnowsSheets(work[d][j], paper[j])
  BY <1>4 DEF IInv, ServerWork
<1>7. KnowsSheets(work'[d][j], paper'[j])
  <2> DEFINE r == work[d][j].request
  <2>1. /\ \A q \in Printer : q # p => paper'[j][q] = paper[j][q]
        /\ work'[d][j].request = r /\ work'[d][j].todo = work[d][j].todo
        /\ work'[d][j].at = work[d][j].at \ {p}
        /\ work'[d][j].stage = work[d][j].stage
        /\ work[d][j].at \cup work[d][j].todo \subseteq Printer
    BY <1>1, Ending DEF WorkType
  <2>2. /\ \A q \in work'[d][j].todo \cup work'[d][j].at : q # p /\ paper'[j][q][r] = 0
        /\ work'[d][j].todo \cap work'[d][j].at = {}
    BY <1>1, <1>6, <2>1, Ending DEF KnowsSheets
  <2>3. work'[d][j].stage # "claimed"
    BY <1>3, <1>6, <2>1 DEF KnowsSheets
  <2>4. ~work'[d][j].any /\ work'[d][j].failure # "ambiguous" => Blank(paper'[j], r)
    BY <1>1, <1>6, Ending DEF KnowsSheets, Blank
  <2> QED
    BY <2>1, <2>2, <2>3, <2>4 DEF KnowsSheets
<1>8. faults' \in 0 .. MaxFaults
  BY <1>1, Frames DEF End
<1>9. UNCHANGED <<local, mapped, unaware, retried>>
  BY <1>2
<1> QED
  BY <1>1, <1>4, <1>5, <1>7, <1>8, <1>9, Ending DEF WorkStep

-----------------------------------------------------------------------------
(* Steps that only change rows of the server, and the other actions.          *)

\* Whatever changes in rows without making a job fresh or giving out a lease.
LEMMA RowsKeep ==
  ASSUME IInv, job' \in [Job -> JobType], unaware' \in BOOLEAN, mapped' \in BOOLEAN,
         local' \in LocalType, local'.state = local.state,
         faults' \in 0 .. MaxFaults,
         UNCHANGED <<target, work, retried, paper>>,
         \A j \in Job : /\ job'[j].holder \in {job[j].holder, None}
                        /\ Fresh(j)' => Fresh(j)
                        /\ job'[j].flag => job'[j] = job[j]
  PROVE  IInv'
<1>1. Typed'
  BY TypedIsTypeOK DEF IInv, Typed
<1>2. ServerWork' /\ LocalWork' /\ RequestsMade' /\ OneWorker' /\ RestIsIdle'
      /\ OneSheetPerRequest'
  BY DEF IInv, ServerWork, LocalWork, RequestsMade, OneWorker, RestIsIdle,
         OneSheetPerRequest, Resting
<1>3. HolderCurrent'
  BY Constants DEF IInv, HolderCurrent, Resting
<1>4. FreshIsBlank'
  BY DEF IInv, FreshIsBlank, Resting
<1>5. FlagIsPending'
  BY DEF IInv, FlagIsPending
<1> QED
  BY <1>1, <1>2, <1>3, <1>4, <1>5, TypedPrimed DEF IInv

LEMMA InitHolds == Init => IInv
<1> SUFFICES ASSUME Init PROVE IInv
  OBVIOUS
<1>1. Typed
  <2>1. job \in [Job -> JobType] /\ work \in [Desktop -> [Copy -> WorkType]]
    BY IdleType, UnqueuedType DEF Init
  <2>2. target \in [Desktop -> [Copy -> [Printer -> MarkType]]]
    BY DEF Init, MarkType
  <2>3. paper \in [Copy -> [Printer -> [0 .. MaxAsked -> Nat]]]
    BY DEF Init
  <2>4. local \in LocalType /\ retried \in [Copy -> 0 .. MaxAsked]
    BY Constants DEF Init, LocalType
  <2>5. mapped \in BOOLEAN /\ unaware \in BOOLEAN
    BY Zenon DEF Init
  <2>6. faults \in 0 .. MaxFaults
    BY Constants DEF Init
  <2> QED
    BY <2>1, <2>2, <2>3, <2>4, <2>5, <2>6 DEF Typed
<1>2. \A d \in Desktop, c \in Copy : /\ Resting(d, c) /\ work[d][c].at = {}
                                     /\ work[d][c].request = 0
  BY IdleType DEF Init, Resting
<1>3. \A c \in Copy, p \in Printer, r \in 0 .. MaxAsked : paper[c][p][r] = 0
  BY DEF Init
<1>4. \A c \in Copy : retried[c] = 0
  BY DEF Init
<1>5. \A j \in Job : job[j].holder = None /\ ~job[j].flag
  BY DEF Init, Unqueued
<1>6. ServerWork /\ LocalWork /\ HolderCurrent /\ OneWorker /\ RestIsIdle
  BY <1>2, <1>3, <1>4, Constants
  DEF ServerWork, LocalWork, HolderCurrent, OneWorker, RestIsIdle
<1>7. RequestsMade /\ FreshIsBlank /\ FlagIsPending /\ OneSheetPerRequest
  BY <1>2, <1>3, <1>4, <1>5, Constants
  DEF RequestsMade, FreshIsBlank, FlagIsPending, OneSheetPerRequest, Blank
<1> QED
  BY <1>1, <1>6, <1>7, TypedIsTypeOK DEF IInv

LEMMA QueuesKeep ==
  ASSUME IInv, QueueSync \/ Learn \/ \E j \in Job : QueueReprint(j)
  PROVE  IInv'
<1>1. Typed
  BY TypedIsTypeOK DEF IInv
<1>2. PICK row : row = [Unqueued EXCEPT !.status = "PENDING"]
  OBVIOUS
<1>3. row \in JobType /\ row.holder = None /\ ~row.flag
  BY <1>2 DEF Unqueued, JobType
<1>4. /\ \A j \in Job : job'[j] = job[j] \/ (job'[j] = row /\ job[j].status = "NONE")
      /\ job' \in [Job -> JobType]
  <2>1. CASE QueueSync
    BY <1>1, <1>2, <1>3, <2>1, Constants DEF QueueSync, Typed
  <2>2. CASE Learn
    BY <1>1, <2>2 DEF Learn, Typed
  <2>3. ASSUME NEW j \in Job, QueueReprint(j)
        PROVE  /\ \A k \in Job : job'[k] = job[k] \/ (job'[k] = row /\ job[k].status = "NONE")
               /\ job' \in [Job -> JobType]
    BY <1>1, <1>2, <1>3, <2>3, Becoming DEF QueueReprint, OnlyJob, Typed
  <2> QED
    BY <2>1, <2>2, <2>3
<1>5. /\ unaware' \in BOOLEAN /\ mapped' \in BOOLEAN /\ local' \in LocalType
      /\ local'.state = local.state /\ faults' \in 0 .. MaxFaults
      /\ UNCHANGED <<target, work, retried, paper>>
  BY <1>1 DEF QueueSync, Learn, QueueReprint, Typed
<1>6. \A j \in Job : /\ job'[j].holder \in {job[j].holder, None}
                     /\ Fresh(j)' => Fresh(j)
                     /\ job'[j].flag => job'[j] = job[j]
  BY <1>3, <1>4 DEF Fresh, MayHavePrinted
<1> QED
  BY <1>4, <1>5, <1>6, RowsKeep

LEMMA ClaimLostKeeps ==
  ASSUME IInv, NEW j \in Job, ClaimLost(j)
  PROVE  IInv'
<1>1. Typed /\ job \in [Job -> JobType] /\ j \in Copy
  BY TypedIsTypeOK, Constants DEF IInv, Typed
<1>2. /\ unaware' \in BOOLEAN /\ mapped' \in BOOLEAN /\ local' \in LocalType
      /\ local'.state = local.state /\ faults' \in 0 .. MaxFaults
      /\ UNCHANGED <<target, work, retried, paper>>
  <2>1. faults' \in 0 .. MaxFaults
    BY <1>1, Frames, Constants DEF ClaimLost
  <2> QED
    BY <1>1, <2>1 DEF ClaimLost, Typed
<1>3. PICK outcome \in {"CLAIMED", job[j].outcome} : Taken(j, None, outcome)
  BY DEF ClaimLost
<1>4. /\ OnlyJob(j) /\ job'[j].status = "PROCESSING" /\ job'[j].holder = None
      /\ ~job'[j].flag /\ job'[j].outcome = outcome
  BY <1>1, <1>3, Taking
<1>5. Fresh(j)' => Fresh(j)
  BY <1>4 DEF Fresh, MayHavePrinted, ClaimLost, Claimable, IInv, FlagIsPending
<1>6. \A k \in Job : /\ job'[k].holder \in {job[k].holder, None}
                     /\ Fresh(k)' => Fresh(k)
                     /\ job'[k].flag => job'[k] = job[k]
  BY <1>4, <1>5 DEF OnlyJob, Fresh, MayHavePrinted
<1> QED
  BY <1>2, <1>4, <1>6, RowsKeep DEF OnlyJob

LEMMA LeasesKeep ==
  ASSUME IInv, NEW j \in Job, Expire(j) \/ PutAside(j)
  PROVE  IInv'
<1>1. Typed /\ job \in [Job -> JobType]
  BY TypedIsTypeOK DEF IInv, Typed
<1>2. /\ unaware' \in BOOLEAN /\ mapped' \in BOOLEAN /\ local' \in LocalType
      /\ local'.state = local.state /\ faults' \in 0 .. MaxFaults
      /\ UNCHANGED <<target, work, retried, paper>>
  BY <1>1 DEF Expire, PutAside, Typed
<1>3. job[j].status = "PROCESSING" /\ ~job[j].flag
  BY <1>1 DEF Expire, PutAside, IInv, FlagIsPending, JobType
<1>4. /\ OnlyJob(j)
      /\ job'[j].holder \in {job[j].holder, None}
      /\ job'[j].flag = job[j].flag
      /\ Fresh(j)' => Fresh(j)
  <2>1. CASE Expire(j)
    <3>1. PICK row : row = [job[j] EXCEPT !.expired = TRUE]
      OBVIOUS
    <3>2. /\ row \in JobType /\ row.holder = job[j].holder /\ row.flag = job[j].flag
          /\ row.status = job[j].status /\ row.outcome = job[j].outcome
      BY <1>1, <3>1 DEF JobType
    <3> QED
      BY <1>1, <2>1, <3>1, <3>2, Becoming DEF Expire, Fresh, MayHavePrinted
  <2>2. CASE PutAside(j)
    <3>1. PICK row : row = [job[j] EXCEPT !.status = "DEAD_LETTER", !.holder = None,
                              !.expired = FALSE, !.outcome = "AMBIGUOUS"]
      OBVIOUS
    <3>2. /\ row \in JobType /\ row.holder = None /\ row.flag = job[j].flag
          /\ row.status = "DEAD_LETTER"
      BY <1>1, <3>1 DEF JobType
    <3> QED
      BY <1>1, <2>2, <3>1, <3>2, Becoming DEF PutAside, Fresh, MayHavePrinted
  <2> QED
    BY <2>1, <2>2
<1>5. \A k \in Job : /\ job'[k].holder \in {job[k].holder, None}
                     /\ Fresh(k)' => Fresh(k)
                     /\ job'[k].flag => job'[k] = job[k]
  BY <1>3, <1>4 DEF OnlyJob, Fresh, MayHavePrinted
<1> QED
  BY <1>2, <1>4, <1>5, RowsKeep DEF OnlyJob

LEMMA LocalClaimLostKeeps ==
  ASSUME IInv, LocalClaimLost
  PROVE  IInv'
<1>1. Typed
  BY TypedIsTypeOK DEF IInv
<1>2. /\ job' \in [Job -> JobType] /\ unaware' \in BOOLEAN /\ mapped' \in BOOLEAN
      /\ UNCHANGED <<target, work, retried, paper, job>>
  BY <1>1 DEF LocalClaimLost, Typed
<1>3. local' \in LocalType /\ local'.state = local.state
  BY <1>1 DEF LocalClaimLost, Typed, LocalType
<1>4. faults' \in 0 .. MaxFaults
  BY <1>1, Frames, Constants DEF LocalClaimLost
<1>5. \A j \in Job : Fresh(j)' => Fresh(j)
  BY <1>2 DEF Fresh, MayHavePrinted
<1> QED
  BY <1>2, <1>3, <1>4, <1>5, RowsKeep

\* A retry opens a new request, for which there is no sheet and no work.
LEMMA RetryKeeps ==
  ASSUME IInv, NEW j \in Job, Retry(j)
  PROVE  IInv'
<1>1. /\ Typed /\ job \in [Job -> JobType] /\ j \in Copy /\ j # Offline
      /\ retried \in [Copy -> 0 .. MaxAsked]
  BY TypedIsTypeOK, Constants DEF IInv, Typed
<1>2. UNCHANGED <<local, target, work, mapped, unaware, paper, faults>>
  BY DEF Retry
<1>3. /\ OnlyJob(j) /\ job'[j].status = "PENDING" /\ job'[j].holder = None
  <2>1. PICK flag \in BOOLEAN : flag = (job[j].outcome = "AMBIGUOUS")
    OBVIOUS
  <2>2. PICK row : row = [job[j] EXCEPT !.status = "PENDING", !.holder = None,
                            !.expired = FALSE, !.attempts = 0, !.flag = flag]
    OBVIOUS
  <2>3. row \in JobType /\ row.holder = None /\ row.status = "PENDING"
    BY <1>1, <2>2 DEF JobType
  <2>4. Becomes(j, row)
    BY <2>1, <2>2 DEF Retry
  <2> QED
    BY <1>1, <2>3, <2>4, Becoming
<1>4. /\ retried' \in [Copy -> 0 .. MaxAsked]
      /\ retried'[j] = retried[j] + 1 /\ retried[j] < MaxAsked
      /\ \A c \in Copy : c # j => retried'[c] = retried[c]
  BY <1>1, Constants DEF Retry
<1>5. Typed'
  BY <1>1, <1>2, <1>3, <1>4 DEF Typed, OnlyJob
<1>6. ServerWork' /\ OneWorker' /\ RestIsIdle' /\ OneSheetPerRequest'
  BY <1>2 DEF IInv, ServerWork, OneWorker, RestIsIdle, OneSheetPerRequest, Resting
<1>7. LocalWork'
  BY <1>1, <1>2, <1>4, Constants DEF IInv, LocalWork, Resting
<1>8. RequestsMade'
  <2>1. \A c \in Copy, d \in Desktop : work[d][c].request \in 0 .. MaxAsked
    BY <1>1 DEF Typed, WorkType
  <2>2. \A c \in Copy : retried[c] <= retried'[c] /\ retried[c] \in Nat /\ retried'[c] \in Nat
    BY <1>1, <1>4
  <2> QED
    BY <1>2, <2>1, <2>2 DEF IInv, RequestsMade
<1>9. HolderCurrent'
  BY <1>1, <1>2, <1>3, <1>4, Constants DEF IInv, HolderCurrent, OnlyJob, Resting
<1>10. FreshIsBlank'
  <2>1. SUFFICES ASSUME NEW k \in Job, Fresh(k)'
                 PROVE  /\ Blank(paper[k], retried'[k])
                        /\ \A d \in Desktop : ~Resting(d, k) => work[d][k].request # retried'[k]
    BY <1>2 DEF FreshIsBlank, Resting
  <2>2. CASE k = j
    <3>1. \A d \in Desktop : work[d][j].request <= retried[j] /\ work[d][j].request \in Nat
      BY <1>1 DEF IInv, RequestsMade, Typed, WorkType
    <3> QED
      BY <1>1, <1>4, <2>2, <3>1 DEF IInv, RequestsMade
  <2>3. CASE k # j
    BY <1>3, <1>4, <2>1, <2>3, Constants DEF IInv, FreshIsBlank, Fresh, MayHavePrinted, OnlyJob
  <2> QED
    BY <2>2, <2>3
<1>11. FlagIsPending'
  BY <1>3 DEF IInv, FlagIsPending, OnlyJob
<1> QED
  BY <1>5, <1>6, <1>7, <1>8, <1>9, <1>10, <1>11, TypedPrimed DEF IInv

\* A desktop takes a fresh job: nothing of its last request is on paper, and no
\* other desktop works on it.
LEMMA ClaimKeeps ==
  ASSUME IInv, NEW d \in Desktop, NEW j \in Job, Claim(d, j)
  PROVE  IInv'
<1>1. /\ Typed /\ job \in [Job -> JobType] /\ j \in Copy /\ j # Offline
      /\ work \in [Desktop -> [Copy -> WorkType]]
      /\ retried[j] \in 0 .. MaxAsked
  BY TypedIsTypeOK, Constants DEF IInv, Typed
<1>2. /\ Resting(d, j) /\ UNCHANGED <<local, target, mapped, retried, paper, faults>>
  BY DEF Claim
<1>3. /\ OnlyJob(j) /\ job'[j].status = "PROCESSING" /\ job'[j].holder = d
      /\ ~job'[j].flag /\ job'[j].outcome = "CLAIMED"
  BY <1>1, Taking DEF Claim
<1>4. Fresh(j)
  BY DEF Claim, Claimable, Fresh, MayHavePrinted, IInv, FlagIsPending
<1>5. /\ Blank(paper[j], retried[j])
      /\ \A e \in Desktop : ~Resting(e, j) => work[e][j].request # retried[j]
  BY <1>4 DEF IInv, FreshIsBlank
<1>6. PICK w \in WorkType :
        /\ Put(d, j, w)
        /\ w.stage \in {"claimed", "printing"} /\ w.at = {} /\ ~w.any
        /\ w.todo \subseteq Printer /\ w.request = retried[j]
  <2> DEFINE doubtful == Noted(d, j, "ambiguous")
             todo == (Targets[j] \ Noted(d, j, "printed")) \ doubtful
  <2>1. PICK stage \in {"claimed", "printing"}, failure \in {"none", "ambiguous"},
             t \in SUBSET Printer, allow \in BOOLEAN, request \in 0 .. MaxAsked :
          /\ request = retried[j]
          /\ Put(d, j, [Idle EXCEPT !.stage = stage, !.allow = allow, !.todo = t,
                                    !.failure = failure, !.request = request])
    <3>1. todo \in SUBSET Printer
      BY <1>1, Constants
    <3>2. job[j].flag \in BOOLEAN
      BY <1>1 DEF JobType
    <3> HIDE DEF todo
    <3> QED
      BY <1>1, <3>1, <3>2 DEF Claim, todo
  <2>2. PICK w : w = [Idle EXCEPT !.stage = stage, !.allow = allow, !.todo = t,
                                  !.failure = failure, !.request = request]
    OBVIOUS
  <2>3. /\ w \in WorkType
        /\ w.stage \in {"claimed", "printing"} /\ w.at = {} /\ ~w.any
        /\ w.todo \subseteq Printer /\ w.request = request
    BY <2>2 DEF WorkType, Idle
  <2> QED
    BY <2>1, <2>2, <2>3
<1>7. /\ work' \in [Desktop -> [Copy -> WorkType]]
      /\ work'[d][j] = w
      /\ \A e \in Desktop, k \in Copy : e # d \/ k # j => work'[e][k] = work[e][k]
  BY <1>1, <1>6, Putting
<1>8. Typed'
  <2>1. unaware' \in BOOLEAN
    BY <1>1 DEF Claim, Typed
  <2> QED
    BY <1>1, <1>2, <1>3, <1>7, <2>1 DEF Typed, OnlyJob
<1>9. ServerWork'
  <2>1. SUFFICES ASSUME NEW e \in Desktop, NEW k \in Job, ~Resting(e, k)'
                 PROVE  KnowsSheets(work'[e][k], paper[k])
    BY <1>2 DEF ServerWork
  <2>2. CASE e = d /\ k = j
    BY <1>5, <1>6, <1>7, <2>2 DEF KnowsSheets, Blank
  <2>3. CASE e # d \/ k # j
    BY <1>7, <2>1, <2>3, Constants DEF IInv, ServerWork, Resting
  <2> QED
    BY <2>2, <2>3
<1>10. LocalWork'
  BY <1>1, <1>2, <1>7, Constants DEF IInv, LocalWork, Resting
<1>11. RequestsMade'
  <2>1. \A e \in Desktop, c \in Copy : work'[e][c].request <= retried[c]
    BY <1>1, <1>6, <1>7 DEF IInv, RequestsMade
  <2> QED
    BY <1>2, <2>1 DEF IInv, RequestsMade
<1>12. HolderCurrent'
  <2>1. SUFFICES ASSUME NEW e \in Desktop, NEW k \in Job,
                        job'[k].holder = e, ~Resting(e, k)'
                 PROVE  work'[e][k].request = retried[k]
    BY <1>2 DEF HolderCurrent
  <2>2. CASE k = j
    BY <1>3, <1>6, <1>7, <2>1, <2>2
  <2>3. CASE k # j
    BY <1>3, <1>7, <2>1, <2>3, Constants DEF IInv, HolderCurrent, OnlyJob, Resting
  <2> QED
    BY <2>2, <2>3
<1>13. OneWorker'
  <2>1. SUFFICES ASSUME NEW k \in Job, NEW e \in Desktop, NEW f \in Desktop, e # f,
                        ~Resting(e, k)', ~Resting(f, k)'
                 PROVE  work'[e][k].request # work'[f][k].request
    BY DEF OneWorker
  <2>2. CASE k = j
    BY <1>1, <1>5, <1>6, <1>7, <2>1, <2>2 DEF IInv, OneWorker, Resting
  <2>3. CASE k # j
    BY <1>7, <2>1, <2>3, Constants DEF IInv, OneWorker, Resting
  <2> QED
    BY <2>2, <2>3
<1>14. FreshIsBlank'
  <2>1. ~Fresh(j)'
    BY <1>3 DEF Fresh, MayHavePrinted
  <2>2. \A k \in Job : k # j => job'[k] = job[k] /\ \A e \in Desktop : work'[e][k] = work[e][k]
    BY <1>3, <1>7, Constants DEF OnlyJob
  <2> QED
    BY <1>2, <2>1, <2>2 DEF IInv, FreshIsBlank, Fresh, MayHavePrinted, Resting
<1>15. FlagIsPending'
  BY <1>3 DEF IInv, FlagIsPending, OnlyJob
<1>16. RestIsIdle'
  BY <1>6, <1>7 DEF IInv, RestIsIdle, Resting
<1>17. OneSheetPerRequest'
  BY <1>2 DEF IInv, OneSheetPerRequest
<1> QED
  BY <1>8, <1>9, <1>10, <1>11, <1>12, <1>13, <1>14, <1>15, <1>16, <1>17, TypedPrimed DEF IInv

\* A step of the offline copy: the rows of the server, and the work on its jobs,
\* stay as they are.
LEMMA LocalStepKeeps ==
  ASSUME IInv, local' \in LocalType, faults' \in 0 .. MaxFaults,
         UNCHANGED <<job, mapped, unaware>>,
         OthersRest(Origin, Offline), OthersMarks(Origin, Offline),
         retried' \in [Copy -> 0 .. MaxAsked],
         \A c \in Copy : c # Offline => retried'[c] = retried[c],
         retried[Offline] <= retried'[Offline],
         AddsSheets(Offline, work[Origin][Offline]),
         work'[Origin][Offline].request <= retried'[Offline],
         Resting(Origin, Offline)' => work'[Origin][Offline].at = {},
         LocalWork'
  PROVE  IInv'
<1>1. /\ Typed /\ Offline \in Copy /\ Offline \notin Job /\ Origin \in Desktop
      /\ Job \subseteq Copy
  BY TypedIsTypeOK, Constants DEF IInv
<1>2. Typed'
  BY <1>1 DEF Typed, OthersRest, OthersMarks, AddsSheets
<1>3. /\ \A e \in Desktop, k \in Job : work'[e][k] = work[e][k]
      /\ \A k \in Job : retried'[k] = retried[k]
      /\ \A e \in Desktop : e # Origin => work'[e][Offline] = work[e][Offline]
  BY <1>1 DEF OthersRest
<1>0. \A k \in Copy, q \in Printer, n \in 0 .. MaxAsked :
        \/ paper'[k][q][n] = paper[k][q][n]
        \/ /\ k = Offline /\ q \in work[Origin][Offline].at
           /\ n = work[Origin][Offline].request
           /\ paper'[k][q][n] = paper[k][q][n] + 1
  <2>1. PICK w : w = work[Origin][Offline]
    OBVIOUS
  <2>2. AddsSheets(Offline, w)
    BY <2>1
  <2> QED
    BY <2>1, <2>2 DEF AddsSheets
<1>4. \A k \in Job, q \in Printer, n \in 0 .. MaxAsked : paper'[k][q][n] = paper[k][q][n]
  BY <1>0, <1>1
<1>5. ServerWork'
  <2>1. SUFFICES ASSUME NEW e \in Desktop, NEW k \in Job, ~Resting(e, k)'
                 PROVE  KnowsSheets(work'[e][k], paper'[k])
    BY DEF ServerWork
  <2>2. /\ work[e][k].request \in 0 .. MaxAsked
        /\ work[e][k].todo \cup work[e][k].at \subseteq Printer
    BY <1>1 DEF Typed, WorkType
  <2>3. KnowsSheets(work[e][k], paper[k])
    BY <1>3, <2>1 DEF IInv, ServerWork, Resting
  <2>4. \A q \in Printer :
          paper'[k][q][work[e][k].request] = paper[k][q][work[e][k].request]
    BY <1>4, <2>2
  <2>5. KnowsSheets(work[e][k], paper'[k])
    BY <2>2, <2>3, <2>4 DEF KnowsSheets, Blank
  <2>6. work'[e][k] = work[e][k]
    BY <1>3
  <2> QED
    BY <2>5, <2>6
<1>6. RequestsMade'
  <2>1. SUFFICES ASSUME NEW k \in Copy
                 PROVE  /\ \A e \in Desktop : work'[e][k].request <= retried'[k]
                        /\ \A n \in 0 .. MaxAsked : n > retried'[k] => Blank(paper'[k], n)
    BY DEF RequestsMade
  <2>2. /\ \A e \in Desktop : /\ work[e][k].request <= retried[k]
                              /\ work[e][k].request \in Nat
        /\ \A n \in 0 .. MaxAsked : n > retried[k] => Blank(paper[k], n)
        /\ retried[k] \in Nat /\ retried'[k] \in Nat
    BY <1>1, <1>2 DEF IInv, RequestsMade, Typed, WorkType
  <2>3. CASE k # Offline
    BY <1>3, <1>4, <2>2, <2>3 DEF Copy, Blank
  <2>4. CASE k = Offline
    <3>1. \A e \in Desktop : work'[e][k].request <= retried'[k]
      BY <1>3, <2>2, <2>4
    <3>2. ASSUME NEW n \in 0 .. MaxAsked, n > retried'[k], NEW q \in Printer
          PROVE  paper'[k][q][n] = 0
      <4>1. n > retried[k] /\ n # work[Origin][Offline].request
        BY <1>1, <2>2, <2>4, <3>2
      <4>2. paper[k][q][n] = 0
        BY <2>2, <4>1 DEF Blank
      <4> QED
        BY <1>0, <4>1, <4>2
    <3> QED
      BY <3>1, <3>2 DEF Blank
  <2> QED
    BY <2>3, <2>4
<1>7. HolderCurrent' /\ OneWorker' /\ FlagIsPending'
  BY <1>3 DEF IInv, HolderCurrent, OneWorker, FlagIsPending, Resting
<1>8. FreshIsBlank'
  <2>1. SUFFICES ASSUME NEW k \in Job, Fresh(k)
                 PROVE  /\ Blank(paper'[k], retried[k])
                        /\ \A e \in Desktop : ~Resting(e, k) => work[e][k].request # retried[k]
    BY <1>3 DEF FreshIsBlank, Fresh, MayHavePrinted, Resting
  <2>2. retried[k] \in 0 .. MaxAsked
    BY <1>1 DEF Typed
  <2> QED
    BY <1>4, <2>1, <2>2 DEF IInv, FreshIsBlank, Blank
<1>9. RestIsIdle'
  BY <1>1, <1>3 DEF IInv, RestIsIdle, Resting, OthersRest
<1>10. OneSheetPerRequest'
  <2>1. SUFFICES ASSUME NEW k \in Copy, NEW q \in Printer, NEW n \in 0 .. MaxAsked
                 PROVE  paper'[k][q][n] <= 1
    BY DEF OneSheetPerRequest
  <2>2. paper[k][q][n] <= 1
    BY DEF IInv, OneSheetPerRequest
  <2>3. CASE paper'[k][q][n] = paper[k][q][n]
    BY <2>2, <2>3
  <2>4. CASE paper'[k][q][n] # paper[k][q][n]
    <3>1. /\ k = Offline /\ q \in work[Origin][Offline].at
          /\ n = work[Origin][Offline].request
          /\ paper'[k][q][n] = paper[k][q][n] + 1
      BY <1>0, <2>4
    <3>2. ~Resting(Origin, Offline)
      BY <1>1, <3>1 DEF IInv, RestIsIdle
    <3>3. paper[Offline][q][n] = 0
      BY <3>1, <3>2 DEF IInv, LocalWork
    <3> QED
      BY <3>1, <3>3
  <2> QED
    BY <2>3, <2>4
<1> QED
  BY <1>2, <1>5, <1>6, <1>7, <1>8, <1>9, <1>10, TypedPrimed DEF IInv

LEMMA LocalSendKeeps ==
  ASSUME IInv, NEW d \in Desktop, NEW p \in Printer,
         Start(d, Offline, p) \/ End(d, Offline, p)
  PROVE  IInv'
<1>1. /\ Typed /\ Offline \in Copy /\ work[Origin][Offline] \in WorkType
      /\ Origin \in Desktop /\ retried[Offline] \in 0 .. MaxAsked
  BY TypedIsTypeOK, Constants DEF IInv, Typed
<1>2. ~Resting(d, Offline)
  <2>1. CASE Start(d, Offline, p)
    BY <1>1, <2>1, Starting DEF Resting
  <2>2. CASE End(d, Offline, p)
    <3>1. p \in work[d][Offline].at
      BY <1>1, <2>2, Ending
    <3> QED
      BY <1>1, <3>1 DEF IInv, RestIsIdle
  <2> QED
    BY <2>1, <2>2
<1>3. d = Origin
  BY <1>2 DEF IInv, LocalWork
<1> DEFINE n == retried[Offline]
<1>4. /\ local.state = "printing" /\ ~work[Origin][Offline].allow
      /\ work[Origin][Offline].request = n
      /\ \A q \in work[Origin][Offline].at :
           target[Origin][Offline][q] = "ambiguous" /\ paper[Offline][q][n] = 0
      /\ \A q \in Printer : target[Origin][Offline][q] = "none" => paper[Offline][q][n] = 0
  BY <1>2, <1>3 DEF IInv, LocalWork
<1>5. /\ UNCHANGED <<job, local, mapped, unaware, retried>>
      /\ faults' \in 0 .. MaxFaults
  <2>1. faults' \in 0 .. MaxFaults
    BY <1>1, Frames DEF Start, End, NoFault
  <2> QED
    BY <2>1 DEF Start, End
<1>6. /\ OthersRest(Origin, Offline) /\ OthersMarks(Origin, Offline)
      /\ AddsSheets(Offline, work[Origin][Offline])
      /\ work'[Origin][Offline].request = n /\ ~work'[Origin][Offline].allow
      /\ ~Resting(Origin, Offline)'
      /\ \A q \in work'[Origin][Offline].at :
           target'[Origin][Offline][q] = "ambiguous" /\ paper'[Offline][q][n] = 0
      /\ \A q \in Printer : target'[Origin][Offline][q] = "none" => paper'[Offline][q][n] = 0
  <2>1. CASE Start(d, Offline, p)
    <3>1. paper' = paper
      BY <2>1 DEF Start
    <3>2. AddsSheets(Offline, work[Origin][Offline])
      BY <1>1, <3>1, Frames
    <3>3. work'[Origin][Offline].at \subseteq work[Origin][Offline].at \cup {p}
      BY <1>1, <1>3, <2>1, Starting
    <3>4. /\ OthersRest(Origin, Offline) /\ OthersMarks(Origin, Offline)
          /\ work'[Origin][Offline].request = n /\ ~work'[Origin][Offline].allow
          /\ ~Resting(Origin, Offline)'
      BY <1>1, <1>3, <1>4, <2>1, Starting DEF Resting
    <3>5. \A q \in work'[Origin][Offline].at :
            target'[Origin][Offline][q] = "ambiguous" /\ paper'[Offline][q][n] = 0
      <4>1. /\ \A q \in Printer : q # p => target'[Origin][Offline][q] = target[Origin][Offline][q]
            /\ \/ /\ work'[Origin][Offline].at = work[Origin][Offline].at
                  /\ target'[Origin][Offline][p] = target[Origin][Offline][p]
               \/ /\ target'[Origin][Offline][p] = "ambiguous"
                  /\ target[Origin][Offline][p] = "none"
        BY <1>1, <1>3, <1>4, <2>1, Starting
      <4>2. work[Origin][Offline].at \subseteq Printer
        BY <1>1 DEF WorkType
      <4> QED
        BY <1>4, <3>1, <3>3, <4>1, <4>2
    <3>6. \A q \in Printer : target'[Origin][Offline][q] = "none" =>
            target[Origin][Offline][q] = "none"
      BY <1>1, <1>3, <2>1, Starting
    <3> QED
      BY <1>4, <3>1, <3>2, <3>4, <3>5, <3>6
  <2>2. CASE End(d, Offline, p)
    <3>1. /\ OthersRest(Origin, Offline) /\ OthersMarks(Origin, Offline)
          /\ AddsSheets(Offline, work[Origin][Offline])
          /\ work'[Origin][Offline].request = n /\ ~work'[Origin][Offline].allow
          /\ ~Resting(Origin, Offline)'
          /\ p \in work[Origin][Offline].at
          /\ work'[Origin][Offline].at = work[Origin][Offline].at \ {p}
      BY <1>1, <1>2, <1>3, <1>4, <2>2, Ending DEF Resting
    <3>2. \A q \in Printer : q # p => /\ target'[Origin][Offline][q] = target[Origin][Offline][q]
                                      /\ paper'[Offline][q] = paper[Offline][q]
      BY <1>1, <1>3, <2>2, Ending
    <3>3. target'[Origin][Offline][p] = "none" => paper'[Offline][p][n] = 0
      <4>1. target[Origin][Offline][p] = "ambiguous" /\ paper[Offline][p][n] = 0
        BY <1>4, <3>1
      <4>2. target'[Origin][Offline][p] = "none" =>
              target[Origin][Offline][p] = "none" \/ paper' = paper
        BY <1>1, <1>3, <2>2, Ending
      <4> QED
        BY <4>1, <4>2
    <3>4. work[Origin][Offline].at \subseteq Printer
      BY <1>1 DEF WorkType
    <3>5. \A q \in work'[Origin][Offline].at :
            target'[Origin][Offline][q] = "ambiguous" /\ paper'[Offline][q][n] = 0
      BY <1>4, <3>1, <3>2, <3>4
    <3>6. \A q \in Printer : target'[Origin][Offline][q] = "none" => paper'[Offline][q][n] = 0
      BY <1>4, <3>2, <3>3
    <3> QED
      BY <3>1, <3>5, <3>6
  <2> QED
    BY <2>1, <2>2
<1>7. LocalWork'
  <2>1. \A e \in Desktop : e # Origin => Resting(e, Offline)'
    BY <1>1, <1>6 DEF IInv, LocalWork, Resting, OthersRest
  <2> QED
    BY <1>4, <1>5, <1>6, <2>1 DEF LocalWork
<1>8. local' \in LocalType /\ retried' \in [Copy -> 0 .. MaxAsked]
  BY <1>1, <1>5 DEF Typed
<1>9. n <= n
  BY <1>1
<1> QED
  BY <1>1, <1>5, <1>6, <1>7, <1>8, <1>9, LocalStepKeeps

LEMMA LocalClaimKeeps ==
  ASSUME IInv, LocalClaim
  PROVE  IInv'
<1>1. /\ Typed /\ Offline \in Copy /\ Origin \in Desktop
      /\ work \in [Desktop -> [Copy -> WorkType]]
      /\ local \in LocalType /\ retried \in [Copy -> 0 .. MaxAsked]
      /\ retried[Offline] \in 0 .. MaxAsked
  BY TypedIsTypeOK, Constants DEF IInv, Typed
<1>2. UNCHANGED <<job, target, mapped, unaware, retried, paper, faults>>
  BY DEF LocalClaim
<1>3. PICK t, request : t = Targets[Offline] /\ request = retried[Offline]
  OBVIOUS
<1>4. PICK w : w = [Idle EXCEPT !.stage = "printing", !.todo = t, !.request = request]
  OBVIOUS
<1>5. /\ w \in WorkType /\ w.stage = "printing" /\ w.at = {} /\ ~w.allow
      /\ w.request = retried[Offline]
  BY <1>1, <1>3, <1>4, Constants DEF WorkType, Idle
<1>6. Put(Origin, Offline, w)
  BY <1>3, <1>4 DEF LocalClaim
<1>7. OthersRest(Origin, Offline) /\ work'[Origin][Offline] = w
  BY <1>1, <1>5, <1>6, Putting DEF OthersRest
<1>8. local' \in LocalType /\ local'.state = "printing"
  BY <1>1 DEF LocalClaim, LocalType
<1>9. /\ OthersMarks(Origin, Offline) /\ AddsSheets(Offline, work[Origin][Offline])
      /\ faults' \in 0 .. MaxFaults
  BY <1>1, <1>2, Frames DEF NoFault
<1>10. LocalWork'
  <2>1. \A e \in Desktop : e # Origin => Resting(e, Offline)'
    BY <1>1, <1>7 DEF IInv, LocalWork, Resting, OthersRest
  <2> QED
    BY <1>2, <1>5, <1>7, <1>8, <2>1 DEF IInv, LocalWork
<1> QED
  BY <1>1, <1>2, <1>5, <1>7, <1>8, <1>9, <1>10, LocalStepKeeps DEF Resting

LEMMA LocalFinishKeeps ==
  ASSUME IInv, LocalFinish
  PROVE  IInv'
<1>0. /\ Typed /\ Offline \in Copy /\ Origin \in Desktop
      /\ retried \in [Copy -> 0 .. MaxAsked]
  BY TypedIsTypeOK, Constants DEF IInv, Typed
<1>1. /\ Typed /\ Offline \in Copy /\ Origin \in Desktop
      /\ work \in [Desktop -> [Copy -> WorkType]]
      /\ local \in LocalType /\ retried \in [Copy -> 0 .. MaxAsked]
      /\ retried[Offline] \in Nat /\ 0 <= retried[Offline]
  <2>1. retried[Offline] \in 0 .. MaxAsked
    BY <1>0
  <2> QED BY <1>0, <2>1 DEF Typed
<1>2. UNCHANGED <<job, target, mapped, unaware, retried, paper>>
  BY DEF LocalFinish
<1>3. OthersRest(Origin, Offline) /\ work'[Origin][Offline] = Idle
  BY <1>1, IdleType, Putting DEF LocalFinish, OthersRest
<1>4. local' \in LocalType
  BY <1>1 DEF LocalFinish, LocalOutcome, LocalType
<1>5. OthersMarks(Origin, Offline) /\ AddsSheets(Offline, work[Origin][Offline])
  BY <1>1, <1>2, Frames
<1>6. faults' \in 0 .. MaxFaults
  BY <1>1, Frames DEF LocalFinish
<1>7. LocalWork'
  <2>1. \A e \in Desktop : Resting(e, Offline)'
    BY <1>1, <1>3, IdleType DEF IInv, LocalWork, Resting, OthersRest
  <2> QED
    BY <1>1, <1>2, <2>1 DEF IInv, LocalWork
<1> QED
  BY <1>1, <1>2, <1>3, <1>4, <1>5, <1>6, <1>7, IdleType, LocalStepKeeps

LEMMA LocalRetryKeeps ==
  ASSUME IInv, LocalRetry
  PROVE  IInv'
<1>1. /\ Typed /\ Offline \in Copy /\ Origin \in Desktop
      /\ work \in [Desktop -> [Copy -> WorkType]]
      /\ target \in [Desktop -> [Copy -> [Printer -> MarkType]]]
      /\ retried \in [Copy -> 0 .. MaxAsked]
  BY TypedIsTypeOK, Constants DEF IInv, Typed
<1>2. UNCHANGED <<job, work, mapped, unaware, paper, faults>>
  BY DEF LocalRetry
<1>3. Resting(Origin, Offline)
  BY DEF LocalRetry, IInv, LocalWork
<1>4. /\ retried' \in [Copy -> 0 .. MaxAsked]
      /\ retried'[Offline] = retried[Offline] + 1 /\ retried[Offline] < MaxAsked
      /\ \A c \in Copy : c # Offline => retried'[c] = retried[c]
  BY <1>1, Constants DEF LocalRetry
<1>5. OthersMarks(Origin, Offline)
  <2>1. PICK marks : marks = [p \in Printer |->
          IF target[Origin][Offline][p] = "ambiguous" THEN "none"
          ELSE target[Origin][Offline][p]]
    OBVIOUS
  <2>2. marks \in [Printer -> MarkType]
    BY <1>1, <2>1 DEF MarkType
  <2>3. target' = [target EXCEPT ![Origin][Offline] = marks]
    BY <2>1 DEF LocalRetry
  <2> QED
    BY <1>1, <2>2, <2>3 DEF OthersMarks
<1>6. local' \in LocalType
  BY DEF LocalRetry, LocalType
<1>7. OthersRest(Origin, Offline) /\ AddsSheets(Offline, work[Origin][Offline])
  BY <1>1, <1>2, Frames DEF OthersRest
<1>8. /\ work[Origin][Offline].request <= retried[Offline]
      /\ work[Origin][Offline].request \in Nat /\ retried[Offline] \in Nat
      /\ work[Origin][Offline].at = {}
  BY <1>1, <1>3 DEF IInv, RequestsMade, RestIsIdle, WorkType
<1>9. \A p \in Printer : paper[Offline][p][retried[Offline] + 1] = 0
  BY <1>1, <1>4, <1>8 DEF IInv, RequestsMade, Blank
<1>10. LocalWork'
  BY <1>2, <1>3, <1>4, <1>9 DEF IInv, LocalWork, Resting
<1>11. faults' \in 0 .. MaxFaults
  BY <1>1, <1>2 DEF Typed
<1> QED
  BY <1>2, <1>4, <1>5, <1>6, <1>7, <1>8, <1>10, <1>11, LocalStepKeeps

LEMMA CrashKeeps ==
  ASSUME IInv, NEW d \in Desktop, Crash(d)
  PROVE  IInv'
<1>1. /\ Typed /\ Offline \in Copy /\ Origin \in Desktop
      /\ work \in [Desktop -> [Copy -> WorkType]]
      /\ local \in LocalType /\ retried \in [Copy -> 0 .. MaxAsked]
  BY TypedIsTypeOK, Constants DEF IInv, Typed
<1>2. UNCHANGED <<job, target, mapped, unaware, retried, paper>>
  BY DEF Crash
<1>3. /\ work' \in [Desktop -> [Copy -> WorkType]]
      /\ \A c \in Copy : work'[d][c] = Idle
      /\ \A e \in Desktop : e # d => work'[e] = work[e]
  BY <1>1, IdleType DEF Crash
<1>4. \A e \in Desktop, c \in Copy : ~Resting(e, c)' =>
        e # d /\ ~Resting(e, c) /\ work'[e][c] = work[e][c]
  BY <1>3, IdleType DEF Resting
<1>5. local' \in LocalType
  BY <1>1 DEF Crash, LocalType
<1>6. faults' \in 0 .. MaxFaults
  BY <1>1, Frames, Constants DEF Crash
<1>7. Typed'
  BY <1>1, <1>2, <1>3, <1>5, <1>6 DEF Typed
<1>8. ServerWork'
  BY <1>2, <1>4, Constants DEF IInv, ServerWork
<1>9. LocalWork'
  <2>1. ~Resting(Origin, Offline)' => local' = local
    BY <1>1, <1>4 DEF Crash
  <2>2. ~Resting(Origin, Offline)' => ~Resting(Origin, Offline)
                                      /\ work'[Origin][Offline] = work[Origin][Offline]
    BY <1>1, <1>4
  <2>3. \A e \in Desktop : e # Origin => Resting(e, Offline)'
    BY <1>1, <1>4 DEF IInv, LocalWork
  <2> QED
    BY <1>2, <2>1, <2>2, <2>3 DEF IInv, LocalWork
<1>10. RequestsMade'
  <2>1. \A c \in Copy : retried[c] \in Nat /\ 0 <= retried[c]
    BY <1>1
  <2>2. \A e \in Desktop, c \in Copy : work'[e][c].request <= retried[c]
    BY <1>3, <2>1, IdleType DEF IInv, RequestsMade
  <2> QED
    BY <1>2, <2>2 DEF IInv, RequestsMade
<1>11. HolderCurrent' /\ OneWorker'
  BY <1>2, <1>4, Constants DEF IInv, HolderCurrent, OneWorker
<1>12. FreshIsBlank' /\ FlagIsPending' /\ OneSheetPerRequest'
  BY <1>2, <1>4, Constants
  DEF IInv, FreshIsBlank, FlagIsPending, OneSheetPerRequest, Fresh, MayHavePrinted
<1>13. RestIsIdle'
  BY <1>3, IdleType DEF IInv, RestIsIdle, Resting
<1> QED
  BY <1>7, <1>8, <1>9, <1>10, <1>11, <1>12, <1>13, TypedPrimed DEF IInv

-----------------------------------------------------------------------------
(* The theorems about a single sheet per request.                             *)
LEMMA NextKeeps ==
  ASSUME IInv, [Next]_vars
  PROVE  IInv'
<1>1. CASE QueueSync \/ Learn \/ \E j \in Job : QueueReprint(j)
  BY <1>1, QueuesKeep
<1>2. ASSUME NEW j \in Job, ClaimLost(j)
      PROVE  IInv'
  BY <1>2, ClaimLostKeeps
<1>3. ASSUME NEW j \in Job, Expire(j) \/ PutAside(j)
      PROVE  IInv'
  BY <1>3, LeasesKeep
<1>4. ASSUME NEW j \in Job, Retry(j)
      PROVE  IInv'
  BY <1>4, RetryKeeps
<1>5. ASSUME NEW d \in Desktop, NEW j \in Job, Claim(d, j)
      PROVE  IInv'
  BY <1>5, ClaimKeeps
<1>6. ASSUME NEW d \in Desktop, NEW j \in Job,
             Dispatch(d, j) \/ Complete(d, j) \/ Fail(d, j)
      PROVE  IInv'
  <2>1. WorkStep(d, j)
    BY <1>6, DispatchKeeps, CompleteKeeps, FailKeeps
  <2> QED
    BY <2>1, WorkStepKeeps
<1>7. ASSUME NEW d \in Desktop, NEW c \in Copy, NEW p \in Printer,
             Start(d, c, p) \/ End(d, c, p)
      PROVE  IInv'
  <2>1. CASE c = Offline
    BY <1>7, <2>1, LocalSendKeeps
  <2>2. CASE c \in Job
    <3>1. WorkStep(d, c)
      BY <1>7, <2>2, StartKeeps, EndKeeps
    <3> QED
      BY <2>2, <3>1, WorkStepKeeps
  <2> QED
    BY <2>1, <2>2 DEF Copy
<1>8. CASE LocalClaim
  BY <1>8, LocalClaimKeeps
<1>9. CASE LocalClaimLost
  BY <1>9, LocalClaimLostKeeps
<1>10. CASE LocalFinish
  BY <1>10, LocalFinishKeeps
<1>11. CASE LocalRetry
  BY <1>11, LocalRetryKeeps
<1>12. ASSUME NEW d \in Desktop, Crash(d)
       PROVE  IInv'
  BY <1>12, CrashKeeps
<1>13. CASE UNCHANGED vars
  <2>1. TypeOK' /\ FlagIsPending' /\ OneSheetPerRequest'
    BY <1>13 DEF vars, IInv, TypeOK, FlagIsPending, OneSheetPerRequest
  <2>2. ServerWork' /\ RestIsIdle' /\ HolderCurrent' /\ OneWorker'
    BY <1>13 DEF vars, IInv, ServerWork, RestIsIdle, HolderCurrent, OneWorker, KnowsSheets,
       Resting
  <2>3. RequestsMade' /\ FreshIsBlank'
    BY <1>13 DEF vars, IInv, RequestsMade, FreshIsBlank, Fresh, MayHavePrinted, Blank, Resting
  <2>4. LocalWork'
    BY <1>13 DEF vars, IInv, LocalWork, Resting
  <2> QED BY <2>1, <2>2, <2>3, <2>4 DEF IInv
<1> QED
  BY <1>1, <1>2, <1>3, <1>4, <1>5, <1>6, <1>7, <1>8, <1>9, <1>10, <1>11, <1>12, <1>13
  DEF Next

\* The inductive invariant holds.
THEOREM Inductive == Spec => []IInv
<1>1. Init => IInv
  BY InitHolds
<1>2. IInv /\ [Next]_vars => IInv'
  BY NextKeeps
<1> QED
  BY <1>1, <1>2, PTL DEF Spec

\* Types, for any number of desktops, printers, jobs, retries and faults.
THEOREM TypeOKHolds == Spec => []TypeOK
<1>1. IInv => TypeOK
  BY DEF IInv
<1> QED
  BY <1>1, Inductive, PTL

\* However messages are lost, leases run out, printers fail and desktops stop, a
\* request puts out at most one sheet of a copy on each of its printers.
THEOREM OneSheetPerRequestHolds == Spec => []OneSheetPerRequest
<1>1. IInv => OneSheetPerRequest
  BY DEF IInv
<1> QED
  BY <1>1, Inductive, PTL

-----------------------------------------------------------------------------
(* What is submitted or put aside stays so until an operator asks.            *)
LEMMA OthersStay ==
  ASSUME Typed, NEW j \in Job, NEW row, Becomes(j, row)
  PROVE  \A k \in Job : k # j => job'[k] = job[k]
BY DEF Becomes, Typed

\* Steps that leave the server's rows alone.
DesktopsOwn ==
  \/ Learn \/ LocalClaim \/ LocalClaimLost \/ LocalFinish \/ LocalRetry
  \/ \E d \in Desktop : Crash(d)
  \/ \E d \in Desktop, c \in Copy, p \in Printer : Start(d, c, p) \/ End(d, c, p)
  \/ UNCHANGED vars

LEMMA RowsStay ==
  ASSUME DesktopsOwn
  PROVE  UNCHANGED job
<1>1. CASE Learn \/ LocalClaim \/ LocalClaimLost
  BY <1>1 DEF Learn, LocalClaim, LocalClaimLost
<1>2. CASE LocalFinish \/ LocalRetry
  BY <1>2 DEF LocalFinish, LocalRetry
<1>3. CASE \E d \in Desktop : Crash(d)
  BY <1>3 DEF Crash
<1>4. ASSUME NEW d \in Desktop, NEW c \in Copy, NEW p \in Printer,
             Start(d, c, p) \/ End(d, c, p)
      PROVE  UNCHANGED job
  BY <1>4 DEF Start, End
<1>5. CASE UNCHANGED vars
  BY <1>5 DEF vars
<1> QED
  BY <1>1, <1>2, <1>3, <1>4, <1>5 DEF DesktopsOwn

LEMMA OnlyOperatorsMove ==
  ASSUME IInv, [Next]_vars, NEW j \in Job,
         job[j].status \in {"SUBMITTED", "DEAD_LETTER"}
  PROVE  \/ job'[j] = job[j]
         \/ job[j].status = "DEAD_LETTER" /\ retried'[j] = retried[j] + 1
<1>1. Typed /\ j \in Copy
  BY TypedIsTypeOK, Constants DEF IInv
<1>2. CASE QueueSync
  BY <1>2 DEF QueueSync
<1>3. CASE \E k \in Job : QueueReprint(k)
  BY <1>1, <1>3, OthersStay DEF QueueReprint
<1>4. ASSUME NEW k \in Job, NEW d, NEW outcome, Claimable(k), Taken(k, d, outcome)
      PROVE  job'[j] = job[j]
  BY <1>1, <1>4, OthersStay DEF Claimable, Taken
<1>5. CASE \E k \in Job : ClaimLost(k) \/ \E d \in Desktop : Claim(d, k)
  BY <1>4, <1>5 DEF ClaimLost, Claim
<1>6. CASE \E k \in Job : Expire(k) \/ PutAside(k)
  BY <1>1, <1>6, OthersStay DEF Expire, PutAside
<1>7. ASSUME NEW k \in Job, Retry(k)
      PROVE  \/ job'[j] = job[j]
             \/ job[j].status = "DEAD_LETTER" /\ retried'[j] = retried[j] + 1
  <2>1. CASE k # j
    BY <1>1, <1>7, <2>1, OthersStay DEF Retry
  <2>2. CASE k = j
    BY <1>1, <1>7, <2>2 DEF Retry, Typed
  <2> QED
    BY <2>1, <2>2
<1>8. ASSUME NEW d \in Desktop, NEW k \in Job,
             Dispatch(d, k) \/ Complete(d, k) \/ Fail(d, k)
      PROVE  job'[j] = job[j]
  BY <1>1, <1>8, OthersStay DEF Dispatch, Complete, Fail, LeaseValid, Completes, Fails
<1>9. CASE DesktopsOwn
  BY <1>9, RowsStay
<1> QED
  BY <1>2, <1>3, <1>5, <1>6, <1>7, <1>8, <1>9 DEF Next, DesktopsOwn

\* A job that is submitted or put aside is moved by an operator's retry alone, and
\* a submitted one by nothing: no late report of any desktop changes it.
THEOREM OnlyOperatorsReopenHolds == Spec => OnlyOperatorsReopen
<1>1. IInv /\ [Next]_vars =>
        [\A j \in Job : job[j].status \in {"SUBMITTED", "DEAD_LETTER"} =>
           \/ job'[j] = job[j]
           \/ job[j].status = "DEAD_LETTER" /\ retried'[j] = retried[j] + 1]_vars
  BY OnlyOperatorsMove
<1> QED
  BY <1>1, Inductive, PTL DEF Spec, OnlyOperatorsReopen

-----------------------------------------------------------------------------
(* What is reported done is on paper.                                         *)
LEMMA SheetCount ==
  ASSUME Typed, NEW c \in Copy, NEW p \in Printer, NEW r \in 0 .. MaxAsked
  PROVE  paper[c][p][r] \in Nat
<1>1. paper[c][p] \in [0 .. MaxAsked -> Nat]
  BY DEF Typed
<1> QED
  BY <1>1

\* The steps that touch paper or the marks of targets.
LEMMA Printing ==
  ASSUME [Next]_vars
  PROVE  /\ \/ UNCHANGED paper
            \/ \E d \in Desktop, c \in Copy, p \in Printer : End(d, c, p)
         /\ \/ UNCHANGED target
            \/ LocalRetry
            \/ \E d \in Desktop, c \in Copy, p \in Printer : Start(d, c, p) \/ End(d, c, p)
<1>1. CASE QueueSync \/ Learn \/ \E j \in Job : QueueReprint(j)
  BY <1>1 DEF QueueSync, Learn, QueueReprint
<1>2. ASSUME NEW j \in Job, ClaimLost(j) \/ Expire(j) \/ PutAside(j) \/ Retry(j)
      PROVE  UNCHANGED <<paper, target>>
  BY <1>2 DEF ClaimLost, Expire, PutAside, Retry
<1>3. ASSUME NEW d \in Desktop, NEW j \in Job, Claim(d, j)
      PROVE  UNCHANGED <<paper, target>>
  BY <1>3 DEF Claim
<1>4. ASSUME NEW d \in Desktop, NEW j \in Job,
             Dispatch(d, j) \/ Complete(d, j) \/ Fail(d, j)
      PROVE  UNCHANGED <<paper, target>>
  BY <1>4 DEF Dispatch, Complete, Fail
<1>5. CASE \E d \in Desktop, c \in Copy, p \in Printer : Start(d, c, p) \/ End(d, c, p)
  <2>1. PICK d \in Desktop, c \in Copy, p \in Printer : Start(d, c, p) \/ End(d, c, p)
    BY <1>5
  <2>2. Start(d, c, p) => UNCHANGED paper
    BY DEF Start
  <2> QED
    BY <1>5, <2>1, <2>2
<1>6. CASE LocalClaim \/ LocalClaimLost \/ LocalFinish \/ \E d \in Desktop : Crash(d)
  BY <1>6 DEF LocalClaim, LocalClaimLost, LocalFinish, Crash
<1>7. CASE LocalRetry
  BY <1>7 DEF LocalRetry
<1>8. CASE UNCHANGED vars
  BY <1>8 DEF vars
<1> QED
  BY <1>1, <1>2, <1>3, <1>4, <1>5, <1>6, <1>7, <1>8 DEF Next

LEMMA SheetsStay ==
  ASSUME IInv, [Next]_vars, NEW c \in Copy, NEW p \in Printer, HasSheet(c, p)
  PROVE  HasSheet(c, p)'
<1>1. Typed
  BY TypedIsTypeOK DEF IInv
<1>2. PICK r \in 0 .. MaxAsked : paper[c][p][r] > 0
  BY DEF HasSheet
<1>3. CASE UNCHANGED paper
  BY <1>2, <1>3 DEF HasSheet
<1>4. ASSUME NEW d \in Desktop, NEW k \in Copy, NEW q \in Printer, End(d, k, q)
      PROVE  HasSheet(c, p)'
  <2>1. PICK w : w = work[d][k]
    OBVIOUS
  <2>2. AddsSheets(k, w)
    BY <1>1, <1>4, <2>1, Ending
  <2>3. paper'[c][p][r] = paper[c][p][r] \/ paper'[c][p][r] = paper[c][p][r] + 1
    BY <2>2 DEF AddsSheets
  <2>4. paper[c][p][r] \in Nat
    BY <1>1, SheetCount
  <2> QED
    BY <1>2, <2>3, <2>4 DEF HasSheet
<1> QED
  BY <1>3, <1>4, Printing

LEMMA MarksHaveSheets ==
  ASSUME IInv, RecordedIsPrinted, [Next]_vars
  PROVE  RecordedIsPrinted'
<1>1. Typed /\ Origin \in Desktop /\ Offline \in Copy
  BY TypedIsTypeOK, Constants DEF IInv
<1>2. SUFFICES ASSUME NEW d \in Desktop, NEW c \in Copy, NEW p \in Printer,
                      target'[d][c][p] = "printed"
               PROVE  target[d][c][p] = "printed" \/ HasSheet(c, p)'
  BY SheetsStay DEF RecordedIsPrinted
<1>3. CASE UNCHANGED target
  BY <1>2, <1>3
<1>4. ASSUME NEW e \in Desktop, NEW k \in Copy, NEW q \in Printer, Start(e, k, q)
      PROVE  target[d][c][p] = "printed"
  <2>1. CASE e = d /\ k = c /\ q = p
    BY <1>1, <1>2, <1>4, <2>1, Starting
  <2>2. CASE e = d /\ k = c /\ q # p
    BY <1>1, <1>2, <1>4, <2>2, Starting
  <2>3. CASE e # d \/ k # c
    BY <1>1, <1>2, <1>4, <2>3, Starting DEF OthersMarks
  <2> QED
    BY <2>1, <2>2, <2>3
<1>5. ASSUME NEW e \in Desktop, NEW k \in Copy, NEW q \in Printer, End(e, k, q)
      PROVE  target[d][c][p] = "printed" \/ HasSheet(c, p)'
  <2>1. CASE e = d /\ k = c /\ q = p
    <3>1. \/ target[d][c][p] = "printed"
          \/ paper'[c][p][work[d][c].request] = paper[c][p][work[d][c].request] + 1
      BY <1>1, <1>2, <1>5, <2>1, Ending
    <3>2. work[d][c].request \in 0 .. MaxAsked
      BY <1>1 DEF Typed, WorkType
    <3>3. paper[c][p][work[d][c].request] \in Nat
      BY <1>1, <3>2, SheetCount
    <3>4. paper[c][p][work[d][c].request] + 1 > 0
      BY <3>3
    <3> QED
      BY <3>1, <3>2, <3>4 DEF HasSheet
  <2>2. CASE e = d /\ k = c /\ q # p
    BY <1>1, <1>2, <1>5, <2>2, Ending
  <2>3. CASE e # d \/ k # c
    BY <1>1, <1>2, <1>5, <2>3, Ending DEF OthersMarks
  <2> QED
    BY <2>1, <2>2, <2>3
<1>6. CASE LocalRetry
  <2>1. target' = [target EXCEPT ![Origin][Offline] =
          [q \in Printer |-> IF target[Origin][Offline][q] = "ambiguous" THEN "none"
                             ELSE target[Origin][Offline][q]]]
    BY <1>6 DEF LocalRetry
  <2>2. CASE d = Origin /\ c = Offline
    BY <1>1, <1>2, <2>1, <2>2 DEF Typed
  <2>3. CASE d # Origin \/ c # Offline
    BY <1>1, <1>2, <2>1, <2>3 DEF Typed
  <2> QED
    BY <2>2, <2>3
<1> QED
  BY <1>3, <1>4, <1>5, <1>6, Printing

\* Served does not go away.
LEMMA ServedStays ==
  ASSUME IInv, [Next]_vars, NEW c \in Copy, NEW p \in Printer, Served(c, p)
  PROVE  Served(c, p)'
BY SheetsStay, Constants DEF Served

\* Work that is put down, abandoned or has failed serves nobody; work under way
\* leaves a target only once it has a sheet.
LEMMA WorkKeepsServing ==
  ASSUME IInv, RecordedIsPrinted, WorkServes, [Next]_vars
  PROVE  WorkServes'
<1>1. Typed /\ Origin \in Desktop /\ Offline \in Copy /\ Offline \notin Job
  BY TypedIsTypeOK, Constants DEF IInv
<1>2. RecordedIsPrinted'
  BY MarksHaveSheets
<1>3. SUFFICES ASSUME NEW d \in Desktop, NEW c \in Copy,
                      ~Resting(d, c)', work'[d][c].failure = "none",
                      NEW p \in Targets[c],
                      p \notin work'[d][c].todo, p \notin work'[d][c].at
               PROVE  Served(c, p)'
  BY DEF WorkServes
<1>4. p \in Printer /\ Targets[c] \subseteq Printer
  BY <1>3, Constants
<1>5. CASE work'[d][c] = work[d][c]
  <2>1. Served(c, p)
    BY <1>3, <1>5 DEF WorkServes, Resting
  <2> QED
    BY <1>4, <2>1, ServedStays
<1>6. ASSUME NEW j \in Job, Claim(d, j), c = j
      PROVE  Served(c, p)'
  <2>1. PICK doubtful, printed :
          doubtful = Noted(d, j, "ambiguous") /\ printed = Noted(d, j, "printed")
    OBVIOUS
  <2>2. PICK todo : todo = (Targets[j] \ printed) \ doubtful
    OBVIOUS
  <2>3. PICK flag, request : flag = job[j].flag /\ request = retried[j]
    OBVIOUS
  <2>4. PICK w : w = [Idle EXCEPT
              !.stage = IF todo = {} /\ doubtful = {} THEN "printing" ELSE "claimed",
              !.allow = flag,
              !.todo = todo,
              !.failure = IF doubtful = {} THEN "none" ELSE "ambiguous",
              !.request = request]
    OBVIOUS
  <2>5. w.todo = todo /\ w.failure = IF doubtful = {} THEN "none" ELSE "ambiguous"
    BY <2>4 DEF Idle
  <2>6. Put(d, j, w)
    BY <1>6, <2>1, <2>2, <2>3, <2>4 DEF Claim
  <2>7. work'[d][j] = w
    BY <1>1, <1>6, <2>6 DEF Put, Typed
  <2>8. doubtful = {} /\ p \notin todo
    BY <1>3, <1>6, <2>5, <2>7
  <2>9. p \in printed
    BY <1>3, <1>6, <2>2, <2>8
  <2>10. j \in Sync /\ target[Origin][Offline][p] = "printed"
    BY <2>1, <2>9 DEF Noted
  <2>11. Served(c, p)
    BY <1>1, <1>4, <1>6, <2>10 DEF RecordedIsPrinted, Served
  <2> QED
    BY <1>4, <2>11, ServedStays
<1>7. ASSUME NEW j \in Job, Dispatch(d, j), c = j
      PROVE  Served(c, p)'
  <2>1. PICK w : w = work[d][j]
    OBVIOUS
  <2>2. w \in WorkType /\ AfterError(w).failure # "none"
    <3>1. j \in Copy
      BY Constants
    <3>2. w \in WorkType
      BY <1>1, <2>1, <3>1 DEF Typed
    <3> QED
      BY <3>2, AfterErrorType
  <2>3. Put(d, j, [w EXCEPT !.stage = "printing"]) \/ Put(d, j, AfterError(w))
    BY <1>7, <2>1 DEF Dispatch
  <2>4. CASE Put(d, j, AfterError(w))
    <3>1. work'[d][j] = AfterError(w)
      BY <1>1, <1>7, <2>4 DEF Put, Typed
    <3> QED
      BY <1>3, <1>7, <2>2, <3>1
  <2>5. CASE Put(d, j, [w EXCEPT !.stage = "printing"])
    <3>1. work'[d][j] = [w EXCEPT !.stage = "printing"]
      BY <1>1, <1>7, <2>5 DEF Put, Typed
    <3>2. /\ work'[d][j].failure = w.failure /\ work'[d][j].todo = w.todo
          /\ work'[d][j].at = w.at
      BY <2>2, <3>1 DEF WorkType
    <3>3. ~Resting(d, c)
      BY <1>7 DEF Dispatch, Resting
    <3>4. Served(c, p)
      BY <1>3, <1>7, <2>1, <3>2, <3>3 DEF WorkServes
    <3> QED
      BY <1>4, <3>4, ServedStays
  <2> QED
    BY <2>3, <2>4, <2>5
<1>8. ASSUME NEW j \in Job, Complete(d, j) \/ Fail(d, j), c = j
      PROVE  Served(c, p)'
  <2>1. PICK w : w = work[d][j]
    OBVIOUS
  <2>2. w \in WorkType /\ AfterError(w).failure # "none"
    <3>1. j \in Copy
      BY Constants
    <3>2. w \in WorkType
      BY <1>1, <2>1, <3>1 DEF Typed
    <3> QED
      BY <3>2, AfterErrorType
  <2>3. Put(d, j, Idle) \/ Put(d, j, AfterError(w))
    BY <1>8, <2>1 DEF Complete, Fail
  <2>4. work'[d][j] = Idle \/ work'[d][j] = AfterError(w)
    BY <1>1, <1>8, <2>3 DEF Put, Typed
  <2>5. work'[d][j] # Idle
    BY <1>3, <1>8, IdleType DEF Resting
  <2> QED
    BY <1>3, <1>8, <2>2, <2>4, <2>5
<1>9. ASSUME Start(d, c, p)
      PROVE  Served(c, p)'
  <2>1. /\ target[d][c][p] = "printed"
        /\ work'[d][c].at = work[d][c].at
    BY <1>1, <1>3, <1>4, <1>9, Starting
  <2>2. Served(c, p)
    BY <1>4, <2>1 DEF RecordedIsPrinted, Served
  <2> QED
    BY <1>4, <2>2, ServedStays
<1>10. ASSUME NEW q \in Printer, q # p, Start(d, c, q)
       PROVE  Served(c, p)'
  <2>1. /\ work[d][c].stage = "printing"
        /\ work[d][c].failure = "none"
        /\ p \notin work[d][c].todo /\ p \notin work[d][c].at
    BY <1>1, <1>3, <1>4, <1>10, Starting
  <2>2. Served(c, p)
    BY <1>3, <2>1 DEF WorkServes, Resting
  <2> QED
    BY <1>4, <2>2, ServedStays
<1>11. ASSUME End(d, c, p)
       PROVE  Served(c, p)'
  <2>1. target'[d][c][p] = "printed"
    BY <1>1, <1>3, <1>4, <1>11, Ending
  <2> QED
    BY <1>2, <1>4, <2>1 DEF RecordedIsPrinted, Served
<1>12. ASSUME NEW q \in Printer, q # p, End(d, c, q)
       PROVE  Served(c, p)'
  <2>1. /\ ~Resting(d, c)
        /\ work[d][c].failure = "none"
        /\ p \notin work[d][c].todo /\ p \notin work[d][c].at
    BY <1>1, <1>3, <1>4, <1>12, Ending DEF Resting
  <2>2. Served(c, p)
    BY <1>3, <2>1 DEF WorkServes
  <2> QED
    BY <1>4, <2>2, ServedStays
<1>13. CASE LocalClaim /\ d = Origin /\ c = Offline
  <2>1. PICK t, request : t = Targets[Offline] /\ request = retried[Offline]
    OBVIOUS
  <2>2. PICK w : w = [Idle EXCEPT !.stage = "printing", !.todo = t, !.request = request]
    OBVIOUS
  <2>3. Put(Origin, Offline, w)
    BY <1>13, <2>1, <2>2 DEF LocalClaim
  <2>4. work'[Origin][Offline] = w
    BY <1>1, <2>3 DEF Put, Typed
  <2>5. w.todo = t
    BY <2>2 DEF Idle
  <2> QED
    BY <1>3, <1>13, <2>1, <2>4, <2>5
<1>14. CASE LocalFinish /\ d = Origin /\ c = Offline
  <2>1. work'[Origin][Offline] = Idle
    BY <1>1, <1>14 DEF LocalFinish, Put, Typed
  <2> QED
    BY <1>3, <1>14, <2>1, IdleType DEF Resting
<1>15. CASE Crash(d)
  <2>1. work'[d][c] = Idle
    BY <1>1, <1>15 DEF Crash, Typed
  <2> QED
    BY <1>3, <2>1, IdleType DEF Resting
<1>16. ASSUME NEW e \in Desktop, NEW k \in Copy, NEW w, Put(e, k, w), e # d \/ k # c
       PROVE  work'[d][c] = work[d][c]
  BY <1>1, <1>16 DEF Put, Typed
<1>17. ASSUME NEW j \in Job, ClaimLost(j) \/ Expire(j) \/ PutAside(j) \/ Retry(j)
       PROVE  UNCHANGED work
  BY <1>17 DEF ClaimLost, Expire, PutAside, Retry
<1>18. CASE QueueSync \/ Learn \/ \E j \in Job : QueueReprint(j)
  BY <1>5, <1>18 DEF QueueSync, Learn, QueueReprint
<1>19. ASSUME NEW e \in Desktop, NEW j \in Job, Claim(e, j)
       PROVE  Served(c, p)'
  <2>1. PICK w : Put(e, j, w)
    BY <1>19 DEF Claim
  <2>2. j \in Copy
    BY Constants
  <2> QED
    BY <1>5, <1>6, <1>16, <1>19, <2>1, <2>2
<1>20. ASSUME NEW e \in Desktop, NEW j \in Job,
              Dispatch(e, j) \/ Complete(e, j) \/ Fail(e, j)
       PROVE  Served(c, p)'
  <2>1. PICK w : Put(e, j, w)
    BY <1>20 DEF Dispatch, Complete, Fail
  <2>2. j \in Copy
    BY Constants
  <2> QED
    BY <1>5, <1>7, <1>8, <1>16, <1>20, <2>1, <2>2
<1>21. ASSUME NEW e \in Desktop, NEW k \in Copy, NEW q \in Printer,
              Start(e, k, q) \/ End(e, k, q)
       PROVE  Served(c, p)'
  <2>1. CASE e = d /\ k = c
    BY <1>9, <1>10, <1>11, <1>12, <1>21, <2>1
  <2>2. CASE e # d \/ k # c
    <3>1. work'[d][c] = work[d][c]
      BY <1>1, <1>21, <2>2, Starting, Ending DEF OthersRest
    <3> QED
      BY <1>5, <3>1
  <2> QED
    BY <2>1, <2>2
<1>22. CASE LocalClaim
  <2>1. PICK w : Put(Origin, Offline, w)
    BY <1>22 DEF LocalClaim
  <2> QED
    BY <1>1, <1>5, <1>13, <1>16, <1>22, <2>1
<1>23. CASE LocalFinish
  <2>1. Put(Origin, Offline, Idle)
    BY <1>23 DEF LocalFinish
  <2> QED
    BY <1>1, <1>5, <1>14, <1>16, <1>23, <2>1
<1>24. CASE LocalClaimLost \/ LocalRetry \/ UNCHANGED vars
  BY <1>5, <1>24 DEF LocalClaimLost, LocalRetry, vars
<1>25. ASSUME NEW e \in Desktop, Crash(e)
       PROVE  Served(c, p)'
  <2>1. CASE e = d
    BY <1>15, <1>25, <2>1
  <2>2. CASE e # d
    <3>1. work'[d][c] = work[d][c]
      BY <1>1, <1>25, <2>2 DEF Crash, Typed
    <3> QED
      BY <1>5, <3>1
  <2> QED
    BY <2>1, <2>2
<1> QED
  BY <1>5, <1>17, <1>18, <1>19, <1>20, <1>21, <1>22, <1>23, <1>24, <1>25 DEF Next

LEMMA DoneStays ==
  ASSUME IInv, DInv, [Next]_vars
  PROVE  DoneIsPrinted'
<1>1. /\ Typed /\ Origin \in Desktop /\ Offline \in Copy /\ Offline \notin Job
      /\ Job \subseteq Copy /\ \A c \in Copy : Targets[c] \subseteq Printer
  BY TypedIsTypeOK, Constants DEF IInv
<1>2. ASSUME NEW j \in Job, job'[j].status = "SUBMITTED", NEW p \in Targets[j]
      PROVE  (HasSheet(j, p) \/ (j \notin Reprint /\ HasSheet(Offline, p)))'
  <2>1. SUFFICES Served(j, p)
    <3>1. p \in Printer /\ j \in Copy
      BY <1>1, <1>2
    <3> QED
      BY <3>1, ServedStays DEF Served, Sync
  <2>2. CASE job[j].status = "SUBMITTED"
    BY <1>2, <2>2 DEF DInv, DoneIsPrinted, Served, Sync
  <2>3. ASSUME NEW d \in Desktop, Complete(d, j)
        PROVE  Served(j, p)
    <3>1. /\ ~Resting(d, j) /\ work[d][j].failure = "none"
          /\ work[d][j].todo = {} /\ work[d][j].at = {}
      BY <2>3 DEF Complete, AllSent, Resting
    <3> QED
      BY <1>1, <1>2, <3>1 DEF DInv, WorkServes
  <2>4. ASSUME NEW k \in Job, NEW row, Becomes(k, row),
               row.status # "SUBMITTED" \/ row.status = job[k].status
        PROVE  job[j].status = "SUBMITTED"
    BY <1>1, <1>2, <2>4 DEF Becomes, Typed
  <2>5. CASE QueueSync
    BY <1>2, <2>2, <2>5 DEF QueueSync, Unqueued
  <2>6. ASSUME NEW k \in Job,
               QueueReprint(k) \/ ClaimLost(k) \/ Expire(k) \/ PutAside(k) \/ Retry(k)
        PROVE  job[j].status = "SUBMITTED"
    <3>1. CASE QueueReprint(k)
      BY <1>1, <1>2, <3>1 DEF QueueReprint, Becomes, Typed, Unqueued
    <3>2. CASE ClaimLost(k)
      BY <1>1, <1>2, <3>2 DEF ClaimLost, Taken, Becomes, Typed
    <3>3. CASE Expire(k)
      BY <1>1, <1>2, <3>3 DEF Expire, Becomes, Typed, JobType
    <3>4. CASE PutAside(k)
      BY <1>1, <1>2, <3>4 DEF PutAside, Becomes, Typed, JobType
    <3>5. CASE Retry(k)
      BY <1>1, <1>2, <3>5 DEF Retry, Becomes, Typed, JobType
    <3> QED
      BY <2>6, <3>1, <3>2, <3>3, <3>4, <3>5
  <2>7. ASSUME NEW d \in Desktop, NEW k \in Job,
               Claim(d, k) \/ Dispatch(d, k) \/ Fail(d, k) \/ (Complete(d, k) /\ k # j)
        PROVE  job[j].status = "SUBMITTED"
    <3>1. CASE Claim(d, k)
      BY <1>1, <1>2, <3>1 DEF Claim, Taken, Becomes, Typed
    <3>2. CASE Dispatch(d, k)
      <4>1. CASE UNCHANGED job
        BY <1>2, <4>1
      <4>2. CASE Becomes(k, [job[k] EXCEPT !.outcome = "DISPATCHING"])
        <5>1. PICK row : row = [job[k] EXCEPT !.outcome = "DISPATCHING"]
          OBVIOUS
        <5>2. row.status = job[k].status
          BY <1>1, <5>1 DEF Typed, JobType
        <5> QED
          BY <2>4, <4>2, <5>1, <5>2
      <4> QED
        BY <3>2, <4>1, <4>2 DEF Dispatch
    <3>3. CASE Fail(d, k)
      <4>1. CASE UNCHANGED job
        BY <1>2, <4>1
      <4>2. CASE Fails(k, InDoubt(work[d][k]))
        <5>1. PICK status \in {"DEAD_LETTER", "PENDING"},
                outcome \in {"AMBIGUOUS", "DEAD_LETTER", "FAILED"} :
                Becomes(k, [job[k] EXCEPT !.status = status, !.holder = None,
                                          !.outcome = outcome])
          BY <4>2 DEF Fails
        <5>2. PICK row : row = [job[k] EXCEPT !.status = status, !.holder = None,
                                              !.outcome = outcome]
          OBVIOUS
        <5>3. row.status = status
          BY <1>1, <5>2 DEF Typed, JobType
        <5> QED
          BY <2>4, <5>1, <5>2, <5>3
      <4> QED
        BY <3>3, <4>1, <4>2 DEF Fail
    <3>4. CASE Complete(d, k) /\ k # j
      BY <1>1, <1>2, <3>4 DEF Complete, Completes, Becomes, Typed
    <3> QED
      BY <2>7, <3>1, <3>2, <3>3, <3>4
  <2>8. CASE DesktopsOwn
    BY <1>2, <2>2, <2>8, RowsStay
  <2> QED
    BY <2>2, <2>3, <2>5, <2>6, <2>7, <2>8 DEF Next, DesktopsOwn
<1>3. ASSUME local'.state = "printed", NEW p \in Targets[Offline]
      PROVE  HasSheet(Offline, p)'
  <2>1. SUFFICES HasSheet(Offline, p)
    BY <1>1, SheetsStay
  <2>2. CASE local.state = "printed"
    BY <1>3, <2>2 DEF DInv, DoneIsPrinted
  <2>3. CASE LocalFinish
    <3>1. work[Origin][Offline].failure = "none" \/ local.state = "printed"
      BY <1>1, <1>3, <2>3 DEF LocalFinish, LocalOutcome, Typed, LocalType
    <3>2. /\ ~Resting(Origin, Offline)
          /\ work[Origin][Offline].todo = {} /\ work[Origin][Offline].at = {}
      BY <2>3 DEF LocalFinish, AllSent, Resting
    <3>3. work[Origin][Offline].failure = "none" => Served(Offline, p)
      BY <1>1, <1>3, <3>2 DEF DInv, WorkServes
    <3> QED
      BY <1>1, <2>2, <3>1, <3>3 DEF Served, Sync
  <2>4. CASE LocalClaim \/ LocalRetry \/ LocalClaimLost
    BY <1>1, <1>3, <2>2, <2>4 DEF LocalClaim, LocalRetry, LocalClaimLost, Typed, LocalType
  <2>5. ASSUME NEW d \in Desktop, Crash(d)
        PROVE  HasSheet(Offline, p)
    BY <1>1, <1>3, <2>2, <2>5 DEF Crash, Typed, LocalType
  <2>6. CASE QueueSync \/ Learn \/ \E j \in Job : QueueReprint(j)
    BY <1>3, <2>2, <2>6 DEF QueueSync, Learn, QueueReprint
  <2>7. ASSUME NEW j \in Job, ClaimLost(j) \/ Expire(j) \/ PutAside(j) \/ Retry(j)
        PROVE  UNCHANGED local
    BY <2>7 DEF ClaimLost, Expire, PutAside, Retry
  <2>8. ASSUME NEW d \in Desktop, NEW j \in Job,
               Claim(d, j) \/ Dispatch(d, j) \/ Complete(d, j) \/ Fail(d, j)
        PROVE  UNCHANGED local
    BY <2>8 DEF Claim, Dispatch, Complete, Fail
  <2>9. ASSUME NEW d \in Desktop, NEW c \in Copy, NEW q \in Printer,
               Start(d, c, q) \/ End(d, c, q)
        PROVE  UNCHANGED local
    BY <2>9 DEF Start, End
  <2>10. CASE UNCHANGED vars
    BY <1>3, <2>2, <2>10 DEF vars
  <2> QED
    BY <1>3, <2>2, <2>3, <2>4, <2>5, <2>6, <2>7, <2>8, <2>9, <2>10 DEF Next
<1> QED
  BY <1>2, <1>3 DEF DoneIsPrinted

\* A job that counts as submitted, and an offline copy that counts as printed, has
\* a sheet on each of its printers; that a failure of one target of several is not
\* forgotten, and that a mark of "printed" is never without its sheet, carry it.
THEOREM DoneIsPrintedHolds == Spec => []DoneIsPrinted
<1>1. Init => DInv
  BY Constants, UnqueuedType, IdleType, InitHolds
  DEF DInv, IInv, Init, RecordedIsPrinted, WorkServes, DoneIsPrinted, Resting, Unqueued
<1>2. IInv /\ DInv /\ [Next]_vars => DInv'
  BY NextKeeps, MarksHaveSheets, WorkKeepsServing, DoneStays DEF DInv, IInv
<1>3. DInv => DoneIsPrinted
  BY DEF DInv
<1> QED
  BY <1>1, <1>2, <1>3, Inductive, PTL DEF Spec

-----------------------------------------------------------------------------
(* The order's document comes out once on a printer where the suppression can *)
(* see the offline copy.                                                      *)

\* The server queues the order's document once for each printer of its route,
\* so no two of its jobs go to the same printer.
OneJobPerPrinter ==
  \A j, k \in Sync : j # k => Targets[j] \cap Targets[k] = {}

\* The offline copy owes printer p a sheet: a request of it that is over put
\* none out there.
Owed(p) ==
  \E r \in 0 .. retried[Offline] :
    /\ paper[Offline][p][r] = 0
    /\ r < retried[Offline] \/ local.state \in {"printed", "dead_letter"}

\* A desktop is sending a copy to printer p, or is still to.
Sending(d, c, p) ==
  p \in work[d][c].at \/ (~Resting(d, c) /\ p \in work[d][c].todo)

Uses(j, p) == HasSheet(j, p) \/ \E d \in Desktop : Sending(d, j, p)

\* A sync job is sent only to printers that are owed a sheet.
SyncFillsIn ==
  \A j \in Sync, p \in Printer :
    Uses(j, p) => p \in Targets[j] /\ (unaware \/ Owed(p))

\* The steps that move the offline copy or its count of retries.
LEMMA LocalRows ==
  ASSUME Typed, [Next]_vars
  PROVE  \/ UNCHANGED local /\ retried'[Offline] = retried[Offline]
         \/ LocalClaim \/ LocalClaimLost \/ LocalFinish \/ LocalRetry
         \/ \E d \in Desktop : Crash(d)
<1>1. CASE QueueSync \/ Learn \/ \E j \in Job : QueueReprint(j)
  BY <1>1 DEF QueueSync, Learn, QueueReprint
<1>2. ASSUME NEW j \in Job, ClaimLost(j) \/ Expire(j) \/ PutAside(j)
      PROVE  UNCHANGED <<local, retried>>
  BY <1>2 DEF ClaimLost, Expire, PutAside
<1>3. ASSUME NEW j \in Job, Retry(j)
      PROVE  UNCHANGED local /\ retried'[Offline] = retried[Offline]
  BY <1>3, Constants DEF Retry, Typed
<1>4. ASSUME NEW d \in Desktop, NEW j \in Job,
             Claim(d, j) \/ Dispatch(d, j) \/ Complete(d, j) \/ Fail(d, j)
      PROVE  UNCHANGED <<local, retried>>
  BY <1>4 DEF Claim, Dispatch, Complete, Fail
<1>5. ASSUME NEW d \in Desktop, NEW c \in Copy, NEW q \in Printer,
             Start(d, c, q) \/ End(d, c, q)
      PROVE  UNCHANGED <<local, retried>>
  BY <1>5 DEF Start, End
<1>6. CASE UNCHANGED vars
  BY <1>6 DEF vars
<1> QED
  BY <1>1, <1>2, <1>3, <1>4, <1>5, <1>6 DEF Next

\* A request that is over stays over.
LEMMA OverStays ==
  ASSUME IInv, [Next]_vars, NEW r \in 0 .. retried[Offline],
         r < retried[Offline] \/ local.state \in {"printed", "dead_letter"}
  PROVE  /\ r \in 0 .. retried'[Offline]
         /\ r < retried'[Offline] \/ local'.state \in {"printed", "dead_letter"}
<1>1. Typed /\ Origin \in Desktop /\ Offline \in Copy
  BY TypedIsTypeOK, Constants DEF IInv
<1>2. PICK n \in Nat : n = retried[Offline]
  BY <1>1, Constants DEF Typed
<1>3. CASE UNCHANGED local /\ retried'[Offline] = retried[Offline]
  BY <1>3
<1>4. CASE LocalRetry
  <2>1. retried'[Offline] = n + 1
    BY <1>1, <1>2, <1>4 DEF LocalRetry, Typed
  <2> QED
    BY <1>2, <2>1
<1>5. CASE LocalClaim \/ LocalClaimLost
  <2>1. local.state = "pending" /\ UNCHANGED retried
    BY <1>5 DEF LocalClaim, LocalClaimLost
  <2> QED
    BY <1>2, <2>1
<1>6. CASE LocalFinish
  <2>1. local.state = "printing" /\ UNCHANGED retried
    BY <1>6 DEF LocalFinish, IInv, LocalWork, Resting
  <2> QED
    BY <1>2, <2>1
<1>7. ASSUME NEW d \in Desktop, Crash(d)
      PROVE  /\ UNCHANGED retried
             /\ local.state = "printing" \/ UNCHANGED local
  BY <1>7 DEF Crash
<1>8. CASE \E d \in Desktop : Crash(d)
  BY <1>2, <1>7, <1>8
<1> QED
  BY <1>1, <1>3, <1>4, <1>5, <1>6, <1>8, LocalRows

\* What is owed stays owed: sheets come out for a request under way only.
LEMMA OwedStays ==
  ASSUME IInv, [Next]_vars, NEW p \in Printer, Owed(p)
  PROVE  Owed(p)'
<1>1. Typed /\ Origin \in Desktop /\ Offline \in Copy
  BY TypedIsTypeOK, Constants DEF IInv
<1>2. PICK r \in 0 .. retried[Offline] :
        /\ paper[Offline][p][r] = 0
        /\ r < retried[Offline] \/ local.state \in {"printed", "dead_letter"}
  BY DEF Owed
<1>3. /\ r \in 0 .. retried'[Offline]
      /\ r < retried'[Offline] \/ local'.state \in {"printed", "dead_letter"}
  BY <1>2, OverStays
<1>4. r \in 0 .. MaxAsked
  <2>1. retried[Offline] \in 0 .. MaxAsked /\ MaxAsked \in Nat
    BY <1>1, Constants DEF Typed
  <2> QED
    BY <2>1
<1>5. paper'[Offline][p][r] = paper[Offline][p][r]
  <2>1. CASE UNCHANGED paper
    BY <2>1
  <2>2. ASSUME NEW d \in Desktop, NEW c \in Copy, NEW q \in Printer, End(d, c, q)
        PROVE  paper'[Offline][p][r] = paper[Offline][p][r]
    <3>1. PICK w : w = work[d][c]
      OBVIOUS
    <3>2. AddsSheets(c, w) /\ w.at # {}
      BY <1>1, <2>2, <3>1, Ending
    <3>3. CASE c = Offline
      <4>1. ~Resting(d, Offline)
        BY <3>1, <3>2, <3>3 DEF IInv, RestIsIdle
      <4>2. d = Origin
        BY <4>1 DEF IInv, LocalWork
      <4>3. local.state = "printing" /\ w.request = retried[Offline]
        BY <3>1, <3>3, <4>1, <4>2 DEF IInv, LocalWork
      <4>4. r # w.request
        <5>1. r < retried[Offline]
          BY <1>2, <4>3
        <5>2. retried[Offline] \in Nat /\ r \in Nat
          BY <1>1, <1>4, Constants DEF Typed
        <5> QED
          BY <4>3, <5>1, <5>2
      <4> QED
        BY <1>1, <1>4, <3>2, <4>4 DEF AddsSheets
    <3>4. CASE c # Offline
      BY <1>1, <1>4, <3>2, <3>4 DEF AddsSheets
    <3> QED
      BY <3>3, <3>4
  <2> QED
    BY <2>1, <2>2, Printing
<1> QED
  BY <1>2, <1>3, <1>5 DEF Owed

\* A claim the suppression can see leaves out what the offline copy has put out.
LEMMA ClaimOwes ==
  ASSUME IInv, NEW d \in Desktop, NEW j \in Sync, Claim(d, j), ~unaware',
         NEW p \in work'[d][j].todo
  PROVE  p \in Targets[j] /\ Owed(p)
<1>1. /\ Typed /\ Origin \in Desktop /\ Offline \in Copy /\ j \in Job /\ j \in Copy
      /\ Targets[j] \subseteq Printer
  BY TypedIsTypeOK, Constants DEF IInv
<1>2. d = Origin /\ mapped /\ local.state \in {"printed", "dead_letter"}
  BY DEF Claim
<1>3. PICK doubtful, printed :
        doubtful = Noted(d, j, "ambiguous") /\ printed = Noted(d, j, "printed")
  OBVIOUS
<1>4. PICK todo : todo = (Targets[j] \ printed) \ doubtful
  OBVIOUS
<1>5. PICK stage, flag, failure, request :
        Put(d, j, [Idle EXCEPT !.stage = stage, !.allow = flag, !.todo = todo,
                               !.failure = failure, !.request = request])
  BY <1>3, <1>4 DEF Claim
<1>6. PICK w : w = [Idle EXCEPT !.stage = stage, !.allow = flag, !.todo = todo,
                                !.failure = failure, !.request = request]
  OBVIOUS
<1>7. w.todo = todo
  BY <1>6 DEF Idle
<1>8. work'[d][j] = w
  BY <1>1, <1>5, <1>6 DEF Put, Typed
<1>9. p \in Targets[j] /\ p \notin printed /\ p \notin doubtful
  BY <1>4, <1>7, <1>8
<1>10. /\ target[Origin][Offline][p] # "printed"
       /\ target[Origin][Offline][p] # "ambiguous"
  BY <1>2, <1>3, <1>9 DEF Noted
<1>11. p \in Printer
  BY <1>1, <1>9
<1>12. target[Origin][Offline][p] = "none"
  BY <1>1, <1>10, <1>11 DEF Typed, MarkType
<1>13. paper[Offline][p][retried[Offline]] = 0
  BY <1>11, <1>12 DEF IInv, LocalWork
<1>14. retried[Offline] \in 0 .. retried[Offline]
  BY <1>1, Constants DEF Typed
<1> QED
  BY <1>2, <1>9, <1>13, <1>14 DEF Owed

\* Only a claim gives a desktop a target it was not sending to before.
LEMMA SendingStays ==
  ASSUME Typed, [Next]_vars, NEW d \in Desktop, NEW j \in Job, NEW p \in Printer,
         Sending(d, j, p)'
  PROVE  Sending(d, j, p) \/ (Claim(d, j) /\ p \in work'[d][j].todo)
<1>1. Origin \in Desktop /\ Offline \in Copy /\ Offline # j /\ j \in Copy
  BY Constants
<1>2. Idle.at = {} /\ Idle.todo = {} /\ Idle.stage = "idle"
  BY DEF Idle
<1>3. work'[d][j] # Idle
  BY <1>2 DEF Sending, Resting
<1>4. CASE work'[d][j] = work[d][j]
  BY <1>4 DEF Sending, Resting
<1>5. ASSUME NEW e \in Desktop, NEW k \in Copy, NEW w, Put(e, k, w), e # d \/ k # j
      PROVE  work'[d][j] = work[d][j]
  BY <1>1, <1>5 DEF Put, Typed
<1>6. ASSUME NEW w, Put(d, j, w)
      PROVE  work'[d][j] = w
  BY <1>1, <1>6 DEF Put, Typed
<1>7. PICK v \in WorkType : v = work[d][j]
  BY <1>1 DEF Typed
<1>8. AfterError(v).todo = {} /\ AfterError(v).at = v.at
  BY AfterErrorType
<1>9. CASE Claim(d, j)
  <2>1. PICK stage, flag, todo, failure, request :
          Put(d, j, [Idle EXCEPT !.stage = stage, !.allow = flag, !.todo = todo,
                                 !.failure = failure, !.request = request])
    BY <1>9 DEF Claim
  <2>2. PICK w : w = [Idle EXCEPT !.stage = stage, !.allow = flag, !.todo = todo,
                                  !.failure = failure, !.request = request]
    OBVIOUS
  <2>3. w.at = {}
    BY <2>2 DEF Idle
  <2>4. work'[d][j] = w
    BY <1>6, <2>1, <2>2
  <2> QED
    BY <1>9, <2>3, <2>4 DEF Sending
<1>10. CASE Dispatch(d, j)
  <2>1. ~Resting(d, j)
    BY <1>10 DEF Dispatch, Resting
  <2>2. Put(d, j, [v EXCEPT !.stage = "printing"]) \/ Put(d, j, AfterError(v))
    BY <1>7, <1>10 DEF Dispatch
  <2>3. PICK w : w = [v EXCEPT !.stage = "printing"]
    OBVIOUS
  <2>4. w.todo = v.todo /\ w.at = v.at
    BY <2>3 DEF WorkType
  <2>5. work'[d][j] = w \/ work'[d][j] = AfterError(v)
    BY <1>6, <2>2, <2>3
  <2> QED
    BY <1>7, <1>8, <2>1, <2>4, <2>5 DEF Sending
<1>11. CASE Complete(d, j) \/ Fail(d, j)
  <2>1. v.at = {}
    BY <1>7, <1>11 DEF Complete, Fail, AllSent
  <2>2. work'[d][j] = Idle \/ work'[d][j] = AfterError(v)
    BY <1>6, <1>7, <1>11 DEF Complete, Fail
  <2> QED
    BY <1>3, <1>8, <2>1, <2>2 DEF Sending
<1>12. ASSUME NEW q \in Printer, Start(d, j, q)
       PROVE  Sending(d, j, p)
  <2>1. /\ work[d][j].stage = "printing" /\ q \in work[d][j].todo
        /\ work'[d][j].todo = work[d][j].todo \ {q}
        /\ \/ work'[d][j].at = work[d][j].at
           \/ work'[d][j].at = work[d][j].at \cup {q}
    BY <1>1, <1>12, Starting
  <2>2. p \in work[d][j].todo \/ p \in work[d][j].at
    BY <2>1 DEF Sending
  <2> QED
    BY <2>1, <2>2 DEF Sending, Resting
<1>13. ASSUME NEW q \in Printer, End(d, j, q)
       PROVE  Sending(d, j, p)
  <2>1. /\ work'[d][j].stage = work[d][j].stage
        /\ work'[d][j].todo = work[d][j].todo
        /\ work'[d][j].at = work[d][j].at \ {q}
    BY <1>1, <1>13, Ending
  <2> QED
    BY <2>1 DEF Sending, Resting
<1>14. ASSUME NEW e \in Desktop, NEW k \in Job,
              Claim(e, k) \/ Dispatch(e, k) \/ Complete(e, k) \/ Fail(e, k)
       PROVE  Sending(d, j, p) \/ (Claim(d, j) /\ p \in work'[d][j].todo)
  <2>1. PICK w : Put(e, k, w)
    BY <1>14 DEF Claim, Dispatch, Complete, Fail
  <2>2. k \in Copy
    BY Constants
  <2>3. CASE e = d /\ k = j
    BY <1>9, <1>10, <1>11, <1>14, <2>3
  <2>4. CASE e # d \/ k # j
    BY <1>4, <1>5, <2>1, <2>2, <2>4
  <2> QED
    BY <2>3, <2>4
<1>15. ASSUME NEW e \in Desktop, NEW k \in Copy, NEW q \in Printer,
              Start(e, k, q) \/ End(e, k, q)
       PROVE  Sending(d, j, p) \/ (Claim(d, j) /\ p \in work'[d][j].todo)
  <2>1. CASE e = d /\ k = j
    BY <1>12, <1>13, <1>15, <2>1
  <2>2. CASE e # d \/ k # j
    <3>1. work'[d][j] = work[d][j]
      BY <1>1, <1>15, <2>2, Starting, Ending DEF OthersRest
    <3> QED
      BY <1>4, <3>1
  <2> QED
    BY <2>1, <2>2
<1>16. CASE LocalClaim \/ LocalFinish
  <2>1. PICK w : Put(Origin, Offline, w)
    BY <1>16 DEF LocalClaim, LocalFinish
  <2> QED
    BY <1>1, <1>4, <1>5, <2>1
<1>17. ASSUME NEW e \in Desktop, Crash(e)
       PROVE  work'[d][j] = work[d][j] \/ work'[d][j] = Idle
  BY <1>1, <1>17 DEF Crash, Typed
<1>18. ASSUME NEW k \in Job, ClaimLost(k) \/ Expire(k) \/ PutAside(k) \/ Retry(k)
       PROVE  UNCHANGED work
  BY <1>18 DEF ClaimLost, Expire, PutAside, Retry
<1>19. CASE QueueSync \/ Learn \/ \E k \in Job : QueueReprint(k)
  BY <1>4, <1>19 DEF QueueSync, Learn, QueueReprint
<1>20. CASE LocalClaimLost \/ LocalRetry \/ UNCHANGED vars
  BY <1>4, <1>20 DEF LocalClaimLost, LocalRetry, vars
<1> QED
  BY <1>3, <1>4, <1>14, <1>15, <1>16, <1>17, <1>18, <1>19, <1>20 DEF Next

LEMMA UsesStay ==
  ASSUME IInv, [Next]_vars, NEW j \in Sync, NEW p \in Printer, Uses(j, p)'
  PROVE  \/ Uses(j, p)
         \/ \E d \in Desktop : Claim(d, j) /\ p \in work'[d][j].todo
<1>1. Typed /\ j \in Job /\ j \in Copy
  BY TypedIsTypeOK, Constants DEF IInv
<1>2. CASE HasSheet(j, p)'
  <2>1. CASE UNCHANGED paper
    BY <1>2, <2>1 DEF Uses, HasSheet
  <2>2. ASSUME NEW d \in Desktop, NEW c \in Copy, NEW q \in Printer, End(d, c, q)
        PROVE  Uses(j, p)
    <3>1. PICK w : w = work[d][c]
      OBVIOUS
    <3>2. AddsSheets(c, w)
      BY <1>1, <2>2, <3>1, Ending
    <3>3. PICK r \in 0 .. MaxAsked : paper'[j][p][r] > 0
      BY <1>2 DEF HasSheet
    <3>4. CASE paper'[j][p][r] = paper[j][p][r]
      BY <3>3, <3>4 DEF Uses, HasSheet
    <3>5. CASE j = c /\ p \in w.at
      BY <3>1, <3>5 DEF Uses, Sending
    <3> QED
      BY <1>1, <3>2, <3>3, <3>4, <3>5 DEF AddsSheets
  <2> QED
    BY <2>1, <2>2, Printing
<1>3. ASSUME NEW d \in Desktop, Sending(d, j, p)'
      PROVE  Sending(d, j, p) \/ (Claim(d, j) /\ p \in work'[d][j].todo)
  BY <1>1, <1>3, SendingStays
<1> QED
  BY <1>2, <1>3 DEF Uses

LEMMA UnawareStays ==
  ASSUME [Next]_vars, unaware
  PROVE  unaware'
<1>1. CASE QueueSync \/ Learn \/ \E j \in Job : QueueReprint(j)
  BY <1>1 DEF QueueSync, Learn, QueueReprint
<1>2. ASSUME NEW j \in Job, ClaimLost(j) \/ Expire(j) \/ PutAside(j) \/ Retry(j)
      PROVE  UNCHANGED unaware
  BY <1>2 DEF ClaimLost, Expire, PutAside, Retry
<1>3. ASSUME NEW d \in Desktop, NEW j \in Job,
             Claim(d, j) \/ Dispatch(d, j) \/ Complete(d, j) \/ Fail(d, j)
      PROVE  unaware'
  BY <1>3 DEF Claim, Dispatch, Complete, Fail
<1>4. ASSUME NEW d \in Desktop, NEW c \in Copy, NEW q \in Printer,
             Start(d, c, q) \/ End(d, c, q)
      PROVE  UNCHANGED unaware
  BY <1>4 DEF Start, End
<1>5. CASE LocalClaim \/ LocalClaimLost \/ LocalFinish \/ LocalRetry
  BY <1>5 DEF LocalClaim, LocalClaimLost, LocalFinish, LocalRetry
<1>6. ASSUME NEW d \in Desktop, Crash(d)
      PROVE  UNCHANGED unaware
  BY <1>6 DEF Crash
<1>7. CASE UNCHANGED vars
  BY <1>7 DEF vars
<1> QED
  BY <1>1, <1>2, <1>3, <1>4, <1>5, <1>6, <1>7 DEF Next

LEMMA FillsInStays ==
  ASSUME IInv, SyncFillsIn, [Next]_vars
  PROVE  SyncFillsIn'
<1>1. SUFFICES ASSUME NEW j \in Sync, NEW p \in Printer, Uses(j, p)'
               PROVE  p \in Targets[j] /\ (unaware' \/ Owed(p)')
  BY DEF SyncFillsIn
<1>2. CASE Uses(j, p)
  BY <1>2, OwedStays, UnawareStays DEF SyncFillsIn
<1>3. ASSUME NEW d \in Desktop, Claim(d, j), p \in work'[d][j].todo
      PROVE  p \in Targets[j] /\ (unaware' \/ Owed(p)')
  <2>1. CASE ~unaware'
    BY <1>3, <2>1, ClaimOwes, OwedStays
  <2>2. CASE unaware'
    <3>1. PICK stage, flag, doubtful, printed, failure, request :
            Put(d, j, [Idle EXCEPT !.stage = stage, !.allow = flag,
                         !.todo = (Targets[j] \ printed) \ doubtful,
                         !.failure = failure, !.request = request])
      BY <1>3 DEF Claim
    <3>2. PICK w : w = [Idle EXCEPT !.stage = stage, !.allow = flag,
                         !.todo = (Targets[j] \ printed) \ doubtful,
                         !.failure = failure, !.request = request]
      OBVIOUS
    <3>3. w.todo = (Targets[j] \ printed) \ doubtful
      BY <3>2 DEF Idle
    <3>4. work'[d][j] = w
      <4>1. work \in [Desktop -> [Copy -> WorkType]] /\ j \in Copy
        BY TypedIsTypeOK, Constants DEF IInv, Typed
      <4> QED
        BY <3>1, <3>2, <4>1 DEF Put
    <3> QED
      BY <1>3, <2>2, <3>3, <3>4
  <2> QED
    BY <2>1, <2>2
<1> QED
  BY <1>2, <1>3, UsesStay, <1>1

LEMMA InitFillsIn == Init => SyncFillsIn
<1> SUFFICES ASSUME Init, NEW j \in Sync, NEW p \in Printer PROVE ~Uses(j, p)
  BY DEF SyncFillsIn
<1>1. j \in Copy
  BY Constants
<1>2. \A r \in 0 .. MaxAsked : paper[j][p][r] = 0
  BY <1>1 DEF Init
<1>3. \A d \in Desktop : work[d][j] = Idle
  BY <1>1 DEF Init
<1> QED
  BY <1>2, <1>3 DEF Uses, HasSheet, Sending, Resting, Idle

\* How many sheets of a copy a printer can have put out.
LEMMA SheetsBound ==
  ASSUME IInv, NEW c \in Copy, NEW p \in Printer
  PROVE  /\ Sheets(c, p) \in Int
         /\ Sheets(c, p) <= retried[c] + 1
         /\ \A r \in 0 .. retried[c] : paper[c][p][r] = 0 => Sheets(c, p) <= retried[c]
         /\ ~HasSheet(c, p) => Sheets(c, p) <= 0
<1>1. Typed /\ MaxAsked \in Nat
  BY TypedIsTypeOK, Constants DEF IInv
<1>2. PICK n \in Nat : n = retried[c]
  BY <1>1 DEF Typed
<1>3. PICK S : S = 0 .. MaxAsked
  OBVIOUS
<1>4. IsFiniteSet(S)
  BY <1>1, <1>3, FS_Interval
<1>5. PICK f : f = paper[c][p]
  OBVIOUS
<1>6. \A r \in S : f[r] \in Int /\ f[r] <= 1 /\ (r > n => f[r] = 0)
  <2>1. \A r \in S : f[r] \in Nat
    BY <1>1, <1>3, <1>5, SheetCount
  <2>2. \A r \in S : f[r] <= 1
    BY <1>3, <1>5 DEF IInv, OneSheetPerRequest
  <2>3. \A r \in S : r > n => f[r] = 0
    BY <1>2, <1>3, <1>5 DEF IInv, RequestsMade, Blank
  <2> QED
    BY <2>1, <2>2, <2>3
<1>7. Sheets(c, p) = SumFunctionOnSet(f, S)
  BY <1>3, <1>5 DEF Sheets
<1>8. SumFunctionOnSet(f, S) \in Int
  BY <1>4, <1>6, SumType
<1>9. PICK P : P = 0 .. n
  OBVIOUS
<1>10. IsFiniteSet(P) /\ Cardinality(P) = n + 1
  BY <1>9, FS_Interval
<1>11. SumFunctionOnSet(f, S) <= n + 1
  <2>1. \A r \in S : f[r] \in Int /\ f[r] <= (IF r \in P THEN 1 ELSE 0)
    BY <1>1, <1>3, <1>6, <1>9
  <2> QED
    BY <1>4, <1>10, <2>1, SumCounts
<1>12. ASSUME NEW r \in P, f[r] = 0
       PROVE  SumFunctionOnSet(f, S) <= n
  <2>1. PICK R : R = P \ {r}
    OBVIOUS
  <2>2. IsFiniteSet(R) /\ Cardinality(R) = n
    <3>1. IsFiniteSet(R) /\ Cardinality(R) = Cardinality(P) - 1
      BY <1>10, <2>1, FS_RemoveElement
    <3> QED
      BY <1>10, <3>1
  <2>3. \A x \in S : f[x] \in Int /\ f[x] <= (IF x \in R THEN 1 ELSE 0)
    BY <1>1, <1>3, <1>6, <1>9, <1>12, <2>1
  <2> QED
    BY <1>4, <2>2, <2>3, SumCounts
<1>13. ASSUME ~HasSheet(c, p)
       PROVE  SumFunctionOnSet(f, S) <= 0
  <2>1. \A r \in S : ~(f[r] > 0)
    BY <1>3, <1>5, <1>13 DEF HasSheet
  <2>2. \A x \in S : f[x] \in Int /\ f[x] <= (IF x \in {} THEN 1 ELSE 0)
    BY <1>6, <2>1
  <2> QED
    BY <1>4, <2>2, SumCounts, FS_EmptySet
<1> QED
  BY <1>2, <1>5, <1>7, <1>8, <1>9, <1>11, <1>12, <1>13

\* One copy at most puts out on a printer a sheet more than it was asked again.
LEMMA OnceInTurn ==
  ASSUME IInv, SyncFillsIn, IsFiniteSet(Job), OneJobPerPrinter
  PROVE  PaperOnceInTurn
<1> SUFFICES ASSUME ~unaware, NEW p \in Printer
             PROVE  SumFunctionOnSet([c \in Copy |-> Sheets(c, p)], Copy \ Reprint)
                      <= 1 + SumFunctionOnSet(retried, Copy \ Reprint)
  BY DEF PaperOnceInTurn, PaperOnce
<1>1. /\ Typed /\ Offline \in Copy /\ Sync \subseteq Copy /\ MaxAsked \in Nat
      /\ Offline \notin Sync
  BY TypedIsTypeOK, Constants DEF IInv, Sync
<1>2. PICK S : S = Copy \ Reprint
  OBVIOUS
<1>3. S \subseteq Copy /\ \A c \in S : c \in Sync \/ c = Offline
  BY <1>2 DEF Copy, Sync
<1>4. IsFiniteSet(S)
  <2>1. IsFiniteSet(Job \cup {Offline})
    BY FS_AddElement
  <2> QED
    BY <1>2, <2>1, FS_Subset DEF Copy
<1>5. PICK f : f = [c \in Copy |-> Sheets(c, p)]
  OBVIOUS
<1>6. \A c \in Copy : f[c] = Sheets(c, p) /\ f[c] \in Int
  BY <1>5, SheetsBound
<1>7. \A c \in Copy : retried[c] \in Nat
  BY <1>1 DEF Typed
\* The copy that may: a sync job at work on the printer, else the offline copy.
<1>8. PICK z : /\ \A c \in S \ {z} : f[c] <= retried[c]
               /\ z \in S => f[z] <= retried[z] + 1
  <2>1. \A c \in Copy : f[c] <= retried[c] + 1
    BY <1>6, SheetsBound
  <2>2. \A c \in Copy : ~HasSheet(c, p) => f[c] <= retried[c]
    <3>1. \A c \in Copy : ~HasSheet(c, p) => f[c] <= 0
      BY <1>6, SheetsBound
    <3> QED
      BY <1>6, <1>7, <3>1
  <2>3. CASE \E j \in Sync : HasSheet(j, p)
    <3>1. PICK j \in Sync : HasSheet(j, p)
      BY <2>3
    <3>2. p \in Targets[j] /\ Owed(p)
      BY <3>1 DEF SyncFillsIn, Uses
    <3>3. f[Offline] <= retried[Offline]
      BY <1>1, <1>6, <3>2, SheetsBound DEF Owed
    <3>4. \A k \in Sync : k # j => ~HasSheet(k, p)
      BY <3>2 DEF SyncFillsIn, Uses, OneJobPerPrinter
    <3>5. \A c \in S \ {j} : f[c] <= retried[c]
      BY <1>3, <2>2, <3>3, <3>4
    <3> QED
      BY <1>3, <2>1, <3>5
  <2>4. CASE \A j \in Sync : ~HasSheet(j, p)
    <3>1. \A c \in S \ {Offline} : f[c] <= retried[c]
      BY <1>3, <2>2, <2>4
    <3> QED
      BY <1>1, <2>1, <3>1
  <2> QED
    BY <2>3, <2>4
<1>9. \A c \in S : f[c] \in Int /\ retried[c] \in Int
  BY <1>3, <1>6, <1>7
<1>10. SumFunctionOnSet(f, S) <= SumFunctionOnSet(retried, S) + 1
  BY <1>4, <1>8, <1>9, SumExcess
<1>11. SumFunctionOnSet(retried, S) \in Int /\ SumFunctionOnSet(f, S) \in Int
  BY <1>4, <1>9, SumType
<1> QED
  BY <1>2, <1>5, <1>10, <1>11

\* Where every claim of a sync job is by the desktop that holds the offline copy,
\* after that copy is settled and the order's server id is known, the order's
\* document comes out once on each printer and once more for each retry: the
\* server's job goes only to printers the offline copy left without paper, and it
\* is the only one that goes there.
THEOREM PaperOnceInTurnHolds ==
  ASSUME IsFiniteSet(Job), OneJobPerPrinter
  PROVE  Spec => []PaperOnceInTurn
<1>1. Init => SyncFillsIn
  BY InitFillsIn
<1>2. IInv /\ SyncFillsIn /\ [Next]_vars => SyncFillsIn'
  BY FillsInStays
<1>3. IInv /\ SyncFillsIn => PaperOnceInTurn
  BY OnceInTurn
<1> QED
  BY <1>1, <1>2, <1>3, Inductive, PTL DEF Spec

=============================================================================
