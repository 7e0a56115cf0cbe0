--------------------------- MODULE ReceiptPrinting ---------------------------
(* The paper of one order: the copy the desktop that took the order offline   *)
(* prints from its own queue, the print jobs the server queues for the same   *)
(* document when the order reaches it (one per printer of the route), and     *)
(* the jobs of a reprint.  Desktops claim server jobs under a lease, mark     *)
(* every target before they send to it, and report the outcome; any message   *)
(* between desktop and server may be lost, a printer may refuse a document    *)
(* or not answer with or without paper, and a desktop may stop at any point.  *)
(*                                                                            *)
(* paper[c][p][r] counts the sheets printer p has put out of copy c for its   *)
(* r-th request: 0 is the order's own, each operator's retry is one more.     *)
EXTENDS Integers, FiniteSets, Functions

CONSTANTS
  Desktop, Printer,
  Origin,       \* the desktop that took the order offline
  Job,          \* server print jobs that may be queued
  Reprint,      \* those of them a reprint queues
  Offline,      \* the copy in the local queue of Origin
  Targets,      \* the printers each copy goes to
  MaxAttempts,  \* claims before a failing copy is put aside (5 in the code)
  MaxAsked,     \* bound: an operator's retries of each copy
  MaxFaults,    \* bound: lost messages, printer failures, stops, failed writes
  None          \* no desktop

Sync == Job \ Reprint
Copy == Job \cup {Offline}

ASSUME PrintingAssumption ==
  /\ Origin \in Desktop /\ None \notin Desktop
  /\ Reprint \subseteq Job /\ Offline \notin Job
  /\ Targets \in [Copy -> (SUBSET Printer) \ {{}}]
  /\ MaxAttempts \in Nat \ {0} /\ MaxAsked \in Nat /\ MaxFaults \in Nat

VARIABLES
  job,      \* the server's row of each job and the outcome of its last attempt
  local,    \* the row of the offline copy in the desktop's own queue
  target,   \* what each desktop recorded of each copy's targets
  work,     \* the copies each desktop is at work on
  mapped,   \* Origin knows the server's id of the order
  unaware,  \* a sync job was claimed by a desktop that could not know of
            \* the offline copy, or before that copy was settled
  retried,  \* an operator's retries of each copy
  paper,    \* the sheets put out
  faults    \* faults so far

vars == <<job, local, target, work, mapped, unaware, retried, paper, faults>>

Unqueued == [status |-> "NONE", holder |-> None, expired |-> FALSE,
             attempts |-> 0, flag |-> FALSE, outcome |-> "NONE"]
Idle == [stage |-> "idle", allow |-> FALSE, todo |-> {}, at |-> {},
         before |-> {}, any |-> FALSE, failure |-> "none", request |-> 0]

Init ==
  /\ job = [j \in Job |-> Unqueued]
  /\ local = [state |-> "pending", attempts |-> 0]
  /\ target = [d \in Desktop |-> [c \in Copy |-> [p \in Printer |-> "none"]]]
  /\ work = [d \in Desktop |-> [c \in Copy |-> Idle]]
  /\ mapped = FALSE
  /\ unaware = FALSE
  /\ retried = [c \in Copy |-> 0]
  /\ paper = [c \in Copy |-> [p \in Printer |-> [r \in 0 .. MaxAsked |-> 0]]]
  /\ faults = 0

Fault == faults < MaxFaults /\ faults' = faults + 1
NoFault == UNCHANGED faults

Resting(d, c) == work[d][c].stage = "idle"
AllSent(d, c) == work[d][c].todo = {} /\ work[d][c].at = {}
Put(d, c, w) == work' = [work EXCEPT ![d][c] = w]
Records(d, c, p, state) == target' = [target EXCEPT ![d][c][p] = state]

\* Mutant: a report is taken without its lease.
LeaseUnchecked(d, j) == d \in Desktop /\ j \in Job

Becomes(j, row) == job' = [job EXCEPT ![j] = row]

\* The lease predicate of every report a desktop makes.
LeaseValid(d, j) ==
  job[j].status = "PROCESSING" /\ job[j].holder = d /\ ~job[j].expired

\* Outcomes of the last attempt that leave open whether paper came out.
MayHavePrinted(j) == job[j].outcome \in {"CLAIMED", "DISPATCHING", "AMBIGUOUS"}

-----------------------------------------------------------------------------
(* The server's queue.                                                        *)

\* The order reaches the server, which queues its document for each printer;
\* its answer gives Origin the order's id there.
QueueSync ==
  /\ \A j \in Sync : job[j].status = "NONE"
  /\ job' = [j \in Job |-> IF j \in Sync THEN [Unqueued EXCEPT !.status = "PENDING"]
                           ELSE job[j]]
  /\ UNCHANGED <<local, target, work, mapped, unaware, retried, paper, faults>>

Learn ==
  /\ ~mapped
  /\ \A j \in Sync : job[j].status # "NONE"
  /\ mapped' = TRUE
  /\ UNCHANGED <<job, local, target, work, unaware, retried, paper, faults>>

QueueReprint(j) ==
  /\ j \in Reprint /\ job[j].status = "NONE"
  /\ \A k \in Sync : job[k].status # "NONE"
  /\ Becomes(j, [Unqueued EXCEPT !.status = "PENDING"])
  /\ UNCHANGED <<local, target, work, mapped, unaware, retried, paper, faults>>

\* Mutant: a job whose lease ran out is never taken again.
OnlyPending(j) == job[j].status = "PENDING"

Claimable(j) ==
  \/ job[j].status = "PENDING"
  \/ job[j].status = "PROCESSING" /\ job[j].expired
     /\ (job[j].flag \/ ~MayHavePrinted(j))

Taken(j, d, outcome) ==
  Becomes(j, [status |-> "PROCESSING", holder |-> d, expired |-> FALSE,
              attempts |-> job[j].attempts + 1, flag |-> FALSE, outcome |-> outcome])

\* Mutant: what was printed offline is not looked up.
NotedNowhere(d, j, state) == {}

\* Mutant: a reprint is suppressed as the sync is.
NotedAlways(d, j, state) ==
  IF d = Origin /\ mapped
  THEN {p \in Targets[j] : target[Origin][Offline][p] = state} ELSE {}

\* The targets of a sync job that Origin printed, or may have printed, offline.
Noted(d, j, state) ==
  IF d = Origin /\ mapped /\ j \in Sync
  THEN {p \in Targets[j] : target[Origin][Offline][p] = state} ELSE {}

\* A desktop's tick empties the local queue before it polls the server: what is
\* left there has failed before and waits for its next attempt.
LocalQueueDrained(d) ==
  d = Origin => /\ Resting(d, Offline)
                /\ local.state = "pending" => local.attempts > 0

Claim(d, j) ==
  /\ Claimable(j) /\ Resting(d, j) /\ LocalQueueDrained(d)
  /\ Taken(j, d, "CLAIMED")
  /\ LET doubtful == Noted(d, j, "ambiguous")
         todo == (Targets[j] \ Noted(d, j, "printed")) \ doubtful
     IN Put(d, j, [Idle EXCEPT
              !.stage = IF todo = {} /\ doubtful = {} THEN "printing" ELSE "claimed",
              !.allow = job[j].flag,
              !.todo = todo,
              !.failure = IF doubtful = {} THEN "none" ELSE "ambiguous",
              !.request = retried[j]])
  /\ unaware' = (unaware \/ (j \in Sync /\
       ~(d = Origin /\ mapped /\ local.state \in {"printed", "dead_letter"})))
  /\ UNCHANGED <<local, target, mapped, retried, paper, faults>>

\* The answer is lost, or the server stops between taking the job and writing
\* the attempt: no desktop works on the job.
ClaimLost(j) ==
  /\ Fault /\ Claimable(j)
  /\ \E outcome \in {"CLAIMED", job[j].outcome} : Taken(j, None, outcome)
  /\ UNCHANGED <<local, target, work, mapped, unaware, retried, paper>>

Expire(j) ==
  /\ job[j].status = "PROCESSING" /\ ~job[j].expired
  /\ Becomes(j, [job[j] EXCEPT !.expired = TRUE])
  /\ UNCHANGED <<local, target, work, mapped, unaware, retried, paper, faults>>

\* A poll that meets a job whose lease ran out when paper may have come out.
PutAside(j) ==
  /\ job[j].status = "PROCESSING" /\ job[j].expired
  /\ ~job[j].flag /\ MayHavePrinted(j)
  /\ Becomes(j, [job[j] EXCEPT !.status = "DEAD_LETTER", !.holder = None,
                                !.expired = FALSE, !.outcome = "AMBIGUOUS"])
  /\ UNCHANGED <<local, target, work, mapped, unaware, retried, paper, faults>>

\* An operator asks for a job again that is not done and not being printed.
Retry(j) ==
  /\ retried[j] < MaxAsked
  /\ \/ job[j].status \in {"PENDING", "DEAD_LETTER"}
     \/ job[j].status = "PROCESSING" /\ job[j].expired
  /\ Becomes(j, [job[j] EXCEPT !.status = "PENDING", !.holder = None,
                                !.expired = FALSE, !.attempts = 0,
                                !.flag = (job[j].outcome = "AMBIGUOUS")])
  /\ retried' = [retried EXCEPT ![j] = @ + 1]
  /\ UNCHANGED <<local, target, work, mapped, unaware, paper, faults>>

-----------------------------------------------------------------------------
(* A desktop at work on a copy.                                               *)

\* What an error is taken for once paper may be on a printer.
AfterError(w) ==
  [w EXCEPT !.stage = "failing", !.todo = {},
            !.failure = IF w.any THEN "ambiguous" ELSE "plain"]

Dispatch(d, j) ==
  /\ work[d][j].stage = "claimed"
  /\ \/ /\ LeaseValid(d, j) /\ NoFault
        /\ Becomes(j, [job[j] EXCEPT !.outcome = "DISPATCHING"])
        /\ Put(d, j, [work[d][j] EXCEPT !.stage = "printing"])
     \/ /\ LeaseValid(d, j) /\ Fault  \* the answer is lost
        /\ Becomes(j, [job[j] EXCEPT !.outcome = "DISPATCHING"])
        /\ Put(d, j, AfterError(work[d][j]))
     \/ /\ IF LeaseValid(d, j) THEN Fault ELSE NoFault
        /\ Put(d, j, AfterError(work[d][j]))
        /\ UNCHANGED job
  /\ UNCHANGED <<local, target, mapped, unaware, retried, paper>>

\* A target already printed is passed over; one whose last attempt is in doubt
\* is not tried again unless the operator allowed it; any other is marked in
\* doubt before it is sent to.
Start(d, c, p) ==
  /\ work[d][c].stage = "printing" /\ p \in work[d][c].todo
  /\ LET w == [work[d][c] EXCEPT !.todo = @ \ {p}]
         state == target[d][c][p]
     IN \/ /\ state = "printed"
           /\ Put(d, c, w) /\ UNCHANGED target
        \/ /\ state = "ambiguous" /\ ~w.allow
           /\ Put(d, c, [w EXCEPT !.failure = "ambiguous"]) /\ UNCHANGED target
        \/ /\ state = "none" \/ (state = "ambiguous" /\ w.allow)
           /\ Put(d, c, [w EXCEPT !.at = @ \cup {p},
                  !.before = IF state = "ambiguous" THEN @ \cup {p} ELSE @])
           /\ Records(d, c, p, "ambiguous")
  /\ UNCHANGED <<job, local, mapped, unaware, retried, paper, faults>>

PutsOut(c, p, request) == paper' = [paper EXCEPT ![c][p][request] = @ + 1]

\* The printer is done with a document, refuses it, or does not answer in time;
\* the paper may also be out and the record of it fail.
End(d, c, p) ==
  /\ p \in work[d][c].at
  /\ LET w == [work[d][c] EXCEPT !.at = @ \ {p}]
         doubt == [w EXCEPT !.failure = "ambiguous"]
         worse == IF w.failure = "none" THEN "plain" ELSE w.failure
     IN \/ /\ NoFault
           /\ PutsOut(c, p, w.request) /\ Records(d, c, p, "printed")
           /\ Put(d, c, [w EXCEPT !.any = TRUE])
        \/ /\ Fault
           /\ PutsOut(c, p, w.request) /\ UNCHANGED target
           /\ Put(d, c, [doubt EXCEPT !.any = TRUE])
        \/ /\ Fault  \* no answer in time
           /\ PutsOut(c, p, w.request) \/ UNCHANGED paper
           /\ Put(d, c, doubt) /\ UNCHANGED target
        \/ /\ Fault  \* refused
           /\ Put(d, c, [w EXCEPT !.failure = worse])
           /\ IF p \in w.before THEN UNCHANGED target ELSE Records(d, c, p, "none")
           /\ UNCHANGED paper
  /\ UNCHANGED <<job, local, mapped, unaware, retried>>

Completes(j) ==
  Becomes(j, [job[j] EXCEPT !.status = "SUBMITTED", !.holder = None,
                            !.outcome = "SUBMITTED"])

Complete(d, j) ==
  /\ work[d][j].stage = "printing" /\ AllSent(d, j) /\ work[d][j].failure = "none"
  /\ \/ /\ LeaseValid(d, j) /\ NoFault
        /\ Completes(j) /\ Put(d, j, Idle)
     \/ /\ LeaseValid(d, j) /\ Fault  \* the answer is lost
        /\ Completes(j) /\ Put(d, j, AfterError(work[d][j]))
     \/ /\ IF LeaseValid(d, j) THEN Fault ELSE NoFault
        /\ Put(d, j, AfterError(work[d][j])) /\ UNCHANGED job
  /\ UNCHANGED <<local, target, mapped, unaware, retried, paper>>

\* Mutant: only an unanswered target is in doubt, not the ones already printed.
InDoubtIfUnanswered(w) == w.failure = "ambiguous"

\* A failure counts as in doubt once any target has put out paper.
InDoubt(w) == w.failure = "ambiguous" \/ w.any

Fails(j, doubtful) ==
  LET dead == doubtful \/ job[j].attempts >= MaxAttempts
      outcome == IF doubtful THEN "AMBIGUOUS" ELSE IF dead THEN "DEAD_LETTER" ELSE "FAILED"
  IN Becomes(j, [job[j] EXCEPT !.status = IF dead THEN "DEAD_LETTER" ELSE "PENDING",
                               !.holder = None, !.outcome = outcome])

Fail(d, j) ==
  /\ work[d][j].stage \in {"printing", "failing"} /\ AllSent(d, j)
  /\ work[d][j].failure # "none"
  /\ \/ LeaseValid(d, j) /\ NoFault /\ Fails(j, InDoubt(work[d][j]))
     \/ (IF LeaseValid(d, j) THEN Fault ELSE NoFault) /\ UNCHANGED job
  /\ Put(d, j, Idle)
  /\ UNCHANGED <<local, target, mapped, unaware, retried, paper>>

-----------------------------------------------------------------------------
(* The offline copy in the local queue of Origin.                             *)
LocalClaim ==
  /\ local.state = "pending" /\ \A c \in Copy : Resting(Origin, c)
  /\ local' = [state |-> "printing", attempts |-> local.attempts + 1]
  /\ Put(Origin, Offline, [Idle EXCEPT !.stage = "printing",
           !.todo = Targets[Offline], !.request = retried[Offline]])
  /\ UNCHANGED <<job, target, mapped, unaware, retried, paper, faults>>

\* Leased, and the desktop stops before the copy is marked as printing.
LocalClaimLost ==
  /\ Fault /\ local.state = "pending" /\ \A c \in Copy : Resting(Origin, c)
  /\ local' = [local EXCEPT !.attempts = @ + 1]
  /\ UNCHANGED <<job, target, work, mapped, unaware, retried, paper>>

LocalOutcome(failure) ==
  IF failure = "none" THEN "printed"
  ELSE IF failure = "ambiguous" \/ local.attempts >= MaxAttempts THEN "dead_letter"
  ELSE "pending"

LocalFinish ==
  /\ work[Origin][Offline].stage = "printing" /\ AllSent(Origin, Offline)
  /\ \/ NoFault /\ local' = [local EXCEPT !.state =
                               LocalOutcome(work[Origin][Offline].failure)]
     \/ Fault /\ local' = [local EXCEPT !.state = "dead_letter"] \* not recorded
  /\ Put(Origin, Offline, Idle)
  /\ UNCHANGED <<job, target, mapped, unaware, retried, paper>>

\* An operator asks for the local copy again: its targets in doubt are forgotten.
LocalRetry ==
  /\ retried[Offline] < MaxAsked
  /\ local.state = "dead_letter"
  /\ local' = [state |-> "pending", attempts |-> 0]
  /\ target' = [target EXCEPT ![Origin][Offline] =
       [p \in Printer |-> IF @[p] = "ambiguous" THEN "none" ELSE @[p]]]
  /\ retried' = [retried EXCEPT ![Offline] = @ + 1]
  /\ UNCHANGED <<job, work, mapped, unaware, paper, faults>>

\* A desktop stops; Origin finds a copy it was printing when it starts again.
Crash(d) ==
  /\ Fault /\ \E c \in Copy : ~Resting(d, c)
  /\ work' = [work EXCEPT ![d] = [c \in Copy |-> Idle]]
  /\ local' = IF d = Origin /\ local.state = "printing"
              THEN [local EXCEPT !.state = "dead_letter"] ELSE local
  /\ UNCHANGED <<job, target, mapped, unaware, retried, paper>>

-----------------------------------------------------------------------------
Polls(j) == PutAside(j) \/ \E d \in Desktop : Claim(d, j)
Works(d, j) == Dispatch(d, j) \/ Complete(d, j) \/ Fail(d, j)
Sends(d, c) == \E p \in Printer : Start(d, c, p) \/ End(d, c, p)

Next ==
  \/ QueueSync \/ Learn
  \/ \E j \in Job : \/ QueueReprint(j) \/ ClaimLost(j) \/ Expire(j)
                    \/ PutAside(j) \/ Retry(j)
  \/ \E d \in Desktop, j \in Job :
       Claim(d, j) \/ Dispatch(d, j) \/ Complete(d, j) \/ Fail(d, j)
  \/ \E d \in Desktop, c \in Copy, p \in Printer : Start(d, c, p) \/ End(d, c, p)
  \/ LocalClaim \/ LocalClaimLost \/ LocalFinish \/ LocalRetry
  \/ \E d \in Desktop : Crash(d)

Spec == Init /\ [][Next]_vars

\* Desktops keep polling and every started print ends; leases run out.
Fairness ==
  /\ WF_vars(LocalClaim) /\ WF_vars(LocalFinish)
  /\ \A j \in Job : WF_vars(Polls(j)) /\ WF_vars(Expire(j))
  /\ \A d \in Desktop, j \in Job : WF_vars(Works(d, j))
  /\ \A d \in Desktop, c \in Copy : WF_vars(Sends(d, c))

FairSpec == Spec /\ Fairness

-----------------------------------------------------------------------------
(* Properties.                                                                *)

WorkType == [stage : {"idle", "claimed", "printing", "failing"}, allow : BOOLEAN,
             todo : SUBSET Printer, at : SUBSET Printer, before : SUBSET Printer,
             any : BOOLEAN, failure : {"none", "plain", "ambiguous"},
             request : 0 .. MaxAsked]

\* Types.
TypeOK ==
  /\ job \in [Job -> [status : {"NONE", "PENDING", "PROCESSING", "SUBMITTED",
                                "DEAD_LETTER"},
                      holder : Desktop \cup {None}, expired : BOOLEAN,
                      attempts : Nat, flag : BOOLEAN,
                      outcome : {"NONE", "CLAIMED", "DISPATCHING", "SUBMITTED",
                                 "FAILED", "AMBIGUOUS", "DEAD_LETTER"}]]
  /\ local \in [state : {"pending", "printing", "printed", "dead_letter"},
                attempts : Nat]
  /\ target \in [Desktop -> [Copy -> [Printer -> {"none", "ambiguous", "printed"}]]]
  /\ work \in [Desktop -> [Copy -> WorkType]]
  /\ mapped \in BOOLEAN /\ unaware \in BOOLEAN
  /\ retried \in [Copy -> 0 .. MaxAsked]
  /\ paper \in [Copy -> [Printer -> [0 .. MaxAsked -> Nat]]]
  /\ faults \in 0 .. MaxFaults

\* Each request for a copy puts out at most one sheet of it on each printer,
\* whatever is lost, refused, unanswered or interrupted: nothing is printed
\* again on the code's own initiative once paper may be out.
OneSheetPerRequest ==
  \A c \in Copy, p \in Printer : \A r \in 0 .. MaxAsked : paper[c][p][r] <= 1

Sheets(c, p) == SumFunctionOnSet(paper[c][p], 0 .. MaxAsked)

\* The order's own document, printed offline and by the server's jobs, comes out
\* once on a printer and once more for each time an operator asked again
\* ("Normal sync replay retains duplicate suppression").
PaperOnce ==
  \A p \in Printer :
    SumFunctionOnSet([c \in Copy |-> Sheets(c, p)], Copy \ Reprint)
      <= 1 + SumFunctionOnSet(retried, Copy \ Reprint)

\* So it does where the suppression can see the offline copy: every claim of a
\* sync job is by the desktop that holds that copy, after the copy is settled
\* and the order's server id is known.
PaperOnceInTurn == unaware \/ PaperOnce

HasSheet(c, p) == \E r \in 0 .. MaxAsked : paper[c][p][r] > 0

\* What is reported done is on paper: a submitted job has a sheet on each of its
\* printers, of its own or, unless it is a reprint, of the offline copy; so has
\* an offline copy that counts as printed.
DoneIsPrinted ==
  /\ \A j \in Job : job[j].status = "SUBMITTED" =>
       \A p \in Targets[j] :
         HasSheet(j, p) \/ (j \notin Reprint /\ HasSheet(Offline, p))
  /\ local.state = "printed" => \A p \in Targets[Offline] : HasSheet(Offline, p)

\* Once a job is submitted or put aside only an operator's retry moves it, and
\* never a submitted one: the report of a desktop whose lease was taken away is
\* harmless ("makes a late agent harmless").
OnlyOperatorsReopen ==
  [][\A j \in Job : job[j].status \in {"SUBMITTED", "DEAD_LETTER"} =>
       \/ job'[j] = job[j]
       \/ job[j].status = "DEAD_LETTER" /\ retried'[j] = retried[j] + 1]_vars

\* Every queued job, and the offline copy, is in the end done or put aside for
\* an operator.
Settles ==
  /\ \A j \in Job : job[j].status = "PENDING" ~>
       job[j].status \in {"SUBMITTED", "DEAD_LETTER"}
  /\ []<>(local.state \in {"printed", "dead_letter"})
=============================================================================
