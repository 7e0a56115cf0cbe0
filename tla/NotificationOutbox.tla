------------------------- MODULE NotificationOutbox -------------------------
(***************************************************************************)
(* Telegram notifications of one order: the notification_outbox table and  *)
(* the worker every backend instance runs over it                          *)
(* (modules/notifications/notification-outbox.worker.ts), the adapters of  *)
(* telegram-order-notification.service.ts, and the operator's resend of a  *)
(* dead letter.                                                            *)
(*                                                                         *)
(* The order is a level that only grows: one level per status change.  The *)
(* transaction that changes it also inserts the jobs of that level.        *)
(* Telegram is external: it handles a request once, late, or never, and    *)
(* the client may not learn which.                                         *)
(***************************************************************************)
EXTENDS Naturals, Sequences, FiniteSets

CONSTANTS
  Job,
  KindOf,       \* KindOf[j]: the kind of the outbox row
  LevelOf,      \* LevelOf[j]: the order level whose transaction inserts it
  MaxLevel,     \* bound: status changes of the order
  Silent,       \* levels whose status has no message for the customer
  Instance,     \* backend processes; each runs one worker
  Retry,        \* requests of POST dead-letters/:id/retry
  InstanceOf,   \* InstanceOf[r]: the process that serves request r
  NoJob,
  MaxAttempts,  \* MAX_ATTEMPTS (12)
  MaxFaults     \* bound: crashes, lost answers, rate limits, database errors,
                \* sends that outlive their lease

Kinds == {"staff_new_order", "staff_status_refresh", "customer_status"}
Serialised == {"staff_status_refresh", "customer_status"}

ASSUME NotificationConstants ==
  /\ IsFiniteSet(Job)
  /\ NoJob \notin Job
  /\ MaxLevel \in Nat
  /\ Silent \subseteq 0..MaxLevel
  /\ KindOf \in [Job -> Kinds]
  /\ LevelOf \in [Job -> 0..MaxLevel]
  /\ \A j, k \in Job : KindOf[j] = KindOf[k] /\ LevelOf[j] = LevelOf[k] => j = k
  \* a customer's job is inserted for a status with a message only
  /\ \A j \in Job : KindOf[j] = "customer_status" => LevelOf[j] \notin Silent
  /\ Instance \cap Retry = {}
  /\ InstanceOf \in [Retry -> Instance]
  /\ MaxAttempts \in Nat \ {0}
  /\ MaxFaults \in Nat

VARIABLES
  \* the database
  level, status, attempts, waiting, lapsed, letters, remembered,
  \* the processes
  run,
  \* Telegram: staff messages, the customer's chat, aborted requests
  shown, chat, late,
  \* bound, and history variables
  faults, auto, again

database == <<level, status, attempts, waiting, lapsed, letters, remembered>>
telegram == <<shown, chat, late>>
vars == <<database, run, telegram, faults, auto, again>>

Actor == Instance \cup Retry
Statuses == {"none", "PENDING", "PROCESSING", "DELIVERED", "FAILED", "UNCERTAIN"}
Settled == {"DELIVERED", "FAILED", "UNCERTAIN"}
Results == {"sent", "ignored", "skipped", "limited", "refused", "failed"}

\* lease: the attempts value of the claim, which identifies it like leaseToken
Idle == [step |-> "idle", job |-> NoJob, lease |-> 0, view |-> 0, msg |-> 0, result |-> "none"]
Runs == [step : {"taken", "sending", "posted", "answered"}, job : Job, lease : Nat,
         view : 0..MaxLevel, msg : Nat, result : Results \cup {"none"}]

TypeOK ==
  /\ level \in 0..MaxLevel
  /\ status \in [Job -> Statuses]
  /\ attempts \in [Job -> 0..MaxAttempts]
  /\ waiting \subseteq Job
  /\ lapsed \subseteq Job
  /\ letters \subseteq Job
  /\ remembered \in Nat
  /\ run \in [Actor -> Runs \cup {Idle}]
  /\ shown \in Seq(0..MaxLevel)
  /\ chat \in Seq(Job)
  /\ late \subseteq Job
  /\ faults \in 0..MaxFaults
  /\ auto \in [Job -> Nat]
  /\ again \in [Job -> Nat]

Init ==
  /\ level = 0
  /\ status = [j \in Job |-> IF LevelOf[j] = 0 THEN "PENDING" ELSE "none"]
  /\ attempts = [j \in Job |-> 0]
  /\ waiting = {}
  /\ lapsed = {}
  /\ letters = {}
  /\ remembered = 0
  /\ run = [a \in Actor |-> Idle]
  /\ shown = <<>>
  /\ chat = <<>>
  /\ late = {}
  /\ faults = 0
  /\ auto = [j \in Job |-> 0]
  /\ again = [j \in Job |-> 0]

Fault == faults < MaxFaults /\ faults' = faults + 1

(* A status change and its outbox rows, in one transaction. *)
ChangeStatus ==
  /\ level < MaxLevel
  /\ level' = level + 1
  /\ status' = [j \in Job |-> IF LevelOf[j] = level + 1 THEN "PENDING" ELSE status[j]]
  /\ UNCHANGED <<attempts, waiting, lapsed, letters, remembered, run, telegram, faults,
                 auto, again>>

----------------------------------------------------------------------------
(* The worker's pass: dispatchPending. *)

Earlier(j) == {k \in Job : KindOf[k] = KindOf[j] /\ LevelOf[k] < LevelOf[j]}

\* Mutant: the claim looks for a busy job of the kind only.
ClaimableUnlessBusy(j) ==
  /\ status[j] = "PENDING"
  /\ j \notin waiting
  /\ KindOf[j] \in Serialised =>
       \A k \in Job : KindOf[k] = KindOf[j] => status[k] # "PROCESSING"

\* Mutant: the claim looks for an earlier waiting job only.
ClaimableWhileBusy(j) ==
  /\ status[j] = "PENDING"
  /\ j \notin waiting
  /\ KindOf[j] \in Serialised => \A k \in Earlier(j) : status[k] # "PENDING"

\* Mutant: a job with an unknown outcome holds back the later ones.
ClaimableAfterDelivery(j) ==
  /\ status[j] = "PENDING"
  /\ j \notin waiting
  /\ KindOf[j] \in Serialised =>
       \A k \in Earlier(j) : status[k] \in {"none", "DELIVERED"}

(* The candidates of claimBatch: customer_status and staff_status_refresh  *)
(* jobs of one order are taken one at a time and in the order of creation. *)
Claimable(j) ==
  /\ status[j] = "PENDING"
  /\ j \notin waiting
  /\ KindOf[j] \in Serialised =>
       /\ \A k \in Job : KindOf[k] = KindOf[j] => status[k] # "PROCESSING"
       /\ \A k \in Earlier(j) : status[k] # "PENDING"

Claim(i, j) ==
  /\ run[i] = Idle
  /\ Claimable(j)
  /\ status' = [status EXCEPT ![j] = "PROCESSING"]
  /\ attempts' = [attempts EXCEPT ![j] = @ + 1]
  /\ run' = [run EXCEPT ![i] = [Idle EXCEPT !.step = "taken", !.job = j,
                                            !.lease = attempts[j] + 1]]
  /\ UNCHANGED <<level, waiting, lapsed, letters, remembered, telegram, faults, auto, again>>

\* Mutant: a job whose worker died is tried again.
RecoverByRetry(i, j) ==
  /\ run[i] = Idle
  /\ status[j] = "PROCESSING"
  /\ j \in lapsed
  /\ attempts[j] < MaxAttempts
  /\ status' = [status EXCEPT ![j] = "PENDING"]
  /\ lapsed' = lapsed \ {j}
  /\ UNCHANGED <<level, attempts, waiting, letters, remembered, run, telegram, faults,
                 auto, again>>

(* recoverExpiredLeases: what became of the send is unknown, so the job is *)
(* not sent again; the row and its dead letter change together.            *)
Recover(i, j) ==
  /\ run[i] = Idle
  /\ status[j] = "PROCESSING"
  /\ j \in lapsed
  /\ status' = [status EXCEPT ![j] = "UNCERTAIN"]
  /\ lapsed' = lapsed \ {j}
  /\ letters' = letters \cup {j}
  /\ UNCHANGED <<level, attempts, waiting, remembered, run, telegram, faults, auto, again>>

(* The 60 seconds of a lease pass: its worker is gone, or is very slow. *)
Holder(j) == {i \in Instance : run[i].job = j /\ run[i].lease = attempts[j]}

Lapse(j) ==
  /\ status[j] = "PROCESSING"
  /\ j \notin lapsed
  /\ lapsed' = lapsed \cup {j}
  /\ IF Holder(j) = {} THEN UNCHANGED faults ELSE Fault
  /\ UNCHANGED <<level, status, attempts, waiting, letters, remembered, run, telegram,
                 auto, again>>

(* The scheduledAt of a rescheduled job comes. *)
Wake(j) ==
  /\ j \in waiting
  /\ waiting' = waiting \ {j}
  /\ UNCHANGED <<level, status, attempts, lapsed, letters, remembered, run, telegram,
                 faults, auto, again>>

----------------------------------------------------------------------------
(* One delivery: deliverOutbox... of a worker, or of the operator's retry. *)

(* The operator's request finds the dead letter in the list. *)
PickLetter(r, j) ==
  /\ run[r] = Idle
  /\ j \in letters
  /\ run' = [run EXCEPT ![r] = [Idle EXCEPT !.step = "taken", !.job = j]]
  /\ UNCHANGED <<database, telegram, faults, auto, again>>

ProcessOf(a) == IF a \in Retry THEN InstanceOf[a] ELSE a

\* Mutant: the staff message is rendered without waiting for its turn.
NeverChained(a) == a \in Retry

(* enqueueMessage: one message update of the order at a time in a process; *)
(* a worker's own new-order and customer messages do not queue.            *)
Chained(a) == a \in Retry \/ KindOf[run[a].job] = "staff_status_refresh"

ChainFree(a) ==
  Chained(a) => \A b \in Actor \ {a} :
    ~ /\ ProcessOf(b) = ProcessOf(a)
      /\ run[b].step \in {"sending", "posted"}
      /\ Chained(b)

(* The order is read and the text made from it; a worker's customer        *)
(* message is made from the status the job was inserted for.               *)
ViewOf(a) == IF KindOf[run[a].job] = "customer_status" /\ a \in Instance
             THEN LevelOf[run[a].job] ELSE level

(* A refresh has nothing to do before the message id is stored, and the    *)
(* resend to a customer when the order has moved on to a status without a  *)
(* text.                                                                   *)
NothingToSend(a) ==
  \/ KindOf[run[a].job] = "staff_status_refresh" /\ remembered = 0
  \/ KindOf[run[a].job] = "customer_status" /\ ViewOf(a) \in Silent

Unneeded(a) == IF KindOf[run[a].job] = "customer_status" /\ a \in Retry
               THEN "skipped" ELSE "ignored"

Begin(a) ==
  /\ run[a].step = "taken"
  /\ ChainFree(a)
  /\ run' = [run EXCEPT ![a] =
       IF NothingToSend(a)
       THEN [@ EXCEPT !.step = "answered", !.result = Unneeded(a)]
       ELSE [@ EXCEPT !.step = "sending", !.view = ViewOf(a), !.msg = remembered]]
  /\ UNCHANGED <<database, telegram, faults, auto, again>>

(* Telegram handles the request. *)
Post(a) ==
  LET j == run[a].job
      n == IF KindOf[j] = "staff_new_order" THEN Len(shown) + 1 ELSE run[a].msg
  IN /\ run[a].step = "sending"
     /\ run' = [run EXCEPT ![a] = [@ EXCEPT !.step = "posted", !.msg = n]]
     /\ shown' = CASE KindOf[j] = "staff_new_order" -> Append(shown, run[a].view)
                   [] KindOf[j] = "staff_status_refresh" -> [shown EXCEPT ![n] = run[a].view]
                   [] OTHER -> shown
     /\ chat' = IF KindOf[j] = "customer_status" /\ a \in Instance
                THEN Append(chat, j) ELSE chat
     /\ auto' = IF a \in Instance THEN [auto EXCEPT ![j] = @ + 1] ELSE auto
     /\ UNCHANGED <<database, late, faults, again>>

(* The answer: ok, and the id of a new staff message is stored; or the     *)
(* answer, or the write of the id, is lost.                                *)
Confirm(a) ==
  /\ run[a].step = "posted"
  /\ run' = [run EXCEPT ![a] = [@ EXCEPT !.step = "answered", !.result = "sent"]]
  /\ remembered' = IF KindOf[run[a].job] = "staff_new_order" THEN run[a].msg ELSE remembered
  /\ UNCHANGED <<level, status, attempts, waiting, lapsed, letters, telegram, faults, auto,
                 again>>

LoseAnswer(a) ==
  /\ run[a].step = "posted"
  /\ Fault
  /\ run' = [run EXCEPT ![a] = [@ EXCEPT !.step = "answered", !.result = "failed"]]
  /\ UNCHANGED <<database, telegram, auto, again>>

(* Not handled: Telegram is not configured, limits the rate (an edit that  *)
(* is limited three times counts as failed) or for more than a day, or the *)
(* ten seconds pass.  An aborted customer message may still get there.     *)
Failures(k) == IF k = "staff_status_refresh" THEN {"skipped", "failed"}
                                             ELSE {"skipped", "limited", "refused", "failed"}

Unhandled(a) ==
  /\ run[a].step = "sending"
  /\ Fault
  /\ \E result \in Failures(KindOf[run[a].job]) :
       /\ run' = [run EXCEPT ![a] = [@ EXCEPT !.step = "answered", !.result = result]]
       /\ late' = IF result = "failed" /\ KindOf[run[a].job] = "customer_status" /\ a \in Instance
                  THEN late \cup {run[a].job} ELSE late
  /\ UNCHANGED <<database, shown, chat, auto, again>>

LatePost(j) ==
  /\ j \in late
  /\ late' = late \ {j}
  /\ \/ chat' = Append(chat, j) /\ auto' = [auto EXCEPT ![j] = @ + 1]
     \/ UNCHANGED <<chat, auto>>
  /\ UNCHANGED <<database, run, shown, faults, again>>

----------------------------------------------------------------------------
(* What the worker does with the result. *)

(* The row is still PROCESSING under the lease this worker claimed. *)
Holds(i) == /\ status[run[i].job] = "PROCESSING"
            /\ attempts[run[i].job] = run[i].lease

Ends(i, s) ==
  LET j == run[i].job IN
  IF Holds(i)
  THEN /\ status' = [status EXCEPT ![j] = s]
       /\ lapsed' = lapsed \ {j}
       /\ letters' = IF s \in {"FAILED", "UNCERTAIN"} THEN letters \cup {j} ELSE letters
       /\ waiting' = IF s = "PENDING" THEN waiting \cup {j} ELSE waiting
  ELSE UNCHANGED <<status, lapsed, letters, waiting>>

Finish(i) ==
  /\ run[i].step = "answered"
  /\ run' = [run EXCEPT ![i] = Idle]
  /\ UNCHANGED <<level, attempts, remembered, telegram, auto, again>>

(* Only an explicit rate limit, or a missing configuration, is retried. *)
Retryable == {"limited", "skipped"}

TriesLeft(i) == run[i].lease < MaxAttempts

\* Mutant: a message that was not sent counts as delivered.
DeliveringOrSkipped == {"sent", "ignored", "skipped"}

Delivering == {"sent", "ignored"}

SettleDelivered(i) ==
  /\ Finish(i)
  /\ run[i].result \in Delivering
  /\ Ends(i, "DELIVERED")
  /\ UNCHANGED faults

SettleRetry(i) ==
  /\ Finish(i)
  /\ run[i].result \in Retryable
  /\ TriesLeft(i)
  /\ Ends(i, "PENDING")
  /\ UNCHANGED faults

SettleFailed(i) ==
  /\ Finish(i)
  /\ \/ run[i].result = "refused"
     \/ run[i].result \in Retryable /\ ~TriesLeft(i)
  /\ Ends(i, "FAILED")
  /\ UNCHANGED faults

SettleUncertain(i) ==
  /\ Finish(i)
  /\ run[i].result = "failed"
  /\ run[i].result \notin Retryable
  /\ Ends(i, "UNCERTAIN")
  /\ UNCHANGED faults

(* The database refuses the write; the pass ends with a log line. *)
SettleLost(i) ==
  /\ Finish(i)
  /\ Fault
  /\ UNCHANGED <<status, lapsed, letters, waiting>>

Settle(i) == SettleDelivered(i) \/ SettleRetry(i) \/ SettleFailed(i) \/ SettleUncertain(i)

----------------------------------------------------------------------------
(* What the operator's resend does with the result. *)

\* Mutant: the dead letter goes whatever Telegram said.
TakenAlways(r) == TRUE

Taken(r) == run[r].result = "sent"

(* After a confirmed send the job becomes DELIVERED and the dead letter is *)
(* removed; an error of either write is swallowed.                         *)
EndResend(r) ==
  LET j == run[r].job IN
  /\ run[r].step = "answered"
  /\ run' = [run EXCEPT ![r] = Idle]
  /\ IF Taken(r)
     THEN \E marked, removed \in BOOLEAN :
            /\ IF marked /\ removed THEN UNCHANGED faults ELSE Fault
            /\ status' = IF marked /\ status[j] \in {"FAILED", "UNCERTAIN"}
                         THEN [status EXCEPT ![j] = "DELIVERED"] ELSE status
            /\ letters' = IF removed THEN letters \ {j} ELSE letters
            /\ again' = IF run[r].result = "sent" THEN [again EXCEPT ![j] = @ + 1] ELSE again
     ELSE UNCHANGED <<status, letters, again, faults>>
  /\ UNCHANGED <<level, attempts, waiting, lapsed, remembered, telegram, auto>>

(* A process dies, its worker and requests with it, and starts again.      *)
(* Telegram may still get the customer message it was sending.             *)
Crash(i) ==
  LET dead == {a \in Actor : ProcessOf(a) = i} IN
  /\ \E a \in dead : run[a] # Idle
  /\ Fault
  /\ run' = [a \in Actor |-> IF a \in dead THEN Idle ELSE run[a]]
  /\ late' = IF run[i].step = "sending" /\ KindOf[run[i].job] = "customer_status"
             THEN late \cup {run[i].job} ELSE late
  /\ UNCHANGED <<database, shown, chat, auto, again>>

----------------------------------------------------------------------------
Next ==
  \/ ChangeStatus
  \/ \E i \in Instance :
       \/ \E j \in Job : Claim(i, j) \/ Recover(i, j)
       \/ Settle(i)
       \/ SettleLost(i)
       \/ Crash(i)
  \/ \E j \in Job : Lapse(j) \/ Wake(j) \/ LatePost(j)
  \/ \E r \in Retry : EndResend(r) \/ \E j \in Job : PickLetter(r, j)
  \/ \E a \in Actor : Begin(a) \/ Post(a) \/ Confirm(a) \/ LoseAnswer(a) \/ Unhandled(a)

Spec == Init /\ [][Next]_vars

(* The five-second cron runs in every process; a request to Telegram is    *)
(* answered or aborted; leases and delays are finite.                      *)
Fairness ==
  /\ \A i \in Instance : /\ WF_vars(\E j \in Job : Claim(i, j))
                        /\ WF_vars(\E j \in Job : Recover(i, j))
                        /\ WF_vars(Settle(i))
  /\ \A r \in Retry : WF_vars(EndResend(r))
  /\ \A a \in Actor : WF_vars(Begin(a)) /\ WF_vars(Post(a)) /\ WF_vars(Confirm(a))
  /\ \A j \in Job : WF_vars(Lapse(j) /\ Holder(j) = {}) /\ WF_vars(Wake(j))

FairSpec == Spec /\ Fairness

----------------------------------------------------------------------------
(* Properties. *)

(* Through lost answers, crashes, lapsed leases and rate limits the worker *)
(* puts at most one message per job before the customer or the kitchen     *)
(* ("automatic resend is disabled to avoid duplicates").  An edit of the   *)
(* staff message may be repeated.                                          *)
AutomaticSendOnce ==
  \A j \in Job : KindOf[j] # "staff_status_refresh" => auto[j] <= 1

(* No job gets lost: one that was given up has a dead letter for the       *)
(* operator, unless the operator's resend of it was confirmed.             *)
LossIsVisible ==
  \A j \in Job : status[j] \in {"FAILED", "UNCERTAIN"} => j \in letters \/ again[j] > 0

(* A job counts as delivered only after a message of it reached Telegram;  *)
(* a staff refresh also when there was no message to refresh.              *)
DeliveredWasPosted ==
  \A j \in Job : status[j] = "DELIVERED" /\ KindOf[j] # "staff_status_refresh"
                     => auto[j] + again[j] > 0

(* The statuses of one kind are handled in order: a job is first claimed   *)
(* when every earlier one is settled, whichever process had it.            *)
ClaimsInOrder ==
  \A j \in Job : KindOf[j] \in Serialised /\ attempts[j] > 0
                     => \A k \in Earlier(j) : status[k] \in Settled

(* The customer sees a status after a later one only when the operator has *)
(* been told, or is about to be told, that the outcome of its message was  *)
(* unknown.                                                                *)
OutOfOrderIsUncertain ==
  \A p, q \in 1..Len(chat) :
    p < q /\ LevelOf[chat[q]] < LevelOf[chat[p]]
      => status[chat[q]] = "UNCERTAIN" \/ again[chat[q]] > 0

(* When nothing is outstanding and nothing was given up, the kitchen's     *)
(* message shows the order as it is.                                       *)
StaffSeesCurrent ==
  (remembered > 0 /\ \A j \in Job : status[j] \in {"none", "DELIVERED"})
    => shown[remembered] = level

(* Every job is settled in the end. *)
EveryJobSettles ==
  \A j \in Job : status[j] = "PENDING" ~> status[j] \in Settled

(* An operator's resend is not repeated: a dead letter is sent again at    *)
(* most once ("idempotency key: so that a resend makes no duplicate        *)
(* message").                                                              *)
ResentOnce == \A j \in Job : again[j] <= 1

============================================================================
