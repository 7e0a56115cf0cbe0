---------------------- MODULE NotificationOutboxProofs ----------------------
(* Proofs about NotificationOutbox for any jobs, processes and requests: what *)
(* was sent, in which order it was claimed and shown, what was given up, and  *)
(* that the kitchen's message ends current.                                   *)
EXTENDS NotificationOutbox, SequenceTheorems, TLAPS

Refreshing(j) == KindOf[j] = "staff_status_refresh"

(* Rows exist exactly for the levels the order has reached.                   *)
Inserted == \A j \in Job : status[j] = "none" <=> LevelOf[j] > level

(* What is to be sent has an attempt left, no message of it is out or on its  *)
(* way, and no worker is at it.                                               *)
Untouched(j) == auto[j] = 0 /\ j \notin late
Unsent ==
  \A j \in Job : status[j] \in {"none", "PENDING"} =>
    /\ attempts[j] < MaxAttempts
    /\ Untouched(j)
    /\ \A i \in Instance : run[i].job # j

(* The operator has been told, or will be when the lease is over, that the    *)
(* outcome is unknown.                                                        *)
Doubtful(j) == status[j] = "UNCERTAIN" \/ again[j] > 0
Claimed(j) == attempts[j] > 0 /\ (status[j] = "PROCESSING" \/ Doubtful(j))

(* A job has at most one worker: it gets another only after a retry, and the  *)
(* worker that asks for one is done.                                          *)
OneWorker ==
  \A i, k \in Instance : run[i] # Idle /\ run[i].job = run[k].job => i = k

(* A worker knows what it has sent: it asks for a retry, or gives up, only a  *)
(* message that is not out, and reports only one that is.                     *)
Truthful(w) ==
  /\ Claimed(w.job)
  /\ w.step \in {"taken", "sending"} => Untouched(w.job)
  /\ w.step = "posted" => auto[w.job] > 0
  /\ w.step = "answered" =>
       /\ w.result \in {"limited", "skipped", "refused", "ignored"} => Untouched(w.job)
       /\ w.result = "sent" => auto[w.job] > 0
       /\ w.result = "ignored" => Refreshing(w.job)
       /\ w.result \in Results
Workers == \A i \in Instance : run[i] # Idle => Truthful(run[i])

(* A message that may still get to the customer has not got there before.     *)
LateOnce ==
  \A j \in late : auto[j] = 0 /\ KindOf[j] = "customer_status" /\ Claimed(j)

SentOnce == \A j \in Job : auto[j] <= 1

ChatClaimed ==
  \A p \in 1..Len(chat) : KindOf[chat[p]] = "customer_status" /\ attempts[chat[p]] > 0

Facts == /\ Inserted /\ Unsent /\ OneWorker /\ Workers /\ LateOnce
         /\ SentOnce /\ ChatClaimed
         /\ ClaimsInOrder /\ LossIsVisible /\ DeliveredWasPosted /\ OutOfOrderIsUncertain
IInv == TypeOK /\ Facts

LEMMA Constants ==
  /\ KindOf \in [Job -> Kinds] /\ LevelOf \in [Job -> 0 .. MaxLevel]
  /\ NoJob \notin Job /\ MaxLevel \in Nat
  /\ Instance \cap Retry = {} /\ Instance \subseteq Actor /\ Retry \subseteq Actor
  /\ MaxAttempts \in Nat \ {0} /\ MaxFaults \in Nat
BY NotificationConstants DEF NotificationConstants, Actor

(* What an actor is at.                                                       *)
LEMMA AtWork ==
  ASSUME TypeOK, NEW a \in Actor
  PROVE  /\ run[a].step # "idle" => run[a] \in Runs
         /\ run[a] # Idle => run[a] \in Runs
         /\ run[a] = Idle => run[a].step = "idle" /\ run[a].job = NoJob
         /\ run[a] \in Runs =>
              /\ run[a].step \in {"taken", "sending", "posted", "answered"}
              /\ run[a] # Idle /\ run[a].job \in Job
BY DEF TypeOK, Runs, Idle

-----------------------------------------------------------------------------
(* Types.                                                                     *)
LEMMA TypeInit == Init => TypeOK
BY Constants DEF Init, TypeOK, Statuses, Runs, Idle

LEMMA TypeRun ==
  ASSUME TypeOK, NEW a \in Actor, NEW w, w \in Runs \cup {Idle}, run' = [run EXCEPT ![a] = w]
  PROVE  run' \in [Actor -> Runs \cup {Idle}]
BY DEF TypeOK

LEMMA TakenType ==
  ASSUME NEW j \in Job, NEW n \in Nat
  PROVE  /\ [Idle EXCEPT !.step = "taken", !.job = j, !.lease = n] \in Runs
         /\ [Idle EXCEPT !.step = "taken", !.job = j] \in Runs
<1>1. 0 \in 0 .. MaxLevel /\ "none" \in Results \cup {"none"}
  BY Constants
<1>2. [Idle EXCEPT !.step = "taken", !.job = j, !.lease = n] \in Runs
  BY <1>1 DEF Idle, Runs
<1>3. [Idle EXCEPT !.step = "taken", !.job = j] \in Runs
  BY <1>1 DEF Idle, Runs
<1> QED
  BY <1>2, <1>3

LEMMA TypeFault == ASSUME TypeOK, Fault PROVE faults' \in 0 .. MaxFaults
BY Constants DEF TypeOK, Fault

LEMMA TypeNext == TypeOK /\ Unsent /\ [Next]_vars => TypeOK'
<1> SUFFICES ASSUME TypeOK, Unsent, [Next]_vars PROVE TypeOK'
  OBVIOUS
<1> USE Constants
<1>1. CASE UNCHANGED vars
  BY <1>1 DEF vars, database, telegram, TypeOK
<1>2. CASE ChangeStatus
  BY <1>2 DEF ChangeStatus, TypeOK, telegram, Statuses
<1>3. ASSUME NEW i \in Instance, NEW j \in Job, Claim(i, j) PROVE TypeOK'
  <2>1. PICK w : w = [Idle EXCEPT !.step = "taken", !.job = j, !.lease = attempts[j] + 1]
    OBVIOUS
  <2>2. status[j] = "PENDING" /\ attempts[j] \in Nat /\ attempts[j] < MaxAttempts
    BY <1>3 DEF Claim, Claimable, Unsent, TypeOK
  <2>3. w \in Runs
    <3>1. PICK n \in Nat : n = attempts[j] + 1
      BY <2>2
    <3>2. w = [Idle EXCEPT !.step = "taken", !.job = j, !.lease = n]
      BY <2>1, <3>1
    <3> QED
      BY <3>2, TakenType
  <2>4. run' \in [Actor -> Runs \cup {Idle}]
    BY <1>3, <2>1, <2>3, TypeRun DEF Claim
  <2>5. attempts' \in [Job -> 0 .. MaxAttempts] /\ status' \in [Job -> Statuses]
    BY <1>3, <2>2 DEF Claim, TypeOK, Statuses
  <2> QED
    BY <1>3, <2>4, <2>5 DEF Claim, TypeOK, telegram
<1>4. ASSUME NEW i \in Instance, NEW j \in Job, Recover(i, j) PROVE TypeOK'
  BY <1>4 DEF Recover, TypeOK, telegram, Statuses
<1>5. ASSUME NEW i \in Instance, Settle(i) \/ SettleLost(i) PROVE TypeOK'
  <2>1. run[i].job \in Job /\ run' \in [Actor -> Runs \cup {Idle}]
    BY <1>5, AtWork, TypeRun
       DEF Settle, SettleDelivered, SettleRetry, SettleFailed, SettleUncertain, SettleLost, Finish
  <2>2. ASSUME NEW s \in Statuses, Ends(i, s)
        PROVE  /\ status' \in [Job -> Statuses] /\ lapsed' \subseteq Job
               /\ letters' \subseteq Job /\ waiting' \subseteq Job
    <3>1. CASE Holds(i)
      <4>1. /\ status' = [status EXCEPT ![run[i].job] = s]
            /\ lapsed' = lapsed \ {run[i].job}
            /\ letters' \subseteq letters \cup {run[i].job}
            /\ waiting' \subseteq waiting \cup {run[i].job}
        BY <2>2, <3>1 DEF Ends
      <4> QED
        BY <2>1, <4>1 DEF TypeOK
    <3>2. CASE ~ Holds(i)
      BY <2>2, <3>2 DEF Ends, TypeOK
    <3> QED
      BY <3>1, <3>2
  <2>3. /\ status' \in [Job -> Statuses] /\ lapsed' \subseteq Job
        /\ letters' \subseteq Job /\ waiting' \subseteq Job /\ faults' \in 0 .. MaxFaults
    <3>1. CASE SettleLost(i)
      BY <3>1, TypeFault DEF SettleLost, TypeOK
    <3>2. CASE Settle(i)
      <4>1. UNCHANGED faults /\ \E s \in Statuses : Ends(i, s)
        BY <3>2 DEF Settle, SettleDelivered, SettleRetry, SettleFailed, SettleUncertain, Statuses
      <4> QED
        BY <4>1, <2>2 DEF TypeOK
    <3> QED
      BY <1>5, <3>1, <3>2
  <2>4. Finish(i)
    BY <1>5 DEF Settle, SettleDelivered, SettleRetry, SettleFailed, SettleUncertain, SettleLost
  <2> QED
    BY <2>1, <2>3, <2>4 DEF Finish, TypeOK, telegram
<1>6. ASSUME NEW i \in Instance, Crash(i) PROVE TypeOK'
  <2>1. run' \in [Actor -> Runs \cup {Idle}]
    BY <1>6 DEF Crash, TypeOK
  <2>2. late' \subseteq Job
    <3>1. run[i].step = "sending" => run[i].job \in Job
      BY AtWork
    <3> QED
      BY <1>6, <3>1 DEF Crash, TypeOK
  <2> QED
    BY <1>6, <2>1, <2>2, TypeFault DEF Crash, TypeOK, database
<1>7. ASSUME NEW j \in Job, Lapse(j) \/ Wake(j) \/ LatePost(j) PROVE TypeOK'
  <2>1. CASE Lapse(j)
    <3>1. faults' \in 0 .. MaxFaults
      BY <2>1, TypeFault DEF Lapse, TypeOK
    <3> QED
      BY <2>1, <3>1 DEF Lapse, TypeOK, telegram
  <2>2. CASE Wake(j)
    BY <2>2 DEF Wake, TypeOK, telegram
  <2>3. CASE LatePost(j)
    <3>1. CASE chat' = Append(chat, j) /\ auto' = [auto EXCEPT ![j] = @ + 1]
      <4>1. Append(chat, j) \in Seq(Job)
        BY DEF TypeOK
      <4>2. [auto EXCEPT ![j] = @ + 1] \in [Job -> Nat]
        BY DEF TypeOK
      <4> QED
        BY <2>3, <3>1, <4>1, <4>2 DEF LatePost, TypeOK, database
    <3>2. CASE UNCHANGED <<chat, auto>>
      BY <2>3, <3>2 DEF LatePost, TypeOK, database
    <3> QED
      BY <2>3, <3>1, <3>2 DEF LatePost
  <2> QED
    BY <1>7, <2>1, <2>2, <2>3
<1>8. ASSUME NEW r \in Retry, EndResend(r) PROVE TypeOK'
  <2>1. run[r].job \in Job /\ run' \in [Actor -> Runs \cup {Idle}]
    BY <1>8, AtWork, TypeRun DEF EndResend
  <2>2. /\ status' \in [Job -> Statuses] /\ letters' \subseteq Job
        /\ again' \in [Job -> Nat] /\ faults' \in 0 .. MaxFaults
    <3>1. CASE Taken(r)
      <4>1. PICK marked, removed \in BOOLEAN :
              /\ IF marked /\ removed THEN UNCHANGED faults ELSE Fault
              /\ status' = IF marked /\ status[run[r].job] \in {"FAILED", "UNCERTAIN"}
                           THEN [status EXCEPT ![run[r].job] = "DELIVERED"] ELSE status
              /\ letters' = IF removed THEN letters \ {run[r].job} ELSE letters
              /\ again' = IF run[r].result = "sent"
                          THEN [again EXCEPT ![run[r].job] = @ + 1] ELSE again
        BY <1>8, <3>1 DEF EndResend
      <4>2. faults' \in 0 .. MaxFaults
        BY <4>1, TypeFault DEF TypeOK
      <4>3. status' \in [Job -> Statuses]
        <5>1. \/ status' = status
              \/ status' = [status EXCEPT ![run[r].job] = "DELIVERED"]
          BY <4>1
        <5> QED
          BY <2>1, <5>1 DEF TypeOK, Statuses
      <4>4. letters' \subseteq Job
        BY <4>1 DEF TypeOK
      <4>5. again' \in [Job -> Nat]
        <5>1. \/ again' = again
              \/ again' = [again EXCEPT ![run[r].job] = @ + 1]
          BY <4>1
        <5>2. again \in [Job -> Nat] /\ run[r].job \in Job
          BY <2>1 DEF TypeOK
        <5>3. PICK n : n = again[run[r].job] + 1
          OBVIOUS
        <5>4. n \in Nat
          BY <5>2, <5>3
        <5> QED
          BY <5>1, <5>2, <5>3, <5>4
      <4> QED
        BY <4>2, <4>3, <4>4, <4>5
    <3>2. CASE ~ Taken(r)
      BY <1>8, <3>2 DEF EndResend, TypeOK
    <3> QED
      BY <3>1, <3>2
  <2> QED
    BY <1>8, <2>1, <2>2 DEF EndResend, TypeOK, telegram
<1>9. ASSUME NEW r \in Retry, NEW j \in Job, PickLetter(r, j) PROVE TypeOK'
  <2>1. [Idle EXCEPT !.step = "taken", !.job = j] \in Runs
    BY TakenType
  <2>2. run' \in [Actor -> Runs \cup {Idle}]
    BY <1>9, <2>1, TypeRun DEF PickLetter
  <2> QED
    BY <1>9, <2>2 DEF PickLetter, TypeOK, database, telegram
<1>10. ASSUME NEW a \in Actor, Begin(a) \/ Confirm(a) \/ LoseAnswer(a) \/ Unhandled(a)
       PROVE  TypeOK'
  <2>1. run[a] \in Runs
    BY <1>10, AtWork DEF Begin, Confirm, LoseAnswer, Unhandled
  <2>2. run' \in [Actor -> Runs \cup {Idle}]
    <3>1. PICK w : w \in Runs /\ run' = [run EXCEPT ![a] = w]
      <4>1. CASE Begin(a)
        <5>1. ViewOf(a) \in 0 .. MaxLevel /\ Unneeded(a) \in Results
          BY <2>1, Constants DEF ViewOf, Unneeded, Results, Runs, TypeOK
        <5>2. remembered \in Nat
          BY DEF TypeOK
        <5>3. PICK v \in 0 .. MaxLevel, u \in Results : v = ViewOf(a) /\ u = Unneeded(a)
          BY <5>1
        <5>4. /\ [run[a] EXCEPT !.step = "answered", !.result = u] \in Runs
              /\ [run[a] EXCEPT !.step = "sending", !.view = v, !.msg = remembered] \in Runs
          BY <2>1, <5>2 DEF Runs, Results
        <5> QED
          BY <4>1, <5>3, <5>4 DEF Begin
      <4>2. CASE Confirm(a) \/ LoseAnswer(a)
        BY <2>1, <4>2 DEF Confirm, LoseAnswer, Runs, Results
      <4>3. CASE Unhandled(a)
        BY <2>1, <4>3 DEF Unhandled, Failures, Runs, Results
      <4> QED
        BY <1>10, <4>1, <4>2, <4>3
    <3> QED
      BY <3>1, TypeRun
  <2>3. CASE Begin(a)
    BY <2>2, <2>3 DEF Begin, TypeOK, database, telegram
  <2>4. CASE Confirm(a)
    BY <2>1, <2>2, <2>4 DEF Confirm, TypeOK, telegram, Runs
  <2>5. CASE LoseAnswer(a)
    BY <2>2, <2>5, TypeFault DEF LoseAnswer, TypeOK, database, telegram
  <2>6. CASE Unhandled(a)
    <3>1. late' \subseteq Job
      BY <2>1, <2>6 DEF Unhandled, TypeOK, Runs
    <3> QED
      BY <2>2, <2>6, <3>1, TypeFault DEF Unhandled, TypeOK, database
  <2> QED
    BY <1>10, <2>3, <2>4, <2>5, <2>6
<1>11. ASSUME NEW a \in Actor, Post(a) PROVE TypeOK'
  <2>1. run[a] \in Runs /\ run[a].job \in Job /\ run[a].view \in 0 .. MaxLevel
        /\ run[a].msg \in Nat
    BY <1>11, AtWork DEF Post, Runs
  <2>2. PICK n : n = IF KindOf[run[a].job] = "staff_new_order" THEN Len(shown) + 1
                     ELSE run[a].msg
    OBVIOUS
  <2>n. n \in Nat
    BY <2>1, <2>2 DEF TypeOK
  <2>r. run' = [run EXCEPT ![a] = [run[a] EXCEPT !.step = "posted", !.msg = n]]
    BY <1>11, <2>2 DEF Post
  <2>s. \/ shown' = Append(shown, run[a].view)
        \/ shown' = [shown EXCEPT ![n] = run[a].view]
        \/ shown' = shown
    BY <1>11, <2>2 DEF Post
  <2>3. run' \in [Actor -> Runs \cup {Idle}]
    <3>1. [run[a] EXCEPT !.step = "posted", !.msg = n] \in Runs
      BY <2>1, <2>n DEF Runs
    <3> QED
      BY <2>r, <3>1, TypeRun
  <2>4. shown' \in Seq(0 .. MaxLevel)
    <3>1. shown \in [1 .. Len(shown) -> 0 .. MaxLevel] /\ Len(shown) \in Nat
      BY DEF TypeOK
    <3>2. [shown EXCEPT ![n] = run[a].view] \in [1 .. Len(shown) -> 0 .. MaxLevel]
      BY <2>1, <3>1
    <3>3. [shown EXCEPT ![n] = run[a].view] \in Seq(0 .. MaxLevel)
      BY <3>1, <3>2, SeqDef
    <3>4. Append(shown, run[a].view) \in Seq(0 .. MaxLevel) /\ shown \in Seq(0 .. MaxLevel)
      BY <2>1 DEF TypeOK
    <3> QED
      BY <2>s, <3>3, <3>4
  <2>5. chat' \in Seq(Job) /\ auto' \in [Job -> Nat]
    <3>1. /\ chat' = Append(chat, run[a].job) \/ chat' = chat
          /\ auto' = [auto EXCEPT ![run[a].job] = @ + 1] \/ auto' = auto
      BY <1>11 DEF Post
    <3>2. Append(chat, run[a].job) \in Seq(Job) /\ chat \in Seq(Job)
      BY <2>1 DEF TypeOK
    <3>3. [auto EXCEPT ![run[a].job] = @ + 1] \in [Job -> Nat] /\ auto \in [Job -> Nat]
      BY <2>1 DEF TypeOK
    <3> QED
      BY <3>1, <3>2, <3>3
  <2> QED
    BY <1>11, <2>3, <2>4, <2>5 DEF Post, TypeOK, database
<1> QED
  BY <1>1, <1>2, <1>3, <1>4, <1>5, <1>6, <1>7, <1>8, <1>9, <1>10, <1>11 DEF Next

-----------------------------------------------------------------------------
(* Init, and the steps that only move an actor on.                            *)
LEMMA FactsInit == Init => Facts
<1> SUFFICES ASSUME Init PROVE Facts
  OBVIOUS
<1>1. Inserted /\ Unsent
  BY Constants DEF Init, Inserted, Unsent, Untouched, Idle, Actor
<1>2. OneWorker /\ Workers
  BY Constants DEF Init, OneWorker, Workers, Idle
<1>3. LateOnce /\ SentOnce /\ ChatClaimed /\ OutOfOrderIsUncertain
  BY DEF Init, LateOnce, SentOnce, ChatClaimed, OutOfOrderIsUncertain
<1>4. ClaimsInOrder /\ LossIsVisible /\ DeliveredWasPosted
  BY DEF Init, ClaimsInOrder, LossIsVisible, DeliveredWasPosted
<1> QED
  BY <1>1, <1>2, <1>3, <1>4 DEF Facts

jobs == <<level, status, attempts, letters, chat, late, auto, again>>

LEMMA JobsKept ==
  ASSUME Facts, UNCHANGED jobs
  PROVE  /\ Inserted' /\ LateOnce' /\ SentOnce' /\ ChatClaimed'
         /\ ClaimsInOrder' /\ LossIsVisible' /\ DeliveredWasPosted' /\ OutOfOrderIsUncertain'
<1> USE DEF Facts, jobs
<1>1. Inserted' /\ SentOnce' /\ ChatClaimed'
  BY DEF Inserted, SentOnce, ChatClaimed
<1>2. LateOnce'
  BY DEF LateOnce, Claimed, Doubtful
<1>3. ClaimsInOrder' /\ LossIsVisible' /\ DeliveredWasPosted'
  BY DEF ClaimsInOrder, LossIsVisible, DeliveredWasPosted, Earlier
<1>4. OutOfOrderIsUncertain'
  BY DEF OutOfOrderIsUncertain
<1> QED
  BY <1>1, <1>2, <1>3, <1>4

LEMMA Stutters ==
  ASSUME Facts, UNCHANGED <<jobs, run>> PROVE Facts'
<1>1. Unsent'
  BY DEF Facts, jobs, Unsent, Untouched
<1>2. OneWorker' /\ Workers'
  BY DEF Facts, jobs, OneWorker, Workers, Truthful, Claimed, Doubtful, Untouched
<1> QED
  BY <1>1, <1>2, JobsKept DEF Facts

(* An actor goes on with its job, or ends; a worker stays truthful.           *)
LEMMA Moves ==
  ASSUME IInv, UNCHANGED jobs, NEW a \in Actor, NEW w,
         run' = [run EXCEPT ![a] = w],
         \/ w = Idle
         \/ a \in Retry
         \/ run[a] # Idle /\ w.job = run[a].job /\ Truthful(w)
  PROVE  Facts'
<1> USE Constants
<1>1. /\ run \in [Actor -> Runs \cup {Idle}]
      /\ \A i \in Instance : i # a => run'[i] = run[i]
      /\ a \in Instance => run'[a] = w
      /\ a \in Instance => w = Idle \/ (run[a] # Idle /\ w.job = run[a].job /\ Truthful(w))
  BY DEF IInv, TypeOK
<1>2. Idle.job = NoJob
  BY DEF Idle
<1>3. \A i \in Instance : run[i] # Idle => run[i].job \in Job
  BY AtWork DEF IInv
<1>4. Unsent'
  <2>1. \A i \in Instance : run'[i].job \in {run[i].job, NoJob}
    BY <1>1, <1>2
  <2> QED
    BY <2>1 DEF IInv, Facts, jobs, Unsent, Untouched
<1>5. OneWorker'
  BY <1>1, <1>2, <1>3 DEF IInv, Facts, OneWorker
<1>6. Workers'
  <2>1. \A i \in Instance : run'[i] # Idle => Truthful(run'[i])
    BY <1>1 DEF IInv, Facts, Workers
  <2> QED
    BY <2>1 DEF jobs, Workers, Truthful, Claimed, Doubtful, Untouched
<1> QED
  BY <1>4, <1>5, <1>6, JobsKept DEF IInv, Facts

(* A worker finds nothing to send for a refresh only, before there is a       *)
(* message to refresh.                                                        *)
LEMMA NotNeeded ==
  ASSUME NEW a \in Actor, run[a].job \in Job, NothingToSend(a)
  PROVE  /\ a \in Instance => Unneeded(a) = "ignored" /\ Refreshing(run[a].job)
         /\ Unneeded(a) \in {"ignored", "skipped"}
         /\ Refreshing(run[a].job) => remembered = 0
BY NotificationConstants
   DEF NotificationConstants, NothingToSend, Unneeded, ViewOf, Refreshing

LEMMA BeginMoves ==
  ASSUME IInv, NEW a \in Actor, Begin(a)
  PROVE  Facts'
<1>1. run[a] \in Runs /\ run[a] # Idle /\ run[a].step = "taken" /\ run[a].job \in Job
  BY AtWork DEF IInv, Begin
<1>2. a \in Instance => Truthful(run[a])
  BY <1>1 DEF IInv, Facts, Workers
<1>u. UNCHANGED jobs
  BY DEF Begin, jobs, database, telegram
<1>4. CASE NothingToSend(a)
  <2>1. PICK w : w = [run[a] EXCEPT !.step = "answered", !.result = Unneeded(a)]
    OBVIOUS
  <2>2. w.step = "answered" /\ w.result = Unneeded(a) /\ w.job = run[a].job
    BY <1>1, <2>1 DEF Runs
  <2>3. run' = [run EXCEPT ![a] = w]
    BY <1>4, <2>1 DEF Begin
  <2>4. a \in Instance => Truthful(w)
    <3>1. a \in Instance => w.result = "ignored" /\ Refreshing(w.job)
      BY <1>1, <1>4, <2>2, NotNeeded
    <3> QED
      BY <1>1, <1>2, <2>2, <3>1 DEF Truthful, Results
  <2> QED
    BY <1>1, <1>u, <2>2, <2>3, <2>4, Moves DEF Actor
<1>5. CASE ~ NothingToSend(a)
  <2>1. PICK w : w = [run[a] EXCEPT !.step = "sending", !.view = ViewOf(a), !.msg = remembered]
    OBVIOUS
  <2>2. w.step = "sending" /\ w.job = run[a].job
    BY <1>1, <2>1 DEF Runs
  <2>3. run' = [run EXCEPT ![a] = w]
    BY <1>5, <2>1 DEF Begin
  <2>4. a \in Instance => Truthful(w)
    BY <1>1, <1>2, <2>2 DEF Truthful
  <2> QED
    BY <1>1, <1>u, <2>2, <2>3, <2>4, Moves DEF Actor
<1> QED
  BY <1>4, <1>5

LEMMA AnswerMoves ==
  ASSUME IInv, NEW a \in Actor, Confirm(a) \/ LoseAnswer(a)
  PROVE  Facts'
<1>1. run[a] \in Runs /\ run[a] # Idle /\ run[a].step = "posted"
  BY AtWork DEF IInv, Confirm, LoseAnswer
<1>2. a \in Instance => Truthful(run[a])
  BY <1>1 DEF IInv, Facts, Workers
<1>3. PICK result \in {"sent", "failed"} :
        run' = [run EXCEPT ![a] = [run[a] EXCEPT !.step = "answered", !.result = result]]
  BY DEF Confirm, LoseAnswer
<1>4. PICK w : w = [run[a] EXCEPT !.step = "answered", !.result = result]
  OBVIOUS
<1>5. w.step = "answered" /\ w.result = result /\ w.job = run[a].job
  BY <1>1, <1>4 DEF Runs
<1>6. a \in Instance => Truthful(w)
  BY <1>1, <1>2, <1>5 DEF Truthful, Results
<1>7. run' = [run EXCEPT ![a] = w]
  BY <1>3, <1>4
<1>8. UNCHANGED jobs
  BY DEF Confirm, LoseAnswer, jobs, database, telegram
<1> QED
  BY <1>1, <1>5, <1>6, <1>7, <1>8, Moves DEF Actor

-----------------------------------------------------------------------------
(* The steps of the rows.                                                     *)
LEMMA ChangeStatusKeeps ==
  ASSUME IInv, ChangeStatus
  PROVE  Facts'
<1> USE Constants DEF IInv, Facts
<1>1. /\ status' = [j \in Job |-> IF LevelOf[j] = level + 1 THEN "PENDING" ELSE status[j]]
      /\ level' = level + 1 /\ level \in Nat
      /\ UNCHANGED <<attempts, letters, run, chat, late, auto, again>>
  BY DEF ChangeStatus, TypeOK, telegram
<1>2. \A j \in Job : status[j] # "none" => status'[j] = status[j]
  BY <1>1 DEF Inserted
<1>3. \A j \in Job : status'[j] # status[j] => status[j] = "none" /\ status'[j] = "PENDING"
  BY <1>1, <1>2
<1>4. Inserted'
  <2> SUFFICES ASSUME NEW j \in Job PROVE status'[j] = "none" <=> LevelOf[j] > level + 1
    BY <1>1 DEF Inserted
  <2>1. LevelOf[j] \in Nat /\ (status[j] = "none" <=> LevelOf[j] > level)
    BY DEF Inserted
  <2> QED
    BY <1>1, <2>1
<1>5. Unsent'
  BY <1>1, <1>3 DEF Unsent, Untouched
<1>6. \A j \in Job : Claimed(j) => Claimed(j)'
  BY <1>1, <1>2 DEF Claimed, Doubtful
<1>7. OneWorker' /\ Workers'
  <2>1. \A i \in Instance : run[i] # Idle => run[i].job \in Job
    BY AtWork
  <2> QED
    BY <1>1, <1>6, <2>1 DEF OneWorker, Workers, Truthful, Untouched
<1>8. LateOnce' /\ SentOnce' /\ ChatClaimed'
  BY <1>1, <1>6 DEF LateOnce, SentOnce, ChatClaimed, TypeOK
<1>9. ClaimsInOrder' /\ LossIsVisible' /\ DeliveredWasPosted'
  <2>1. \A j \in Job : status'[j] \in {"FAILED", "UNCERTAIN", "DELIVERED"} =>
          status[j] = status'[j]
    BY <1>3
  <2>2. LossIsVisible' /\ DeliveredWasPosted'
    BY <1>1, <2>1 DEF LossIsVisible, DeliveredWasPosted
  <2>3. ClaimsInOrder'
    BY <1>1, <1>2 DEF ClaimsInOrder, Earlier, Settled
  <2> QED
    BY <2>2, <2>3
<1>10. OutOfOrderIsUncertain'
  <2>1. \A p \in 1 .. Len(chat) : chat[p] \in Job
    BY DEF TypeOK
  <2> QED
    BY <1>1, <1>2, <2>1 DEF OutOfOrderIsUncertain
<1> QED
  BY <1>4, <1>5, <1>7, <1>8, <1>9, <1>10

LEMMA ClaimKeeps ==
  ASSUME IInv, NEW i \in Instance, NEW j \in Job, Claim(i, j)
  PROVE  Facts'
<1> USE Constants DEF IInv, Facts
<1>1. /\ status[j] = "PENDING" /\ Untouched(j) /\ run[i] = Idle
      /\ \A k \in Instance : run[k].job # j
      /\ attempts[j] \in Nat
  BY DEF Claim, Claimable, Unsent, TypeOK
<1>2. PICK w : w = [Idle EXCEPT !.step = "taken", !.job = j, !.lease = attempts[j] + 1]
  OBVIOUS
<1>3. w.step = "taken" /\ w.job = j
  BY <1>2 DEF Idle
<1>4. /\ status' = [status EXCEPT ![j] = "PROCESSING"]
      /\ attempts' = [attempts EXCEPT ![j] = @ + 1]
      /\ run' = [run EXCEPT ![i] = w]
      /\ UNCHANGED <<level, letters, chat, late, auto, again>>
  BY <1>2 DEF Claim, telegram
<1>5. /\ status'[j] = "PROCESSING" /\ attempts'[j] > 0
      /\ \A k \in Job \ {j} : status'[k] = status[k] /\ attempts'[k] = attempts[k]
      /\ run'[i] = w /\ \A k \in Instance \ {i} : run'[k] = run[k]
  BY <1>1, <1>4 DEF TypeOK
<1>6. Inserted'
  BY <1>1, <1>4, <1>5 DEF Inserted
<1>7. Unsent'
  BY <1>3, <1>4, <1>5 DEF Unsent, Untouched
<1>8. OneWorker'
  BY <1>1, <1>3, <1>5 DEF OneWorker
<1>9. Workers'
  <2>1. Truthful(w)'
    BY <1>1, <1>3, <1>4, <1>5 DEF Truthful, Claimed, Untouched
  <2>2. ASSUME NEW k \in Instance, k # i, run[k] # Idle
        PROVE  run'[k] = run[k] /\ Truthful(run[k]) /\ run[k].job \in Job \ {j}
    BY <1>1, <1>5, <2>2, AtWork DEF Workers
  <2> QED
    BY <1>3, <1>4, <1>5, <1>1, <2>2 DEF Workers, Truthful, Claimed, Doubtful, Untouched
<1>10. LateOnce' /\ SentOnce' /\ ChatClaimed'
  <2>1. \A k \in Job : attempts[k] > 0 => attempts'[k] > 0
    BY <1>5
  <2>c. \A p \in 1 .. Len(chat) : chat[p] \in Job
    BY DEF TypeOK
  <2>2. ChatClaimed'
    BY <1>4, <2>1, <2>c DEF ChatClaimed
  <2> QED
    BY <1>1, <1>4, <1>5, <2>2 DEF LateOnce, SentOnce, Untouched, Claimed, Doubtful, TypeOK
<1>11. ClaimsInOrder'
  <2>1. \A k \in Job : j \in Earlier(k) /\ KindOf[k] \in Serialised => ~(attempts[k] > 0)
    BY <1>1 DEF ClaimsInOrder, Settled
  <2>2. KindOf[j] \in Serialised => \A k \in Earlier(j) : status[k] \in Settled /\ k # j
    <3> SUFFICES ASSUME KindOf[j] \in Serialised, NEW k \in Earlier(j)
                 PROVE  status[k] \in Settled /\ k # j
      OBVIOUS
    <3>1. /\ k \in Job /\ KindOf[k] = KindOf[j] /\ LevelOf[k] < LevelOf[j]
          /\ LevelOf[k] \in Nat /\ LevelOf[j] \in Nat /\ level \in Nat
      BY DEF Earlier, TypeOK
    <3>2. status[k] # "none"
      BY <1>1, <3>1 DEF Inserted
    <3>3. status[k] \in Statuses /\ status[k] # "PROCESSING" /\ status[k] # "PENDING"
      BY <3>1 DEF Claim, Claimable, TypeOK
    <3> QED
      BY <3>1, <3>2, <3>3 DEF Statuses, Settled
  <2> SUFFICES ASSUME NEW k \in Job, KindOf[k] \in Serialised, attempts'[k] > 0,
                      NEW e \in Earlier(k)
               PROVE  status'[e] \in Settled
    BY DEF ClaimsInOrder, Earlier
  <2>3. e \in Job
    BY DEF Earlier
  <2>4. CASE k = j
    BY <1>5, <2>2, <2>3, <2>4
  <2>5. CASE k # j
    BY <1>5, <2>1, <2>3, <2>5 DEF ClaimsInOrder
  <2> QED
    BY <2>4, <2>5
<1>12. LossIsVisible' /\ DeliveredWasPosted'
  BY <1>4, <1>5 DEF LossIsVisible, DeliveredWasPosted
<1>13. OutOfOrderIsUncertain'
  <2>1. \A p \in 1 .. Len(chat) : chat[p] \in Job
    BY DEF TypeOK
  <2>2. \A k \in Job : status[k] = "UNCERTAIN" \/ again[k] > 0
          => status'[k] = "UNCERTAIN" \/ again'[k] > 0
    BY <1>1, <1>4, <1>5
  <2> QED
    BY <1>4, <2>1, <2>2 DEF OutOfOrderIsUncertain
<1> QED
  BY <1>6, <1>7, <1>8, <1>9, <1>10, <1>11, <1>12, <1>13

(* A row leaves PROCESSING: with a result its worker knows to be true, or as  *)
(* unknown.                                                                   *)
LEMMA RowEnds ==
  ASSUME IInv, NEW j \in Job, NEW s \in {"DELIVERED", "PENDING", "FAILED", "UNCERTAIN"},
         status[j] = "PROCESSING",
         status' = [status EXCEPT ![j] = s],
         letters' = IF s \in {"FAILED", "UNCERTAIN"} THEN letters \cup {j} ELSE letters,
         UNCHANGED <<level, attempts, chat, late, auto, again>>,
         \A k \in Instance : run'[k] \in {run[k], Idle},
         s # "UNCERTAIN" => \A k \in Instance : run'[k].job # j,
         s = "PENDING" => attempts[j] < MaxAttempts,
         s \in {"PENDING", "FAILED"} => Untouched(j),
         s = "DELIVERED" =>
           j \notin late /\ (KindOf[j] # "staff_status_refresh" => auto[j] > 0)
  PROVE  Facts'
<1> USE Constants DEF IInv, Facts
<1>1. status'[j] = s /\ \A k \in Job \ {j} : status'[k] = status[k]
  BY DEF TypeOK
<1>2. \A i \in Instance : run'[i] # Idle => run'[i] = run[i] /\ run[i] # Idle
  OBVIOUS
<1>3. Inserted'
  BY <1>1 DEF Inserted
<1>4. Unsent'
  <2>1. \A i \in Instance : run'[i].job \in {run[i].job, NoJob}
    BY DEF Idle
  <2> QED
    BY <1>1, <2>1 DEF Unsent, Untouched
<1>5. OneWorker'
  <2> SUFFICES ASSUME NEW i \in Instance, NEW k \in Instance,
                      run'[i] # Idle, run'[i].job = run'[k].job
               PROVE  i = k
    BY DEF OneWorker
  <2>1. run'[i] = run[i] /\ run[i] # Idle /\ run[i].job \in Job
    BY <1>2, AtWork
  <2>2. run'[k] # Idle
    BY <2>1 DEF Idle
  <2>3. run'[k] = run[k]
    BY <1>2, <2>2
  <2> QED
    BY <2>1, <2>3 DEF OneWorker
<1>6. Workers'
  <2> SUFFICES ASSUME NEW i \in Instance, run'[i] # Idle PROVE Truthful(run[i])'
    BY <1>2 DEF Workers
  <2>1. run'[i] = run[i] /\ Truthful(run[i]) /\ run[i].job \in Job
    BY <1>2, AtWork DEF Workers
  <2>2. run'[i].job = j => s = "UNCERTAIN"
    OBVIOUS
  <2>3. run[i].job = j => s = "UNCERTAIN"
    BY <2>1, <2>2
  <2>4. Claimed(run[i].job)'
    BY <1>1, <2>1, <2>3 DEF Truthful, Claimed, Doubtful
  <2> QED
    BY <2>1, <2>4 DEF Truthful, Untouched
<1>7. LateOnce' /\ SentOnce' /\ ChatClaimed'
  <2>1. ASSUME NEW k \in late PROVE Claimed(k)'
    <3>1. k \in Job /\ Claimed(k)
      BY DEF LateOnce, TypeOK
    <3>2. k = j => s = "UNCERTAIN"
      BY DEF Untouched
    <3> QED
      BY <1>1, <3>1, <3>2 DEF Claimed, Doubtful
  <2> QED
    BY <2>1 DEF LateOnce, SentOnce, ChatClaimed
<1>8. ClaimsInOrder'
  BY <1>1 DEF ClaimsInOrder, Earlier, Settled
<1>9. LossIsVisible' /\ DeliveredWasPosted'
  <2>1. LossIsVisible'
    BY <1>1 DEF LossIsVisible
  <2>2. auto[j] \in Nat /\ again[j] \in Nat
    BY DEF TypeOK
  <2>3. DeliveredWasPosted'
    BY <1>1, <2>2 DEF DeliveredWasPosted
  <2> QED
    BY <2>1, <2>3
<1>10. OutOfOrderIsUncertain'
  <2>1. \A p \in 1 .. Len(chat) : chat[p] \in Job
    BY DEF TypeOK
  <2> QED
    BY <1>1, <2>1 DEF OutOfOrderIsUncertain
<1> QED
  BY <1>3, <1>4, <1>5, <1>6, <1>7, <1>8, <1>9, <1>10

LEMMA SettleKeeps ==
  ASSUME IInv, NEW i \in Instance, Settle(i) \/ SettleLost(i)
  PROVE  Facts'
<1> USE Constants
<1>1. PICK j : j = run[i].job
  OBVIOUS
<1>2. /\ run[i] \in Runs /\ run[i] # Idle /\ run[i].step = "answered" /\ j \in Job
      /\ Truthful(run[i])
      /\ run' = [run EXCEPT ![i] = Idle]
      /\ UNCHANGED <<level, attempts, chat, late, auto, again>>
  <2>1. Finish(i)
    BY DEF Settle, SettleDelivered, SettleRetry, SettleFailed, SettleUncertain, SettleLost
  <2>2. run[i] \in Runs /\ run[i] # Idle /\ j \in Job
    BY <1>1, <2>1, AtWork DEF IInv, Finish
  <2> QED
    BY <2>1, <2>2 DEF IInv, Facts, Workers, Finish, telegram
<1>3. CASE UNCHANGED <<status, letters>>
  <2>1. UNCHANGED jobs
    BY <1>2, <1>3 DEF jobs
  <2>2. \A w : w = Idle /\ run' = [run EXCEPT ![i] = w] => Facts'
    BY <2>1, Moves
  <2> QED
    BY <1>2, <2>2
<1>4. CASE Settle(i) /\ Holds(i)
  <2>1. PICK s \in {"DELIVERED", "PENDING", "FAILED", "UNCERTAIN"} :
          /\ Ends(i, s)
          /\ s = "DELIVERED" => run[i].result \in {"sent", "ignored"}
          /\ s = "PENDING" => run[i].result \in {"limited", "skipped"} /\ TriesLeft(i)
          /\ s = "FAILED" => run[i].result \in {"limited", "skipped", "refused"}
    BY <1>4 DEF Settle, SettleDelivered, SettleRetry, SettleFailed, SettleUncertain,
                Delivering, Retryable
  <2>2. /\ status[j] = "PROCESSING" /\ attempts[j] = run[i].lease
        /\ status' = [status EXCEPT ![j] = s]
        /\ letters' = IF s \in {"FAILED", "UNCERTAIN"} THEN letters \cup {j} ELSE letters
    BY <1>1, <1>4, <2>1 DEF Ends, Holds
  <2>3. \A k \in Instance : run'[k] \in {run[k], Idle} /\ run'[k].job # j
    <3>1. run'[i] = Idle /\ \A k \in Instance \ {i} : run'[k] = run[k]
      BY <1>2 DEF IInv, TypeOK
    <3>2. \A k \in Instance \ {i} : run[k] # Idle => run[k].job # j
      BY <1>1, <1>2 DEF IInv, Facts, OneWorker
    <3>3. Idle.job # j
      BY <1>2 DEF Idle
    <3> QED
      BY <3>1, <3>2, <3>3
  <2>4. s = "PENDING" => attempts[j] < MaxAttempts
    BY <2>1, <2>2 DEF TriesLeft
  <2>5. s \in {"PENDING", "FAILED"} => Untouched(j)
    BY <1>1, <1>2, <2>1 DEF Truthful
  <2>6. s = "DELIVERED" =>
          j \notin late /\ (KindOf[j] # "staff_status_refresh" => auto[j] > 0)
    <3>1. s = "DELIVERED" => run[i].result = "sent" \/ run[i].result = "ignored"
      BY <2>1
    <3>2. run[i].result = "sent" => auto[j] > 0
      BY <1>1, <1>2 DEF Truthful
    <3>3. run[i].result = "ignored" => KindOf[j] = "staff_status_refresh" /\ j \notin late
      BY <1>1, <1>2 DEF Truthful, Untouched, Refreshing
    <3>4. j \in late => auto[j] = 0 /\ KindOf[j] = "customer_status"
      BY DEF IInv, Facts, LateOnce
    <3> QED
      BY <3>1, <3>2, <3>3, <3>4
  <2> QED
    BY <1>2, <2>2, <2>3, <2>4, <2>5, <2>6, RowEnds
<1> QED
  BY <1>3, <1>4 DEF Settle, SettleDelivered, SettleRetry, SettleFailed, SettleUncertain,
                    SettleLost, Ends

LEMMA RecoverKeeps ==
  ASSUME IInv, NEW i \in Instance, NEW j \in Job, Recover(i, j)
  PROVE  Facts'
<1>1. /\ status[j] = "PROCESSING"
      /\ status' = [status EXCEPT ![j] = "UNCERTAIN"]
      /\ letters' = letters \cup {j}
      /\ UNCHANGED <<level, attempts, chat, late, auto, again, run>>
  BY DEF Recover, telegram
<1>2. PICK s \in {"DELIVERED", "PENDING", "FAILED", "UNCERTAIN"} : s = "UNCERTAIN"
  OBVIOUS
<1> QED
  BY <1>1, <1>2, RowEnds

LEMMA EndResendKeeps ==
  ASSUME IInv, NEW r \in Retry, EndResend(r)
  PROVE  Facts'
<1> USE Constants DEF IInv, Facts
<1>1. PICK j : j = run[r].job
  OBVIOUS
<1>2. j \in Job /\ run' = [run EXCEPT ![r] = Idle]
      /\ UNCHANGED <<level, attempts, chat, late, auto>>
  BY <1>1, AtWork DEF EndResend, telegram
<1>3. CASE ~ Taken(r)
  <2>1. UNCHANGED jobs
    BY <1>2, <1>3 DEF EndResend, jobs
  <2>2. \A w : run' = [run EXCEPT ![r] = w] => Facts'
    BY <2>1, Moves
  <2> QED
    BY <1>2, <2>2
<1>4. CASE Taken(r)
  <2>1. /\ status' = status \/ (/\ status[j] \in {"FAILED", "UNCERTAIN"}
                                /\ status' = [status EXCEPT ![j] = "DELIVERED"])
        /\ letters' = letters \/ letters' = letters \ {j}
        /\ again' = [again EXCEPT ![j] = @ + 1]
    BY <1>1, <1>4 DEF EndResend, Taken
  <2>2. /\ again'[j] > 0 /\ \A k \in Job : again[k] \in Nat /\ auto[k] \in Nat
        /\ \A k \in Job \ {j} : again'[k] = again[k] /\ status'[k] = status[k]
        /\ status'[j] = status[j] \/ (status[j] \in {"FAILED", "UNCERTAIN"} /\ status'[j] = "DELIVERED")
        /\ \A k \in Job \ {j} : k \in letters => k \in letters'
    BY <1>2, <2>1 DEF TypeOK
  <2>3. \A i \in Instance : run'[i] = run[i]
    BY <1>2 DEF TypeOK
  <2>4. \A k \in Job : Claimed(k) => Claimed(k)'
    BY <1>2, <2>2 DEF Claimed, Doubtful
  <2>5. Inserted' /\ Unsent' /\ OneWorker'
    BY <1>2, <2>2, <2>3 DEF Inserted, Unsent, Untouched, OneWorker
  <2>6. Workers'
    <3> SUFFICES ASSUME NEW i \in Instance, run[i] # Idle PROVE Truthful(run[i])'
      BY <2>3 DEF Workers
    <3>1. Truthful(run[i]) /\ run[i].job \in Job
      BY AtWork DEF Workers
    <3> QED
      BY <1>2, <2>4, <3>1 DEF Truthful, Untouched
  <2>7. LateOnce' /\ SentOnce' /\ ChatClaimed'
    BY <1>2, <2>4 DEF LateOnce, SentOnce, ChatClaimed, TypeOK
  <2>8. ClaimsInOrder' /\ LossIsVisible' /\ DeliveredWasPosted'
    <3>1. ClaimsInOrder'
      BY <1>2, <2>2 DEF ClaimsInOrder, Earlier, Settled
    <3>2. LossIsVisible'
      BY <1>2, <2>2 DEF LossIsVisible
    <3>3. again'[j] \in Nat
      BY <1>2, <2>1 DEF TypeOK
    <3>4. auto[j] + again'[j] > 0
      BY <1>2, <2>2, <3>3
    <3>5. DeliveredWasPosted'
      BY <1>2, <2>2, <3>4 DEF DeliveredWasPosted
    <3> QED
      BY <3>1, <3>2, <3>5
  <2>9. OutOfOrderIsUncertain'
    <3>1. \A p \in 1 .. Len(chat) : chat[p] \in Job
      BY DEF TypeOK
    <3>2. \A k \in Job : Doubtful(k) => Doubtful(k)'
      BY <2>2 DEF Doubtful
    <3> QED
      BY <1>2, <3>1, <3>2 DEF OutOfOrderIsUncertain, Doubtful
  <2> QED
    BY <2>5, <2>6, <2>7, <2>8, <2>9
<1> QED
  BY <1>3, <1>4

-----------------------------------------------------------------------------
(* The steps of Telegram.                                                     *)

(* What a worker sends to the customer comes after all that was claimed       *)
(* before it, or the operator knows.                                          *)
LEMMA ChatGrows ==
  ASSUME IInv, NEW j \in Job, Claimed(j), KindOf[j] = "customer_status",
         chat' = Append(chat, j), UNCHANGED <<status, attempts, again>>
  PROVE  ChatClaimed' /\ OutOfOrderIsUncertain'
<1> USE Constants DEF IInv, Facts
<1>1. /\ chat \in Seq(Job) /\ Len(chat) \in Nat /\ Len(chat') = Len(chat) + 1
      /\ chat'[Len(chat) + 1] = j
      /\ \A p \in 1 .. Len(chat) : chat'[p] = chat[p] /\ chat[p] \in Job
  BY DEF TypeOK
<1>2. \A p \in 1 .. Len(chat') : p \in 1 .. Len(chat) \/ p = Len(chat) + 1
  BY <1>1
<1>3. ChatClaimed'
  BY <1>1, <1>2 DEF ChatClaimed, Claimed
<1>4. ASSUME NEW p \in 1 .. Len(chat), LevelOf[j] < LevelOf[chat[p]] PROVE Doubtful(j)
  <2>1. /\ chat[p] \in Job /\ KindOf[chat[p]] = "customer_status" /\ attempts[chat[p]] > 0
    BY <1>1 DEF ChatClaimed
  <2>2. j \in Earlier(chat[p])
    BY <1>4, <2>1 DEF Earlier
  <2>3. status[j] \in Settled
    BY <2>1, <2>2 DEF ClaimsInOrder, Serialised
  <2> QED
    BY <2>3 DEF Claimed, Settled
<1>5. OutOfOrderIsUncertain'
  <2> SUFFICES ASSUME NEW p \in 1 .. Len(chat'), NEW q \in 1 .. Len(chat'),
                      p < q, LevelOf[chat'[q]] < LevelOf[chat'[p]]
               PROVE  status'[chat'[q]] = "UNCERTAIN" \/ again'[chat'[q]] > 0
    BY DEF OutOfOrderIsUncertain
  <2>1. p \in 1 .. Len(chat)
    BY <1>1
  <2>2. CASE q \in 1 .. Len(chat)
    <3>1. LevelOf[chat[q]] < LevelOf[chat[p]]
      BY <1>1, <2>1, <2>2
    <3>2. status[chat[q]] = "UNCERTAIN" \/ again[chat[q]] > 0
      BY <2>1, <2>2, <3>1 DEF OutOfOrderIsUncertain
    <3> QED
      BY <1>1, <2>2, <3>2
  <2>3. CASE q = Len(chat) + 1
    BY <1>1, <1>4, <2>1, <2>3 DEF Doubtful
  <2> QED
    BY <1>2, <2>2, <2>3
<1> QED
  BY <1>3, <1>5

LEMMA PostKeeps ==
  ASSUME IInv, NEW a \in Actor, Post(a)
  PROVE  Facts'
<1> USE Constants
<1>1. run[a] \in Runs /\ run[a] # Idle /\ run[a].step = "sending" /\ run[a].job \in Job
  BY AtWork DEF IInv, Post
<1>2. PICK j \in Job : j = run[a].job
  BY <1>1
<1>3. PICK n : n = IF KindOf[run[a].job] = "staff_new_order" THEN Len(shown) + 1
                   ELSE run[a].msg
  OBVIOUS
<1>4. PICK w : w = [run[a] EXCEPT !.step = "posted", !.msg = n]
  OBVIOUS
<1>5. w.step = "posted" /\ w.job = j /\ run' = [run EXCEPT ![a] = w]
  <2>1. w.step = "posted" /\ w.job = j
    BY <1>1, <1>2, <1>4 DEF Runs
  <2>2. run' = [run EXCEPT ![a] = w]
    BY <1>3, <1>4 DEF Post
  <2> QED
    BY <2>1, <2>2
<1>6. UNCHANGED <<level, status, attempts, letters, late, again>>
  BY DEF Post, database
<1>7. CASE a \notin Instance
  <2>1. a \in Retry /\ UNCHANGED <<chat, auto>>
    BY <1>7 DEF Post, Actor
  <2> QED
    BY <1>5, <1>6, <2>1, Moves DEF jobs
<1>8. CASE a \in Instance
  <2> USE DEF IInv, Facts
  <2>1. Claimed(j) /\ auto[j] = 0 /\ j \notin late
    BY <1>1, <1>2, <1>8 DEF Workers, Truthful, Untouched
  <2>2. auto' = [auto EXCEPT ![j] = @ + 1]
    BY <1>2, <1>8 DEF Post
  <2>3. auto'[j] = 1 /\ \A k \in Job \ {j} : auto'[k] = auto[k]
    BY <2>1, <2>2 DEF TypeOK
  <2>4. run'[a] = w /\ \A i \in Instance \ {a} : run'[i] = run[i]
    BY <1>5, <1>8 DEF TypeOK
  <2>5. \A i \in Instance \ {a} : run[i].job # j
    <3>1. \A i \in Instance \ {a} : run[i] # Idle => run[i].job # j
      BY <1>1, <1>2, <1>8 DEF OneWorker
    <3> QED
      BY <3>1 DEF Idle
  <2>6. Inserted'
    BY <1>6 DEF Inserted
  <2>7. Unsent'
    <3>1. ~(status[j] \in {"none", "PENDING"})
      BY <1>2, <1>8 DEF Unsent
    <3>2. \A i \in Instance : run'[i].job = run[i].job
      BY <1>2, <1>5, <2>4
    <3> QED
      BY <1>6, <2>3, <3>1, <3>2 DEF Unsent, Untouched
  <2>8. OneWorker'
    BY <1>1, <1>2, <1>5, <1>8, <2>4, <2>5 DEF OneWorker
  <2>9. Workers'
    <3>1. Truthful(w)'
      BY <1>5, <1>6, <2>1, <2>3 DEF Truthful, Claimed, Doubtful
    <3>2. ASSUME NEW i \in Instance \ {a}, run[i] # Idle PROVE Truthful(run[i])'
      <4>1. Truthful(run[i]) /\ run[i].job \in Job \ {j}
        BY <2>5, <3>2, AtWork DEF Workers
      <4> QED
        BY <1>6, <2>3, <2>4, <4>1 DEF Truthful, Claimed, Doubtful, Untouched
    <3> QED
      BY <2>4, <3>1, <3>2 DEF Workers
  <2>10. LateOnce' /\ SentOnce'
    <3>1. \A k \in late : k \in Job \ {j}
      BY <2>1 DEF TypeOK
    <3>2. LateOnce'
      BY <1>6, <2>3, <3>1 DEF LateOnce, Claimed, Doubtful
    <3> QED
      BY <2>3, <3>2 DEF SentOnce
  <2>11. ChatClaimed' /\ OutOfOrderIsUncertain'
    <3>1. CASE KindOf[j] = "customer_status"
      <4>1. chat' = Append(chat, j)
        BY <1>2, <1>8, <3>1 DEF Post
      <4> QED
        BY <1>6, <2>1, <3>1, <4>1, ChatGrows
    <3>2. CASE KindOf[j] # "customer_status"
      <4>1. chat' = chat
        BY <1>2, <3>2 DEF Post
      <4> QED
        BY <1>6, <4>1 DEF ChatClaimed, OutOfOrderIsUncertain
    <3> QED
      BY <3>1, <3>2
  <2>12. ClaimsInOrder' /\ LossIsVisible' /\ DeliveredWasPosted'
    <3>1. \A k \in Job : again[k] \in Nat /\ auto[k] \in Nat
      BY DEF TypeOK
    <3>2. \A k \in Job : auto[k] + again[k] > 0 => auto'[k] + again[k] > 0
      BY <2>3, <3>1
    <3> QED
      BY <1>6, <3>2 DEF ClaimsInOrder, Earlier, LossIsVisible, DeliveredWasPosted
  <2> QED
    BY <2>6, <2>7, <2>8, <2>9, <2>10, <2>11, <2>12
<1> QED
  BY <1>7, <1>8

LEMMA LatePostKeeps ==
  ASSUME IInv, NEW j \in Job, LatePost(j)
  PROVE  Facts'
<1> USE Constants DEF IInv, Facts
<1>1. /\ j \in late /\ late' = late \ {j}
      /\ UNCHANGED <<level, status, attempts, letters, again, run>>
      /\ \/ chat' = Append(chat, j) /\ auto' = [auto EXCEPT ![j] = @ + 1]
         \/ UNCHANGED <<chat, auto>>
  BY DEF LatePost, database
<1>2. auto[j] = 0 /\ KindOf[j] = "customer_status" /\ Claimed(j)
  BY <1>1 DEF LateOnce
<1>3. /\ auto'[j] \in {0, 1} /\ auto'[j] \in Nat
      /\ \A k \in Job \ {j} : auto'[k] = auto[k]
      /\ \A k \in Job : again[k] \in Nat /\ auto[k] \in Nat
  BY <1>1, <1>2 DEF TypeOK
<1>4. Inserted' /\ Unsent' /\ OneWorker'
  <2>1. status[j] \notin {"none", "PENDING"}
    BY <1>1 DEF Unsent, Untouched
  <2> QED
    BY <1>1, <1>3, <2>1 DEF Inserted, Unsent, Untouched, OneWorker
<1>5. Workers'
  <2> SUFFICES ASSUME NEW i \in Instance, run[i] # Idle PROVE Truthful(run[i])'
    BY <1>1 DEF Workers
  <2>1. Truthful(run[i]) /\ run[i].job \in Job
    BY AtWork DEF Workers
  <2>2. CASE run[i].job = j
    BY <1>1, <1>2, <2>1, <2>2 DEF Truthful, Untouched, Claimed, Doubtful
  <2>3. CASE run[i].job # j
    BY <1>1, <1>3, <2>1, <2>3 DEF Truthful, Untouched, Claimed, Doubtful
  <2> QED
    BY <2>2, <2>3
<1>6. LateOnce' /\ SentOnce'
  <2>1. \A k \in late' : k \in Job \ {j} /\ k \in late
    BY <1>1 DEF TypeOK
  <2>2. LateOnce'
    BY <1>1, <1>3, <2>1 DEF LateOnce, Claimed, Doubtful
  <2> QED
    BY <1>3, <2>2 DEF SentOnce
<1>7. ChatClaimed' /\ OutOfOrderIsUncertain'
  <2>1. CASE chat' = Append(chat, j)
    BY <1>1, <1>2, <2>1, ChatGrows
  <2>2. CASE chat' = chat
    BY <1>1, <2>2 DEF ChatClaimed, OutOfOrderIsUncertain
  <2> QED
    BY <1>1, <2>1, <2>2
<1>8. ClaimsInOrder' /\ LossIsVisible' /\ DeliveredWasPosted'
  <2>1. \A k \in Job : auto[k] + again[k] > 0 => auto'[k] + again[k] > 0
    BY <1>2, <1>3
  <2> QED
    BY <1>1, <2>1 DEF ClaimsInOrder, Earlier, LossIsVisible, DeliveredWasPosted
<1> QED
  BY <1>4, <1>5, <1>6, <1>7, <1>8

(* An aborted customer message may still get there: its worker no longer      *)
(* vouches for anything.                                                      *)
LEMMA LateGrows ==
  ASSUME IInv, NEW i \in Instance, NEW j \in Job,
         run[i] # Idle, run[i].job = j, run[i].step = "sending",
         KindOf[j] = "customer_status", late' = late \cup {j},
         UNCHANGED <<level, status, attempts, letters, chat, auto, again>>,
         \A k \in Instance \ {i} : run'[k] \in {run[k], Idle},
         \/ run'[i] = Idle
         \/ run'[i].job = j /\ run'[i].step = "answered" /\ run'[i].result = "failed"
  PROVE  Facts'
<1> USE Constants DEF IInv, Facts
<1>1. Claimed(j) /\ Untouched(j)
  BY DEF Workers, Truthful
<1>2. \A k \in Instance \ {i} : run[k].job # j /\ (run'[k] # Idle => run'[k] = run[k])
  <2>1. \A k \in Instance \ {i} : run[k] # Idle => run[k].job # j
    BY DEF OneWorker
  <2> QED
    BY <2>1 DEF Idle
<1>3. \A k \in Instance : run'[k].job \in {run[k].job, NoJob}
  BY DEF Idle
<1>4. Inserted' /\ Unsent'
  <2>1. status[j] \notin {"none", "PENDING"}
    BY DEF Unsent
  <2>2. Unsent'
    BY <1>3, <2>1 DEF Unsent, Untouched
  <2> QED
    BY <2>2 DEF Inserted
<1>5. OneWorker'
  <2> SUFFICES ASSUME NEW k \in Instance, NEW m \in Instance,
                      run'[k] # Idle, run'[k].job = run'[m].job
               PROVE  k = m
    BY DEF OneWorker
  <2>1. run[k] # Idle /\ run[k].job \in Job /\ run'[k].job = run[k].job
    BY <1>2, AtWork DEF Idle
  <2>2. run'[m].job = run[m].job
    <3>1. run'[m].job # NoJob
      BY <2>1
    <3> QED
      BY <1>3, <3>1
  <2> QED
    BY <2>1, <2>2 DEF OneWorker
<1>6. Workers'
  <2> SUFFICES ASSUME NEW k \in Instance, run'[k] # Idle PROVE Truthful(run[k])'
    BY DEF Workers
  <2>1. CASE k = i
    BY <1>1, <2>1 DEF Truthful, Claimed, Doubtful, Results
  <2>2. CASE k # i
    <3>1. run'[k] = run[k] /\ Truthful(run[k]) /\ run[k].job \in Job \ {j}
      BY <1>2, <2>2, AtWork DEF Workers
    <3> QED
      BY <3>1 DEF Truthful, Claimed, Doubtful, Untouched
  <2> QED
    BY <2>1, <2>2
<1>7. LateOnce' /\ SentOnce' /\ ChatClaimed'
  BY <1>1 DEF LateOnce, SentOnce, ChatClaimed, Untouched, Claimed, Doubtful
<1>8. ClaimsInOrder' /\ LossIsVisible' /\ DeliveredWasPosted' /\ OutOfOrderIsUncertain'
  BY DEF ClaimsInOrder, Earlier, LossIsVisible, DeliveredWasPosted, OutOfOrderIsUncertain
<1> QED
  BY <1>4, <1>5, <1>6, <1>7, <1>8

LEMMA UnhandledKeeps ==
  ASSUME IInv, NEW a \in Actor, Unhandled(a)
  PROVE  Facts'
<1> USE Constants
<1>1. run[a] \in Runs /\ run[a] # Idle /\ run[a].step = "sending" /\ run[a].job \in Job
  BY AtWork DEF IInv, Unhandled
<1>2. PICK j \in Job : j = run[a].job
  BY <1>1
<1>3. PICK result \in {"skipped", "limited", "refused", "failed"} :
        /\ run' = [run EXCEPT ![a] = [run[a] EXCEPT !.step = "answered", !.result = result]]
        /\ late' = IF result = "failed" /\ KindOf[run[a].job] = "customer_status"
                        /\ a \in Instance
                   THEN late \cup {run[a].job} ELSE late
  BY DEF Unhandled, Failures
<1>4. PICK w : w = [run[a] EXCEPT !.step = "answered", !.result = result]
  OBVIOUS
<1>5. w.step = "answered" /\ w.result = result /\ w.job = j
  BY <1>1, <1>2, <1>4 DEF Runs
<1>6. run' = [run EXCEPT ![a] = w] /\ UNCHANGED <<level, status, attempts, letters, chat, auto, again>>
  BY <1>3, <1>4 DEF Unhandled, database
<1>7. CASE late' = late
  <2>1. ASSUME a \in Instance PROVE Truthful(w)
    <3>1. Truthful(run[a])
      BY <1>1, <2>1 DEF IInv, Facts, Workers
    <3> QED
      BY <1>1, <1>2, <1>5, <3>1 DEF Truthful, Results
  <2>2. UNCHANGED jobs
    BY <1>6, <1>7 DEF jobs
  <2> QED
    BY <1>1, <1>2, <1>5, <1>6, <2>1, <2>2, Moves DEF Actor
<1>8. CASE result = "failed" /\ KindOf[j] = "customer_status" /\ a \in Instance
  <2>1. late' = late \cup {j}
    BY <1>2, <1>3, <1>8
  <2>2. run'[a] = w /\ \A k \in Instance \ {a} : run'[k] \in {run[k], Idle}
    BY <1>6, <1>8 DEF IInv, TypeOK
  <2> QED
    BY <1>1, <1>2, <1>5, <1>6, <1>8, <2>1, <2>2, LateGrows
<1> QED
  BY <1>2, <1>3, <1>7, <1>8

LEMMA CrashKeeps ==
  ASSUME IInv, NEW i \in Instance, Crash(i)
  PROVE  Facts'
<1> USE Constants
<1>1. /\ run'[i] = Idle /\ \A k \in Instance : run'[k] \in {run[k], Idle}
      /\ UNCHANGED <<level, status, attempts, letters, chat, auto, again>>
  <2>1. ProcessOf(i) = i
    BY DEF ProcessOf
  <2> QED
    BY <2>1 DEF Crash, database
<1>2. CASE late' = late
  <2> USE DEF IInv, Facts
  <2>1. UNCHANGED jobs
    BY <1>1, <1>2 DEF jobs
  <2>2. Unsent'
    <3>1. \A k \in Instance : run'[k].job \in {run[k].job, NoJob}
      BY <1>1 DEF Idle
    <3> QED
      BY <1>1, <1>2, <3>1 DEF Unsent, Untouched
  <2>3. OneWorker'
    <3> SUFFICES ASSUME NEW k \in Instance, NEW m \in Instance,
                        run'[k] # Idle, run'[k].job = run'[m].job
                 PROVE  k = m
      BY DEF OneWorker
    <3>1. run[k] # Idle /\ run[k].job \in Job /\ run'[k] = run[k]
      BY <1>1, AtWork
    <3>2. run'[m] # Idle
      BY <3>1 DEF Idle
    <3>3. run'[m] = run[m]
      BY <1>1, <3>2
    <3> QED
      BY <3>1, <3>3 DEF OneWorker
  <2>4. Workers'
    <3> SUFFICES ASSUME NEW k \in Instance, run'[k] # Idle PROVE Truthful(run[k])'
      BY DEF Workers
    <3>1. run'[k] = run[k] /\ Truthful(run[k])
      BY <1>1 DEF Workers
    <3> QED
      BY <1>1, <1>2, <3>1 DEF Truthful, Claimed, Doubtful, Untouched
  <2> QED
    BY <2>1, <2>2, <2>3, <2>4, JobsKept
<1>3. CASE run[i].step = "sending" /\ KindOf[run[i].job] = "customer_status"
           /\ late' = late \cup {run[i].job}
  <2>1. run[i] # Idle /\ run[i].job \in Job
    BY <1>3, AtWork DEF IInv
  <2> QED
    BY <1>1, <1>3, <2>1, LateGrows
<1> QED
  BY <1>2, <1>3 DEF Crash

-----------------------------------------------------------------------------
(* Every step keeps the invariant.                                            *)
LEMMA StepsKeep == IInv /\ [Next]_vars => IInv'
<1> SUFFICES ASSUME IInv, [Next]_vars PROVE IInv'
  OBVIOUS
<1>1. TypeOK'
  BY TypeNext DEF IInv, Facts
<1>2. CASE UNCHANGED vars
  BY <1>1, <1>2, Stutters DEF IInv, vars, database, telegram, jobs
<1>3. CASE ChangeStatus
  BY <1>1, <1>3, ChangeStatusKeeps DEF IInv
<1>4. ASSUME NEW i \in Instance, NEW j \in Job, Claim(i, j) \/ Recover(i, j) PROVE Facts'
  BY <1>4, ClaimKeeps, RecoverKeeps
<1>5. ASSUME NEW i \in Instance, Settle(i) \/ SettleLost(i) \/ Crash(i) PROVE Facts'
  BY <1>5, SettleKeeps, CrashKeeps
<1>6. ASSUME NEW j \in Job, Lapse(j) \/ Wake(j) \/ LatePost(j) PROVE Facts'
  <2>1. CASE Lapse(j) \/ Wake(j)
    BY <2>1, Stutters DEF IInv, Lapse, Wake, telegram, jobs
  <2> QED
    BY <1>6, <2>1, LatePostKeeps
<1>7. ASSUME NEW r \in Retry, NEW j \in Job, PickLetter(r, j) PROVE Facts'
  <2>1. PICK w : run' = [run EXCEPT ![r] = w]
    BY <1>7 DEF PickLetter
  <2>2. UNCHANGED jobs
    BY <1>7 DEF PickLetter, database, telegram, jobs
  <2> QED
    BY <2>1, <2>2, Moves DEF Actor
<1>8. ASSUME NEW r \in Retry, EndResend(r) PROVE Facts'
  BY <1>8, EndResendKeeps
<1>9. ASSUME NEW a \in Actor,
             Begin(a) \/ Post(a) \/ Confirm(a) \/ LoseAnswer(a) \/ Unhandled(a)
      PROVE  Facts'
  BY <1>9, BeginMoves, PostKeeps, AnswerMoves, UnhandledKeeps
<1>10. Facts'
  BY <1>2, <1>3, <1>4, <1>5, <1>6, <1>7, <1>8, <1>9 DEF Next, IInv
<1> QED
  BY <1>1, <1>10 DEF IInv

(* Rows, attempts, leases, workers and the chat stay in the relation that     *)
(* the properties below rest on.                                              *)
THEOREM Inductive == Spec => []IInv
<1>1. Init => IInv
  BY TypeInit, FactsInit DEF IInv
<1> QED
  BY <1>1, StepsKeep, PTL DEF Spec

(* Rows, processes and Telegram keep the values the code gives them.          *)
THEOREM TypeOKHolds == Spec => []TypeOK
<1>1. IInv => TypeOK
  BY DEF IInv
<1> QED
  BY <1>1, Inductive, PTL

(* However many processes, crashes, lost answers and late leases there are,   *)
(* the worker sends a message of a job once (automatic resend is disabled).   *)
THEOREM AutomaticSendOnceHolds == Spec => []AutomaticSendOnce
<1>1. IInv => AutomaticSendOnce
  BY DEF IInv, Facts, SentOnce, AutomaticSendOnce
<1> QED
  BY <1>1, Inductive, PTL

(* A job that was given up has its dead letter, or its resend was confirmed.  *)
THEOREM LossIsVisibleHolds == Spec => []LossIsVisible
<1>1. IInv => LossIsVisible
  BY DEF IInv, Facts
<1> QED
  BY <1>1, Inductive, PTL

(* A job counts as delivered only when a message of it was posted.            *)
THEOREM DeliveredWasPostedHolds == Spec => []DeliveredWasPosted
<1>1. IInv => DeliveredWasPosted
  BY DEF IInv, Facts
<1> QED
  BY <1>1, Inductive, PTL

(* The jobs of a serialised kind are claimed in the order of their levels.    *)
THEOREM ClaimsInOrderHolds == Spec => []ClaimsInOrder
<1>1. IInv => ClaimsInOrder
  BY DEF IInv, Facts
<1> QED
  BY <1>1, Inductive, PTL

(* A customer sees statuses out of order only when the operator is told that  *)
(* the outcome of the older one was unknown, or resent it.                    *)
THEOREM OutOfOrderIsUncertainHolds == Spec => []OutOfOrderIsUncertain
<1>1. IInv => OutOfOrderIsUncertain
  BY DEF IInv, Facts
<1> QED
  BY <1>1, Inductive, PTL
-----------------------------------------------------------------------------
(* What the kitchen sees.  The last change has a refresh of its own; while    *)
(* that one is under way, or done, every message being written is current.    *)
New(j) == KindOf[j] = "staff_new_order"
Writing(a) == run[a].step \in {"sending", "posted"}
Latest == {j \in Job : Refreshing(j) /\ LevelOf[j] = level}

(* A message is known to an edit only when its id has been stored.            *)
Unknown(a) == run[a].step = "posted" /\ New(run[a].job)
Editing(a) == run[a].step = "sending" /\ Refreshing(run[a].job)
Messages ==
  /\ remembered \in 0 .. Len(shown)
  /\ \A n \in 1 .. Len(shown) : shown[n] <= level
  /\ \A a \in Actor : Unknown(a) =>
       /\ run[a].msg \in 1 .. Len(shown) /\ run[a].msg # remembered
       /\ shown[run[a].msg] = run[a].view
       /\ \A b \in Actor \ {a} : Unknown(b) => run[b].msg # run[a].msg
       /\ \A b \in Actor : Editing(b)
            => run[b].msg # run[a].msg
  /\ \A a \in Actor : Editing(a)
       => run[a].msg \in 1 .. Len(shown)

Resends ==
  /\ \A j \in letters : status[j] \in Settled
  /\ \A r \in Retry : run[r] # Idle => status[run[r].job] \in Settled

OneChain == \A a, b \in Actor : Writing(a) /\ Chained(a) /\ Writing(b) /\ Chained(b) => a = b

Rendered(a) == Writing(a) /\ KindOf[run[a].job] # "customer_status"
Views == \A a \in Actor : Rendered(a) => run[a].view <= level
Current == \A a \in Actor : Rendered(a) => run[a].view = level

WorkerCurrent ==
  \A j \in Latest : status[j] \notin {"none", "PENDING"} =>
    \A i \in Instance : Rendered(i) => run[i].view = level

(* The refresh j is out, or was not needed.                                   *)
Out(a, j) == /\ run[a].job = j
             /\ \/ run[a].step = "posted"
                \/ run[a].step = "answered" /\ run[a].result \in Delivering
Refreshed(j) == status[j] = "DELIVERED" \/ \E a \in Actor : Out(a, j)
Shows == remembered > 0 => shown[remembered] = level
LastRefresh ==
  \A j \in Latest :
    /\ Refreshed(j) => Current /\ Shows
    /\ \A a \in Actor : run[a].job = j /\ run[a].step = "sending"
         => Current /\ (Shows \/ run[a].msg = remembered)

Panel == Messages /\ Resends /\ OneChain /\ Views /\ WorkerCurrent /\ LastRefresh

(* One backend process runs, as in deployment; every status change inserts a  *)
(* refresh of the kitchen's message.                                          *)
OneProcess == \E p : Instance = {p}
EveryLevelRefreshed == \A l \in 1 .. MaxLevel : \E j \in Job : Refreshing(j) /\ LevelOf[j] = l

LEMMA OneOf ==
  ASSUME OneProcess
  PROVE  /\ \A a, b \in Actor : ProcessOf(a) = ProcessOf(b)
         /\ \A i, k \in Instance : i = k
BY NotificationConstants DEF NotificationConstants, OneProcess, ProcessOf, Actor

(* What is settled stays settled; a dead letter is of a settled job.          *)
LEMMA SettledStay ==
  ASSUME IInv, Next, NEW j \in Job, status[j] \in Settled
  PROVE  status'[j] \in Settled
<1> USE Constants DEF Settled
<1>1. CASE ChangeStatus
  <2>1. LevelOf[j] # level + 1
    BY DEF IInv, Facts, Inserted, TypeOK
  <2> QED
    BY <1>1, <2>1 DEF ChangeStatus
<1>2. ASSUME NEW i \in Instance, NEW k \in Job, Claim(i, k) \/ Recover(i, k)
      PROVE  status'[j] \in Settled
  BY <1>2 DEF Claim, Claimable, Recover, IInv, TypeOK
<1>3. ASSUME NEW i \in Instance, Settle(i) PROVE status'[j] \in Settled
  <2>1. PICK s : Ends(i, s)
    BY <1>3 DEF Settle, SettleDelivered, SettleRetry, SettleFailed, SettleUncertain
  <2> QED
    BY <2>1 DEF Ends, Holds, IInv, TypeOK
<1>4. ASSUME NEW r \in Retry, EndResend(r) PROVE status'[j] \in Settled
  BY <1>4 DEF EndResend, IInv, TypeOK
<1>5. CASE UNCHANGED status
  BY <1>5
<1> QED
  BY <1>1, <1>2, <1>3, <1>4, <1>5
     DEF Next, SettleLost, Crash, Lapse, Wake, LatePost, PickLetter, Begin, Post, Confirm,
         LoseAnswer, Unhandled, database

LEMMA ResendsNext ==
  ASSUME IInv, Resends, Next
  PROVE  Resends'
<1> USE Constants DEF Settled
<1>1. \A k \in letters' : k \in letters \/ status'[k] \in Settled
  <2>1. ASSUME NEW i \in Instance, NEW j \in Job, Recover(i, j)
        PROVE  \A k \in letters' : k \in letters \/ status'[k] \in Settled
    BY <2>1 DEF Recover, IInv, TypeOK
  <2>2. ASSUME NEW i \in Instance, Settle(i)
        PROVE  \A k \in letters' : k \in letters \/ status'[k] \in Settled
    <3>1. PICK s : Ends(i, s)
      BY <2>2 DEF Settle, SettleDelivered, SettleRetry, SettleFailed, SettleUncertain
    <3>2. run[i].step = "answered"
      BY <2>2 DEF Settle, SettleDelivered, SettleRetry, SettleFailed, SettleUncertain, Finish
    <3>3. run[i].job \in Job
      BY <3>2, AtWork DEF IInv
    <3> QED
      BY <3>1, <3>3 DEF Ends, IInv, TypeOK
  <2>3. ASSUME NEW r \in Retry, EndResend(r) PROVE letters' \subseteq letters
    BY <2>3 DEF EndResend
  <2>4. CASE letters' = letters
    BY <2>4
  <2> QED
    BY <2>1, <2>2, <2>3, <2>4
       DEF Next, ChangeStatus, Claim, SettleLost, Crash, Lapse, Wake, LatePost, PickLetter, Begin,
           Post, Confirm, LoseAnswer, Unhandled, database
<1>2. ASSUME NEW r \in Retry, run'[r] # Idle
      PROVE  (run[r] # Idle /\ run'[r].job = run[r].job) \/ run'[r].job \in letters
  <2>t. run \in [Actor -> Runs \cup {Idle}] /\ r \in Actor
    BY DEF IInv, TypeOK
  <2>1. ASSUME NEW i \in Instance, NEW w, run' = [run EXCEPT ![i] = w]
        PROVE  run'[r] = run[r]
    BY <2>1, <2>t
  <2>2. ASSUME NEW a \in Actor, Begin(a) \/ Post(a) \/ Confirm(a) \/ LoseAnswer(a) \/ Unhandled(a)
        PROVE  run'[r] = run[r] \/ (run[r] # Idle /\ run'[r].job = run[r].job)
    <3>1. run[a] \in Runs /\ run[a] # Idle
      BY <2>2, AtWork DEF IInv, Begin, Post, Confirm, LoseAnswer, Unhandled
    <3>2. \E w : run' = [run EXCEPT ![a] = w] /\ w.job = run[a].job
      <4>1. CASE Begin(a)
        <5>1. PICK x, y, z : run' = [run EXCEPT ![a] =
                IF NothingToSend(a)
                THEN [run[a] EXCEPT !.step = "answered", !.result = z]
                ELSE [run[a] EXCEPT !.step = "sending", !.view = x, !.msg = y]]
          BY <4>1 DEF Begin
        <5>2. /\ [run[a] EXCEPT !.step = "answered", !.result = z].job = run[a].job
              /\ [run[a] EXCEPT !.step = "sending", !.view = x, !.msg = y].job = run[a].job
          BY <3>1 DEF Runs
        <5> QED
          BY <5>1, <5>2
      <4>2. CASE Post(a)
        <5>1. PICK x : run' = [run EXCEPT ![a] = [run[a] EXCEPT !.step = "posted", !.msg = x]]
          BY <4>2 DEF Post
        <5>2. [run[a] EXCEPT !.step = "posted", !.msg = x].job = run[a].job
          BY <3>1 DEF Runs
        <5> QED
          BY <5>1, <5>2
      <4>3. CASE Confirm(a) \/ LoseAnswer(a) \/ Unhandled(a)
        <5>1. PICK x : run' = [run EXCEPT ![a] = [run[a] EXCEPT !.step = "answered", !.result = x]]
          BY <4>3 DEF Confirm, LoseAnswer, Unhandled
        <5>2. [run[a] EXCEPT !.step = "answered", !.result = x].job = run[a].job
          BY <3>1 DEF Runs
        <5> QED
          BY <5>1, <5>2
      <4> QED
        BY <2>2, <4>1, <4>2, <4>3
    <3> QED
      BY <2>t, <3>1, <3>2
  <2>3. ASSUME NEW i \in Instance, Crash(i) PROVE run'[r] \in {run[r], Idle}
    BY <2>3, <2>t DEF Crash
  <2>4. ASSUME NEW k \in Retry, NEW j \in Job, PickLetter(k, j)
        PROVE  run'[r] = run[r] \/ run'[r].job \in letters
    BY <2>4, <2>t DEF PickLetter, Idle
  <2>5. ASSUME NEW k \in Retry, EndResend(k) PROVE run'[r] \in {run[r], Idle}
    BY <2>5, <2>t DEF EndResend
  <2>6. ASSUME NEW i \in Instance, Settle(i) \/ SettleLost(i) PROVE run'[r] = run[r]
    <3>1. run' = [run EXCEPT ![i] = Idle]
      BY <2>6 DEF Settle, SettleDelivered, SettleRetry, SettleFailed, SettleUncertain,
                  SettleLost, Finish
    <3> QED
      BY <3>1, <2>1
  <2>7. ASSUME NEW i \in Instance, NEW j \in Job, Claim(i, j) \/ Recover(i, j)
        PROVE  run'[r] = run[r]
    BY <2>7, <2>t DEF Claim, Recover
  <2>8. CASE run' = run
    BY <1>2, <2>8
  <2> QED
    BY <1>2, <2>2, <2>3, <2>4, <2>5, <2>6, <2>7, <2>8
       DEF Next, ChangeStatus, Lapse, Wake, LatePost
<1>3. \A r \in Retry : run[r] # Idle => run[r].job \in Job
  BY AtWork DEF IInv
<1>4. letters \subseteq Job
  BY DEF IInv, TypeOK
<1> QED
  BY <1>1, <1>2, <1>3, <1>4, SettledStay DEF Resends

(* A step that starts no message, changes none and loses none.                *)
LEMMA QuietStep ==
  ASSUME IInv, Panel, Resends', UNCHANGED <<level, remembered, shown>>,
         \A a \in Actor : run'[a] = run[a] \/ run'[a].step \notin {"sending", "posted"},
         \A j \in Latest : Refreshed(j)' => Refreshed(j),
         \A j \in Latest : status'[j] \notin {"none", "PENDING"} =>
           status[j] \notin {"none", "PENDING"} \/ \A i \in Instance : ~ Rendered(i)'
  PROVE  Panel'
<1> USE DEF Panel
<1>1. ASSUME NEW a \in Actor
      PROVE  /\ Writing(a)' => run'[a] = run[a]
             /\ Unknown(a)' => run'[a] = run[a] /\ Unknown(a)
             /\ Editing(a)' => run'[a] = run[a] /\ Editing(a)
             /\ Rendered(a)' => run'[a] = run[a] /\ Rendered(a)
  BY DEF Writing, Unknown, Editing, Rendered
<1>2. Messages'
  BY <1>1 DEF Messages
<1>3. OneChain'
  <2>1. \A a \in Actor : Writing(a)' /\ Chained(a)' => Writing(a) /\ Chained(a)
    BY <1>1 DEF Writing, Chained
  <2> QED
    BY <2>1 DEF OneChain
<1>4. Views' /\ (Current => Current')
  BY <1>1 DEF Views, Current
<1>5. WorkerCurrent'
  BY <1>1, Constants DEF WorkerCurrent, Latest
<1>6. LastRefresh'
  <2> SUFFICES ASSUME NEW j \in Latest
               PROVE  /\ Refreshed(j)' => Current' /\ Shows'
                      /\ \A a \in Actor : run'[a].job = j /\ run'[a].step = "sending"
                            => Current' /\ (Shows' \/ run'[a].msg = remembered')
    BY DEF LastRefresh, Latest
  <2>1. Shows' = Shows
    BY DEF Shows
  <2>2. Refreshed(j)' => Current' /\ Shows'
    BY <1>4, <2>1 DEF LastRefresh
  <2>3. ASSUME NEW a \in Actor, run'[a].job = j, run'[a].step = "sending"
        PROVE  Current' /\ (Shows' \/ run'[a].msg = remembered')
    <3>1. run'[a] = run[a]
      BY <2>3
    <3> QED
      BY <1>4, <2>1, <2>3, <3>1 DEF LastRefresh
  <2> QED
    BY <2>2, <2>3
<1> QED
  BY <1>2, <1>3, <1>4, <1>5, <1>6

(* The same for one actor.                                                    *)
LEMMA QuietActor ==
  ASSUME IInv, Panel, Resends', UNCHANGED <<level, remembered, shown>>,
         NEW a \in Actor, NEW w, run' = [run EXCEPT ![a] = w],
         w.step \notin {"sending", "posted"},
         \A j \in Latest : w.job = j /\ w.step = "answered" /\ w.result \in Delivering
                             => Refreshed(j),
         \A j \in Latest : status'[j] = "DELIVERED" => Refreshed(j),
         \A j \in Latest : status'[j] \notin {"none", "PENDING"} =>
           status[j] \notin {"none", "PENDING"} \/ \A i \in Instance : ~ Rendered(i)'
  PROVE  Panel'
<1>1. run'[a] = w /\ \A b \in Actor \ {a} : run'[b] = run[b]
  BY DEF IInv, TypeOK
<1>2. ASSUME NEW j \in Latest, Refreshed(j)' PROVE Refreshed(j)
  <2>1. CASE status'[j] = "DELIVERED"
    BY <2>1
  <2>2. ASSUME NEW b \in Actor, Out(b, j)' PROVE Refreshed(j)
    <3>1. CASE b = a
      BY <1>1, <2>2, <3>1 DEF Out
    <3>2. CASE b # a
      BY <1>1, <2>2, <3>2 DEF Out, Refreshed
    <3> QED
      BY <3>1, <3>2
  <2> QED
    BY <1>2, <2>1, <2>2 DEF Refreshed
<1> QED
  BY <1>1, <1>2, QuietStep

LEMMA PanelSame ==
  ASSUME Panel, UNCHANGED <<level, status, letters, remembered, shown, run>>
  PROVE  Panel'
<1> USE DEF Panel
<1>1. Messages' /\ Resends'
  BY DEF Messages, Resends, Unknown, Editing
<1>2. OneChain' /\ Views' /\ WorkerCurrent'
  BY DEF OneChain, Views, WorkerCurrent, Writing, Chained, Rendered, Latest
<1>3. LastRefresh'
  BY DEF LastRefresh, Latest, Refreshed, Out, Current, Shows, Rendered, Writing
<1> QED
  BY <1>1, <1>2, <1>3

LEMMA PanelInit == Init => Panel
<1> SUFFICES ASSUME Init PROVE Panel
  OBVIOUS
<1>1. /\ \A a \in Actor : run[a] = Idle /\ run[a].step = "idle" /\ run[a].job = NoJob
      /\ Len(shown) = 0 /\ remembered = 0
  BY DEF Init, Idle
<1>2. Messages /\ Resends
  BY <1>1, Constants DEF Init, Messages, Resends, Unknown, Editing
<1>3. OneChain /\ Views /\ WorkerCurrent
  BY <1>1, Constants DEF OneChain, Views, WorkerCurrent, Writing, Rendered
<1>4. LastRefresh
  <2>1. \A j \in Job : ~ Refreshed(j)
    BY <1>1 DEF Init, Refreshed, Out
  <2> QED
    BY <1>1, <2>1 DEF LastRefresh, Latest
<1> QED
  BY <1>2, <1>3, <1>4 DEF Panel

(* A status change: nobody has begun the refresh it inserts.                  *)
LEMMA ChangeStatusPanel ==
  ASSUME IInv, Panel, Resends', ChangeStatus
  PROVE  Panel'
<1> USE Constants DEF IInv, Facts, Panel
<1>1. /\ status' = [j \in Job |-> IF LevelOf[j] = level + 1 THEN "PENDING" ELSE status[j]]
      /\ level' = level + 1 /\ level \in Nat
      /\ UNCHANGED <<remembered, run, shown>>
  BY DEF ChangeStatus, TypeOK, telegram
<1>2. Messages'
  <2>1. \A n \in 1 .. Len(shown) : shown[n] \in Nat /\ shown[n] <= level
    BY DEF Messages, TypeOK
  <2>2. \A n \in 1 .. Len(shown) : shown[n] <= level + 1
    BY <1>1, <2>1
  <2> QED
    BY <1>1, <2>2 DEF Messages, Unknown, Editing
<1>3. OneChain'
  BY <1>1 DEF OneChain, Writing, Chained
<1>4. Views'
  <2> SUFFICES ASSUME NEW a \in Actor, Rendered(a)
               PROVE  run[a].view <= level + 1
    BY <1>1 DEF Views, Rendered, Writing
  <2>1. run[a].view \in Nat
    BY AtWork DEF Rendered, Writing, Runs
  <2> QED
    BY <1>1, <2>1 DEF Views
<1>5. ASSUME NEW j \in Latest'
      PROVE  /\ j \in Job /\ status'[j] = "PENDING"
             /\ \A a \in Actor : run[a].job # j
  <2>1. j \in Job /\ LevelOf[j] = level + 1 /\ status[j] = "none" /\ status'[j] = "PENDING"
    BY <1>1 DEF Latest, Inserted
  <2>2. \A i \in Instance : run[i].job # j
    BY <2>1 DEF Unsent
  <2>3. \A r \in Retry : run[r].job # j
    BY <2>1 DEF Resends, Settled, Idle
  <2> QED
    BY <2>1, <2>2, <2>3 DEF Actor
<1>6. WorkerCurrent' /\ LastRefresh'
  <2>1. WorkerCurrent'
    BY <1>5 DEF WorkerCurrent
  <2>2. \A j \in Latest' : ~ Refreshed(j)' /\ \A a \in Actor : run'[a].job # j
    BY <1>1, <1>5 DEF Refreshed, Out
  <2> QED
    BY <2>1, <2>2 DEF LastRefresh
<1> QED
  BY <1>2, <1>3, <1>4, <1>6

(* Steps of the rows.                                                         *)
LEMMA RowPanel ==
  ASSUME IInv, Panel, Resends', OneProcess,
         NEW i \in Instance, NEW j \in Job, Claim(i, j) \/ Recover(i, j)
  PROVE  Panel'
<1> USE Constants DEF IInv, TypeOK
<1>1. CASE Claim(i, j)
  <2>1. PICK w : w = [Idle EXCEPT !.step = "taken", !.job = j, !.lease = attempts[j] + 1]
    OBVIOUS
  <2>2. w.step = "taken" /\ run' = [run EXCEPT ![i] = w]
    BY <1>1, <2>1 DEF Claim, Idle
  <2>3. UNCHANGED <<level, remembered, shown>>
    BY <1>1 DEF Claim, telegram
  <2>4. \A k \in Job : status'[k] = "DELIVERED" => status[k] = "DELIVERED"
    BY <1>1 DEF Claim
  <2>5. \A k \in Instance : ~ Rendered(k)'
    BY <2>2, OneOf DEF Rendered, Writing
  <2>6. \A k \in Latest : status'[k] = "DELIVERED" => Refreshed(k)
    BY <2>4 DEF Latest, Refreshed
  <2> QED
    BY <2>2, <2>3, <2>5, <2>6, QuietActor DEF Actor
<1>2. CASE Recover(i, j)
  <2>1. UNCHANGED <<level, remembered, shown, run>>
    BY <1>2 DEF Recover, telegram
  <2>2. \A k \in Job : /\ status'[k] = "DELIVERED" => status[k] = "DELIVERED"
                       /\ status'[k] \notin {"none", "PENDING"} => status[k] \notin {"none", "PENDING"}
    BY <1>2 DEF Recover
  <2>3. \A k \in Latest : k \in Job /\ (Refreshed(k)' => Refreshed(k))
    BY <2>1, <2>2 DEF Latest, Refreshed, Out
  <2> QED
    BY <2>1, <2>2, <2>3, QuietStep
<1> QED
  BY <1>1, <1>2

LEMMA EndPanel ==
  ASSUME IInv, Panel, Resends', OneProcess,
         NEW i \in Instance, Settle(i) \/ SettleLost(i)
  PROVE  Panel'
<1> USE Constants DEF IInv, TypeOK
<1>1. Finish(i)
  BY DEF Settle, SettleDelivered, SettleRetry, SettleFailed, SettleUncertain, SettleLost
<1>2. /\ run' = [run EXCEPT ![i] = Idle] /\ run[i].step = "answered"
      /\ UNCHANGED <<level, remembered, shown>>
      /\ Idle.step \notin {"sending", "posted"} /\ Idle.step # "answered"
  BY <1>1 DEF Finish, telegram, Idle
<1>3. \A k \in Instance : ~ Rendered(k)'
  BY <1>2, OneOf DEF Rendered, Writing
<1>4. ASSUME NEW j \in Latest, status'[j] = "DELIVERED" PROVE Refreshed(j)
  <2>1. CASE SettleDelivered(i)
    <3>1. j \in Job /\ (status[j] = "DELIVERED" \/ j = run[i].job)
      BY <1>4, <2>1 DEF SettleDelivered, Ends, Latest
    <3>2. j = run[i].job => Out(i, j)
      BY <1>2, <2>1 DEF SettleDelivered, Out
    <3> QED
      BY <3>1, <3>2 DEF Refreshed, Actor
  <2>2. CASE SettleRetry(i) \/ SettleFailed(i) \/ SettleUncertain(i) \/ SettleLost(i)
    <3>1. j \in Job /\ status[j] = "DELIVERED"
      BY <1>4, <2>2 DEF SettleRetry, SettleFailed, SettleUncertain, SettleLost, Ends, Latest
    <3> QED
      BY <3>1 DEF Refreshed
  <2> QED
    BY <2>1, <2>2 DEF Settle
<1> QED
  BY <1>2, <1>3, <1>4, QuietActor DEF Actor

LEMMA CrashPanel ==
  ASSUME IInv, Panel, Resends', NEW i \in Instance, Crash(i)
  PROVE  Panel'
<1>1. /\ UNCHANGED <<level, remembered, shown, status>>
      /\ \A a \in Actor : run'[a] = run[a] \/ (run'[a] = Idle /\ run'[a].step = "idle")
  BY DEF Crash, database, Idle
<1>2. \A j \in Job : Refreshed(j)' => Refreshed(j)
  BY <1>1 DEF Refreshed, Out
<1> QED
  BY <1>1, <1>2, QuietStep DEF Latest

LEMMA ResendPanel ==
  ASSUME IInv, Panel, Resends', NEW r \in Retry,
         EndResend(r) \/ \E j \in Job : PickLetter(r, j)
  PROVE  Panel'
<1> USE Constants DEF IInv, TypeOK
<1>1. ASSUME NEW j \in Job, PickLetter(r, j) PROVE Panel'
  <2>1. PICK w : w = [Idle EXCEPT !.step = "taken", !.job = j]
    OBVIOUS
  <2>2. w.step = "taken" /\ run' = [run EXCEPT ![r] = w]
    BY <1>1, <2>1 DEF PickLetter, Idle
  <2>3. UNCHANGED <<level, remembered, shown, status>>
    BY <1>1 DEF PickLetter, database, telegram
  <2>4. \A k \in Latest : status'[k] = "DELIVERED" => Refreshed(k)
    BY <2>3 DEF Refreshed
  <2> QED
    BY <2>2, <2>3, <2>4, QuietActor DEF Actor
<1>2. CASE EndResend(r)
  <2>1. /\ run' = [run EXCEPT ![r] = Idle] /\ run[r].step = "answered"
        /\ UNCHANGED <<level, remembered, shown>>
        /\ Idle.step \notin {"sending", "posted"} /\ Idle.step # "answered"
    BY <1>2 DEF EndResend, telegram, Idle
  <2>2. /\ \A k \in Job : status'[k] = "DELIVERED" => status[k] = "DELIVERED" \/ (Taken(r) /\ k = run[r].job)
        /\ \A k \in Job : status'[k] \notin {"none", "PENDING"} => status[k] \notin {"none", "PENDING"}
    BY <1>2 DEF EndResend
  <2>3. ASSUME NEW k \in Latest, status'[k] = "DELIVERED" PROVE Refreshed(k)
    <3>1. Taken(r) => Out(r, run[r].job)
      BY <2>1 DEF Taken, Out, Delivering
    <3> QED
      BY <2>2, <2>3, <3>1 DEF Refreshed, Actor, Latest
  <2> QED
    BY <2>1, <2>2, <2>3, QuietActor DEF Actor, Latest
<1> QED
  BY <1>1, <1>2

LEMMA FailPanel ==
  ASSUME IInv, Panel, Resends', NEW a \in Actor, LoseAnswer(a) \/ Unhandled(a)
  PROVE  Panel'
<1>1. PICK result \in {"skipped", "limited", "refused", "failed"} :
        run' = [run EXCEPT ![a] = [run[a] EXCEPT !.step = "answered", !.result = result]]
  BY DEF LoseAnswer, Unhandled, Failures
<1>2. run[a] \in Runs
  BY AtWork DEF IInv, LoseAnswer, Unhandled
<1>3. PICK w : w = [run[a] EXCEPT !.step = "answered", !.result = result]
  OBVIOUS
<1>5. w.step = "answered" /\ w.result \notin Delivering
  BY <1>2, <1>3 DEF Runs, Delivering
<1>6. UNCHANGED <<level, remembered, shown, status>>
  BY DEF LoseAnswer, Unhandled, database, telegram
<1> QED
  BY <1>1, <1>3, <1>5, <1>6, QuietActor DEF Refreshed

(* When a refresh of the last change is begun, nothing older is on its way:   *)
(* what is chained has ended, and the worker took its new message after the   *)
(* change, because it has already taken the refresh.                          *)
LEMMA FreshBegin ==
  ASSUME IInv, Panel, OneProcess, NEW a \in Actor, run[a].step = "taken", ChainFree(a),
         run[a].job \in Latest
  PROVE  Current
<1> USE DEF Panel
<1>1. Chained(a) /\ run[a] # Idle /\ run[a].job \in Job
  BY AtWork DEF Latest, Refreshing, Chained, IInv
<1>2. status[run[a].job] \notin {"none", "PENDING"}
  <2>1. CASE a \in Instance
    BY <1>1, <2>1 DEF IInv, Facts, Workers, Truthful, Claimed, Doubtful, Unsent
  <2>2. CASE a \in Retry
    BY <1>1, <2>2 DEF Resends, Settled
  <2> QED
    BY <2>1, <2>2 DEF Actor
<1>3. SUFFICES ASSUME NEW b \in Actor, Rendered(b) PROVE run[b].view = level
  BY DEF Current
<1>4. b # a /\ run[b].step \in {"sending", "posted"}
  BY <1>3 DEF Rendered, Writing
<1>5. ~ Chained(b)
  BY <1>1, <1>4, OneOf DEF ChainFree
<1>6. b \in Instance
  BY <1>5 DEF Chained, Actor
<1> QED
  BY <1>2, <1>3, <1>6 DEF WorkerCurrent

LEMMA BeginPanel ==
  ASSUME IInv, Panel, Resends', OneProcess, NEW a \in Actor, Begin(a)
  PROVE  Panel'
<1> USE Constants
<1>1. run[a] \in Runs /\ run[a] # Idle /\ run[a].step = "taken" /\ run[a].job \in Job /\ ChainFree(a)
  BY AtWork DEF IInv, Begin
<1>2. PICK j \in Job : j = run[a].job
  BY <1>1
<1>u. UNCHANGED <<level, status, remembered, shown>>
  BY DEF Begin, database, telegram
<1>t. /\ level \in Nat /\ remembered \in Nat /\ LevelOf[j] \in Nat
      /\ \A b \in Actor : run[b] \in Runs \cup {Idle}
  BY DEF IInv, TypeOK
<1>3. CASE NothingToSend(a)
  <2>1. PICK w : w = [run[a] EXCEPT !.step = "answered", !.result = Unneeded(a)]
    OBVIOUS
  <2>2. w.step = "answered" /\ w.job = j
    BY <1>1, <1>2, <2>1 DEF Runs
  <2>3. run' = [run EXCEPT ![a] = w]
    BY <1>3, <2>1 DEF Begin
  <2>4. run'[a] = w /\ \A b \in Actor \ {a} : run'[b] = run[b]
    BY <2>3 DEF IInv, TypeOK
  <2> USE DEF Panel
  <2>5. ASSUME NEW b \in Actor
        PROVE  /\ Writing(b)' => run'[b] = run[b]
               /\ Unknown(b)' => run'[b] = run[b] /\ Unknown(b)
               /\ Editing(b)' => run'[b] = run[b] /\ Editing(b)
               /\ Rendered(b)' => run'[b] = run[b] /\ Rendered(b)
    BY <2>2, <2>4 DEF Writing, Unknown, Editing, Rendered
  <2>6. Messages'
    BY <1>u, <2>5 DEF Messages
  <2>7. OneChain'
    <3>1. \A b \in Actor : Writing(b)' /\ Chained(b)' => Writing(b) /\ Chained(b)
      BY <2>5 DEF Writing, Chained
    <3> QED
      BY <3>1 DEF OneChain
  <2>8. Views' /\ (Current => Current')
    BY <1>u, <2>5 DEF Views, Current
  <2>9. WorkerCurrent'
    BY <1>u, <2>5 DEF WorkerCurrent, Latest
  <2>10. LastRefresh'
    <3>1. Latest' = Latest /\ Shows' = Shows
      BY <1>u DEF Latest, Shows
    <3>2. ASSUME NEW k \in Latest, Refreshed(k)' PROVE Current' /\ Shows'
      <4>1. CASE k = j
        <5>1. Shows
          BY <1>1, <1>2, <1>3, <3>2, <4>1, NotNeeded DEF Latest, Shows
        <5> QED
          BY <1>1, <1>2, <2>8, <3>1, <4>1, <5>1, FreshBegin
      <4>2. CASE k # j
        <5>1. Refreshed(k)
          BY <1>u, <2>2, <2>4, <3>2, <4>2 DEF Refreshed, Out
        <5> QED
          BY <2>8, <3>1, <5>1 DEF LastRefresh
      <4> QED
        BY <4>1, <4>2
    <3>3. ASSUME NEW k \in Latest, NEW b \in Actor, run'[b].job = k, run'[b].step = "sending"
          PROVE  Current' /\ (Shows' \/ run'[b].msg = remembered')
      <4>1. run'[b] = run[b]
        BY <2>5, <3>3 DEF Writing
      <4> QED
        BY <1>u, <2>8, <3>1, <3>3, <4>1 DEF LastRefresh
    <3> QED
      BY <3>1, <3>2, <3>3 DEF LastRefresh
  <2> QED
    BY <2>6, <2>7, <2>8, <2>9, <2>10
<1>4. CASE ~ NothingToSend(a)
  <2>1. PICK view : view = ViewOf(a)
    OBVIOUS
  <2>2. PICK w : w = [run[a] EXCEPT !.step = "sending", !.view = view, !.msg = remembered]
    OBVIOUS
  <2>3. w.step = "sending" /\ w.job = j /\ w.view = view /\ w.msg = remembered
        /\ w.result = run[a].result
    BY <1>1, <1>2, <2>2 DEF Runs
  <2>4. run' = [run EXCEPT ![a] = w]
    BY <1>4, <2>1, <2>2 DEF Begin
  <2>5. run'[a] = w /\ \A b \in Actor \ {a} : run'[b] = run[b]
    BY <2>4 DEF IInv, TypeOK
  <2>6. KindOf[j] # "customer_status" => w.view = level
    BY <1>2, <2>1, <2>3 DEF ViewOf
  <2>r. Refreshing(j) => remembered # 0
    BY <1>2, <1>4 DEF NothingToSend, Refreshing
  <2> USE DEF Panel
  <2>7. Messages'
    <3>1. \A b \in Actor : Unknown(b)' => b # a /\ run'[b] = run[b] /\ Unknown(b)
      BY <2>3, <2>5 DEF Unknown
    <3>2. \A b \in Actor \ {a} : Editing(b)' => run'[b] = run[b] /\ Editing(b)
      BY <2>5 DEF Editing
    <3>3. Editing(a)' => run'[a].msg = remembered /\ remembered \in 1 .. Len(shown)
      BY <1>t, <2>r, <2>3, <2>5 DEF Editing, Messages
    <3>4. /\ remembered' \in 0 .. Len(shown')
          /\ \A n \in 1 .. Len(shown') : shown'[n] <= level'
          /\ \A b \in Actor : Editing(b)' => run'[b].msg \in 1 .. Len(shown')
      BY <1>u, <3>2, <3>3 DEF Messages
    <3>5. \A b \in Actor : Unknown(b)' =>
            /\ run'[b].msg \in 1 .. Len(shown') /\ run'[b].msg # remembered'
            /\ shown'[run'[b].msg] = run'[b].view
            /\ \A c \in Actor \ {b} : Unknown(c)' => run'[c].msg # run'[b].msg
      BY <1>u, <3>1 DEF Messages
    <3>6. \A b, c \in Actor : Unknown(b)' /\ Editing(c)' => run'[c].msg # run'[b].msg
      BY <1>u, <3>1, <3>2, <3>3 DEF Messages
    <3> QED
      BY <3>4, <3>5, <3>6 DEF Messages
  <2>8. OneChain'
    <3>1. \A b \in Actor : Chained(b)' = Chained(b)
      BY <1>2, <2>3, <2>5 DEF Chained
    <3>2. \A b \in Actor \ {a} : Writing(b)' = Writing(b)
      BY <2>5 DEF Writing
    <3>3. Chained(a) => \A b \in Actor \ {a} : ~(Writing(b) /\ Chained(b))
      BY <1>1, OneOf DEF ChainFree, Writing
    <3> QED
      BY <3>1, <3>2, <3>3 DEF OneChain
  <2>10. \A b \in Actor \ {a} : Rendered(b)' = Rendered(b) /\ run'[b] = run[b]
    BY <2>5 DEF Rendered, Writing
  <2>11. Rendered(a)' => run'[a].view = level
    BY <2>3, <2>5, <2>6 DEF Rendered
  <2>12. Views' /\ (Current => Current')
    <3>1. Rendered(a)' => run'[a].view <= level
      BY <1>t, <2>11
    <3> QED
      BY <1>u, <2>10, <2>11, <3>1 DEF Views, Current
  <2>13. WorkerCurrent'
    BY <1>u, <2>10, <2>11 DEF WorkerCurrent, Latest
  <2>14. LastRefresh'
    <3>1. Latest' = Latest /\ Shows' = Shows
      BY <1>u DEF Latest, Shows
    <3>2. ASSUME NEW k \in Latest, Refreshed(k)' PROVE Refreshed(k)
      BY <1>u, <2>3, <2>5, <3>2 DEF Refreshed, Out
    <3>3. ASSUME NEW k \in Latest, NEW b \in Actor, run'[b].job = k, run'[b].step = "sending"
          PROVE  Current' /\ (Shows' \/ run'[b].msg = remembered')
      <4>1. CASE b = a
        BY <1>1, <1>2, <1>u, <2>3, <2>5, <2>12, <3>3, <4>1, FreshBegin
      <4>2. CASE b # a
        BY <1>u, <2>5, <2>12, <3>1, <3>3, <4>2 DEF LastRefresh
      <4> QED
        BY <4>1, <4>2
    <3> QED
      BY <2>12, <3>1, <3>2, <3>3 DEF LastRefresh
  <2> QED
    BY <2>7, <2>8, <2>12, <2>13, <2>14
<1> QED
  BY <1>3, <1>4

(* Telegram handles the request: what it writes is current whenever the last  *)
(* refresh has begun.                                                         *)
LEMMA PostPanel ==
  ASSUME IInv, Panel, Resends', NEW a \in Actor, Post(a)
  PROVE  Panel'
<1> USE Constants
<1>1. /\ run[a] \in Runs /\ run[a] # Idle /\ run[a].step = "sending" /\ run[a].job \in Job
      /\ run[a].view \in 0 .. MaxLevel /\ run[a].msg \in Nat
  BY AtWork DEF IInv, Post, Runs
<1>2. PICK j \in Job : j = run[a].job
  BY <1>1
<1>3. PICK n : n = IF New(j) THEN Len(shown) + 1 ELSE run[a].msg
  OBVIOUS
<1>4. PICK w : w = [run[a] EXCEPT !.step = "posted", !.msg = n]
  OBVIOUS
<1>5. w.step = "posted" /\ w.job = j /\ w.msg = n /\ w.view = run[a].view
  BY <1>1, <1>2, <1>4 DEF Runs
<1>6. run'[a] = w /\ \A b \in Actor \ {a} : run'[b] = run[b]
  BY <1>2, <1>3, <1>4 DEF Post, New, IInv, TypeOK
<1>7. UNCHANGED <<level, status, remembered>>
  BY DEF Post, database
<1>8. /\ level \in Nat /\ remembered \in Nat /\ Len(shown) \in Nat
      /\ shown \in Seq(0 .. MaxLevel)
      /\ \A m \in 1 .. Len(shown) : shown[m] \in Nat
  BY DEF IInv, TypeOK
<1> USE DEF Panel
<1>9. \A b \in Actor : /\ Writing(b)' <=> Writing(b)
                       /\ Chained(b)' <=> Chained(b)
                       /\ Rendered(b)' <=> Rendered(b)
                       /\ run'[b].view = run[b].view
                       /\ Editing(b)' => b # a /\ Editing(b) /\ run'[b] = run[b]
                       /\ b # a => (Unknown(b)' <=> Unknown(b))
  BY <1>1, <1>2, <1>5, <1>6 DEF Writing, Chained, Rendered, Editing, Unknown
<1>10. OneChain' /\ Views' /\ WorkerCurrent' /\ (Current => Current')
  <2>1. OneChain'
    BY <1>9 DEF OneChain
  <2>2. Views' /\ (Current => Current')
    BY <1>7, <1>9 DEF Views, Current
  <2>3. WorkerCurrent'
    BY <1>7, <1>9 DEF WorkerCurrent, Latest
  <2> QED
    BY <2>1, <2>2, <2>3
<1>11. CASE New(j)
  <2>1. n = Len(shown) + 1 /\ shown' = Append(shown, run[a].view)
    BY <1>2, <1>3, <1>11 DEF Post, New
  <2>2. /\ Len(shown') = n /\ shown'[n] = run[a].view
        /\ \A m \in 1 .. Len(shown) : shown'[m] = shown[m]
    BY <1>1, <1>8, <2>1
  <2>3. run[a].view <= level
    BY <1>1, <1>2, <1>11 DEF Views, Rendered, Writing, New
  <2>4. Messages'
    <3>1. remembered \in 0 .. Len(shown') /\ remembered # n
      BY <1>8, <2>1, <2>2 DEF Messages
    <3>2. \A m \in 1 .. Len(shown') : shown'[m] <= level
      <4>1. \A m \in 1 .. Len(shown') : m = n \/ m \in 1 .. Len(shown)
        BY <1>8, <2>1, <2>2
      <4> QED
        BY <2>2, <2>3, <4>1 DEF Messages
    <3>3. ASSUME NEW b \in Actor \ {a}, Unknown(b)
          PROVE  /\ run[b].msg \in 1 .. Len(shown') /\ run[b].msg \in 1 .. Len(shown)
                 /\ shown'[run[b].msg] = run[b].view /\ run[b].msg # n
      BY <1>8, <2>1, <2>2, <3>3 DEF Messages
    <3>4. \A b \in Actor : Editing(b)' => run'[b].msg \in 1 .. Len(shown') /\ run'[b].msg # n
      BY <1>8, <1>9, <2>1, <2>2 DEF Messages
    <3>5. n \in 1 .. Len(shown') /\ shown'[n] = run[a].view
      BY <1>8, <2>1, <2>2
    <3>6. ASSUME NEW b \in Actor, Unknown(b)'
          PROVE  /\ run'[b].msg \in 1 .. Len(shown') /\ run'[b].msg # remembered
                 /\ shown'[run'[b].msg] = run'[b].view
                 /\ \A c \in Actor \ {b} : Unknown(c)' => run'[c].msg # run'[b].msg
                 /\ \A c \in Actor : Editing(c)' => run'[c].msg # run'[b].msg
      <4>1. CASE b = a
        BY <1>5, <1>6, <1>9, <3>1, <3>3, <3>4, <3>5, <4>1
      <4>2. CASE b # a
        <5>1. Unknown(b) /\ run'[b] = run[b]
          BY <1>6, <1>9, <3>6, <4>2
        <5>2. \A c \in Actor \ {b} : Unknown(c)' => run'[c].msg # run[b].msg
          <6> SUFFICES ASSUME NEW c \in Actor \ {b}, Unknown(c)' PROVE run'[c].msg # run[b].msg
            OBVIOUS
          <6>1. CASE c = a
            BY <1>5, <1>6, <3>3, <4>2, <5>1, <6>1
          <6>2. CASE c # a
            BY <1>6, <1>9, <5>1, <6>2 DEF Messages
          <6> QED
            BY <6>1, <6>2
        <5>3. \A c \in Actor : Editing(c)' => run'[c].msg # run[b].msg
          BY <1>9, <5>1 DEF Messages
        <5> QED
          BY <3>3, <4>2, <5>1, <5>2, <5>3 DEF Messages
      <4> QED
        BY <4>1, <4>2
    <3> QED
      BY <1>7, <3>1, <3>2, <3>4, <3>6 DEF Messages
  <2>5. LastRefresh'
    <3>1. Latest' = Latest /\ (Shows => Shows')
      BY <1>7, <1>8, <2>2 DEF Latest, Shows, Messages
    <3>2. \A k \in Latest : k # j
      BY <1>11 DEF Latest, New, Refreshing
    <3>3. \A k \in Latest : Refreshed(k)' => Refreshed(k)
      BY <1>5, <1>6, <1>7, <3>2 DEF Refreshed, Out
    <3>4. \A k \in Latest, b \in Actor : run'[b].job = k /\ run'[b].step = "sending" => run'[b] = run[b]
      BY <1>5, <1>6
    <3> QED
      BY <1>7, <1>10, <3>1, <3>3, <3>4 DEF LastRefresh
  <2> QED
    BY <1>10, <2>4, <2>5
<1>12. CASE Refreshing(j)
  <2>1. n = run[a].msg /\ shown' = [shown EXCEPT ![n] = run[a].view]
    BY <1>2, <1>3, <1>12 DEF Post, New, Refreshing
  <2>2. Editing(a) /\ n \in 1 .. Len(shown) /\ run[a].view <= level /\ Rendered(a)
    BY <1>1, <1>2, <1>12, <2>1 DEF Messages, Editing, Views, Rendered, Writing, Refreshing
  <2>3. /\ Len(shown') = Len(shown) /\ shown'[n] = run[a].view
        /\ \A m \in 1 .. Len(shown) : m # n => shown'[m] = shown[m]
    BY <1>8, <2>1, <2>2
  <2>4. Messages'
    <3>1. \A m \in 1 .. Len(shown') : shown'[m] <= level
      BY <2>2, <2>3 DEF Messages
    <3>2. \A b \in Actor : Unknown(b)' => Unknown(b) /\ b # a /\ run'[b] = run[b]
      BY <1>5, <1>6, <1>9, <1>12 DEF Unknown, New, Refreshing
    <3>3. \A b \in Actor : Unknown(b) => run[b].msg # n
      BY <2>1, <2>2 DEF Messages
    <3>4. /\ remembered' \in 0 .. Len(shown')
          /\ \A b \in Actor : Editing(b)' => run'[b].msg \in 1 .. Len(shown')
      BY <1>7, <1>9, <2>3 DEF Messages
    <3>5. ASSUME NEW b \in Actor, Unknown(b)'
          PROVE  /\ run'[b].msg \in 1 .. Len(shown') /\ run'[b].msg # remembered'
                 /\ shown'[run'[b].msg] = run'[b].view
                 /\ \A d \in Actor \ {b} : Unknown(d)' => run'[d].msg # run'[b].msg
                 /\ \A d \in Actor : Editing(d)' => run'[d].msg # run'[b].msg
      <4>1. Unknown(b) /\ run'[b] = run[b] /\ run[b].msg # n
        BY <3>2, <3>3, <3>5
      <4>2. /\ run[b].msg \in 1 .. Len(shown) /\ run[b].msg # remembered
            /\ shown[run[b].msg] = run[b].view
        BY <4>1 DEF Messages
      <4>3. \A d \in Actor \ {b} : Unknown(d)' => run'[d].msg # run[b].msg
        BY <3>2, <4>1 DEF Messages
      <4>4. \A d \in Actor : Editing(d)' => run'[d].msg # run[b].msg
        BY <1>9, <4>1 DEF Messages
      <4>5. /\ shown'[run[b].msg] = run[b].view
            /\ run[b].msg \in 1 .. Len(shown')
        BY <2>3, <4>1, <4>2
      <4>6. run'[b].msg = run[b].msg /\ run'[b].view = run[b].view
        BY <4>1
      <4> QED
        BY <1>7, <4>2, <4>3, <4>4, <4>5, <4>6
    <3>6. \A b \in Actor : Unknown(b)' =>
            /\ run'[b].msg \in 1 .. Len(shown') /\ run'[b].msg # remembered'
            /\ shown'[run'[b].msg] = run'[b].view
            /\ \A d \in Actor \ {b} : Unknown(d)' => run'[d].msg # run'[b].msg
            /\ \A d \in Actor : Editing(d)' => run'[d].msg # run'[b].msg
      BY <3>5
    <3>7. \A m \in 1 .. Len(shown') : shown'[m] <= level'
      BY <1>7, <3>1
    <3> QED
      BY <3>4, <3>6, <3>7 DEF Messages
  <2>5. Current => run[a].view = level
    BY <2>2 DEF Current
  <2>6. Current /\ Shows => Shows'
    BY <1>7, <1>8, <2>2, <2>3, <2>5 DEF Shows, Messages
  <2>7. LastRefresh'
    <3>1. ASSUME NEW k \in Latest, Refreshed(k)' PROVE Current' /\ Shows'
      <4>1. CASE Refreshed(k)
        BY <1>10, <2>6, <4>1 DEF LastRefresh
      <4>2. CASE ~ Refreshed(k)
        <5>1. k = j
          BY <1>5, <1>6, <1>7, <3>1, <4>2 DEF Refreshed, Out
        <5>2. Current /\ (Shows \/ n = remembered)
          BY <1>1, <1>2, <2>1, <5>1 DEF LastRefresh
        <5>3. n = remembered => Shows'
          BY <1>7, <2>3, <2>5, <5>2 DEF Shows
        <5> QED
          BY <1>10, <2>6, <5>2, <5>3
      <4> QED
        BY <4>1, <4>2
    <3>2. ASSUME NEW k \in Latest, NEW b \in Actor, run'[b].job = k, run'[b].step = "sending"
          PROVE  Current' /\ (Shows' \/ run'[b].msg = remembered')
      <4>1. run'[b] = run[b]
        BY <1>5, <1>6, <3>2
      <4> QED
        BY <1>7, <1>10, <2>6, <3>2, <4>1 DEF LastRefresh
    <3>3. Latest' = Latest
      BY <1>7 DEF Latest
    <3> QED
      BY <3>1, <3>2, <3>3 DEF LastRefresh
  <2> QED
    BY <1>10, <2>4, <2>7
<1>13. CASE ~ New(j) /\ ~ Refreshing(j)
  <2>1. shown' = shown
    BY <1>2, <1>13 DEF Post, New, Refreshing
  <2>2. Messages'
    <3>1. \A b \in Actor : Unknown(b)' => Unknown(b) /\ b # a /\ run'[b] = run[b]
      BY <1>5, <1>6, <1>9, <1>13 DEF Unknown
    <3> QED
      BY <1>7, <1>9, <2>1, <3>1 DEF Messages
  <2>3. LastRefresh'
    <3>1. Latest' = Latest /\ Shows' = Shows /\ j \notin Latest
      BY <1>7, <1>13, <2>1 DEF Latest, Shows
    <3>2. \A k \in Latest : Refreshed(k)' => Refreshed(k)
      BY <1>5, <1>6, <1>7, <3>1 DEF Refreshed, Out
    <3>3. \A k \in Latest, b \in Actor : run'[b].job = k /\ run'[b].step = "sending" => run'[b] = run[b]
      BY <1>5, <1>6
    <3> QED
      BY <1>7, <1>10, <3>1, <3>2, <3>3 DEF LastRefresh
  <2> QED
    BY <1>10, <2>2, <2>3
<1> QED
  BY <1>11, <1>12, <1>13

(* The id of a new message is stored: it is current too.                      *)
LEMMA ConfirmPanel ==
  ASSUME IInv, Panel, Resends', NEW a \in Actor, Confirm(a)
  PROVE  Panel'
<1> USE Constants
<1>1. run[a] \in Runs /\ run[a] # Idle /\ run[a].step = "posted" /\ run[a].job \in Job
  BY AtWork DEF IInv, Confirm
<1>2. PICK w : w = [run[a] EXCEPT !.step = "answered", !.result = "sent"]
  OBVIOUS
<1>3. w.step = "answered" /\ w.job = run[a].job
  BY <1>1, <1>2 DEF Runs
<1>4. run' = [run EXCEPT ![a] = w]
  BY <1>2 DEF Confirm
<1>5. UNCHANGED <<level, status, shown>>
  BY DEF Confirm, telegram
<1>6. \A k \in Latest : w.job = k => Out(a, k)
  BY <1>1, <1>3 DEF Out
<1>7. CASE ~ New(run[a].job)
  <2>1. UNCHANGED remembered
    BY <1>7 DEF Confirm, New
  <2> QED
    BY <1>3, <1>4, <1>5, <1>6, <2>1, QuietActor DEF Refreshed
<1>8. CASE New(run[a].job)
  <2> USE DEF Panel
  <2>1. remembered' = run[a].msg /\ Unknown(a)
    BY <1>1, <1>8 DEF Confirm, New, Unknown
  <2>2. run'[a] = w /\ \A b \in Actor \ {a} : run'[b] = run[b]
    BY <1>4 DEF IInv, TypeOK
  <2>3. ASSUME NEW b \in Actor
        PROVE  /\ Writing(b)' => b # a /\ run'[b] = run[b]
               /\ Unknown(b)' => b # a /\ run'[b] = run[b] /\ Unknown(b)
               /\ Editing(b)' => b # a /\ run'[b] = run[b] /\ Editing(b)
               /\ Rendered(b)' => b # a /\ run'[b] = run[b] /\ Rendered(b)
    BY <1>3, <2>2 DEF Writing, Unknown, Editing, Rendered
  <2>4. run[a].msg \in 1 .. Len(shown) /\ shown[run[a].msg] = run[a].view
    BY <2>1 DEF Messages
  <2>5. Messages'
    <3>1. remembered' \in 0 .. Len(shown)
      BY <2>1, <2>4 DEF IInv, TypeOK
    <3>2. \A b \in Actor : Unknown(b)' => run'[b].msg # remembered'
      BY <2>1, <2>3 DEF Messages
    <3> QED
      BY <1>5, <2>3, <3>1, <3>2 DEF Messages
  <2>6. OneChain'
    <3>1. \A b \in Actor : Writing(b)' /\ Chained(b)' => Writing(b) /\ Chained(b)
      BY <2>3 DEF Writing, Chained
    <3> QED
      BY <3>1 DEF OneChain
  <2>7. Views' /\ (Current => Current') /\ WorkerCurrent'
    BY <1>5, <2>3 DEF Views, Current, WorkerCurrent, Latest
  <2>8. Current => Shows'
    <3>1. Rendered(a)
      BY <1>1, <1>8 DEF Rendered, Writing, New
    <3> QED
      BY <1>5, <2>1, <2>4, <3>1 DEF Current, Shows
  <2>9. LastRefresh'
    <3>1. \A k \in Latest : Refreshed(k)' => Refreshed(k)
      <4>1. \A k \in Latest : k # run[a].job
        BY <1>8 DEF Latest, New, Refreshing
      <4> QED
        BY <1>3, <1>5, <2>2, <4>1 DEF Refreshed, Out
    <3>2. \A k \in Latest, b \in Actor : run'[b].job = k /\ run'[b].step = "sending" => run'[b] = run[b]
      BY <1>3, <2>2
    <3>3. Latest' = Latest
      BY <1>5 DEF Latest
    <3> QED
      BY <2>7, <2>8, <3>1, <3>2, <3>3 DEF LastRefresh
  <2> QED
    BY <2>5, <2>6, <2>7, <2>9
<1> QED
  BY <1>7, <1>8

LEMMA PanelNext ==
  ASSUME OneProcess, IInv, Panel, [Next]_vars
  PROVE  Panel'
<1>1. CASE UNCHANGED vars
  BY <1>1, PanelSame DEF vars, database, telegram
<1>2. CASE Next
  <2>1. Resends'
    BY <1>2, ResendsNext DEF Panel
  <2>2. CASE ChangeStatus
    BY <2>1, <2>2, ChangeStatusPanel
  <2>3. ASSUME NEW i \in Instance, NEW j \in Job, Claim(i, j) \/ Recover(i, j) PROVE Panel'
    BY <2>1, <2>3, RowPanel
  <2>4. ASSUME NEW i \in Instance, Settle(i) \/ SettleLost(i) \/ Crash(i) PROVE Panel'
    BY <2>1, <2>4, EndPanel, CrashPanel
  <2>5. ASSUME NEW j \in Job, Lapse(j) \/ Wake(j) \/ LatePost(j) PROVE Panel'
    BY <2>5, PanelSame DEF Lapse, Wake, LatePost, telegram, database
  <2>6. ASSUME NEW r \in Retry, EndResend(r) \/ \E j \in Job : PickLetter(r, j) PROVE Panel'
    BY <2>1, <2>6, ResendPanel
  <2>7. ASSUME NEW a \in Actor,
               Begin(a) \/ Post(a) \/ Confirm(a) \/ LoseAnswer(a) \/ Unhandled(a)
        PROVE  Panel'
    BY <2>1, <2>7, BeginPanel, PostPanel, ConfirmPanel, FailPanel
  <2> QED
    BY <1>2, <2>2, <2>3, <2>4, <2>5, <2>6, <2>7 DEF Next
<1> QED
  BY <1>1, <1>2

(* With one backend process, the kitchen's message shows the order as it is   *)
(* when nothing is outstanding and nothing was given up, whatever crashes,    *)
(* lost answers and resends came before.                                      *)
THEOREM StaffSeesCurrentHolds ==
  ASSUME OneProcess, EveryLevelRefreshed
  PROVE  Spec => []StaffSeesCurrent
<1>1. IInv /\ Panel => StaffSeesCurrent
  <2> SUFFICES ASSUME IInv, Panel, remembered > 0,
                      \A j \in Job : status[j] \in {"none", "DELIVERED"}
               PROVE  shown[remembered] = level
    BY DEF StaffSeesCurrent
  <2>1. level \in 0 .. MaxLevel /\ remembered \in 1 .. Len(shown)
    BY DEF IInv, TypeOK, Panel, Messages
  <2>2. CASE level = 0
    <3>1. shown[remembered] \in Nat /\ shown[remembered] <= 0
      BY <2>1, <2>2, Constants DEF IInv, TypeOK, Panel, Messages
    <3> QED
      BY <2>2, <3>1
  <2>3. CASE level # 0
    <3>1. PICK j \in Latest : TRUE
      BY <2>1, <2>3, Constants DEF EveryLevelRefreshed, Latest
    <3>2. status[j] # "none"
      BY <2>1, <3>1, Constants DEF IInv, Facts, Inserted, Latest
    <3>3. Refreshed(j)
      BY <3>1, <3>2 DEF Refreshed, Latest
    <3> QED
      BY <3>1, <3>3 DEF Panel, LastRefresh, Shows
  <2> QED
    BY <2>2, <2>3
<1>2. Init => IInv /\ Panel
  BY TypeInit, FactsInit, PanelInit DEF IInv
<1>3. IInv /\ Panel /\ [Next]_vars => (IInv /\ Panel)'
  BY StepsKeep, PanelNext
<1> QED
  BY <1>1, <1>2, <1>3, PTL DEF Spec

=============================================================================
