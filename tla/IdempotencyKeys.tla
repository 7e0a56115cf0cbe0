-------------------------- MODULE IdempotencyKeys --------------------------
(***************************************************************************)
(* The idempotency keys of the backend's writes: the rows of               *)
(* idempotency_requests (common/idempotency/idempotency.service.ts) and    *)
(* the requests that claim, complete and fail them.                        *)
(*                                                                         *)
(* An order action (accept, cancel, cancel an item) holds two rows of one  *)
(* key: runIdempotent claims "outer", and the order mutation it calls      *)
(* claims "inner".  The mutation completes the inner row in its own        *)
(* transaction; the outer row is completed by a write of its own           *)
(* afterwards.  Every other write holds only the inner row.  The scope of  *)
(* an order mutation's row names the actor and his branch, or "global"; a  *)
(* request repeated after a change of role claims another row.             *)
(*                                                                         *)
(* An attempt is one client repeating one request until it is answered;    *)
(* several attempts of a key are retries that overtake each other.  A key  *)
(* stands for the key, the action and the order; all keys of an instance   *)
(* are about one order.                                                    *)
(***************************************************************************)
EXTENDS Naturals, Sequences

CONSTANTS
  Key,
  Attempt,
  KeyOf,       \* KeyOf[a]: the Idempotency-Key of the attempt
  Scope,
  ScopeOf,     \* ScopeOf[a]: the actor and branch its mutation's row names
  Shared,      \* the scope of rows that name neither
  Body,
  BodyOf,      \* BodyOf[a]: the payload; equal payloads have equal hashes
  NoBody,
  Nested,      \* keys of order actions
  LooksUp,     \* keys whose mutation looks its event up when it is outdated
  Plain,       \* keys of plain status updates: an order that already has the
               \* status asked for is left as it is
  Versioned,   \* bodies that carry expectedVersion
  Expects,     \* Expects[b]: that version; an order starts at version 0
  Patient,     \* attempts whose client keeps repeating; others may give up
  MaxFaults    \* bound: crashes, failed statements, runs of over five minutes

ASSUME KeysAssumption ==
  /\ KeyOf \in [Attempt -> Key]
  /\ ScopeOf \in [Attempt -> Scope]
  /\ Shared \in Scope
  /\ BodyOf \in [Attempt -> Body]
  /\ NoBody \notin Body
  /\ Nested \subseteq Key
  /\ LooksUp \subseteq Key
  /\ Plain \subseteq Key \ Nested
  /\ Versioned \subseteq Body
  /\ Expects \in [Body -> Nat]
  /\ Patient \subseteq Attempt
  /\ MaxFaults \in Nat

VARIABLES
  status,  \* status[x]: of the row x, "none" if it does not exist
  hash,    \* hash[x]: the payload the row was created for
  lapsed,  \* rows whose expiresAt has passed
  log,     \* the effects on the order, in commit order
  pc, at,  \* each attempt's next statement, and the level it is at
  answer,  \* its last answer, or the error it is about to answer
  faults

rows == <<status, hash, lapsed>>
vars == <<rows, log, pc, at, answer, faults>>

Level == {"outer", "inner"}
Row == Level \X Key \X Scope
Statuses == {"none", "IN_PROGRESS", "COMPLETED", "FAILED"}
Steps == {"idle", "create", "find", "reclaim", "mutate", "complete", "fail"}
Transient == {"none", "busy", "error"}
Answers == Transient \cup {"ok", "stale", "refused", "mismatch"}

TypeOK ==
  /\ status \in [Row -> Statuses]
  /\ hash \in [Row -> Body \cup {NoBody}]
  /\ lapsed \subseteq Row
  /\ log \in Seq([key : Key, scope : Scope, body : Body])
  /\ pc \in [Attempt -> Steps]
  /\ at \in [Attempt -> Level]
  /\ answer \in [Attempt -> Answers]
  /\ faults \in 0..MaxFaults

Init ==
  /\ status = [x \in Row |-> "none"]
  /\ hash = [x \in Row |-> NoBody]
  /\ lapsed = {}
  /\ log = <<>>
  /\ pc = [a \in Attempt |-> "idle"]
  /\ at = [a \in Attempt |-> "inner"]
  /\ answer = [a \in Attempt |-> "none"]
  /\ faults = 0

----------------------------------------------------------------------------
RowOf(a) == <<at[a], KeyOf[a], IF at[a] = "outer" THEN Shared ELSE ScopeOf[a]>>

Effect(a) == [key |-> KeyOf[a], scope |-> ScopeOf[a], body |-> BodyOf[a]]

Done(k) == \E i \in 1..Len(log) : log[i].key = k
IsInnerOfTwo(a) == at[a] = "inner" /\ KeyOf[a] \in Nested

(* How control leaves a level.  A level that holds its row catches every   *)
(* error and fails the row; one that could not claim it does not.          *)
GoTo(a, step, level) ==
  /\ pc' = [pc EXCEPT ![a] = step]
  /\ at' = [at EXCEPT ![a] = level]

Claimed(a) ==
  /\ IF at[a] = "outer" THEN GoTo(a, "create", "inner") ELSE GoTo(a, "mutate", "inner")
  /\ UNCHANGED answer

Return(a) ==
  IF IsInnerOfTwo(a)
  THEN GoTo(a, "complete", "outer") /\ UNCHANGED answer
  ELSE GoTo(a, "idle", at[a]) /\ answer' = [answer EXCEPT ![a] = "ok"]

Throw(a, e) ==
  /\ IF IsInnerOfTwo(a) THEN GoTo(a, "fail", "outer") ELSE GoTo(a, "idle", at[a])
  /\ answer' = [answer EXCEPT ![a] = e]

Catch(a, e) ==
  /\ GoTo(a, "fail", at[a])
  /\ answer' = [answer EXCEPT ![a] = e]

Fault == faults < MaxFaults /\ faults' = faults + 1

----------------------------------------------------------------------------
(* IdempotencyService.start: three statements, each its own transaction.   *)

(* The client sends the request, or sends it again.  It names a version of *)
(* the order it has seen.                                                  *)
Send(a) ==
  /\ pc[a] = "idle"
  /\ answer[a] \notin {"ok", "mismatch"}
  /\ BodyOf[a] \in Versioned => Expects[BodyOf[a]] <= Len(log)
  /\ GoTo(a, "create", IF KeyOf[a] \in Nested THEN "outer" ELSE "inner")
  /\ answer' = [answer EXCEPT ![a] = "none"]
  /\ UNCHANGED <<rows, log, faults>>

Create(a) ==
  /\ pc[a] = "create"
  /\ IF status[RowOf(a)] = "none"
     THEN /\ status' = [status EXCEPT ![RowOf(a)] = "IN_PROGRESS"]
          /\ hash' = [hash EXCEPT ![RowOf(a)] = BodyOf[a]]
          /\ Claimed(a)
     ELSE /\ GoTo(a, "find", at[a])
          /\ UNCHANGED <<status, hash, answer>>
  /\ UNCHANGED <<lapsed, log, faults>>

\* Mutant: the request's hash is not compared.
AnyRequest(a) == TRUE

SameRequest(a) == hash[RowOf(a)] = BodyOf[a]

\* Mutant: a run that died keeps its key.
OnlyFailed(x) == status[x] = "FAILED"

Reclaimable(x) == \/ status[x] = "FAILED"
                  \/ status[x] = "IN_PROGRESS" /\ x \in lapsed

Find(a) ==
  LET x == RowOf(a) IN
  /\ pc[a] = "find"
  /\ \/ ~SameRequest(a) /\ Throw(a, "mismatch")
     \/ SameRequest(a) /\ status[x] = "COMPLETED" /\ Return(a)
     \/ SameRequest(a) /\ Reclaimable(x) /\ GoTo(a, "reclaim", at[a]) /\ UNCHANGED answer
     \/ SameRequest(a) /\ status[x] # "COMPLETED" /\ ~Reclaimable(x) /\ Throw(a, "busy")
  /\ UNCHANGED <<rows, log, faults>>

(* The update decides again whether the row may be reclaimed.              *)
Reclaim(a) ==
  LET x == RowOf(a) IN
  /\ pc[a] = "reclaim"
  /\ IF Reclaimable(x)
     THEN /\ status' = [status EXCEPT ![x] = "IN_PROGRESS"]
          /\ lapsed' = lapsed \ {x}
          /\ Claimed(a)
     ELSE Throw(a, "busy") /\ UNCHANGED <<status, lapsed>>
  /\ UNCHANGED <<hash, log, faults>>

----------------------------------------------------------------------------
(* The mutation.  It runs with the order's row locked and ends, in the     *)
(* same transaction, with the completion of the inner row; a completion    *)
(* that finds the row no longer in progress rolls all of it back.          *)

\* Mutant: completing does not look at the status.
CompletesAnyStatus(a) == hash[RowOf(a)] = BodyOf[a]

(* The condition of complete: nothing in it tells a run from the one that  *)
(* has reclaimed its row.                                                  *)
Completes(a) == status[RowOf(a)] = "IN_PROGRESS" /\ hash[RowOf(a)] = BodyOf[a]

Current(a) == BodyOf[a] \in Versioned => Expects[BodyOf[a]] = Len(log)

\* Mutant: an outdated mutation does not look for its own event.
NeverExecuted(a) == FALSE

(* The order was changed, but by this very key: its event is there.        *)
Executed(a) == ~Current(a) /\ KeyOf[a] \in LooksUp /\ Done(KeyOf[a])

Commit(a) ==
  /\ pc[a] = "mutate"
  /\ Current(a) \/ Executed(a)
  /\ Completes(a)
  /\ status' = [status EXCEPT ![RowOf(a)] = "COMPLETED"]
  /\ \/ Current(a) /\ log' = Append(log, Effect(a))
     \/ (~Current(a) \/ KeyOf[a] \in Plain) /\ log' = log
  /\ \/ Return(a) /\ UNCHANGED faults
     \/ Catch(a, "error") /\ Fault  \* committed, but the connection is lost
  /\ UNCHANGED <<hash, lapsed>>

Rollback(a) ==
  /\ pc[a] = "mutate"
  /\ \/ ~Current(a) /\ ~Executed(a) /\ Catch(a, "stale")
     \/ (Current(a) \/ Executed(a)) /\ ~Completes(a) /\ Catch(a, "busy")
     \/ Catch(a, "refused")         \* a rule of the order forbids it
  /\ UNCHANGED <<rows, log, faults>>

(* runIdempotent's completion of the outer row.                            *)
Complete(a) ==
  /\ pc[a] = "complete"
  /\ IF Completes(a)
     THEN status' = [status EXCEPT ![RowOf(a)] = "COMPLETED"] /\ Return(a)
     ELSE Catch(a, "busy") /\ UNCHANGED status
  /\ UNCHANGED <<hash, lapsed, log, faults>>

\* Mutant: failing does not look at the status.
FailsAnyStatus(a) == hash[RowOf(a)] = BodyOf[a]

Fails(a) == status[RowOf(a)] = "IN_PROGRESS" /\ hash[RowOf(a)] = BodyOf[a]

Fail(a) ==
  /\ pc[a] = "fail"
  /\ status' = IF Fails(a) THEN [status EXCEPT ![RowOf(a)] = "FAILED"] ELSE status
  /\ Throw(a, answer[a])
  /\ UNCHANGED <<hash, lapsed, log, faults>>

----------------------------------------------------------------------------
(* Faults and time. *)

(* A statement fails without effect.  An error of fail is swallowed.       *)
DbError(a) ==
  /\ Fault
  /\ \/ pc[a] \in {"create", "find", "reclaim"} /\ Throw(a, "error")
     \/ pc[a] \in {"mutate", "complete"} /\ Catch(a, "error")
     \/ pc[a] = "fail" /\ Throw(a, answer[a])
  /\ UNCHANGED <<rows, log>>

(* The backend stops; the clients see their requests fail.                 *)
Crash ==
  /\ Fault
  /\ answer' = [a \in Attempt |-> IF pc[a] = "idle" THEN answer[a] ELSE "error"]
  /\ pc' = [a \in Attempt |-> "idle"]
  /\ UNCHANGED <<rows, log, at>>

(* A run that holds the row still has to complete or fail it.              *)
Holds(a, x) ==
  \/ x = RowOf(a) /\ pc[a] \in {"mutate", "complete", "fail"}
  \/ x = <<"outer", KeyOf[a], Shared>> /\ IsInnerOfTwo(a) /\ pc[a] # "idle"

(* Five minutes pass since the row was claimed.  That is a fault if the    *)
(* run is still at work, and a matter of time if it died.                  *)
Lapse(x) ==
  /\ status[x] = "IN_PROGRESS"
  /\ x \notin lapsed
  /\ lapsed' = lapsed \cup {x}
  /\ IF \E a \in Attempt : Holds(a, x) THEN Fault ELSE UNCHANGED faults
  /\ UNCHANGED <<status, hash, log, pc, at, answer>>

----------------------------------------------------------------------------
Step(a) == \/ Create(a) \/ Find(a) \/ Reclaim(a)
           \/ Commit(a) \/ Rollback(a) \/ Complete(a) \/ Fail(a)

Next ==
  \/ \E a \in Attempt : Send(a) \/ Step(a) \/ DbError(a)
  \/ Crash
  \/ \E x \in Row : Lapse(x)

Spec == Init /\ [][Next]_vars

(* A patient client repeats a request that got no definite answer (the     *)
(* outbox of the desktop, the retry button), its handler runs, and five    *)
(* minutes pass for a row of it that no run holds.  Nothing is assumed of  *)
(* the others, and no fault is assumed to happen.                          *)
RowsOf(a) == {<<"outer", KeyOf[a], Shared>>, <<"inner", KeyOf[a], ScopeOf[a]>>}

FairSpec ==
  /\ Spec
  /\ \A a \in Patient :
       /\ WF_vars(Step(a))
       /\ WF_vars(answer[a] \in Transient /\ Send(a))
       /\ \A x \in RowsOf(a) : WF_vars((~ \E b \in Attempt : Holds(b, x)) /\ Lapse(x))

----------------------------------------------------------------------------
(* Properties. *)

(* A key takes effect at most once, whatever runs of it were taken for     *)
(* dead and reclaimed, failed by another run, or repeated.  Only under     *)
(* another actor or branch can the same request take effect again, and     *)
(* only if it names no version.                                            *)
EffectOnce ==
  \A i, j \in 1..Len(log) :
    i # j /\ log[i].key = log[j].key =>
      /\ log[i].scope # log[j].scope
      /\ log[i].body = log[j].body => log[i].body \notin Versioned

(* Who is told of success finds the effect of his own payload; or his key, *)
(* used for another one, took effect under another actor or branch.  (A    *)
(* plain status update may have found the order as it asks.)               *)
SuccessIsTrue ==
  \A a \in Attempt : answer[a] = "ok" /\ KeyOf[a] \notin Plain =>
    \E i \in 1..Len(log) : /\ log[i].key = KeyOf[a]
                           /\ log[i].body = BodyOf[a] \/ log[i].scope # ScopeOf[a]

(* "The order was changed meanwhile" is never said of a change this very   *)
(* request made: a retry that comes after a lost answer, a crash between   *)
(* the two completions, a reclaim or a change of role is not sent away.    *)
StaleIsUndone ==
  \A a \in Attempt : answer[a] = "stale" /\ KeyOf[a] \in LooksUp =>
    ~ \E i \in 1..Len(log) : log[i].key = KeyOf[a] /\ log[i].body = BodyOf[a]

(* A completed key is never opened again, not by a run that fails late.    *)
CompletedIsFinal ==
  [][\A x \in Row : status[x] = "COMPLETED" => status'[x] = "COMPLETED"]_vars

(* Who keeps repeating a request learns its outcome once no rival of the   *)
(* same key is at work: neither a crash nor a lost connection leaves a row *)
(* that turns him away for good.  Rivals may hold each other up, for the   *)
(* late fail of one fails the row that the other has reclaimed.            *)
RetriesSettle ==
  \A a \in Patient :
    pc[a] # "idle" ~> \/ pc[a] = "idle" /\ answer[a] \notin Transient
                      \/ \E b \in Attempt \ {a} : KeyOf[b] = KeyOf[a] /\ pc[b] # "idle"

(* The rows and their runs implement OnceByKey: seen from the clients, the *)
(* mutations take effect one at a time, each once, on the version it names *)
(* and for a client who waits, and every answer is true when it is given.  *)
Promise == INSTANCE OnceByKey WITH
  Request <- Attempt,
  effects <- log,
  told <- [a \in Attempt |-> IF pc[a] = "idle" THEN answer[a] ELSE "asked"]
ImplementsOnceByKey == Promise!Service

(* "An in-progress duplicate is rejected rather than run twice"            *)
(* (docs/implementation/phase-0-foundation.md): not so if the run of the   *)
(* first has taken more than five minutes.                                 *)
NeverTwoRuns ==
  \A a, b \in Attempt :
    pc[a] = "mutate" /\ pc[b] = "mutate" /\ KeyOf[a] = KeyOf[b] => a = b
============================================================================
