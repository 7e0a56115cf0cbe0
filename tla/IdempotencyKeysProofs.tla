----------------------- MODULE IdempotencyKeysProofs -----------------------
(***************************************************************************)
(* Proofs about IdempotencyKeys for every set of keys, attempts and        *)
(* payloads and every number of faults, and that it implements OnceByKey.  *)
(***************************************************************************)
EXTENDS IdempotencyKeys, TLAPS

LEMMA AppendIs ==
  ASSUME NEW S, NEW s \in Seq(S), NEW e \in S
  PROVE  /\ Append(s, e) \in Seq(S)
         /\ Len(s) \in Nat /\ Len(Append(s, e)) = Len(s) + 1
         /\ \A i \in 1..Len(s) : Append(s, e)[i] = s[i]
         /\ Append(s, e)[Len(s) + 1] = e
OBVIOUS

LEMMA ElementIs ==
  ASSUME NEW S, NEW s \in Seq(S), NEW i \in 1..Len(s)
  PROVE  s[i] \in S
OBVIOUS

LEMMA EntryIs ==
  ASSUME NEW s \in Seq([key : Key, scope : Scope, body : Body]), NEW i \in 1..Len(s)
  PROVE  s[i].key \in Key /\ s[i].scope \in Scope /\ s[i].body \in Body
<1>1. s[i] \in [key : Key, scope : Scope, body : Body]  BY ElementIs
<1> QED BY <1>1

LEMMA RowTyped ==
  ASSUME NEW a \in Attempt, TypeOK
  PROVE  /\ RowOf(a) \in Row
         /\ KeyOf[a] \in Key /\ ScopeOf[a] \in Scope
         /\ BodyOf[a] \in Body
         /\ Effect(a) \in [key : Key, scope : Scope, body : Body]
BY KeysAssumption DEF TypeOK, RowOf, Row, Effect, Level

(* Where control may go keeps its type.                                    *)
LEMMA GoToTyped ==
  ASSUME NEW a \in Attempt, NEW step \in Steps, NEW level \in Level, TypeOK, GoTo(a, step, level)
  PROVE  pc' \in [Attempt -> Steps] /\ at' \in [Attempt -> Level]
BY DEF TypeOK, GoTo

LEMMA MovesTyped ==
  ASSUME NEW a \in Attempt, TypeOK, NEW e \in Answers,
         Claimed(a) \/ Return(a) \/ Throw(a, e) \/ Catch(a, e)
  PROVE  /\ pc' \in [Attempt -> Steps]
         /\ at' \in [Attempt -> Level]
         /\ answer' \in [Attempt -> Answers]
<1>1. "ok" \in Answers  BY DEF Answers
<1>2. /\ {"create", "mutate", "complete", "idle", "fail"} \subseteq Steps
      /\ {"outer", "inner"} \subseteq Level
      /\ at[a] \in Level
  BY DEF Steps, Level, TypeOK
<1>3. answer' \in [Attempt -> Answers]
  BY <1>1 DEF TypeOK, Claimed, Return, Throw, Catch
<1>4. \E step \in Steps, level \in Level : GoTo(a, step, level)
  BY <1>2 DEF Claimed, Return, Throw, Catch
<1> QED BY <1>3, <1>4, GoToTyped

LEMMA InitTyped == Init => TypeOK
<1>1. /\ "none" \in Statuses /\ "idle" \in Steps
      /\ "inner" \in Level /\ "none" \in Answers
  BY DEF Statuses, Steps, Level, Answers, Transient
<1> QED BY <1>1, KeysAssumption DEF Init, TypeOK

LEMMA StepTyped ==
  ASSUME TypeOK, NEW a \in Attempt, Step(a)
  PROVE  TypeOK'
<1> USE KeysAssumption
<1>0. /\ {"none", "IN_PROGRESS", "COMPLETED", "FAILED"} \subseteq Statuses
      /\ {"idle", "create", "find", "reclaim", "mutate", "complete", "fail"} \subseteq Steps
      /\ {"mismatch", "busy", "stale", "refused", "error"} \subseteq Answers
      /\ at[a] \in Level /\ answer[a] \in Answers
      /\ faults \in Nat
  BY DEF Statuses, Steps, Answers, Transient, TypeOK
<1>1. CASE Create(a)
  <2>1. CASE Claimed(a)
    BY <1>1, <2>1, <1>0, MovesTyped, RowTyped DEF Create, TypeOK
  <2>2. CASE ~Claimed(a)
    <3>1. GoTo(a, "find", at[a]) /\ UNCHANGED <<status, hash, answer, lapsed, log, faults>>
      BY <1>1, <2>2 DEF Create
    <3> QED BY <3>1, <1>0, GoToTyped DEF TypeOK
  <2> QED BY <2>1, <2>2
<1>2. CASE Find(a)
  <2>1. UNCHANGED <<status, hash, lapsed, log, faults>>  BY <1>2 DEF Find, rows
  <2>2. CASE GoTo(a, "reclaim", at[a]) /\ UNCHANGED answer
    BY <2>1, <2>2, <1>0, GoToTyped DEF TypeOK
  <2>3. CASE Throw(a, "mismatch") \/ Return(a) \/ Throw(a, "busy")
    BY <2>1, <2>3, <1>0, MovesTyped DEF TypeOK
  <2> QED BY <1>2, <2>2, <2>3 DEF Find
<1>3. CASE Reclaim(a)
  <2>1. Claimed(a) \/ Throw(a, "busy")  BY <1>3 DEF Reclaim
  <2>2. /\ pc' \in [Attempt -> Steps] /\ at' \in [Attempt -> Level]
        /\ answer' \in [Attempt -> Answers]
    BY <2>1, <1>0, MovesTyped
  <2>3. status' \in [Row -> Statuses] /\ lapsed' \subseteq Row
    <3>1. /\ status' = [status EXCEPT ![RowOf(a)] = "IN_PROGRESS"] \/ status' = status
          /\ lapsed' \subseteq lapsed
      BY <1>3 DEF Reclaim
    <3> QED BY <1>0, <3>1, RowTyped DEF TypeOK
  <2>4. UNCHANGED <<hash, log, faults>>  BY <1>3 DEF Reclaim
  <2> QED BY <2>2, <2>3, <2>4 DEF TypeOK
<1>4. CASE Commit(a)
  <2>1. Return(a) \/ Catch(a, "error")  BY <1>4 DEF Commit
  <2>2. /\ pc' \in [Attempt -> Steps] /\ at' \in [Attempt -> Level]
        /\ answer' \in [Attempt -> Answers]
    BY <2>1, <1>0, MovesTyped
  <2>3. status' \in [Row -> Statuses] /\ UNCHANGED <<hash, lapsed>>
    BY <1>4, <1>0, RowTyped DEF Commit, TypeOK
  <2>4. log' \in Seq([key : Key, scope : Scope, body : Body])
    <3>1. log \in Seq([key : Key, scope : Scope, body : Body])  BY DEF TypeOK
    <3>2. Effect(a) \in [key : Key, scope : Scope, body : Body]  BY RowTyped
    <3>3. Append(log, Effect(a)) \in Seq([key : Key, scope : Scope, body : Body])
      BY <3>1, <3>2, AppendIs
    <3> QED BY <1>4, <3>1, <3>3 DEF Commit
  <2>5. faults' \in 0..MaxFaults
    BY <1>4, <1>0 DEF Commit, TypeOK, Fault
  <2> QED BY <2>2, <2>3, <2>4, <2>5 DEF TypeOK
<1>5. CASE Rollback(a)
  <2>1. UNCHANGED <<status, hash, lapsed, log, faults>>  BY <1>5 DEF Rollback, rows
  <2>2. Catch(a, "stale") \/ Catch(a, "busy") \/ Catch(a, "refused")  BY <1>5 DEF Rollback
  <2> QED BY <2>1, <2>2, <1>0, MovesTyped DEF TypeOK
<1>6. CASE Complete(a)
  <2>1. Return(a) \/ Catch(a, "busy")  BY <1>6 DEF Complete
  <2>2. /\ pc' \in [Attempt -> Steps] /\ at' \in [Attempt -> Level]
        /\ answer' \in [Attempt -> Answers]
    BY <2>1, <1>0, MovesTyped
  <2>3. status' \in [Row -> Statuses]
    BY <1>6, <1>0, RowTyped DEF Complete, TypeOK
  <2>4. UNCHANGED <<hash, lapsed, log, faults>>  BY <1>6 DEF Complete
  <2> QED BY <2>2, <2>3, <2>4 DEF TypeOK
<1>7. CASE Fail(a)
  <2>1. Throw(a, answer[a])  BY <1>7 DEF Fail
  <2>2. /\ pc' \in [Attempt -> Steps] /\ at' \in [Attempt -> Level]
        /\ answer' \in [Attempt -> Answers]
    BY <2>1, <1>0, MovesTyped
  <2>3. status' \in [Row -> Statuses]
    BY <1>7, <1>0, RowTyped DEF Fail, TypeOK
  <2>4. UNCHANGED <<hash, lapsed, log, faults>>  BY <1>7 DEF Fail
  <2> QED BY <2>2, <2>3, <2>4 DEF TypeOK
<1> QED BY <1>1, <1>2, <1>3, <1>4, <1>5, <1>6, <1>7 DEF Step

LEMMA TypesStep == TypeOK /\ [Next]_vars => TypeOK'
<1> SUFFICES ASSUME TypeOK, [Next]_vars PROVE TypeOK'
  OBVIOUS
<1> USE KeysAssumption
<1>0. /\ {"idle", "create"} \subseteq Steps
      /\ {"error", "none"} \subseteq Answers /\ {"outer", "inner"} \subseteq Level
      /\ faults \in Nat
  BY DEF Steps, Answers, Transient, Level, TypeOK
<1>1. ASSUME NEW a \in Attempt, Send(a) PROVE TypeOK'
  <2>1. UNCHANGED <<status, hash, lapsed, log, faults>>  BY <1>1 DEF Send, rows
  <2>2. answer' \in [Attempt -> Answers]  BY <1>1, <1>0 DEF Send, TypeOK
  <2>3. pc' \in [Attempt -> Steps] /\ at' \in [Attempt -> Level]
    BY <1>1, <1>0, GoToTyped DEF Send
  <2> QED BY <2>1, <2>2, <2>3 DEF TypeOK
<1>2. ASSUME NEW a \in Attempt, DbError(a) PROVE TypeOK'
  <2>1. UNCHANGED <<status, hash, lapsed, log>> /\ faults' \in 0..MaxFaults
    BY <1>2, <1>0 DEF DbError, rows, Fault, TypeOK
  <2>2. answer[a] \in Answers  BY DEF TypeOK
  <2>3. Throw(a, "error") \/ Catch(a, "error") \/ Throw(a, answer[a])  BY <1>2 DEF DbError
  <2>4. /\ pc' \in [Attempt -> Steps] /\ at' \in [Attempt -> Level]
        /\ answer' \in [Attempt -> Answers]
    BY <2>2, <2>3, <1>0, MovesTyped
  <2> QED BY <2>1, <2>4 DEF TypeOK
<1>3. CASE Crash
  <2>1. UNCHANGED <<status, hash, lapsed, log, at>> /\ faults' \in 0..MaxFaults
    BY <1>3, <1>0 DEF Crash, rows, Fault, TypeOK
  <2>2. pc' \in [Attempt -> Steps] /\ answer' \in [Attempt -> Answers]
    BY <1>3, <1>0 DEF Crash, TypeOK
  <2> QED BY <2>1, <2>2 DEF TypeOK
<1>4. ASSUME NEW x \in Row, Lapse(x) PROVE TypeOK'
  <2>1. UNCHANGED <<status, hash, log, pc, at, answer>> /\ lapsed' \subseteq Row
    BY <1>4 DEF Lapse, TypeOK
  <2>2. faults' \in 0..MaxFaults  BY <1>4, <1>0 DEF Lapse, Fault, TypeOK
  <2> QED BY <2>1, <2>2 DEF TypeOK
<1>5. CASE UNCHANGED vars
  BY <1>5 DEF vars, rows, TypeOK
<1> QED BY <1>1, <1>2, <1>3, <1>4, <1>5, StepTyped DEF Next

(* Every variable of the keys keeps its type.                              *)
THEOREM TypeCorrect == Spec => []TypeOK
BY InitTyped, TypesStep, PTL DEF Spec

----------------------------------------------------------------------------
(* The inductive invariant.                                                *)

Inner(k, s) == <<"inner", k, s>>
Outer(k) == <<"outer", k, Shared>>

\* The key has taken effect for this payload.
Took(k, b) == \E i \in 1..Len(log) : log[i].key = k /\ log[i].body = b

(* A row that does not exist has no payload. *)
NoRowNoHash == \A x \in Row : status[x] = "none" => hash[x] = NoBody

(* An attempt is where its request may be.  The outer row is completed     *)
(* only after the effect.                                                  *)
InPlace(a) ==
  /\ at[a] = "outer" => KeyOf[a] \in Nested
  /\ pc[a] = "mutate" => at[a] = "inner"
  /\ pc[a] = "complete" => at[a] = "outer" /\ Took(KeyOf[a], BodyOf[a])

(* Who is past a row's claim found the row to be for his payload.          *)
ForItsPayload(a) ==
  /\ pc[a] \in {"reclaim", "mutate", "complete", "fail"} => hash[RowOf(a)] = BodyOf[a]
  /\ IsInnerOfTwo(a) /\ pc[a] # "idle" => hash[Outer(KeyOf[a])] = BodyOf[a]

(* Clients name versions they have seen; who was told of an outdated one   *)
(* cannot become current again.                                            *)
Outdated(a) ==
  /\ pc[a] # "idle" /\ BodyOf[a] \in Versioned => Expects[BodyOf[a]] <= Len(log)
  /\ answer[a] = "stale" =>
       /\ BodyOf[a] \in Versioned
       /\ Expects[BodyOf[a]] < Len(log)
       /\ KeyOf[a] \in LooksUp => ~Took(KeyOf[a], BodyOf[a])

Truthful(a) == answer[a] = "ok" /\ KeyOf[a] \notin Plain =>
  \E i \in 1..Len(log) : /\ log[i].key = KeyOf[a]
                         /\ log[i].body = BodyOf[a] \/ log[i].scope # ScopeOf[a]

Fine(a) == InPlace(a) /\ ForItsPayload(a) /\ Outdated(a) /\ Truthful(a)

(* The rows of an order action are for one payload, and the outer one is   *)
(* never ahead of the effect.                                              *)
RowsAgree ==
  /\ \A k \in Nested, s \in Scope :
       hash[Inner(k, s)] # NoBody => hash[Inner(k, s)] = hash[Outer(k)]
  /\ \A k \in Key : status[Outer(k)] = "COMPLETED" => k \in Nested /\ Took(k, hash[Outer(k)])

(* An inner row is completed once its key took effect: under its own       *)
(* scope, for its payload, or under another one; or, if the key is of a    *)
(* plain status update, found nothing to do.                               *)
LogAgrees ==
  /\ \A i \in 1..Len(log) :
       /\ status[Inner(log[i].key, log[i].scope)] = "COMPLETED"
       /\ hash[Inner(log[i].key, log[i].scope)] = log[i].body
       /\ log[i].body \in Versioned => Expects[log[i].body] = i - 1
  /\ \A k \in Key \ Plain, s \in Scope : status[Inner(k, s)] = "COMPLETED" =>
       \E i \in 1..Len(log) : /\ log[i].key = k
                              /\ log[i].body = hash[Inner(k, s)] \/ log[i].scope # s

OncePerScope ==
  \A i, j \in 1..Len(log) : log[i].key = log[j].key /\ log[i].scope = log[j].scope => i = j

RowsInv == NoRowNoHash /\ RowsAgree /\ LogAgrees /\ OncePerScope

IInv ==
  /\ TypeOK
  /\ RowsInv
  /\ \A a \in Attempt : Fine(a)

----------------------------------------------------------------------------
(* What no step takes back: payloads, completions and effects.             *)
Grows ==
  /\ \A x \in Row : hash[x] # NoBody => hash'[x] = hash[x]
  /\ \A x \in Row : status[x] = "COMPLETED" => status'[x] = "COMPLETED"
  /\ Len(log) <= Len(log')
  /\ \A i \in 1..Len(log) : log'[i] = log[i]

LEMMA Rows ==
  ASSUME NEW k \in Key, NEW s \in Scope
  PROVE  Inner(k, s) \in Row /\ Outer(k) \in Row /\ Inner(k, s) # Outer(k)
BY KeysAssumption DEF Inner, Outer, Row, Level

LEMMA RowOfIs ==
  ASSUME TypeOK, NEW a \in Attempt
  PROVE  /\ at[a] = "inner" => RowOf(a) = Inner(KeyOf[a], ScopeOf[a])
         /\ at[a] # "inner" => at[a] = "outer" /\ RowOf(a) = Outer(KeyOf[a])
BY DEF RowOf, Inner, Outer, TypeOK, Level

LEMMA TookStays ==
  ASSUME TypeOK, TypeOK', Grows, NEW k, NEW b, Took(k, b)
  PROVE  Took(k, b)'
<1>1. Len(log) \in Nat /\ Len(log') \in Nat  BY DEF TypeOK
<1> QED BY <1>1 DEF Took, Grows

LEMMA TruthStays ==
  ASSUME TypeOK, TypeOK', Grows, NEW b \in Attempt, Truthful(b), answer'[b] = answer[b]
  PROVE  Truthful(b)'
<1>1. Len(log) \in Nat /\ Len(log') \in Nat  BY DEF TypeOK
<1> QED BY <1>1 DEF Truthful, Grows

(* A payload that was outdated does not take effect any more.              *)
Enters(b) ==
  Took(KeyOf[b], BodyOf[b])' =>
    \/ Took(KeyOf[b], BodyOf[b])
    \/ BodyOf[b] \in Versioned => Expects[BodyOf[b]] = Len(log)

LEMMA OutdatedStays ==
  ASSUME TypeOK, TypeOK', Grows, NEW b \in Attempt, Outdated(b), Enters(b),
         pc'[b] # "idle" => pc[b] # "idle", answer'[b] = answer[b]
  PROVE  Outdated(b)'
<1>1. Len(log) \in Nat /\ Len(log') \in Nat  BY DEF TypeOK
<1>2. BodyOf[b] \in Body /\ Expects[BodyOf[b]] \in Nat  BY KeysAssumption
<1>3. Len(log) <= Len(log')  BY DEF Grows
<1>4. pc'[b] # "idle" /\ BodyOf[b] \in Versioned => Expects[BodyOf[b]] <= Len(log')
  BY <1>1, <1>2, <1>3 DEF Outdated
<1>5. ASSUME answer'[b] = "stale"
      PROVE  /\ BodyOf[b] \in Versioned /\ Expects[BodyOf[b]] < Len(log')
             /\ KeyOf[b] \in LooksUp => ~Took(KeyOf[b], BodyOf[b])'
  <2>1. /\ BodyOf[b] \in Versioned /\ Expects[BodyOf[b]] < Len(log)
        /\ KeyOf[b] \in LooksUp => ~Took(KeyOf[b], BodyOf[b])
    BY <1>5 DEF Outdated
  <2>2. Expects[BodyOf[b]] # Len(log)  BY <2>1, <1>1, <1>2
  <2> QED BY <2>1, <2>2, <1>1, <1>2, <1>3 DEF Enters
<1> QED BY <1>4, <1>5 DEF Outdated

LEMMA OthersFine ==
  ASSUME TypeOK, TypeOK', Grows, NEW b \in Attempt, Fine(b), Enters(b),
         pc'[b] = pc[b], at'[b] = at[b], answer'[b] = answer[b]
  PROVE  Fine(b)'
<1> USE KeysAssumption
<1>1. /\ KeyOf[b] \in Key /\ BodyOf[b] \in Body /\ BodyOf[b] # NoBody
      /\ Outer(KeyOf[b]) \in Row /\ RowOf(b) \in Row
  BY RowTyped, Rows
<1>2. RowOf(b)' = RowOf(b) /\ (IsInnerOfTwo(b)' <=> IsInnerOfTwo(b))
  BY DEF RowOf, IsInnerOfTwo
<1>3. InPlace(b)'
  BY TookStays DEF Fine, InPlace
<1>4. ForItsPayload(b)'
  <2>1. pc'[b] \in {"reclaim", "mutate", "complete", "fail"} => hash'[RowOf(b)] = BodyOf[b]
    BY <1>1 DEF Fine, ForItsPayload, Grows
  <2>2. IsInnerOfTwo(b) /\ pc'[b] # "idle" => hash'[Outer(KeyOf[b])] = BodyOf[b]
    BY <1>1 DEF Fine, ForItsPayload, Grows
  <2> QED BY <2>1, <2>2, <1>2 DEF ForItsPayload, Outer
<1>5. Outdated(b)'  BY OutdatedStays DEF Fine
<1>6. Truthful(b)'  BY TruthStays DEF Fine
<1> QED BY <1>3, <1>4, <1>5, <1>6 DEF Fine

LEMMA MovesAlone ==
  ASSUME TypeOK, NEW a \in Attempt, NEW e \in Answers, NEW step \in Steps, NEW level \in Level,
         \/ GoTo(a, step, level) /\ UNCHANGED answer
         \/ Claimed(a) \/ Return(a) \/ Throw(a, e) \/ Catch(a, e)
  PROVE  \A b \in Attempt \ {a} :
           pc'[b] = pc[b] /\ at'[b] = at[b] /\ answer'[b] = answer[b]
BY DEF TypeOK, GoTo, Claimed, Return, Throw, Catch

LEMMA GoesTo ==
  ASSUME TypeOK, NEW a \in Attempt, NEW step, NEW level, GoTo(a, step, level)
  PROVE  pc'[a] = step /\ at'[a] = level
BY DEF TypeOK, GoTo

LEMMA ThrowsTo ==
  ASSUME TypeOK, NEW a \in Attempt, NEW e, Throw(a, e)
  PROVE  /\ answer'[a] = e
         /\ IsInnerOfTwo(a) => pc'[a] = "fail" /\ at'[a] = "outer"
         /\ ~IsInnerOfTwo(a) => pc'[a] = "idle" /\ at'[a] = at[a]
BY DEF TypeOK, Throw, GoTo

LEMMA CatchesTo ==
  ASSUME TypeOK, NEW a \in Attempt, NEW e, Catch(a, e)
  PROVE  answer'[a] = e /\ pc'[a] = "fail" /\ at'[a] = at[a]
BY DEF TypeOK, Catch, GoTo

LEMMA ReturnsTo ==
  ASSUME TypeOK, NEW a \in Attempt, Return(a)
  PROVE  /\ IsInnerOfTwo(a) => pc'[a] = "complete" /\ at'[a] = "outer" /\ answer'[a] = answer[a]
         /\ ~IsInnerOfTwo(a) => pc'[a] = "idle" /\ at'[a] = at[a] /\ answer'[a] = "ok"
BY DEF TypeOK, Return, GoTo

LEMMA ClaimsTo ==
  ASSUME TypeOK, NEW a \in Attempt, Claimed(a)
  PROVE  /\ at'[a] = "inner" /\ answer'[a] = answer[a]
         /\ pc'[a] = IF at[a] = "outer" THEN "create" ELSE "mutate"
BY DEF TypeOK, Claimed, GoTo

(* Control of one attempt moves and what it has then is right.             *)
LEMMA ThrowFine ==
  ASSUME TypeOK, TypeOK', Grows, NEW a \in Attempt, Fine(a), pc[a] # "idle",
         NEW e \in Answers, Throw(a, e), e # "ok" \/ e = answer[a],
         e = "stale" => /\ BodyOf[a] \in Versioned /\ Expects[BodyOf[a]] < Len(log')
                        /\ (KeyOf[a] \in LooksUp => ~Took(KeyOf[a], BodyOf[a])')
  PROVE  Fine(a)'
<1> USE KeysAssumption
<1>1. /\ BodyOf[a] \in Body /\ BodyOf[a] # NoBody /\ KeyOf[a] \in Key
      /\ Outer(KeyOf[a]) \in Row
  BY RowTyped, Rows
<1>2. /\ answer'[a] = e
      /\ IsInnerOfTwo(a) => pc'[a] = "fail" /\ at'[a] = "outer"
      /\ ~IsInnerOfTwo(a) => pc'[a] = "idle" /\ at'[a] = at[a]
  BY ThrowsTo
<1>3. InPlace(a)'  BY <1>2 DEF Fine, InPlace, IsInnerOfTwo
<1>4. ForItsPayload(a)'
  <2>1. CASE IsInnerOfTwo(a)
    <3>1. hash'[Outer(KeyOf[a])] = BodyOf[a]
      BY <2>1, <1>1 DEF Fine, ForItsPayload, Grows
    <3>2. RowOf(a)' = Outer(KeyOf[a])  BY <2>1, <1>2 DEF RowOf, Outer
    <3> QED BY <2>1, <3>1, <3>2, <1>2 DEF ForItsPayload, IsInnerOfTwo
  <2>2. CASE ~IsInnerOfTwo(a)
    BY <2>2, <1>2 DEF ForItsPayload
  <2> QED BY <2>1, <2>2
<1>5. Outdated(a)'
  <2>1. Len(log) \in Nat /\ Len(log') \in Nat /\ Len(log) <= Len(log')  BY DEF TypeOK, Grows
  <2>2. BodyOf[a] \in Versioned => Expects[BodyOf[a]] \in Nat /\ Expects[BodyOf[a]] <= Len(log)
    BY <1>1 DEF Fine, Outdated
  <2>3. BodyOf[a] \in Versioned => Expects[BodyOf[a]] <= Len(log')  BY <2>1, <2>2
  <2> QED BY <1>2, <2>3 DEF Outdated
<1>6. Truthful(a)'
  <2>1. CASE e # "ok"  BY <2>1, <1>2 DEF Truthful
  <2>2. CASE e = answer[a]  BY <2>2, <1>2, TruthStays DEF Fine
  <2> QED BY <2>1, <2>2
<1> QED BY <1>3, <1>4, <1>5, <1>6 DEF Fine

LEMMA CatchFine ==
  ASSUME TypeOK, TypeOK', Grows, NEW a \in Attempt, Fine(a), pc[a] \in {"mutate", "complete"},
         NEW e \in Answers, Catch(a, e), e # "ok",
         e = "stale" => /\ BodyOf[a] \in Versioned /\ Expects[BodyOf[a]] < Len(log')
                        /\ (KeyOf[a] \in LooksUp => ~Took(KeyOf[a], BodyOf[a])')
  PROVE  Fine(a)'
<1> USE KeysAssumption
<1>1. /\ BodyOf[a] \in Body /\ BodyOf[a] # NoBody /\ KeyOf[a] \in Key
      /\ Outer(KeyOf[a]) \in Row /\ RowOf(a) \in Row
  BY RowTyped, Rows
<1>2. answer'[a] = e /\ pc'[a] = "fail" /\ at'[a] = at[a]  BY CatchesTo
<1>3. InPlace(a)'  BY <1>2 DEF Fine, InPlace
<1>4. ForItsPayload(a)'
  <2>1. hash'[RowOf(a)] = BodyOf[a]  BY <1>1 DEF Fine, ForItsPayload, Grows
  <2>2. IsInnerOfTwo(a) => hash'[Outer(KeyOf[a])] = BodyOf[a]
    BY <1>1 DEF Fine, ForItsPayload, Grows
  <2>3. RowOf(a)' = RowOf(a) /\ (IsInnerOfTwo(a)' <=> IsInnerOfTwo(a))
    BY <1>2 DEF RowOf, IsInnerOfTwo
  <2> QED BY <2>1, <2>2, <2>3, <1>2 DEF ForItsPayload, Outer
<1>5. Outdated(a)'
  <2>1. Len(log) \in Nat /\ Len(log') \in Nat /\ Len(log) <= Len(log')  BY DEF TypeOK, Grows
  <2>2. BodyOf[a] \in Versioned => Expects[BodyOf[a]] \in Nat /\ Expects[BodyOf[a]] <= Len(log)
    BY <1>1 DEF Fine, Outdated
  <2>3. BodyOf[a] \in Versioned => Expects[BodyOf[a]] <= Len(log')  BY <2>1, <2>2
  <2> QED BY <1>2, <2>3 DEF Outdated
<1>6. Truthful(a)'  BY <1>2 DEF Truthful
<1> QED BY <1>3, <1>4, <1>5, <1>6 DEF Fine

LEMMA ReturnFine ==
  ASSUME TypeOK, TypeOK', Grows, NEW a \in Attempt, Fine(a), Enters(a), pc[a] # "idle", Return(a),
         IsInnerOfTwo(a) => Took(KeyOf[a], BodyOf[a])',
         ~IsInnerOfTwo(a) /\ KeyOf[a] \notin Plain =>
           \E i \in 1..Len(log') : /\ log'[i].key = KeyOf[a]
                                   /\ log'[i].body = BodyOf[a] \/ log'[i].scope # ScopeOf[a]
  PROVE  Fine(a)'
<1> USE KeysAssumption
<1>1. /\ BodyOf[a] \in Body /\ BodyOf[a] # NoBody /\ KeyOf[a] \in Key
      /\ Outer(KeyOf[a]) \in Row
  BY RowTyped, Rows
<1>2. CASE IsInnerOfTwo(a)
  <2>1. pc'[a] = "complete" /\ at'[a] = "outer" /\ answer'[a] = answer[a]  BY <1>2, ReturnsTo
  <2>2. InPlace(a)'  BY <1>2, <2>1 DEF InPlace, IsInnerOfTwo
  <2>3. ForItsPayload(a)'
    <3>1. hash'[Outer(KeyOf[a])] = BodyOf[a]
      BY <1>2, <1>1 DEF Fine, ForItsPayload, Grows
    <3>2. RowOf(a)' = Outer(KeyOf[a])  BY <2>1 DEF RowOf, Outer
    <3> QED BY <3>1, <3>2, <2>1 DEF ForItsPayload, IsInnerOfTwo
  <2>4. Outdated(a)'  BY <2>1, OutdatedStays DEF Fine
  <2>5. Truthful(a)'  BY <2>1, TruthStays DEF Fine
  <2> QED BY <2>2, <2>3, <2>4, <2>5 DEF Fine
<1>3. CASE ~IsInnerOfTwo(a)
  <2>1. pc'[a] = "idle" /\ at'[a] = at[a] /\ answer'[a] = "ok"  BY <1>3, ReturnsTo
  <2>2. InPlace(a)'  BY <2>1 DEF Fine, InPlace
  <2>3. ForItsPayload(a)'  BY <2>1 DEF ForItsPayload
  <2>4. Outdated(a)'  BY <2>1 DEF Outdated
  <2>5. Truthful(a)'  BY <1>3, <2>1 DEF Truthful
  <2> QED BY <2>2, <2>3, <2>4, <2>5 DEF Fine
<1> QED BY <1>2, <1>3

LEMMA ClaimFine ==
  ASSUME TypeOK, TypeOK', Grows, NEW a \in Attempt, Fine(a), Enters(a), pc[a] # "idle", Claimed(a),
         hash'[RowOf(a)] = BodyOf[a]
  PROVE  Fine(a)'
<1> USE KeysAssumption
<1>1. /\ BodyOf[a] \in Body /\ BodyOf[a] # NoBody /\ KeyOf[a] \in Key
      /\ Outer(KeyOf[a]) \in Row
  BY RowTyped, Rows
<1>2. /\ at'[a] = "inner" /\ answer'[a] = answer[a]
      /\ pc'[a] = IF at[a] = "outer" THEN "create" ELSE "mutate"
  BY ClaimsTo
<1>3. InPlace(a)'  BY <1>2 DEF Fine, InPlace
<1>4. ForItsPayload(a)'
  <2>1. CASE at[a] = "outer"
    <3>1. RowOf(a) = Outer(KeyOf[a])  BY <2>1 DEF RowOf, Outer
    <3> QED BY <2>1, <3>1, <1>2 DEF ForItsPayload, Outer
  <2>2. CASE at[a] # "outer"
    <3>1. at[a] = "inner"  BY <2>2 DEF TypeOK, Level
    <3>2. RowOf(a)' = RowOf(a) /\ (IsInnerOfTwo(a)' <=> IsInnerOfTwo(a))
      BY <3>1, <1>2 DEF RowOf, IsInnerOfTwo
    <3>3. IsInnerOfTwo(a) => hash'[Outer(KeyOf[a])] = BodyOf[a]
      BY <1>1 DEF Fine, ForItsPayload, Grows
    <3> QED BY <3>2, <3>3 DEF ForItsPayload, Outer
  <2> QED BY <2>1, <2>2
<1>5. Outdated(a)'  BY <1>2, OutdatedStays DEF Fine
<1>6. Truthful(a)'  BY <1>2, TruthStays DEF Fine
<1> QED BY <1>3, <1>4, <1>5, <1>6 DEF Fine

----------------------------------------------------------------------------
(* The rows and the effects.                                               *)

LEMMA RowsUnchanged ==
  ASSUME TypeOK, RowsInv, UNCHANGED <<status, hash, log>>
  PROVE  /\ RowsInv'
         /\ Grows
         /\ \A k, b : Took(k, b)' <=> Took(k, b)
<1>1. NoRowNoHash' /\ RowsAgree'
  BY DEF RowsInv, NoRowNoHash, RowsAgree, Took, Inner, Outer
<1>2. LogAgrees'  BY DEF RowsInv, LogAgrees, Inner
<1>3. OncePerScope'  BY DEF RowsInv, OncePerScope
<1>4. Len(log) \in Nat  BY DEF TypeOK
<1>5. Grows  BY <1>4 DEF Grows
<1>6. \A k, b : Took(k, b)' <=> Took(k, b)  BY DEF Took
<1> QED BY <1>1, <1>2, <1>3, <1>5, <1>6 DEF RowsInv

(* A row that is open changes its status and stays open.                   *)
LEMMA OpenRow ==
  ASSUME TypeOK, RowsInv, NEW x \in Row, NEW v,
         status[x] \notin {"none", "COMPLETED"}, v \notin {"none", "COMPLETED"},
         status' = [status EXCEPT ![x] = v], UNCHANGED <<hash, log>>
  PROVE  RowsInv' /\ Grows
<1> USE KeysAssumption
<1>1. Len(log) \in Nat /\ log \in Seq([key : Key, scope : Scope, body : Body])  BY DEF TypeOK
<1>2. \A y \in Row : /\ status'[y] = "COMPLETED" <=> status[y] = "COMPLETED"
                     /\ status'[y] = "none" <=> status[y] = "none"
  BY DEF TypeOK
<1>3. Grows  BY <1>1, <1>2 DEF Grows
<1>4. NoRowNoHash'  BY <1>2 DEF RowsInv, NoRowNoHash
<1>5. RowsAgree'
  <2>1. \A k \in Key : Outer(k) \in Row  BY Rows
  <2> QED BY <1>2, <2>1 DEF RowsInv, RowsAgree, Took, Inner, Outer
<1>6. LogAgrees'
  <2>1. \A k \in Key, r \in Scope : Inner(k, r) \in Row  BY Rows
  <2>2. \A i \in 1..Len(log) : log[i].key \in Key /\ log[i].scope \in Scope  BY <1>1, EntryIs
  <2> QED BY <1>2, <2>1, <2>2 DEF RowsInv, LogAgrees, Inner
<1>7. OncePerScope'  BY DEF RowsInv, OncePerScope
<1> QED BY <1>3, <1>4, <1>5, <1>6, <1>7 DEF RowsInv

LEMMA NewRow ==
  ASSUME TypeOK, TypeOK', RowsInv, NEW a \in Attempt, Fine(a), pc[a] = "create",
         status[RowOf(a)] = "none",
         status' = [status EXCEPT ![RowOf(a)] = "IN_PROGRESS"],
         hash' = [hash EXCEPT ![RowOf(a)] = BodyOf[a]], UNCHANGED log
  PROVE  RowsInv' /\ Grows
<1> USE KeysAssumption
<1> DEFINE k0 == KeyOf[a]
<1>0. /\ RowOf(a) \in Row /\ k0 \in Key /\ ScopeOf[a] \in Scope
      /\ BodyOf[a] \in Body /\ BodyOf[a] # NoBody
  BY RowTyped
<1>1. Len(log) \in Nat /\ log \in Seq([key : Key, scope : Scope, body : Body])  BY DEF TypeOK
<1>2. hash[RowOf(a)] = NoBody  BY <1>0 DEF RowsInv, NoRowNoHash
<1>3. \A y \in Row : /\ status'[y] = "COMPLETED" <=> status[y] = "COMPLETED"
                     /\ status'[y] = "none" => status[y] = "none" /\ y # RowOf(a)
                     /\ y # RowOf(a) => hash'[y] = hash[y]
  BY <1>0 DEF TypeOK
<1>4. hash'[RowOf(a)] = BodyOf[a]  BY <1>0 DEF TypeOK
<1>5. Grows  BY <1>1, <1>2, <1>3 DEF Grows
<1>6. NoRowNoHash'  BY <1>3 DEF RowsInv, NoRowNoHash
<1>7. RowsAgree'
  <2>1. ASSUME NEW k \in Nested, NEW r \in Scope, hash'[Inner(k, r)] # NoBody
        PROVE  hash'[Inner(k, r)] = hash'[Outer(k)]
    <3>0. k \in Key /\ Inner(k, r) \in Row /\ Outer(k) \in Row /\ Inner(k, r) # Outer(k)
      BY Rows
    <3>1. CASE RowOf(a) = Inner(k, r)
      <4>1. at[a] = "inner" /\ KeyOf[a] = k  BY <3>1 DEF RowOf, Inner
      <4>2. hash[Outer(k)] = BodyOf[a]
        BY <4>1 DEF Fine, ForItsPayload, IsInnerOfTwo
      <4> QED BY <4>2, <3>0, <3>1, <1>3, <1>4
    <3>2. CASE RowOf(a) # Inner(k, r)
      <4>1. hash[Inner(k, r)] # NoBody /\ hash'[Inner(k, r)] = hash[Inner(k, r)]
        BY <2>1, <3>0, <3>2, <1>3
      <4>2. hash[Inner(k, r)] = hash[Outer(k)]  BY <4>1 DEF RowsInv, RowsAgree
      <4>3. Outer(k) # RowOf(a)  BY <4>1, <4>2, <1>2
      <4> QED BY <4>1, <4>2, <4>3, <3>0, <1>3
    <3> QED BY <3>1, <3>2
  <2>2. ASSUME NEW k \in Key, status'[Outer(k)] = "COMPLETED"
        PROVE  k \in Nested /\ \E i \in 1..Len(log') : log'[i].key = k /\ log'[i].body = hash'[Outer(k)]
    <3>1. Outer(k) \in Row /\ status[Outer(k)] = "COMPLETED" /\ Outer(k) # RowOf(a)
      BY <2>2, <1>3, Rows
    <3>2. k \in Nested /\ Took(k, hash[Outer(k)]) /\ hash'[Outer(k)] = hash[Outer(k)]
      BY <3>1, <1>3 DEF RowsInv, RowsAgree
    <3> QED BY <3>2 DEF Took
  <2> QED BY <2>1, <2>2 DEF RowsAgree, Took, Inner, Outer
<1>8. LogAgrees'
  <2>1. \A k \in Key, r \in Scope : Inner(k, r) \in Row  BY Rows
  <2>2. \A i \in 1..Len(log) : log[i].key \in Key /\ log[i].scope \in Scope  BY <1>1, EntryIs
  <2>3. \A k \in Key, r \in Scope : status[Inner(k, r)] = "COMPLETED" =>
          hash'[Inner(k, r)] = hash[Inner(k, r)] /\ status'[Inner(k, r)] = "COMPLETED"
    BY <2>1, <1>3
  <2>4. \A k \in Key, r \in Scope : status'[Inner(k, r)] = "COMPLETED" => status[Inner(k, r)] = "COMPLETED"
    BY <2>1, <1>3
  <2>5. \A i \in 1..Len(log') :
          /\ status'[Inner(log'[i].key, log'[i].scope)] = "COMPLETED"
          /\ hash'[Inner(log'[i].key, log'[i].scope)] = log'[i].body
          /\ log'[i].body \in Versioned => Expects[log'[i].body] = i - 1
    BY <2>2, <2>3 DEF RowsInv, LogAgrees
  <2>6. ASSUME NEW k \in Key \ Plain, NEW r \in Scope, status'[Inner(k, r)] = "COMPLETED"
        PROVE  \E i \in 1..Len(log') : /\ log'[i].key = k
                                       /\ log'[i].body = hash'[Inner(k, r)] \/ log'[i].scope # r
    <3>1. status[Inner(k, r)] = "COMPLETED" /\ hash'[Inner(k, r)] = hash[Inner(k, r)]
      BY <2>6, <2>3, <2>4
    <3> QED BY <3>1 DEF RowsInv, LogAgrees
  <2> QED BY <2>5, <2>6 DEF LogAgrees, Inner
<1>9. OncePerScope'  BY DEF RowsInv, OncePerScope
<1> QED BY <1>5, <1>6, <1>7, <1>8, <1>9 DEF RowsInv

(* What a completed row says to the attempt that finds it.                 *)
LEMMA CompletedTook ==
  ASSUME TypeOK, TypeOK', RowsInv', NEW a \in Attempt, Fine(a),
         status'[RowOf(a)] = "COMPLETED", hash'[RowOf(a)] = BodyOf[a]
  PROVE  /\ IsInnerOfTwo(a) => Took(KeyOf[a], BodyOf[a])'
         /\ ~IsInnerOfTwo(a) /\ KeyOf[a] \notin Plain =>
              \E i \in 1..Len(log') : /\ log'[i].key = KeyOf[a]
                                      /\ log'[i].body = BodyOf[a] \/ log'[i].scope # ScopeOf[a]
<1> USE KeysAssumption
<1>0. /\ KeyOf[a] \in Key /\ ScopeOf[a] \in Scope /\ BodyOf[a] \in Body /\ BodyOf[a] # NoBody
      /\ log' \in Seq([key : Key, scope : Scope, body : Body])
  BY RowTyped DEF TypeOK
<1>1. CASE at[a] = "inner" /\ KeyOf[a] \notin Plain
  <2>1. RowOf(a) = Inner(KeyOf[a], ScopeOf[a])  BY <1>1, RowOfIs
  <2>2. PICK i \in 1..Len(log') :
          /\ log'[i].key = KeyOf[a]
          /\ log'[i].body = BodyOf[a] \/ log'[i].scope # ScopeOf[a]
    <3>1. status'[Inner(KeyOf[a], ScopeOf[a])] = "COMPLETED" /\ hash'[Inner(KeyOf[a], ScopeOf[a])] = BodyOf[a]
      BY <2>1
    <3>2. \A k \in Key \ Plain, r \in Scope : status'[Inner(k, r)] = "COMPLETED" =>
            \E i \in 1..Len(log') : /\ log'[i].key = k
                                    /\ log'[i].body = hash'[Inner(k, r)] \/ log'[i].scope # r
      BY DEF RowsInv, LogAgrees, Inner
    <3>3. KeyOf[a] \in Key /\ ScopeOf[a] \in Scope
      BY <1>0
    <3> QED BY <1>1, <3>1, <3>2, <3>3
  <2>3. ASSUME IsInnerOfTwo(a) PROVE Took(KeyOf[a], BodyOf[a])'
    <3>1. KeyOf[a] \in Nested  BY <2>3 DEF IsInnerOfTwo
    <3>2. log'[i].scope \in Scope /\ log'[i].body \in Body  BY <1>0, EntryIs
    <3>3. hash'[Inner(KeyOf[a], log'[i].scope)] = log'[i].body
      BY <2>2 DEF RowsInv, LogAgrees, Inner
    <3>4. log'[i].body # NoBody  BY <3>2
    <3>5. hash'[Inner(KeyOf[a], log'[i].scope)] = hash'[Outer(KeyOf[a])]
      BY <3>1, <3>2, <3>3, <3>4 DEF RowsInv, RowsAgree, Inner, Outer
    <3>6. hash'[Inner(KeyOf[a], ScopeOf[a])] = hash'[Outer(KeyOf[a])]
      BY <3>1, <2>1, <1>0 DEF RowsInv, RowsAgree, Inner, Outer
    <3>7. log'[i].body = BodyOf[a]  BY <3>3, <3>5, <3>6, <2>1
    <3> QED BY <2>2, <3>7 DEF Took
  <2> QED BY <2>2, <2>3
<1>2. CASE at[a] # "inner"
  <2>1. at[a] = "outer" /\ RowOf(a) = Outer(KeyOf[a])  BY <1>2, RowOfIs
  <2>2. \E i \in 1..Len(log') : log'[i].key = KeyOf[a] /\ log'[i].body = hash'[Outer(KeyOf[a])]
    BY <2>1, <1>0 DEF RowsInv, RowsAgree, Outer, Took
  <2>3. Took(KeyOf[a], BodyOf[a])'  BY <2>1, <2>2 DEF Took
  <2> QED BY <2>1, <2>3 DEF Took, IsInnerOfTwo
<1>3. CASE at[a] = "inner" /\ KeyOf[a] \in Plain
  BY <1>3 DEF IsInnerOfTwo
<1> QED BY <1>1, <1>2, <1>3

LEMMA CompletesOuter ==
  ASSUME TypeOK, TypeOK', RowsInv, NEW a \in Attempt, Fine(a), pc[a] = "complete",
         Completes(a), status' = [status EXCEPT ![RowOf(a)] = "COMPLETED"], UNCHANGED <<hash, log>>
  PROVE  RowsInv' /\ Grows
<1> USE KeysAssumption
<1>0. /\ KeyOf[a] \in Key /\ KeyOf[a] \in Nested /\ RowOf(a) \in Row
      /\ RowOf(a) = Outer(KeyOf[a]) /\ Took(KeyOf[a], BodyOf[a])
      /\ status[RowOf(a)] = "IN_PROGRESS" /\ hash[RowOf(a)] = BodyOf[a]
  BY RowTyped, RowOfIs DEF Fine, InPlace, Completes
<1>1. Len(log) \in Nat /\ log \in Seq([key : Key, scope : Scope, body : Body])  BY DEF TypeOK
<1>2. \A y \in Row : /\ y # RowOf(a) => status'[y] = status[y]
                     /\ status[y] = "COMPLETED" => status'[y] = "COMPLETED"
                     /\ status'[y] = "none" => status[y] = "none"
  BY <1>0 DEF TypeOK
<1>3. Grows  BY <1>1, <1>2 DEF Grows
<1>4. NoRowNoHash'  BY <1>2 DEF RowsInv, NoRowNoHash
<1>5. RowsAgree'
  <2>1. ASSUME NEW k \in Key, status'[Outer(k)] = "COMPLETED"
        PROVE  k \in Nested /\ Took(k, hash[Outer(k)])
    <3>1. CASE k = KeyOf[a]  BY <3>1, <1>0
    <3>2. CASE k # KeyOf[a]
      <4>1. Outer(k) \in Row /\ Outer(k) # RowOf(a)  BY <3>2, <1>0, Rows DEF Outer
      <4> QED BY <4>1, <2>1, <1>2 DEF RowsInv, RowsAgree
    <3> QED BY <3>1, <3>2
  <2> QED BY <2>1 DEF RowsInv, RowsAgree, Took, Inner, Outer
<1>6. LogAgrees'
  <2>1. \A k \in Key, r \in Scope : Inner(k, r) \in Row /\ Inner(k, r) # RowOf(a)
    <3>1. \A k \in Key, r \in Scope : Inner(k, r) \in Row  BY Rows
    <3>2. \A k \in Key, r \in Scope : Inner(k, r) # RowOf(a)  BY <1>0 DEF Inner, Outer
    <3> QED BY <3>1, <3>2
  <2>2. \A i \in 1..Len(log) : log[i].key \in Key /\ log[i].scope \in Scope  BY <1>1, EntryIs
  <2> QED BY <1>2, <2>1, <2>2 DEF RowsInv, LogAgrees, Inner
<1>7. OncePerScope'  BY DEF RowsInv, OncePerScope
<1> QED BY <1>3, <1>4, <1>5, <1>6, <1>7 DEF RowsInv

(* The log a mutation leaves.                                              *)
LEMMA CommitsLog ==
  ASSUME TypeOK, NEW a \in Attempt, Commit(a)
  PROVE  /\ Len(log) \in Nat /\ Len(log') \in Nat /\ Len(log) <= Len(log')
         /\ \A i \in 1..Len(log) : log'[i] = log[i]
         /\ \A i \in 1..Len(log') : i \notin 1..Len(log) =>
              (i = Len(log) + 1 /\ log'[i] = Effect(a) /\ Current(a))
         /\ \/ log'[Len(log) + 1] = Effect(a) /\ Len(log') = Len(log) + 1
            \/ log' = log /\ (Executed(a) \/ KeyOf[a] \in Plain)
<1>1. log \in Seq([key : Key, scope : Scope, body : Body]) /\ Len(log) \in Nat  BY DEF TypeOK
<1>2. Effect(a) \in [key : Key, scope : Scope, body : Body]  BY RowTyped
<1>3. PICK e : e = Effect(a)  OBVIOUS
<1>4. PICK l : l = log  OBVIOUS
<1>5. /\ Len(Append(l, e)) = Len(l) + 1
      /\ \A i \in 1..Len(l) : Append(l, e)[i] = l[i]
      /\ Append(l, e)[Len(l) + 1] = e
  BY <1>1, <1>2, <1>3, <1>4, AppendIs
<1>6. CASE Current(a) /\ log' = Append(log, Effect(a))
  <2>1. log' = Append(l, e)  BY <1>6, <1>3, <1>4
  <2>2. /\ Len(log') = Len(log) + 1 /\ log'[Len(log) + 1] = Effect(a)
        /\ \A i \in 1..Len(log) : log'[i] = log[i]
    BY <2>1, <1>3, <1>4, <1>5
  <2>3. Len(log') \in Nat /\ Len(log) <= Len(log')  BY <2>2, <1>1
  <2>4. ASSUME NEW i \in 1..Len(log'), i \notin 1..Len(log)
        PROVE  i = Len(log) + 1 /\ log'[i] = Effect(a)
    BY <2>2, <2>4, <1>1
  <2> QED BY <2>2, <2>3, <2>4, <1>1, <1>6
<1>7. CASE log' = log /\ (Executed(a) \/ KeyOf[a] \in Plain)
  <2>1. Len(log') = Len(log)  BY <1>7
  <2> QED BY <2>1, <1>1, <1>7
<1> QED BY <1>6, <1>7 DEF Commit

LEMMA CommitsRow ==
  ASSUME TypeOK, TypeOK', RowsInv, NEW a \in Attempt, Fine(a), Commit(a)
  PROVE  RowsInv' /\ Grows
<1> USE KeysAssumption
<1>0. /\ KeyOf[a] \in Key /\ ScopeOf[a] \in Scope /\ BodyOf[a] \in Body /\ RowOf(a) \in Row
      /\ RowOf(a) = Inner(KeyOf[a], ScopeOf[a])
      /\ status[RowOf(a)] = "IN_PROGRESS" /\ hash[RowOf(a)] = BodyOf[a]
      /\ status' = [status EXCEPT ![RowOf(a)] = "COMPLETED"] /\ hash' = hash
  BY RowTyped, RowOfIs DEF Fine, InPlace, Completes, Commit
<1>1. log \in Seq([key : Key, scope : Scope, body : Body])  BY DEF TypeOK
<1>2. \A y \in Row : /\ y # RowOf(a) => status'[y] = status[y]
                     /\ status[y] = "COMPLETED" => status'[y] = "COMPLETED"
                     /\ status'[y] = "none" => status[y] = "none"
  BY <1>0 DEF TypeOK
<1>3. status'[RowOf(a)] = "COMPLETED"  BY <1>0 DEF TypeOK
<1>4. \A k \in Key, r \in Scope :
        /\ Inner(k, r) \in Row
        /\ Inner(k, r) = RowOf(a) => k = KeyOf[a] /\ r = ScopeOf[a]
  <2>1. \A k \in Key, r \in Scope : Inner(k, r) \in Row  BY Rows
  <2>2. \A k \in Key, r \in Scope : Inner(k, r) = RowOf(a) => k = KeyOf[a] /\ r = ScopeOf[a]
    BY <1>0 DEF Inner
  <2> QED BY <2>1, <2>2
<1>5. \A i \in 1..Len(log) : log[i].key \in Key /\ log[i].scope \in Scope  BY <1>1, EntryIs
<1>6. /\ Effect(a).key = KeyOf[a] /\ Effect(a).scope = ScopeOf[a] /\ Effect(a).body = BodyOf[a]
      /\ Current(a) /\ BodyOf[a] \in Versioned => Expects[BodyOf[a]] = Len(log)
  BY DEF Effect, Current
<1>7. \A i \in 1..Len(log) : log[i].key = KeyOf[a] => log[i].scope # ScopeOf[a]
  BY <1>0 DEF RowsInv, LogAgrees
<1>8. Grows  BY <1>0, <1>2, CommitsLog DEF Grows
<1>9. NoRowNoHash'  BY <1>0, <1>2 DEF RowsInv, NoRowNoHash
<1>10. RowsAgree'
  <2>1. \A k \in Nested, r \in Scope :
          hash'[Inner(k, r)] # NoBody => hash'[Inner(k, r)] = hash'[Outer(k)]
    BY <1>0 DEF RowsInv, RowsAgree
  <2>2. ASSUME NEW k \in Key, status'[Outer(k)] = "COMPLETED"
        PROVE  k \in Nested /\ \E i \in 1..Len(log') : log'[i].key = k /\ log'[i].body = hash'[Outer(k)]
    <3>0. Outer(k) \in Row  BY <1>0, Rows
    <3>1. Outer(k) \in Row /\ Outer(k) # RowOf(a)  BY <3>0, <1>0 DEF Inner, Outer
    <3>2. status[Outer(k)] = "COMPLETED"  BY <3>1, <2>2, <1>2
    <3>3. k \in Nested /\ \E i \in 1..Len(log) : log[i].key = k /\ log[i].body = hash[Outer(k)]
      BY <3>2 DEF RowsInv, RowsAgree, Took
    <3> QED BY <3>3, <1>0, CommitsLog
  <2> QED BY <2>1, <2>2 DEF RowsAgree, Took, Inner, Outer
<1>11. LogAgrees'
  <2>1. ASSUME NEW i \in 1..Len(log')
        PROVE  /\ status'[Inner(log'[i].key, log'[i].scope)] = "COMPLETED"
               /\ hash'[Inner(log'[i].key, log'[i].scope)] = log'[i].body
               /\ log'[i].body \in Versioned => Expects[log'[i].body] = i - 1
    <3>1. CASE i \in 1..Len(log)
      <4>1. log'[i] = log[i]  BY <3>1, CommitsLog
      <4>2. /\ status[Inner(log[i].key, log[i].scope)] = "COMPLETED"
            /\ hash[Inner(log[i].key, log[i].scope)] = log[i].body
            /\ log[i].body \in Versioned => Expects[log[i].body] = i - 1
        BY <3>1 DEF RowsInv, LogAgrees
      <4>3. Inner(log[i].key, log[i].scope) \in Row  BY <3>1, <1>4, <1>5
      <4> QED BY <4>1, <4>2, <4>3, <1>0, <1>2
    <3>2. CASE i \notin 1..Len(log)
      <4>1. i = Len(log) + 1 /\ log'[i] = Effect(a) /\ Current(a) /\ Len(log) \in Nat
        BY <3>2, CommitsLog
      <4> QED BY <4>1, <1>0, <1>3, <1>6
    <3> QED BY <3>1, <3>2
  <2>2. ASSUME NEW k \in Key \ Plain, NEW r \in Scope, status'[Inner(k, r)] = "COMPLETED"
        PROVE  \E i \in 1..Len(log') : /\ log'[i].key = k
                                       /\ log'[i].body = hash'[Inner(k, r)] \/ log'[i].scope # r
    <3>1. CASE Inner(k, r) # RowOf(a)
      <4>1. status[Inner(k, r)] = "COMPLETED"  BY <3>1, <2>2, <1>2, <1>4
      <4>2. \E i \in 1..Len(log) : /\ log[i].key = k
                                   /\ log[i].body = hash[Inner(k, r)] \/ log[i].scope # r
        BY <4>1 DEF RowsInv, LogAgrees
      <4> QED BY <4>2, <1>0, CommitsLog
    <3>2. CASE Inner(k, r) = RowOf(a)
      <4>1. k = KeyOf[a] /\ r = ScopeOf[a] /\ hash'[Inner(k, r)] = BodyOf[a]
        BY <3>2, <1>0, <1>4
      <4>2. CASE log'[Len(log) + 1] = Effect(a) /\ Len(log') = Len(log) + 1
        <5>1. Len(log) + 1 \in 1..Len(log') /\ log'[Len(log) + 1] = Effect(a)
          BY <4>2, CommitsLog
        <5> QED BY <5>1, <4>1, <1>6
      <4>3. CASE log' = log /\ (Executed(a) \/ KeyOf[a] \in Plain)
        <5>1. log' = log /\ Done(KeyOf[a])  BY <4>1, <4>3 DEF Executed
        <5> QED BY <5>1, <4>1, <1>7 DEF Done
      <4> QED BY <4>2, <4>3, CommitsLog
    <3> QED BY <3>1, <3>2
  <2> QED BY <2>1, <2>2 DEF LogAgrees, Inner
<1>12. OncePerScope'
  <2>1. ASSUME NEW i \in 1..Len(log'), NEW j \in 1..Len(log'),
               log'[i].key = log'[j].key, log'[i].scope = log'[j].scope
        PROVE  i = j
    <3>1. CASE i \in 1..Len(log) /\ j \in 1..Len(log)
      BY <2>1, <3>1, CommitsLog DEF RowsInv, OncePerScope
    <3>2. CASE i \notin 1..Len(log) /\ j \notin 1..Len(log)
      BY <3>2, CommitsLog
    <3>3. CASE i \in 1..Len(log) /\ j \notin 1..Len(log)
      BY <2>1, <3>3, <1>6, <1>7, CommitsLog
    <3>4. CASE i \notin 1..Len(log) /\ j \in 1..Len(log)
      BY <2>1, <3>4, <1>6, <1>7, CommitsLog
    <3> QED BY <3>1, <3>2, <3>3, <3>4
  <2> QED BY <2>1 DEF OncePerScope
<1> QED BY <1>8, <1>9, <1>10, <1>11, <1>12 DEF RowsInv

----------------------------------------------------------------------------
(* The steps.                                                              *)

LEMMA Combine ==
  ASSUME TypeOK, TypeOK', RowsInv', Grows, NEW a \in Attempt, Fine(a)',
         \A b \in Attempt \ {a} : /\ Fine(b) /\ Enters(b)
                                  /\ pc'[b] = pc[b] /\ at'[b] = at[b] /\ answer'[b] = answer[b]
  PROVE  IInv'
<1>1. ASSUME NEW b \in Attempt PROVE Fine(b)'
  <2>1. CASE b = a  BY <2>1
  <2>2. CASE b # a
    <3>1. Fine(b) /\ Enters(b) /\ pc'[b] = pc[b] /\ at'[b] = at[b] /\ answer'[b] = answer[b]
      BY <2>2
    <3> QED BY <3>1, OthersFine
  <2> QED BY <2>1, <2>2
<1> QED BY <1>1 DEF IInv

(* Nothing enters a log that stays.                                        *)
LEMMA SameLog ==
  ASSUME TypeOK, UNCHANGED log, NEW b \in Attempt
  PROVE  Enters(b) /\ (Took(KeyOf[b], BodyOf[b])' <=> Took(KeyOf[b], BodyOf[b]))
BY DEF Enters, Took

LEMMA AnswerNames ==
  {"ok", "stale", "busy", "error", "refused", "mismatch", "none"} \subseteq Answers
BY DEF Answers, Transient

LEMMA SendKeeps ==
  ASSUME IInv, TypeOK', NEW a \in Attempt, Send(a)
  PROVE  IInv'
<1> USE KeysAssumption
<1>0. TypeOK /\ RowsInv /\ \A b \in Attempt : Fine(b)  BY DEF IInv
<1>1. UNCHANGED <<status, hash, log>>  BY DEF Send, rows
<1>2. RowsInv' /\ Grows  BY <1>0, <1>1, RowsUnchanged
<1>3. /\ answer'[a] = "none" /\ pc'[a] = "create"
      /\ at'[a] = IF KeyOf[a] \in Nested THEN "outer" ELSE "inner"
      /\ \A b \in Attempt \ {a} : pc'[b] = pc[b] /\ at'[b] = at[b] /\ answer'[b] = answer[b]
  BY <1>0 DEF Send, GoTo, TypeOK
<1>4. InPlace(a)'  BY <1>3 DEF InPlace
<1>5. ForItsPayload(a)'  BY <1>3 DEF ForItsPayload, IsInnerOfTwo
<1>6. Outdated(a)'
  <2>1. BodyOf[a] \in Versioned => Expects[BodyOf[a]] <= Len(log')  BY <1>1 DEF Send
  <2> QED BY <2>1, <1>3 DEF Outdated
<1>7. Truthful(a)'  BY <1>3 DEF Truthful
<1>8. \A b \in Attempt : Enters(b)  BY <1>0, <1>1, SameLog
<1> QED BY <1>0, <1>2, <1>3, <1>4, <1>5, <1>6, <1>7, <1>8, Combine DEF Fine

LEMMA CreateKeeps ==
  ASSUME IInv, TypeOK', NEW a \in Attempt, Create(a)
  PROVE  IInv'
<1> USE KeysAssumption
<1>0. TypeOK /\ RowsInv /\ \A b \in Attempt : Fine(b)  BY DEF IInv
<1>1. log' = log /\ pc[a] = "create"  BY DEF Create
<1>2. \A b \in Attempt : Enters(b)  BY <1>0, <1>1, SameLog
<1>3. CASE status[RowOf(a)] = "none"
  <2>1. /\ status' = [status EXCEPT ![RowOf(a)] = "IN_PROGRESS"]
        /\ hash' = [hash EXCEPT ![RowOf(a)] = BodyOf[a]]
        /\ Claimed(a)
    BY <1>3 DEF Create
  <2>2. RowsInv' /\ Grows  BY <2>1, <1>0, <1>1, <1>3, NewRow
  <2>3. hash'[RowOf(a)] = BodyOf[a]  BY <2>1, <1>0, RowTyped DEF TypeOK
  <2>4. Fine(a)'  BY <2>1, <2>2, <2>3, <1>0, <1>1, <1>2, ClaimFine
  <2>5. \A b \in Attempt \ {a} : pc'[b] = pc[b] /\ at'[b] = at[b] /\ answer'[b] = answer[b]
    BY <2>1, <1>0 DEF TypeOK, Claimed, GoTo
  <2> QED BY <2>2, <2>4, <2>5, <1>0, <1>2, Combine
<1>4. CASE status[RowOf(a)] # "none"
  <2>1. GoTo(a, "find", at[a]) /\ UNCHANGED <<status, hash, log, answer>>
    BY <1>1, <1>4 DEF Create
  <2>2. RowsInv' /\ Grows  BY <2>1, <1>0, RowsUnchanged
  <2>3. pc'[a] = "find" /\ at'[a] = at[a] /\ answer'[a] = answer[a]
    BY <2>1, <1>0, GoesTo
  <2>4. Fine(a)'
    <3>1. InPlace(a)'  BY <2>3, <1>0 DEF Fine, InPlace
    <3>2. ForItsPayload(a)'
      <4>1. IsInnerOfTwo(a) => hash[Outer(KeyOf[a])] = BodyOf[a]
        BY <1>0, <1>1 DEF Fine, ForItsPayload
      <4> QED BY <4>1, <2>1, <2>3 DEF ForItsPayload, IsInnerOfTwo, Outer
    <3>3. Outdated(a)'  BY <2>2, <2>3, <1>0, <1>1, <1>2, OutdatedStays DEF Fine
    <3>4. Truthful(a)'  BY <2>2, <2>3, <1>0, TruthStays DEF Fine
    <3> QED BY <3>1, <3>2, <3>3, <3>4 DEF Fine
  <2>5. \A b \in Attempt \ {a} : pc'[b] = pc[b] /\ at'[b] = at[b] /\ answer'[b] = answer[b]
    BY <2>1, <1>0 DEF TypeOK, GoTo
  <2> QED BY <2>2, <2>4, <2>5, <1>0, <1>2, Combine
<1> QED BY <1>3, <1>4

(* Answers that leave the rows and the log alone. *)
LEMMA ThrowKeeps ==
  ASSUME IInv, TypeOK', NEW a \in Attempt, NEW e \in Answers \ {"ok", "stale"}, pc[a] # "idle",
         Throw(a, e), RowsInv', Grows, UNCHANGED log
  PROVE  IInv'
<1>0. TypeOK /\ \A b \in Attempt : Fine(b)  BY DEF IInv
<1>1. Fine(a)'  BY <1>0, ThrowFine
<1>2. \A b \in Attempt \ {a} : pc'[b] = pc[b] /\ at'[b] = at[b] /\ answer'[b] = answer[b]
  BY <1>0 DEF TypeOK, Throw, GoTo
<1>3. \A b \in Attempt : Enters(b)  BY <1>0, SameLog
<1> QED BY <1>0, <1>1, <1>2, <1>3, Combine

LEMMA CatchKeeps ==
  ASSUME IInv, TypeOK', NEW a \in Attempt, NEW e \in Answers \ {"ok", "stale"},
         pc[a] \in {"mutate", "complete"}, Catch(a, e), RowsInv', Grows,
         \A b \in Attempt : Enters(b)
  PROVE  IInv'
<1>0. TypeOK /\ \A b \in Attempt : Fine(b)  BY DEF IInv
<1>1. Fine(a)'  BY <1>0, CatchFine
<1>2. \A b \in Attempt \ {a} : pc'[b] = pc[b] /\ at'[b] = at[b] /\ answer'[b] = answer[b]
  BY <1>0 DEF TypeOK, Catch, GoTo
<1> QED BY <1>0, <1>1, <1>2, Combine

LEMMA ReturnKeeps ==
  ASSUME IInv, TypeOK', NEW a \in Attempt, pc[a] # "idle", Return(a), RowsInv', Grows,
         status'[RowOf(a)] = "COMPLETED", hash'[RowOf(a)] = BodyOf[a],
         \A b \in Attempt : Enters(b)
  PROVE  IInv'
<1>0. TypeOK /\ \A b \in Attempt : Fine(b)  BY DEF IInv
<1>1. Fine(a)'  BY <1>0, CompletedTook, ReturnFine
<1>2. \A b \in Attempt \ {a} : pc'[b] = pc[b] /\ at'[b] = at[b] /\ answer'[b] = answer[b]
  BY <1>0 DEF TypeOK, Return, GoTo
<1> QED BY <1>0, <1>1, <1>2, Combine

LEMMA FindKeeps ==
  ASSUME IInv, TypeOK', NEW a \in Attempt, Find(a)
  PROVE  IInv'
<1> USE KeysAssumption
<1>0. TypeOK /\ RowsInv /\ \A b \in Attempt : Fine(b)  BY DEF IInv
<1>1. UNCHANGED <<status, hash, log>> /\ pc[a] = "find"  BY DEF Find, rows
<1>2. RowsInv' /\ Grows  BY <1>0, <1>1, RowsUnchanged
<1>3. \A b \in Attempt : Enters(b)  BY <1>0, <1>1, SameLog
<1>4. CASE Throw(a, "mismatch") \/ Throw(a, "busy")
  BY <1>1, <1>2, <1>4, AnswerNames, ThrowKeeps
<1>5. CASE SameRequest(a) /\ status[RowOf(a)] = "COMPLETED" /\ Return(a)
  <2>1. status'[RowOf(a)] = "COMPLETED" /\ hash'[RowOf(a)] = BodyOf[a]
    BY <1>1, <1>5 DEF SameRequest
  <2> QED BY <2>1, <1>1, <1>2, <1>3, <1>5, ReturnKeeps
<1>6. CASE SameRequest(a) /\ GoTo(a, "reclaim", at[a]) /\ UNCHANGED answer
  <2>1. pc'[a] = "reclaim" /\ at'[a] = at[a] /\ answer'[a] = answer[a]
    BY <1>6, <1>0, GoesTo
  <2>2. InPlace(a)'  BY <2>1, <1>0 DEF Fine, InPlace
  <2>3. ForItsPayload(a)'
    <3>1. hash[RowOf(a)] = BodyOf[a]  BY <1>6 DEF SameRequest
    <3>2. IsInnerOfTwo(a) => hash[Outer(KeyOf[a])] = BodyOf[a]
      BY <1>0, <1>1 DEF Fine, ForItsPayload
    <3>3. RowOf(a)' = RowOf(a) /\ (IsInnerOfTwo(a)' <=> IsInnerOfTwo(a))
      BY <2>1 DEF RowOf, IsInnerOfTwo
    <3> QED BY <3>1, <3>2, <3>3, <1>1, <2>1 DEF ForItsPayload, Outer
  <2>4. Outdated(a)'  BY <2>1, <1>0, <1>1, <1>2, <1>3, OutdatedStays DEF Fine
  <2>5. Truthful(a)'  BY <2>1, <1>0, <1>2, TruthStays DEF Fine
  <2>6. \A b \in Attempt \ {a} : pc'[b] = pc[b] /\ at'[b] = at[b] /\ answer'[b] = answer[b]
    BY <1>6, <1>0 DEF TypeOK, GoTo
  <2> QED BY <2>2, <2>3, <2>4, <2>5, <2>6, <1>0, <1>2, <1>3, Combine DEF Fine
<1> QED BY <1>4, <1>5, <1>6 DEF Find

LEMMA ReclaimKeeps ==
  ASSUME IInv, TypeOK', NEW a \in Attempt, Reclaim(a)
  PROVE  IInv'
<1> USE KeysAssumption
<1>0. TypeOK /\ RowsInv /\ \A b \in Attempt : Fine(b)  BY DEF IInv
<1>1. UNCHANGED <<hash, log>> /\ pc[a] = "reclaim"  BY DEF Reclaim
<1>2. \A b \in Attempt : Enters(b)  BY <1>0, <1>1, SameLog
<1>3. CASE Reclaimable(RowOf(a))
  <2>1. status' = [status EXCEPT ![RowOf(a)] = "IN_PROGRESS"] /\ Claimed(a)
    BY <1>3 DEF Reclaim
  <2>2. status[RowOf(a)] \notin {"none", "COMPLETED"} /\ RowOf(a) \in Row
    BY <1>0, <1>3, RowTyped DEF Reclaimable
  <2>3. RowsInv' /\ Grows  BY <2>1, <2>2, <1>0, <1>1, OpenRow
  <2>4. hash'[RowOf(a)] = BodyOf[a]  BY <1>0, <1>1 DEF Fine, ForItsPayload
  <2>5. Fine(a)'  BY <2>1, <2>3, <2>4, <1>0, <1>1, <1>2, ClaimFine
  <2>6. \A b \in Attempt \ {a} : pc'[b] = pc[b] /\ at'[b] = at[b] /\ answer'[b] = answer[b]
    BY <2>1, <1>0 DEF TypeOK, Claimed, GoTo
  <2> QED BY <2>3, <2>5, <2>6, <1>0, <1>2, Combine
<1>4. CASE ~Reclaimable(RowOf(a))
  <2>1. Throw(a, "busy") /\ UNCHANGED status  BY <1>4 DEF Reclaim
  <2>2. RowsInv' /\ Grows  BY <2>1, <1>0, <1>1, RowsUnchanged
  <2> QED BY <2>1, <2>2, <1>1, AnswerNames, ThrowKeeps
<1> QED BY <1>3, <1>4

LEMMA CommitKeeps ==
  ASSUME IInv, TypeOK', NEW a \in Attempt, Commit(a)
  PROVE  IInv'
<1> USE KeysAssumption
<1>0. TypeOK /\ RowsInv /\ \A b \in Attempt : Fine(b)  BY DEF IInv
<1>1. RowsInv' /\ Grows  BY <1>0, CommitsRow
<1>2. ASSUME NEW b \in Attempt PROVE Enters(b)
  <2>1. SUFFICES ASSUME NEW i \in 1..Len(log'), i \notin 1..Len(log),
                        log'[i].key = KeyOf[b], log'[i].body = BodyOf[b]
                 PROVE  BodyOf[b] \in Versioned => Expects[BodyOf[b]] = Len(log)
    <3>1. \A i \in 1..Len(log) : log'[i] = log[i]  BY <1>0, CommitsLog
    <3> QED BY <3>1 DEF Enters, Took
  <2>2. log'[i] = Effect(a) /\ Current(a)  BY <2>1, <1>0, CommitsLog
  <2>3. BodyOf[b] = BodyOf[a]  BY <2>1, <2>2 DEF Effect
  <2> QED BY <2>2, <2>3 DEF Current
<1>3. /\ status'[RowOf(a)] = "COMPLETED" /\ hash'[RowOf(a)] = BodyOf[a]
      /\ pc[a] = "mutate"
  <2>1. RowOf(a) \in Row  BY <1>0, RowTyped
  <2>2. status' = [status EXCEPT ![RowOf(a)] = "COMPLETED"] /\ hash' = hash
        /\ Completes(a) /\ pc[a] = "mutate"
    BY DEF Commit
  <2> QED BY <2>1, <2>2, <1>0 DEF TypeOK, Completes
<1>4. CASE Return(a)
  BY <1>1, <1>2, <1>3, <1>4, ReturnKeeps
<1>5. CASE Catch(a, "error")
  BY <1>1, <1>2, <1>3, <1>5, AnswerNames, CatchKeeps
<1> QED BY <1>4, <1>5 DEF Commit

LEMMA RollbackKeeps ==
  ASSUME IInv, TypeOK', NEW a \in Attempt, Rollback(a)
  PROVE  IInv'
<1> USE KeysAssumption
<1>0. TypeOK /\ RowsInv /\ \A b \in Attempt : Fine(b)  BY DEF IInv
<1>1. UNCHANGED <<status, hash, log>> /\ pc[a] = "mutate"  BY DEF Rollback, rows
<1>2. RowsInv' /\ Grows  BY <1>0, <1>1, RowsUnchanged
<1>3. \A b \in Attempt : Enters(b)  BY <1>0, <1>1, SameLog
<1>4. CASE Catch(a, "busy") \/ Catch(a, "refused")
  BY <1>1, <1>2, <1>3, <1>4, AnswerNames, CatchKeeps
<1>5. CASE ~Current(a) /\ ~Executed(a) /\ Catch(a, "stale")
  <2>1. BodyOf[a] \in Versioned /\ Expects[BodyOf[a]] # Len(log)  BY <1>5 DEF Current
  <2>2. Expects[BodyOf[a]] <= Len(log)  BY <2>1, <1>0, <1>1 DEF Fine, Outdated
  <2>3. Expects[BodyOf[a]] \in Nat /\ Len(log) \in Nat  BY <2>1, <1>0 DEF TypeOK
  <2>4. Expects[BodyOf[a]] < Len(log')  BY <2>1, <2>2, <2>3, <1>1
  <2>5. KeyOf[a] \in LooksUp => ~Took(KeyOf[a], BodyOf[a])'
    BY <1>1, <1>5 DEF Executed, Done, Took
  <2>6. Fine(a)'  BY <2>1, <2>4, <2>5, <1>0, <1>1, <1>2, <1>5, AnswerNames, CatchFine
  <2>7. \A b \in Attempt \ {a} : pc'[b] = pc[b] /\ at'[b] = at[b] /\ answer'[b] = answer[b]
    BY <1>5, <1>0 DEF TypeOK, Catch, GoTo
  <2> QED BY <2>6, <2>7, <1>0, <1>2, <1>3, Combine
<1> QED BY <1>4, <1>5 DEF Rollback

LEMMA CompleteKeeps ==
  ASSUME IInv, TypeOK', NEW a \in Attempt, Complete(a)
  PROVE  IInv'
<1> USE KeysAssumption
<1>0. TypeOK /\ RowsInv /\ \A b \in Attempt : Fine(b)  BY DEF IInv
<1>1. UNCHANGED <<hash, log>> /\ pc[a] = "complete"  BY DEF Complete
<1>2. \A b \in Attempt : Enters(b)  BY <1>0, <1>1, SameLog
<1>3. CASE Completes(a)
  <2>1. status' = [status EXCEPT ![RowOf(a)] = "COMPLETED"] /\ Return(a)
    BY <1>3 DEF Complete
  <2>2. RowsInv' /\ Grows  BY <2>1, <1>0, <1>1, <1>3, CompletesOuter
  <2>3. status'[RowOf(a)] = "COMPLETED" /\ hash'[RowOf(a)] = BodyOf[a]
    BY <2>1, <1>0, <1>1, <1>3, RowTyped DEF TypeOK, Completes
  <2> QED BY <2>1, <2>2, <2>3, <1>1, <1>2, ReturnKeeps
<1>4. CASE ~Completes(a)
  <2>1. Catch(a, "busy") /\ UNCHANGED status  BY <1>4 DEF Complete
  <2>2. RowsInv' /\ Grows  BY <2>1, <1>0, <1>1, RowsUnchanged
  <2> QED BY <2>1, <2>2, <1>1, <1>2, AnswerNames, CatchKeeps
<1> QED BY <1>3, <1>4

(* The answer that was about to be given is given.                         *)
LEMMA RethrowKeeps ==
  ASSUME IInv, TypeOK', NEW a \in Attempt, pc[a] = "fail",
         Throw(a, answer[a]), RowsInv', Grows, UNCHANGED log
  PROVE  IInv'
<1>0. TypeOK /\ \A b \in Attempt : Fine(b)  BY DEF IInv
<1>1. answer[a] \in Answers  BY <1>0 DEF TypeOK
<1>2. answer[a] = "stale" => /\ BodyOf[a] \in Versioned /\ Expects[BodyOf[a]] < Len(log')
                            /\ (KeyOf[a] \in LooksUp => ~Took(KeyOf[a], BodyOf[a])')
  BY <1>0 DEF Fine, Outdated, Took
<1>3. Fine(a)'  BY <1>0, <1>1, <1>2, ThrowFine
<1>4. \A b \in Attempt \ {a} : pc'[b] = pc[b] /\ at'[b] = at[b] /\ answer'[b] = answer[b]
  BY <1>0 DEF TypeOK, Throw, GoTo
<1>5. \A b \in Attempt : Enters(b)  BY <1>0, SameLog
<1> QED BY <1>0, <1>3, <1>4, <1>5, Combine

LEMMA FailKeeps ==
  ASSUME IInv, TypeOK', NEW a \in Attempt, Fail(a)
  PROVE  IInv'
<1> USE KeysAssumption
<1>0. TypeOK /\ RowsInv  BY DEF IInv
<1>1. UNCHANGED <<hash, log>> /\ pc[a] = "fail" /\ Throw(a, answer[a])  BY DEF Fail
<1>2. RowsInv' /\ Grows
  <2>1. CASE Fails(a)
    <3>1. status' = [status EXCEPT ![RowOf(a)] = "FAILED"]  BY <2>1 DEF Fail
    <3>2. status[RowOf(a)] \notin {"none", "COMPLETED"} /\ RowOf(a) \in Row
      BY <2>1, <1>0, RowTyped DEF Fails
    <3> QED BY <3>1, <3>2, <1>0, <1>1, OpenRow
  <2>2. CASE ~Fails(a)
    <3>1. UNCHANGED status  BY <2>2 DEF Fail
    <3> QED BY <3>1, <1>0, <1>1, RowsUnchanged
  <2> QED BY <2>1, <2>2
<1> QED BY <1>1, <1>2, RethrowKeeps

LEMMA DbErrorKeeps ==
  ASSUME IInv, TypeOK', NEW a \in Attempt, DbError(a)
  PROVE  IInv'
<1>0. TypeOK /\ RowsInv  BY DEF IInv
<1>1. UNCHANGED <<status, hash, log>>  BY DEF DbError, rows
<1>2. RowsInv' /\ Grows  BY <1>0, <1>1, RowsUnchanged
<1>3. \A b \in Attempt : Enters(b)  BY <1>0, <1>1, SameLog
<1>4. CASE pc[a] \in {"create", "find", "reclaim"} /\ Throw(a, "error")
  BY <1>1, <1>2, <1>4, AnswerNames, ThrowKeeps
<1>5. CASE pc[a] \in {"mutate", "complete"} /\ Catch(a, "error")
  BY <1>2, <1>3, <1>5, AnswerNames, CatchKeeps
<1>6. CASE pc[a] = "fail" /\ Throw(a, answer[a])
  BY <1>1, <1>2, <1>6, RethrowKeeps
<1> QED BY <1>4, <1>5, <1>6 DEF DbError

LEMMA CrashKeeps ==
  ASSUME IInv, TypeOK', Crash
  PROVE  IInv'
<1>0. TypeOK /\ RowsInv /\ \A b \in Attempt : Fine(b)  BY DEF IInv
<1>1. UNCHANGED <<status, hash, log, at>>  BY DEF Crash, rows
<1>2. RowsInv' /\ Grows  BY <1>0, <1>1, RowsUnchanged
<1>3. ASSUME NEW b \in Attempt PROVE Fine(b)'
  <2>1. pc'[b] = "idle" /\ at'[b] = at[b]  BY <1>1 DEF Crash
  <2>2. answer'[b] = answer[b] \/ answer'[b] = "error"  BY DEF Crash
  <2>3. InPlace(b)'  BY <2>1, <1>0 DEF Fine, InPlace
  <2>4. ForItsPayload(b)'  BY <2>1 DEF ForItsPayload
  <2>5. Outdated(b)'
    <3>1. CASE answer'[b] = answer[b]
      BY <3>1, <2>1, <1>0, <1>1, <1>2, SameLog, OutdatedStays DEF Fine
    <3>2. CASE answer'[b] = "error"
      BY <3>2, <2>1 DEF Outdated
    <3> QED BY <2>2, <3>1, <3>2
  <2>6. Truthful(b)'
    <3>1. CASE answer'[b] = answer[b]  BY <3>1, <1>0, <1>2, TruthStays DEF Fine
    <3>2. CASE answer'[b] = "error"  BY <3>2 DEF Truthful
    <3> QED BY <2>2, <3>1, <3>2
  <2> QED BY <2>3, <2>4, <2>5, <2>6 DEF Fine
<1> QED BY <1>2, <1>3 DEF IInv

(* Time passes, or nothing does. *)
LEMMA IdleKeeps ==
  ASSUME IInv, TypeOK', UNCHANGED <<status, hash, log, pc, at, answer>>
  PROVE  IInv'
<1>0. TypeOK /\ RowsInv /\ \A b \in Attempt : Fine(b)  BY DEF IInv
<1>1. RowsInv' /\ Grows  BY <1>0, RowsUnchanged
<1>2. \A b \in Attempt : Enters(b)  BY <1>0, SameLog
<1>3. \A b \in Attempt : Fine(b)'
  BY <1>0, <1>1, <1>2, OthersFine
<1> QED BY <1>1, <1>3 DEF IInv

LEMMA InvInit == Init => IInv
<1> SUFFICES ASSUME Init PROVE IInv
  OBVIOUS
<1>1. TypeOK  BY InitTyped
<1>2. /\ Len(log) = 0
      /\ \A x \in Row : status[x] = "none" /\ hash[x] = NoBody
      /\ \A a \in Attempt : pc[a] = "idle" /\ at[a] = "inner" /\ answer[a] = "none"
  BY DEF Init
<1>3. \A k \in Key, r \in Scope : Inner(k, r) \in Row /\ Outer(k) \in Row  BY Rows
<1>4. \A k \in Key : Outer(k) \in Row  BY KeysAssumption, Rows
<1>5. RowsInv
  <2>1. NoRowNoHash  BY <1>2 DEF NoRowNoHash
  <2>2. RowsAgree  BY <1>2, <1>3, <1>4, KeysAssumption DEF RowsAgree
  <2>3. LogAgrees  BY <1>2, <1>3 DEF LogAgrees
  <2>4. OncePerScope  BY <1>2 DEF OncePerScope
  <2> QED BY <2>1, <2>2, <2>3, <2>4 DEF RowsInv
<1>6. \A a \in Attempt : Fine(a)
  BY <1>2 DEF Fine, InPlace, ForItsPayload, Outdated, Truthful
<1> QED BY <1>1, <1>5, <1>6 DEF IInv

LEMMA InvStep == IInv /\ [Next]_vars => IInv'
<1> SUFFICES ASSUME IInv, [Next]_vars PROVE IInv'
  OBVIOUS
<1>0. TypeOK'  BY TypesStep DEF IInv
<1>1. ASSUME NEW a \in Attempt, Send(a) PROVE IInv'  BY <1>0, <1>1, SendKeeps
<1>2. ASSUME NEW a \in Attempt, Step(a) PROVE IInv'
  BY <1>0, <1>2, CreateKeeps, FindKeeps, ReclaimKeeps, CommitKeeps, RollbackKeeps,
     CompleteKeeps, FailKeeps DEF Step
<1>3. ASSUME NEW a \in Attempt, DbError(a) PROVE IInv'  BY <1>0, <1>3, DbErrorKeeps
<1>4. CASE Crash  BY <1>0, <1>4, CrashKeeps
<1>5. ASSUME NEW x \in Row, Lapse(x) PROVE IInv'
  BY <1>0, <1>5, IdleKeeps DEF Lapse
<1>6. CASE UNCHANGED vars  BY <1>0, <1>6, IdleKeeps DEF vars, rows
<1> QED BY <1>1, <1>2, <1>3, <1>4, <1>5, <1>6 DEF Next

THEOREM Inductive == Spec => []IInv
BY InvInit, InvStep, PTL DEF Spec

----------------------------------------------------------------------------
(* What follows. *)

LEMMA OnceFollows == IInv => EffectOnce
<1> SUFFICES ASSUME IInv, NEW i \in 1..Len(log), NEW j \in 1..Len(log),
                    i # j, log[i].key = log[j].key
             PROVE  /\ log[i].scope # log[j].scope
                    /\ log[i].body = log[j].body => log[i].body \notin Versioned
  BY DEF EffectOnce
<1>1. log[i].scope # log[j].scope  BY DEF IInv, RowsInv, OncePerScope
<1>2. ASSUME log[i].body = log[j].body, log[i].body \in Versioned PROVE FALSE
  <2>1. Expects[log[i].body] = i - 1 /\ Expects[log[j].body] = j - 1
    BY <1>2 DEF IInv, RowsInv, LogAgrees
  <2> QED BY <2>1, <1>2
<1> QED BY <1>1, <1>2

(* A request takes effect at most once under one actor and branch, and a   *)
(* request with a version at most once at all.                             *)
THEOREM EffectOnceHolds == Spec => []EffectOnce
BY Inductive, OnceFollows, PTL

LEMMA TruthFollows == IInv => SuccessIsTrue
BY DEF IInv, Fine, Truthful, SuccessIsTrue

(* Who is told of success finds his effect.                                *)
THEOREM SuccessIsTrueHolds == Spec => []SuccessIsTrue
BY Inductive, TruthFollows, PTL

LEMMA StaleFollows == IInv => StaleIsUndone
BY DEF IInv, Fine, Outdated, Took, StaleIsUndone

(* Nobody whose event is looked up is told that his own change is in the   *)
(* way of it.                                                              *)
THEOREM StaleIsUndoneHolds == Spec => []StaleIsUndone
BY Inductive, StaleFollows, PTL

LEMMA FinalStep ==
  ASSUME TypeOK, [Next]_vars, NEW x \in Row, status[x] = "COMPLETED"
  PROVE  status'[x] = "COMPLETED"
<1>1. ASSUME NEW a \in Attempt, Step(a) PROVE status'[x] = "COMPLETED"
  <2>1. RowOf(a) \in Row  BY RowTyped
  <2>2. CASE Create(a)  BY <2>1, <2>2 DEF Create, TypeOK
  <2>3. CASE Find(a)  BY <2>3 DEF Find, rows
  <2>4. CASE Reclaim(a)  BY <2>1, <2>4 DEF Reclaim, Reclaimable, TypeOK
  <2>5. CASE Commit(a)  BY <2>1, <2>5 DEF Commit, TypeOK
  <2>6. CASE Rollback(a)  BY <2>6 DEF Rollback, rows
  <2>7. CASE Complete(a)  BY <2>1, <2>7 DEF Complete, TypeOK
  <2>8. CASE Fail(a)  BY <2>1, <2>8 DEF Fail, Fails, TypeOK
  <2> QED BY <1>1, <2>2, <2>3, <2>4, <2>5, <2>6, <2>7, <2>8 DEF Step
<1>2. CASE UNCHANGED status  BY <1>2
<1>3. Next \/ UNCHANGED vars  OBVIOUS
<1> QED BY <1>1, <1>2, <1>3 DEF Next, Send, DbError, Crash, Lapse, rows, vars

(* A completed key stays completed, whoever fails or reclaims it late.     *)
THEOREM CompletedIsFinalHolds == Spec => CompletedIsFinal
<1>1. TypeOK /\ [Next]_vars => [\A x \in Row : status[x] = "COMPLETED" => status'[x] = "COMPLETED"]_vars
  BY FinalStep
<1> QED BY <1>1, TypeCorrect, PTL DEF Spec, CompletedIsFinal

----------------------------------------------------------------------------
(* What is asked and what is told.  A request is known once it was sent;   *)
(* every row is for the payload of a known request, an attempt looks for a *)
(* row that is there, a level is left with an answer to give, and a client *)
(* told of a misused key has a rival with another payload.                 *)

Known(a) == pc[a] # "idle" \/ answer[a] # "none"

Sent(k, b) == \E q \in Attempt : Known(q) /\ KeyOf[q] = k /\ BodyOf[q] = b

RowSent(x) ==
  /\ status[x] # "none" => hash[x] # NoBody
  /\ hash[x] # NoBody => Sent(x[2], hash[x])

Answered(a) ==
  /\ pc[a] = "fail" => answer[a] # "none"
  /\ pc[a] = "find" => status[RowOf(a)] # "none"
  /\ answer[a] = "mismatch" => \E b \in Body \ {BodyOf[a]} : Sent(KeyOf[a], b)

ToldInv ==
  /\ \A x \in Row : RowSent(x)
  /\ \A a \in Attempt : Answered(a)

(* What a step of one attempt does to the attempts, and to the rows.       *)
Moved(a) ==
  /\ pc[a] # "idle"
  /\ \A b \in Attempt \ {a} : pc'[b] = pc[b] /\ at'[b] = at[b] /\ answer'[b] = answer[b]
  /\ pc'[a] \in {"idle", "fail"} => answer'[a] # "none"
  /\ pc'[a] = "find" => at'[a] = at[a] /\ status[RowOf(a)] # "none"
  /\ \/ answer'[a] # "mismatch"
     \/ answer'[a] = answer[a]
     \/ pc[a] = "find" /\ ~SameRequest(a)

RowMoved(x, a) ==
  /\ status[x] # "none" => status'[x] # "none"
  /\ \/ hash'[x] = hash[x] /\ (status[x] = "none" => status'[x] = "none")
     \/ hash'[x] = BodyOf[a] /\ x[2] = KeyOf[a]

LEMMA ThrowMoves ==
  ASSUME TypeOK, NEW a \in Attempt, NEW e \in Answers, pc[a] # "idle",
         Throw(a, e) \/ Catch(a, e), e # "none",
         e = "mismatch" => e = answer[a] \/ (pc[a] = "find" /\ ~SameRequest(a))
  PROVE  Moved(a)
<1>1. answer'[a] = e /\ pc'[a] \in {"idle", "fail"}
  BY ThrowsTo, CatchesTo
<1>2. "idle" \in Steps /\ at[a] \in Level  BY DEF Steps, TypeOK
<1>3. \A b \in Attempt \ {a} : pc'[b] = pc[b] /\ at'[b] = at[b] /\ answer'[b] = answer[b]
  BY <1>2, MovesAlone
<1> QED BY <1>1, <1>3 DEF Moved

LEMMA ReturnMoves ==
  ASSUME TypeOK, NEW a \in Attempt, pc[a] # "idle", Return(a)
  PROVE  Moved(a)
<1>1. \/ pc'[a] = "complete" /\ answer'[a] = answer[a]
      \/ pc'[a] = "idle" /\ answer'[a] = "ok"
  BY ReturnsTo
<1>2. "idle" \in Steps /\ at[a] \in Level /\ answer[a] \in Answers  BY DEF Steps, TypeOK
<1>3. \A b \in Attempt \ {a} : pc'[b] = pc[b] /\ at'[b] = at[b] /\ answer'[b] = answer[b]
  BY <1>2, MovesAlone
<1> QED BY <1>1, <1>3 DEF Moved

LEMMA ClaimMoves ==
  ASSUME TypeOK, NEW a \in Attempt, pc[a] # "idle", Claimed(a)
  PROVE  Moved(a)
<1>1. pc'[a] \in {"create", "mutate"} /\ answer'[a] = answer[a]
  BY ClaimsTo
<1>2. "idle" \in Steps /\ at[a] \in Level /\ answer[a] \in Answers  BY DEF Steps, TypeOK
<1>3. \A b \in Attempt \ {a} : pc'[b] = pc[b] /\ at'[b] = at[b] /\ answer'[b] = answer[b]
  BY <1>2, MovesAlone
<1> QED BY <1>1, <1>3 DEF Moved

LEMMA GoMoves ==
  ASSUME TypeOK, NEW a \in Attempt, pc[a] # "idle", NEW step \in {"find", "reclaim"},
         GoTo(a, step, at[a]), UNCHANGED answer,
         step = "find" => status[RowOf(a)] # "none"
  PROVE  Moved(a)
<1>1. pc'[a] = step /\ at'[a] = at[a]
  BY GoesTo
<1>2. step \in Steps /\ at[a] \in Level /\ answer[a] \in Answers  BY DEF Steps, TypeOK
<1>3. \A b \in Attempt \ {a} : pc'[b] = pc[b] /\ at'[b] = at[b] /\ answer'[b] = answer[b]
  BY <1>2, MovesAlone
<1> QED BY <1>1, <1>3 DEF Moved

LEMMA Moves ==
  ASSUME TypeOK, NEW a \in Attempt, Answered(a), Step(a) \/ DbError(a)
  PROVE  Moved(a)
<1>0. /\ {"busy", "error", "stale", "refused", "mismatch"} \subseteq Answers
      /\ answer[a] \in Answers
  BY DEF Answers, Transient, TypeOK
<1>1. CASE Create(a)
  <2>1. pc[a] = "create"  BY <1>1 DEF Create
  <2>2. CASE Claimed(a)  BY <2>1, <2>2, ClaimMoves
  <2>3. CASE ~Claimed(a)
    <3>1. GoTo(a, "find", at[a]) /\ UNCHANGED answer /\ status[RowOf(a)] # "none"
      BY <1>1, <2>3 DEF Create
    <3> QED BY <2>1, <3>1, GoMoves
  <2> QED BY <2>2, <2>3
<1>2. CASE Find(a)
  <2>1. pc[a] = "find"  BY <1>2 DEF Find
  <2>2. CASE ~SameRequest(a) /\ Throw(a, "mismatch")  BY <1>0, <2>1, <2>2, ThrowMoves
  <2>3. CASE Return(a)  BY <2>1, <2>3, ReturnMoves
  <2>4. CASE GoTo(a, "reclaim", at[a]) /\ UNCHANGED answer  BY <2>1, <2>4, GoMoves
  <2>5. CASE Throw(a, "busy")  BY <1>0, <2>1, <2>5, ThrowMoves
  <2> QED BY <1>2, <2>2, <2>3, <2>4, <2>5 DEF Find
<1>3. CASE Reclaim(a)
  <2>1. pc[a] = "reclaim" /\ (Claimed(a) \/ Throw(a, "busy"))  BY <1>3 DEF Reclaim
  <2> QED BY <1>0, <2>1, ClaimMoves, ThrowMoves
<1>4. CASE Commit(a)
  <2>1. pc[a] = "mutate" /\ (Return(a) \/ Catch(a, "error"))  BY <1>4 DEF Commit
  <2> QED BY <1>0, <2>1, ReturnMoves, ThrowMoves
<1>5. CASE Rollback(a)
  <2>1. pc[a] = "mutate" /\ (Catch(a, "stale") \/ Catch(a, "busy") \/ Catch(a, "refused"))
    BY <1>5 DEF Rollback
  <2> QED BY <1>0, <2>1, ThrowMoves
<1>6. CASE Complete(a)
  <2>1. pc[a] = "complete" /\ (Return(a) \/ Catch(a, "busy"))  BY <1>6 DEF Complete
  <2> QED BY <1>0, <2>1, ReturnMoves, ThrowMoves
<1>7. CASE pc[a] = "fail" /\ Throw(a, answer[a])
  <2>1. answer[a] # "none"  BY <1>7 DEF Answered
  <2> QED BY <1>0, <1>7, <2>1, ThrowMoves
<1>8. CASE /\ pc[a] \in {"create", "find", "reclaim", "mutate", "complete"}
           /\ Throw(a, "error") \/ Catch(a, "error")
  BY <1>0, <1>8, ThrowMoves
<1> QED BY <1>1, <1>2, <1>3, <1>4, <1>5, <1>6, <1>7, <1>8 DEF Step, Fail, DbError

LEMMA RowsMove ==
  ASSUME TypeOK, NEW a \in Attempt, Step(a) \/ DbError(a), NEW x \in Row
  PROVE  RowMoved(x, a)
<1>0. RowOf(a) \in Row /\ RowOf(a)[2] = KeyOf[a]
  BY RowTyped DEF RowOf
<1>1. CASE UNCHANGED rows  BY <1>1 DEF rows, RowMoved
<1>2. ASSUME hash' = hash,
             NEW s \in {"IN_PROGRESS", "COMPLETED", "FAILED"},
             status[RowOf(a)] # "none",
             status' = [status EXCEPT ![RowOf(a)] = s] \/ status' = status
      PROVE  RowMoved(x, a)
  BY <1>0, <1>2 DEF TypeOK, RowMoved
<1>3. CASE Create(a)
  <2>1. CASE status' = [status EXCEPT ![RowOf(a)] = "IN_PROGRESS"]
             /\ hash' = [hash EXCEPT ![RowOf(a)] = BodyOf[a]]
    BY <1>0, <2>1 DEF TypeOK, RowMoved
  <2>2. CASE UNCHANGED <<status, hash>>  BY <2>2 DEF RowMoved
  <2> QED BY <1>3, <2>1, <2>2 DEF Create
<1>4. CASE Reclaim(a)
  <2>1. hash' = hash  BY <1>4 DEF Reclaim
  <2>2. CASE Reclaimable(RowOf(a))
    <3>1. status' = [status EXCEPT ![RowOf(a)] = "IN_PROGRESS"]  BY <1>4, <2>2 DEF Reclaim
    <3>2. status[RowOf(a)] # "none"  BY <2>2 DEF Reclaimable
    <3> QED BY <1>2, <2>1, <3>1, <3>2
  <2>3. CASE ~Reclaimable(RowOf(a))
    <3>1. status' = status  BY <1>4, <2>3 DEF Reclaim
    <3> QED BY <2>1, <3>1 DEF RowMoved
  <2> QED BY <2>2, <2>3
<1>5. CASE Commit(a)
  BY <1>2, <1>5 DEF Commit, Completes
<1>6. CASE Complete(a)
  <2>1. hash' = hash  BY <1>6 DEF Complete
  <2>2. CASE Completes(a)
    BY <1>2, <1>6, <2>1, <2>2 DEF Complete, Completes
  <2>3. CASE ~Completes(a)
    <3>1. status' = status  BY <1>6, <2>3 DEF Complete
    <3> QED BY <2>1, <3>1 DEF RowMoved
  <2> QED BY <2>2, <2>3
<1>7. CASE Fail(a)
  <2>1. hash' = hash  BY <1>7 DEF Fail
  <2>2. CASE Fails(a)
    BY <1>2, <1>7, <2>1, <2>2 DEF Fail, Fails
  <2>3. CASE ~Fails(a)
    <3>1. status' = status  BY <1>7, <2>3 DEF Fail
    <3> QED BY <2>1, <3>1 DEF RowMoved
  <2> QED BY <2>2, <2>3
<1> QED BY <1>1, <1>3, <1>4, <1>5, <1>6, <1>7 DEF Step, Find, Rollback, DbError

(* Who is known stays known, and who is at work is known.                  *)
LEMMA SentStays ==
  ASSUME NEW k, NEW b, Sent(k, b), \A q \in Attempt : Known(q) => Known(q)'
  PROVE  Sent(k, b)'
BY DEF Sent

LEMMA RowSentStays ==
  ASSUME NEW x, RowSent(x), status'[x] = status[x], hash'[x] = hash[x],
         \A q \in Attempt : Known(q) => Known(q)'
  PROVE  RowSent(x)'
BY SentStays DEF RowSent

LEMMA AnsweredStays ==
  ASSUME NEW b \in Attempt, Answered(b),
         pc'[b] = pc[b], at'[b] = at[b], answer'[b] = answer[b],
         status[RowOf(b)] # "none" => status'[RowOf(b)] # "none",
         \A q \in Attempt : Known(q) => Known(q)'
  PROVE  Answered(b)'
<1>1. RowOf(b)' = RowOf(b)  BY DEF RowOf
<1>2. answer'[b] = "mismatch" => \E d \in Body \ {BodyOf[b]} : Sent(KeyOf[b], d)'
  BY SentStays DEF Answered
<1> QED BY <1>1, <1>2 DEF Answered

LEMMA ToldStepOfOne ==
  ASSUME TypeOK, ToldInv, NEW a \in Attempt, Step(a) \/ DbError(a)
  PROVE  ToldInv'
<1> USE KeysAssumption
<1>0. Moved(a) /\ RowOf(a) \in Row /\ BodyOf[a] \in Body /\ BodyOf[a] # NoBody
  BY Moves, RowTyped DEF ToldInv
<1>1. Known(a)'
  BY <1>0 DEF Moved, Known
<1>2. \A q \in Attempt : Known(q) => Known(q)'
  BY <1>0, <1>1 DEF Moved, Known
<1>3. Sent(KeyOf[a], BodyOf[a])'
  BY <1>1 DEF Sent
<1>4. ASSUME NEW x \in Row PROVE RowSent(x)'
  <2>0. RowMoved(x, a) /\ RowSent(x)  BY RowsMove DEF ToldInv
  <2>1. CASE hash'[x] = hash[x] /\ (status[x] = "none" => status'[x] = "none")
    BY <1>2, <2>0, <2>1, SentStays DEF RowSent
  <2>2. CASE hash'[x] = BodyOf[a] /\ x[2] = KeyOf[a]
    BY <1>0, <1>3, <2>2 DEF RowSent
  <2> QED BY <2>0, <2>1, <2>2 DEF RowMoved
<1>5. ASSUME NEW b \in Attempt, b # a PROVE Answered(b)'
  <2>1. RowOf(b) \in Row  BY RowTyped
  <2>2. status[RowOf(b)] # "none" => status'[RowOf(b)] # "none"
    BY <2>1, RowsMove DEF RowMoved
  <2>3. pc'[b] = pc[b] /\ at'[b] = at[b] /\ answer'[b] = answer[b] /\ Answered(b)
    BY <1>0, <1>5 DEF Moved, ToldInv
  <2> QED BY <1>2, <2>2, <2>3, AnsweredStays
<1>6. Answered(a)'
  <2>0. Answered(a)  BY DEF ToldInv
  <2>1. pc'[a] = "fail" => answer'[a] # "none"  BY <1>0 DEF Moved
  <2>2. ASSUME pc'[a] = "find" PROVE status'[RowOf(a)'] # "none"
    <3>1. at'[a] = at[a] /\ status[RowOf(a)] # "none"  BY <1>0, <2>2 DEF Moved
    <3>2. RowOf(a)' = RowOf(a)  BY <3>1 DEF RowOf
    <3> QED BY <1>0, <3>1, <3>2, RowsMove DEF RowMoved
  <2>3. ASSUME answer'[a] = "mismatch"
        PROVE  \E d \in Body \ {BodyOf[a]} : Sent(KeyOf[a], d)
    <3>1. CASE answer[a] = "mismatch"  BY <2>0, <3>1 DEF Answered
    <3>2. CASE pc[a] = "find" /\ ~SameRequest(a)
      <4>1. hash[RowOf(a)] # NoBody /\ hash[RowOf(a)] # BodyOf[a]
        BY <1>0, <2>0, <3>2 DEF Answered, ToldInv, RowSent, SameRequest
      <4>2. hash[RowOf(a)] \in Body \ {BodyOf[a]}  BY <1>0, <4>1 DEF TypeOK
      <4>3. RowOf(a)[2] = KeyOf[a]  BY DEF RowOf
      <4>4. Sent(KeyOf[a], hash[RowOf(a)])
        BY <1>0, <4>1, <4>3 DEF ToldInv, RowSent
      <4> QED BY <4>2, <4>4
    <3> QED BY <1>0, <2>3, <3>1, <3>2 DEF Moved
  <2>4. answer'[a] = "mismatch" => \E d \in Body \ {BodyOf[a]} : Sent(KeyOf[a], d)'
    BY <1>2, <2>3, SentStays
  <2> QED BY <2>1, <2>2, <2>4 DEF Answered
<1> QED BY <1>4, <1>5, <1>6 DEF ToldInv

LEMMA ToldStep == TypeOK /\ ToldInv /\ [Next]_vars => ToldInv'
<1> SUFFICES ASSUME TypeOK, ToldInv, [Next]_vars PROVE ToldInv'
  OBVIOUS
<1>1. ASSUME NEW a \in Attempt, Step(a) \/ DbError(a) PROVE ToldInv'
  BY <1>1, ToldStepOfOne
<1>2. ASSUME UNCHANGED <<status, hash, at>>,
             \A b \in Attempt : Known(b) => Known(b)',
             \A b \in Attempt : \/ pc'[b] = pc[b] /\ answer'[b] = answer[b]
                                \/ pc'[b] = "idle" /\ answer'[b] # "mismatch"
      PROVE  ToldInv'
  <2>1. ASSUME NEW x \in Row PROVE RowSent(x)'
    BY <1>2, RowSentStays DEF ToldInv
  <2>2. ASSUME NEW b \in Attempt PROVE Answered(b)'
    <3>1. CASE pc'[b] = pc[b] /\ answer'[b] = answer[b]
      <4>1. Answered(b) /\ at'[b] = at[b] /\ status'[RowOf(b)] = status[RowOf(b)]
        BY <1>2 DEF ToldInv
      <4> QED BY <1>2, <3>1, <4>1, AnsweredStays
    <3>2. CASE pc'[b] = "idle" /\ answer'[b] # "mismatch"
      BY <3>2 DEF Answered
    <3> QED BY <1>2, <3>1, <3>2
  <2> QED BY <2>1, <2>2 DEF ToldInv
<1>3. ASSUME NEW a \in Attempt, Send(a) PROVE ToldInv'
  <2>1. /\ UNCHANGED <<status, hash>> /\ pc' = [pc EXCEPT ![a] = "create"]
        /\ answer' = [answer EXCEPT ![a] = "none"]
    BY <1>3 DEF Send, GoTo, rows
  <2>2. /\ pc'[a] = "create" /\ answer'[a] = "none"
        /\ \A b \in Attempt \ {a} : pc'[b] = pc[b] /\ at'[b] = at[b] /\ answer'[b] = answer[b]
    BY <1>3, <2>1 DEF Send, GoTo, TypeOK
  <2>3. \A b \in Attempt : Known(b) => Known(b)'
    BY <2>2 DEF Known
  <2>4. ASSUME NEW x \in Row PROVE RowSent(x)'
    BY <2>1, <2>3, RowSentStays DEF ToldInv
  <2>5. ASSUME NEW b \in Attempt PROVE Answered(b)'
    <3>1. CASE b = a  BY <2>2, <3>1 DEF Answered
    <3>2. CASE b # a
      <4>1. Answered(b) /\ pc'[b] = pc[b] /\ at'[b] = at[b] /\ answer'[b] = answer[b]
        BY <2>2, <3>2 DEF ToldInv
      <4> QED BY <2>1, <2>3, <4>1, AnsweredStays
    <3> QED BY <3>1, <3>2
  <2> QED BY <2>4, <2>5 DEF ToldInv
<1>4. CASE Crash
  <2>1. UNCHANGED <<status, hash, at>>  BY <1>4 DEF Crash, rows
  <2>2. \A b \in Attempt : /\ pc'[b] = "idle"
                           /\ answer'[b] = IF pc[b] = "idle" THEN answer[b] ELSE "error"
    BY <1>4 DEF Crash
  <2>3. \A b \in Attempt : Known(b) => Known(b)'  BY <2>2 DEF Known
  <2> QED BY <1>2, <2>1, <2>2, <2>3
<1>5. CASE UNCHANGED <<status, hash, pc, at, answer>>
  BY <1>2, <1>5 DEF Known
<1> QED BY <1>1, <1>3, <1>4, <1>5 DEF Next, Lapse, vars, rows

LEMMA KnownInvariant == Spec => [](IInv /\ ToldInv)
<1>1. Init => IInv /\ ToldInv
  <2>1. Init => ToldInv
    BY DEF Init, ToldInv, RowSent, Answered
  <2> QED BY <2>1, InvInit
<1>2. (IInv /\ ToldInv) /\ [Next]_vars => (IInv /\ ToldInv)'
  BY InvStep, ToldStep DEF IInv
<1> QED BY <1>1, <1>2, PTL DEF Spec

----------------------------------------------------------------------------
(* Refinement of OnceByKey.                                                *)
Told == [a \in Attempt |-> IF pc[a] = "idle" THEN answer[a] ELSE "asked"]

LEMMA ServiceIs == Promise!service = <<log, Told>>
BY DEF Promise!service, Told

LEMMA ToldOf ==
  ASSUME TypeOK, NEW a \in Attempt
  PROVE  /\ Told[a] = IF pc[a] = "idle" THEN answer[a] ELSE "asked"
         /\ answer[a] # "asked"
         /\ Told[a] # "none" <=> Known(a)
         /\ Told[a] = "asked" <=> pc[a] # "idle"
<1>1. answer[a] # "asked"
  BY DEF TypeOK, Answers, Transient
<1> QED BY <1>1 DEF Told, Known

(* A step of one attempt changes what that attempt was told.               *)
LEMMA ToldMoves ==
  ASSUME TypeOK, TypeOK', NEW a \in Attempt,
         \A b \in Attempt \ {a} : pc'[b] = pc[b] /\ at'[b] = at[b] /\ answer'[b] = answer[b]
  PROVE  Told' = [Told EXCEPT ![a] = IF pc'[a] = "idle" THEN answer'[a] ELSE "asked"]
BY DEF Told

(* What is said when the run ends is true: by the invariant that holds     *)
(* then, over a log that this step left alone.                             *)
LEMMA TellsTruth ==
  ASSUME IInv, IInv', ToldInv', NEW a \in Attempt, Moved(a), UNCHANGED log, pc'[a] = "idle"
  PROVE  Promise!IsTrue(a, answer'[a])
<1> USE KeysAssumption
<1>0. TypeOK /\ TypeOK' /\ Fine(a)' /\ Answered(a)'
  BY DEF IInv, ToldInv
<1>1. CASE answer'[a] = "ok" /\ KeyOf[a] \in Plain
  BY <1>1 DEF Promise!IsTrue
<1>2. CASE answer'[a] = "ok" /\ KeyOf[a] \notin Plain
  <2>1. \E i \in 1..Len(log) : /\ log[i].key = KeyOf[a]
                               /\ log[i].body = BodyOf[a] \/ log[i].scope # ScopeOf[a]
    BY <1>0, <1>2 DEF Fine, Truthful
  <2>2. Promise!Took(a) \/ Promise!TookElsewhere(a)
    BY <2>1 DEF Promise!Took, Promise!TookElsewhere
  <2> QED BY <1>2, <2>2 DEF Promise!IsTrue
<1>3. CASE answer'[a] = "stale"
  <2>1. /\ BodyOf[a] \in Versioned /\ Expects[BodyOf[a]] < Len(log)
        /\ KeyOf[a] \in LooksUp => ~Took(KeyOf[a], BodyOf[a])
    BY <1>0, <1>3 DEF Fine, Outdated, Took
  <2>2. Promise!Took(a) <=> Took(KeyOf[a], BodyOf[a])
    BY DEF Promise!Took, Took
  <2> QED BY <1>3, <2>1, <2>2 DEF Promise!IsTrue
<1>4. CASE answer'[a] = "mismatch"
  <2>1. PICK d \in Body \ {BodyOf[a]} : Sent(KeyOf[a], d)'
    BY <1>0, <1>4 DEF Answered
  <2>2. PICK q \in Attempt : Known(q)' /\ KeyOf[q] = KeyOf[a] /\ BodyOf[q] = d
    BY <2>1 DEF Sent
  <2>3. q # a
    BY <2>1, <2>2
  <2>4. Known(q)
    BY <2>2, <2>3 DEF Known, Moved
  <2>5. Told[q] # "none"
    BY <1>0, <2>4, ToldOf
  <2> QED BY <1>4, <2>1, <2>2, <2>5 DEF Promise!IsTrue, Told
<1>5. CASE answer'[a] \in {"busy", "refused", "error"}
  BY <1>5 DEF Promise!IsTrue
<1>6. answer'[a] \in Answers /\ answer'[a] # "none"
  BY <1>0 DEF TypeOK, Moved
<1> QED BY <1>1, <1>2, <1>3, <1>4, <1>5, <1>6 DEF Answers, Transient

LEMMA ToldStepIs ==
  ASSUME IInv, IInv', ToldInv', NEW a \in Attempt, Moved(a), UNCHANGED log
  PROVE  [Promise!Serve]_(Promise!service)
<1>0. TypeOK /\ TypeOK'
  BY DEF IInv
<1>1. Told[a] = "asked"
  BY <1>0, ToldOf DEF Moved
<1>2. Told' = [Told EXCEPT ![a] = IF pc'[a] = "idle" THEN answer'[a] ELSE "asked"]
  BY <1>0, ToldMoves DEF Moved
<1>3. CASE pc'[a] = "idle"
  <2>0. PICK e \in {"ok", "stale", "mismatch", "busy", "refused", "error"} : e = answer'[a]
    BY <1>0, <1>3 DEF TypeOK, Moved, Answers, Transient
  <2>1. Promise!IsTrue(a, e)
    BY <1>3, <2>0, TellsTruth
  <2>2. Told' = [Told EXCEPT ![a] = e]
    BY <1>2, <1>3, <2>0
  <2>3. Promise!Tell(a, e)
    BY <1>1, <2>1, <2>2 DEF Promise!Tell, Told
  <2> QED BY <2>3 DEF Promise!Serve
<1>4. CASE pc'[a] # "idle"
  <2>1. Told' = Told
    BY <1>1, <1>2, <1>4 DEF Told
  <2> QED BY <2>1, ServiceIs DEF Promise!service, Told
<1> QED BY <1>3, <1>4

(* The mutation finds its row in progress, so no effect of its key under   *)
(* its scope is in the log.                                                *)
LEMMA CommitIsFree ==
  ASSUME IInv, NEW a \in Attempt, Commit(a), Current(a)
  PROVE  Promise!Free(a)
<1>1. RowOf(a) = Inner(KeyOf[a], ScopeOf[a])
  BY RowOfIs DEF IInv, Fine, InPlace, Commit
<1>2. status[Inner(KeyOf[a], ScopeOf[a])] = "IN_PROGRESS"
  BY <1>1 DEF Commit, Completes
<1>3. ASSUME NEW i \in 1..Len(log), log[i].key = KeyOf[a], log[i].scope = ScopeOf[a]
      PROVE  FALSE
  BY <1>2, <1>3 DEF IInv, RowsInv, LogAgrees
<1> QED BY <1>3 DEF Promise!Free, Current

LEMMA CommitStepIs ==
  ASSUME IInv, IInv', NEW a \in Attempt, Moved(a), Commit(a), Current(a),
         log' = Append(log, Effect(a))
  PROVE  [Promise!Serve]_(Promise!service)
<1>0. TypeOK /\ TypeOK'
  BY DEF IInv
<1>1. Told[a] = "asked" /\ Promise!Free(a)
  BY <1>0, ToldOf, CommitIsFree DEF Moved
<1>2. Told' = [Told EXCEPT ![a] = IF pc'[a] = "idle" THEN answer'[a] ELSE "asked"]
  BY <1>0, ToldMoves DEF Moved
<1>3. log' = Append(log, Promise!Effect(a))
  BY DEF Effect, Promise!Effect
<1>4. pc'[a] = "idle" => answer'[a] = "ok"
  BY <1>0, ReturnsTo, CatchesTo DEF Commit
<1>5. Told' = Told \/ Told' = [Told EXCEPT ![a] = "ok"]
  BY <1>1, <1>2, <1>4 DEF Told
<1>6. Promise!Perform(a)
  BY <1>1, <1>3, <1>5 DEF Promise!Perform, Told
<1> QED BY <1>6 DEF Promise!Serve

LEMMA OnceStep ==
  (IInv /\ ToldInv) /\ (IInv /\ ToldInv)' /\ [Next]_vars => [Promise!Serve]_(Promise!service)
<1> SUFFICES ASSUME IInv, ToldInv, IInv', ToldInv', [Next]_vars
             PROVE  [Promise!Serve]_(Promise!service)
  OBVIOUS
<1>0. TypeOK /\ TypeOK'
  BY DEF IInv
<1>1. ASSUME NEW a \in Attempt, Send(a) PROVE Promise!Ask(a)
  <2>1. pc[a] = "idle" /\ answer[a] \notin {"ok", "mismatch"}
    BY <1>1 DEF Send
  <2>2. Told[a] \notin {"asked", "ok", "mismatch"}
    BY <1>0, <2>1, ToldOf
  <2>3. BodyOf[a] \in Versioned => Expects[BodyOf[a]] <= Len(log)
    BY <1>1 DEF Send
  <2>4. /\ pc'[a] = "create"
        /\ \A b \in Attempt \ {a} : pc'[b] = pc[b] /\ at'[b] = at[b] /\ answer'[b] = answer[b]
    BY <1>0, <1>1 DEF Send, GoTo, TypeOK
  <2>5. Told' = [Told EXCEPT ![a] = "asked"]
    BY <1>0, <2>4, ToldMoves
  <2>6. log' = log
    BY <1>1 DEF Send
  <2> QED BY <2>2, <2>3, <2>5, <2>6 DEF Promise!Ask, Told
<1>2. ASSUME NEW a \in Attempt, Step(a) \/ DbError(a)
      PROVE  [Promise!Serve]_(Promise!service)
  <2>1. Moved(a)
    BY <1>0, <1>2, Moves DEF ToldInv
  <2>2. CASE log' = log
    BY <2>1, <2>2, ToldStepIs
  <2>3. CASE Commit(a) /\ Current(a) /\ log' = Append(log, Effect(a))
    BY <2>1, <2>3, CommitStepIs
  <2>4. log' = log \/ (Commit(a) /\ Current(a) /\ log' = Append(log, Effect(a)))
    BY <1>2 DEF Step, Create, Find, Reclaim, Commit, Rollback, Complete, Fail, DbError
  <2> QED BY <2>2, <2>3, <2>4
<1>3. CASE Crash
  <2>1. log' = log
    BY <1>3 DEF Crash
  <2>2. \A b \in Attempt : /\ pc'[b] = "idle"
                           /\ answer'[b] = IF pc[b] = "idle" THEN answer[b] ELSE "error"
    BY <1>3 DEF Crash
  <2>3. Told' = [b \in Attempt |-> IF Told[b] = "asked" THEN "error" ELSE Told[b]]
    <3>1. \A b \in Attempt : /\ Told[b] = IF pc[b] = "idle" THEN answer[b] ELSE "asked"
                             /\ Told[b] = "asked" <=> pc[b] # "idle"
      BY <1>0, ToldOf
    <3> QED BY <2>2, <3>1 DEF Told
  <2>4. Promise!BreakOff
    BY <2>1, <2>3 DEF Promise!BreakOff, Told
  <2> QED BY <2>4 DEF Promise!Serve
<1>4. CASE UNCHANGED <<log, pc, answer>>
  BY <1>4 DEF Promise!service
<1> QED BY <1>1, <1>2, <1>3, <1>4 DEF Next, Lapse, vars, Promise!Serve

(* The rows of idempotency_requests and the runs over them implement       *)
(* OnceByKey, for any keys, attempts, payloads, scopes and faults: seen    *)
(* from the clients a step asks for a request, makes it take effect while  *)
(* it is asked for and its key is free under its scope, tells a client     *)
(* something true, breaks off, or changes nothing.                         *)
THEOREM ImplementsOnce == Spec => ImplementsOnceByKey
<1>1. Init => Promise!Start
  BY DEF Init, Promise!Start
<1>2. (IInv /\ ToldInv) /\ (IInv /\ ToldInv)' /\ [Next]_vars
        => [Promise!Serve]_(Promise!service)
  BY OnceStep
<1> QED BY <1>1, <1>2, KnownInvariant, PTL DEF Spec, ImplementsOnceByKey, Promise!Service
=============================================================================
