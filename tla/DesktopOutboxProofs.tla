------------------------ MODULE DesktopOutboxProofs ------------------------
(***************************************************************************)
(* Proofs about DesktopOutbox, for every set of commands, aggregates,      *)
(* tokens and scopes and every bound on faults: first what holds for any   *)
(* scopes, then, for one mutation scope, that lanes keep their order and   *)
(* that the queue implements LaneDelivery.                                 *)
(***************************************************************************)
EXTENDS DesktopOutbox, FiniteSetTheorems, WellFoundedInduction, TLAPS

USE OutboxConstants DEF OutboxConstants

(* A replay loop runs with a token, and waits only for a request. *)
LoopHasToken ==
  \A s \in Scope : /\ pc[s] # "idle" => active[s] \in Token /\ auth[s] \in Token
                   /\ pc[s] = "wait" => req[s] \in Request

Types == TypeOK /\ LoopHasToken

LEMMA CountNat ==
  \A l, n : n \in Nat => ForeignUpTo(l, n) \in Nat
<1> SUFFICES ASSUME NEW l, NEW n \in Nat PROVE ForeignUpTo(l, n) \in Nat
  OBVIOUS
<1>1. IsFiniteSet(1..n)
  BY FS_Interval
<1>2. IsFiniteSet({i \in 1..n : i <= Version(l) /\ history[l][i] = Foreign})
  BY <1>1, FS_Subset
<1> QED BY <1>2, FS_CardinalityType DEF ForeignUpTo

LEMMA AheadNat ==
  \A c : Cardinality(Ahead(c)) \in Nat
<1> SUFFICES ASSUME NEW c PROVE Cardinality(Ahead(c)) \in Nat
  OBVIOUS
<1>1. IsFiniteSet(Ahead(c))
  BY FS_Subset DEF Ahead
<1> QED BY <1>1, FS_CardinalityType

LEMMA AppendTyped ==
  \A S, h, x : h \in Seq(S) /\ x \in S => Append(h, x) \in Seq(S)
OBVIOUS

LEMMA TypesInit == Init => Types
BY DEF Init, Types, TypeOK, LoopHasToken, States, NoReply

LEMMA TypesStep == Types /\ [Next]_vars => Types'
<1> SUFFICES ASSUME Types, [Next]_vars PROVE Types'
  OBVIOUS
<1> USE DEF Types, TypeOK, LoopHasToken, vars, store, gateway, backend, Request, NoReq,
            NoReply, Answers, States
<1>1. ASSUME NEW t \in Token, UseToken(t) PROVE Types'
  <2>1. scope' \in [Command -> Scope \cup {NoScope}]
    BY <1>1 DEF UseToken
  <2>2. mapped' \in [Command -> Scope \cup {NoScope}]
    BY <1>1 DEF UseToken
  <2>3. /\ adopted' \subseteq Scope /\ blocked' \subseteq Scope
        /\ active' \in [Scope -> Token \cup {NoToken}]
        /\ \A s \in Scope : active[s] \in Token => active'[s] \in Token
    BY <1>1 DEF UseToken
  <2>4. UNCHANGED <<state, rowid, owner, base, tried, delayed, pc, auth, batch, req, reply,
                    history, expired, known, orphans, faults, seen>>
    BY <1>1 DEF UseToken
  <2> QED BY <2>1, <2>2, <2>3, <2>4
<1>2. ASSUME NEW t \in Token, Expire(t) PROVE Types'
  BY <1>2 DEF Expire
<1>3. ASSUME NEW c \in Command, NEW t \in Token, Enqueue(c, t) PROVE Types'
  <2>1. /\ known[LaneOf[c]] + Cardinality(Ahead(c)) \in Nat
        /\ ForeignUpTo(LaneOf[c], known[LaneOf[c]]) \in Nat
    BY AheadNat, CountNat
  <2>2. rowid' \in [Command -> Nat]
    BY <1>3 DEF Enqueue
  <2>3. /\ state' \in [Command -> States]
        /\ scope' \in [Command -> Scope \cup {NoScope}]
        /\ owner' \in [Command -> Employee \cup {NoEmployee}]
    BY <1>3 DEF Enqueue
  <2>4. base' \in [Command -> Nat] /\ seen' \in [Command -> Nat]
    BY <1>3, <2>1 DEF Enqueue
  <2>5. UNCHANGED <<tried, delayed, mapped, gateway, backend, known, orphans, faults>>
    BY <1>3 DEF Enqueue
  <2> QED BY <2>2, <2>3, <2>4, <2>5
<1>4. ASSUME NEW c \in Command, NEW t \in Token, Retry(c, t) PROVE Types'
  <2>1. /\ state' \in [Command -> States]
        /\ delayed' \subseteq Command
        /\ active' \in [Scope -> Token \cup {NoToken}]
        /\ \A s \in Scope : active[s] \in Token => active'[s] \in Token
    BY <1>4 DEF Retry
  <2>2. /\ pc' \in [Scope -> {"idle", "next", "wait"}]
        /\ auth' \in [Scope -> Token \cup {NoToken}]
        /\ \A s \in Scope : /\ pc'[s] # "idle" => active'[s] \in Token /\ auth'[s] \in Token
                            /\ pc'[s] = "wait" => pc[s] = "wait"
    <3>0. ScopeOf[t] \in Scope /\ active' = [active EXCEPT ![ScopeOf[t]] = t]
      BY <1>4 DEF Retry
    <3>1. CASE pc[ScopeOf[t]] = "idle" /\ ScopeOf[t] \notin blocked
      <4>1. /\ pc' = [pc EXCEPT ![ScopeOf[t]] = "next"]
            /\ auth' = [auth EXCEPT ![ScopeOf[t]] = t]
        BY <1>4, <3>1 DEF Retry
      <4> QED BY <4>1, <3>0
    <3>2. CASE ~(pc[ScopeOf[t]] = "idle" /\ ScopeOf[t] \notin blocked)
      <4>1. UNCHANGED <<pc, auth>>
        BY <1>4, <3>2 DEF Retry
      <4> QED BY <4>1, <3>0
    <3> QED BY <3>1, <3>2
  <2>3. UNCHANGED <<rowid, scope, owner, base, tried, mapped, blocked, adopted, batch,
                    req, reply, backend, known, orphans, faults, seen>>
    BY <1>4 DEF Retry
  <2> QED BY <2>1, <2>2, <2>3
<1>5. ASSUME NEW c \in Command, NEW t \in Token, Cancel(c, t) PROVE Types'
  BY <1>5 DEF Cancel
<1>6. ASSUME NEW c \in Command, BackoffElapsed(c) PROVE Types'
  BY <1>6 DEF BackoffElapsed
<1>7. ASSUME NEW s \in Scope, StartFlush(s) PROVE Types'
  BY <1>7 DEF StartFlush
<1>8. ASSUME NEW s \in Scope, EndFlush(s) PROVE Types'
  <2>1. batch' \in [Scope -> SUBSET Command]
    BY <1>8 DEF EndFlush
  <2>2. /\ pc' \in [Scope -> {"idle", "next", "wait"}]
        /\ auth' \in [Scope -> Token \cup {NoToken}]
        /\ \A u \in Scope : /\ pc'[u] # "idle" => active[u] \in Token /\ auth'[u] \in Token
                            /\ pc'[u] = "wait" => pc[u] = "wait"
    <3>1. pc[s] = "next" /\ active[s] \in Token
      BY <1>8 DEF EndFlush
    <3>2. CASE active[s] # auth[s] /\ s \notin blocked
      <4>1. pc' = pc /\ auth' = [auth EXCEPT ![s] = active[s]]
        BY <1>8, <3>2 DEF EndFlush
      <4> QED BY <3>1, <4>1
    <3>3. CASE ~(active[s] # auth[s] /\ s \notin blocked)
      <4>1. pc' = [pc EXCEPT ![s] = "idle"] /\ auth' = [auth EXCEPT ![s] = NoToken]
        BY <1>8, <3>3 DEF EndFlush
      <4> QED BY <3>1, <4>1
    <3> QED BY <3>2, <3>3
  <2>3. UNCHANGED <<store, active, blocked, adopted, req, reply, backend, known, orphans,
                    faults, seen>>
    BY <1>8 DEF EndFlush
  <2> QED BY <2>1, <2>2, <2>3
<1>9. ASSUME NEW s \in Scope, NEW c \in Command, Take(s, c) PROVE Types'
  <2>1. Takes(s, c) => batch' \in [Scope -> SUBSET Command]
    BY DEF Takes, Work, Due
  <2>2. CASE SendConflict(s, c)
    BY <2>1, <2>2 DEF SendConflict, Takes
  <2>3. CASE SendSkip(s, c)
    BY <2>1, <2>3 DEF SendSkip, Takes
  <2>4. CASE SendWaits(s, c)
    BY <2>1, <2>4 DEF SendWaits, Takes
  <2>5. CASE Send(s, c)
    BY <2>1, <2>5 DEF Send, Takes
  <2> QED BY <1>9, <2>2, <2>3, <2>4, <2>5 DEF Take
<1>10. ASSUME NEW s \in Scope, Handle(s) PROVE Types'
  <2>1. CASE Acknowledge(s)
    <3>1. req[s] \in Request /\ reply[s].ver \in Nat
      BY <2>1 DEF Acknowledge, Answered
    <3>2. mapped' \in [Command -> Scope \cup {NoScope}] /\ state' \in [Command -> States]
      BY <2>1, <3>1 DEF Acknowledge, SaveMapping
    <3>3. base' \in [Command -> Nat] /\ known' \in [Lane -> Nat]
      BY <2>1, <3>1 DEF Acknowledge
    <3>4. /\ pc' = [pc EXCEPT ![s] = "next"]
          /\ req' = [req EXCEPT ![s] = NoReq]
          /\ reply' = [reply EXCEPT ![s] = NoReply]
      BY <2>1 DEF Acknowledge, Answered
    <3>5. UNCHANGED <<rowid, scope, owner, tried, delayed, active, blocked, adopted, auth,
                      batch, backend, orphans, faults, seen>>
      BY <2>1 DEF Acknowledge
    <3>6. /\ req' \in [Scope -> Request \cup {NoReq}]
          /\ reply' \in [Scope -> [kind : Answers, ver : Nat] \cup {NoReply}]
          /\ pc' \in [Scope -> {"idle", "next", "wait"}]
          /\ \A u \in Scope : /\ pc'[u] # "idle" => pc[u] # "idle"
                              /\ pc'[u] = "wait" => pc[u] = "wait" /\ req'[u] = req[u]
      BY <2>1, <3>4 DEF Acknowledge, Answered
    <3> QED BY <3>2, <3>3, <3>5, <3>6
  <2>2. CASE AnswerConflict(s)
    BY <2>2 DEF AnswerConflict, Answered, Queued
  <2>3. CASE AnswerUnauthorized(s)
    BY <2>3 DEF AnswerUnauthorized, Answered
  <2>4. CASE AnswerUnavailable(s)
    <3>1. /\ pc[s] = "wait"
          /\ pc' = [pc EXCEPT ![s] = "next"]
          /\ req' = [req EXCEPT ![s] = NoReq]
          /\ reply' = [reply EXCEPT ![s] = NoReply]
      BY <2>4 DEF AnswerUnavailable, Answered
    <3>2. state' \in [Command -> States] /\ delayed' \subseteq Command
      BY <2>4, <3>1 DEF AnswerUnavailable, BackOff
    <3>3. UNCHANGED <<rowid, scope, owner, base, tried, mapped, active, blocked, adopted,
                      auth, batch, backend, known, orphans, faults, seen>>
      BY <2>4 DEF AnswerUnavailable
    <3>4. /\ req' \in [Scope -> Request \cup {NoReq}]
          /\ reply' \in [Scope -> [kind : Answers, ver : Nat] \cup {NoReply}]
          /\ pc' \in [Scope -> {"idle", "next", "wait"}]
          /\ \A u \in Scope : /\ pc'[u] # "idle" => pc[u] # "idle"
                              /\ pc'[u] = "wait" => pc[u] = "wait" /\ req'[u] = req[u]
      BY <3>1
    <3> QED BY <3>2, <3>3, <3>4
  <2> QED BY <1>10, <2>1, <2>2, <2>3, <2>4 DEF Handle
<1>11. ASSUME NEW s \in Scope, Timeout(s) PROVE Types'
  <2>1. state' \in [Command -> States] /\ delayed' \subseteq Command
    BY <1>11 DEF Timeout, BackOff
  <2>2. /\ req' \in [Scope -> Request \cup {NoReq}]
        /\ reply' \in [Scope -> [kind : Answers, ver : Nat] \cup {NoReply}]
        /\ pc' \in [Scope -> {"idle", "next", "wait"}]
        /\ \A u \in Scope : /\ pc'[u] # "idle" => pc[u] # "idle"
                            /\ pc'[u] = "wait" => pc[u] = "wait" /\ req'[u] = req[u]
    BY <1>11 DEF Timeout
  <2>3. orphans' \subseteq Request /\ faults' \in 0..MaxFaults
    BY <1>11 DEF Timeout
  <2>4. UNCHANGED <<rowid, scope, owner, base, tried, mapped, active, blocked, adopted, auth,
                    batch, backend, known, seen>>
    BY <1>11 DEF Timeout
  <2> QED BY <2>1, <2>2, <2>3, <2>4
<1>12. ASSUME NEW s \in Scope, Serve(s) PROVE Types'
  <2>0. \A l \in Lane : Version(l) \in Nat
    BY DEF Version
  <2>1. CASE ServeApply(s)
    <3>1. req[s] \in Request
      BY <2>1 DEF ServeApply, Respond
    <3>2. history' \in [Lane -> Seq(Command \cup {Foreign})]
      BY <2>1, <3>1, AppendTyped DEF ServeApply, Apply
    <3>3. LaneOf[req[s].cmd] \in Lane
      BY <3>1
    <3>4. reply' \in [Scope -> [kind : Answers, ver : Nat] \cup {NoReply}]
      BY <2>0, <2>1, <3>3 DEF ServeApply, Respond
    <3>5. UNCHANGED <<store, active, blocked, adopted, pc, auth, batch, req, known, orphans,
                      expired, faults, seen>>
      BY <2>1 DEF ServeApply, Respond
    <3> QED BY <3>2, <3>4, <3>5
  <2>2. CASE ServeReplay(s)
    BY <2>0, <2>2 DEF ServeReplay, Respond
  <2>3. CASE ServeUnauthorized(s)
    BY <2>3 DEF ServeUnauthorized, Respond
  <2>4. CASE ServeStale(s)
    BY <2>4 DEF ServeStale, Respond
  <2> QED BY <1>12, <2>1, <2>2, <2>3, <2>4 DEF Serve
<1>13. ASSUME NEW s \in Scope, ServeInProgress(s) PROVE Types'
  BY <1>13 DEF ServeInProgress, Respond
<1>14. ASSUME NEW s \in Scope, ServeError(s) PROVE Types'
  <2>1. reply' \in [Scope -> [kind : Answers, ver : Nat] \cup {NoReply}]
    BY <1>14 DEF ServeError, Respond
  <2>2. faults' \in 0..MaxFaults
    BY <1>14 DEF ServeError
  <2>3. UNCHANGED <<store, active, blocked, adopted, pc, auth, batch, req, known, orphans,
                    expired, seen, history>>
    BY <1>14 DEF ServeError, Respond
  <2> QED BY <2>1, <2>2, <2>3
<1>15. ASSUME Restart PROVE Types'
  BY <1>15 DEF Restart, Recovered
<1>16. ASSUME NEW r \in orphans, ServeOrphan(r) PROVE Types'
  <2>1. history' \in [Lane -> Seq(Command \cup {Foreign})]
    <3>1. r \in Request
      BY <1>16
    <3>2. LaneOf[r.cmd] \in Lane /\ r.cmd \in Command \cup {Foreign}
      BY <3>1
    <3>3. CASE Apply(r)
      BY <3>2, <3>3, AppendTyped DEF Apply
    <3> QED BY <1>16, <3>3 DEF ServeOrphan
  <2>2. orphans' \subseteq Request
    BY <1>16 DEF ServeOrphan
  <2>3. UNCHANGED <<store, gateway, expired, known, faults, seen>>
    BY <1>16 DEF ServeOrphan
  <2> QED BY <2>1, <2>2, <2>3
<1>17. ASSUME NEW l \in Lane, RefreshCache(l) PROVE Types'
  BY <1>17 DEF RefreshCache, Version
<1>18. ASSUME NEW l \in Lane, ForeignChange(l) PROVE Types'
  <2>1. history' \in [Lane -> Seq(Command \cup {Foreign})]
    BY <1>18, AppendTyped DEF ForeignChange
  <2>2. UNCHANGED <<store, gateway, expired, known, orphans, faults, seen>>
    BY <1>18 DEF ForeignChange
  <2> QED BY <2>1, <2>2
<1>19. CASE UNCHANGED vars
  BY <1>19
<1> QED
  BY <1>1, <1>2, <1>3, <1>4, <1>5, <1>6, <1>7, <1>8, <1>9, <1>10, <1>11, <1>12, <1>13,
     <1>14, <1>15, <1>16, <1>17, <1>18, <1>19 DEF Next

(* Type correctness, whatever the number of commands, tokens and faults.   *)
THEOREM TypeCorrect == Spec => []TypeOK
<1>1. Types => TypeOK
  BY DEF Types
<1> QED BY TypesInit, TypesStep, <1>1, PTL DEF Spec

----------------------------------------------------------------------------
(* Requests that may still take effect: those a scope waits for, and those *)
(* nobody waits for any more.                                              *)
Flying == {req[s] : s \in {u \in Scope : pc[u] = "wait"}} \cup orphans

(* A step adds at most one entry to the backend's history: the effect of a *)
(* flying request, or another device's change.                             *)
LEMMA HistoryShape ==
  ASSUME Types, [Next]_vars
  PROVE  \/ UNCHANGED history
         \/ \E m \in Lane : history' = [history EXCEPT ![m] = Append(@, Foreign)]
         \/ \E r \in Flying : r.cmd \notin Applied /\ Apply(r)
<1> USE DEF Types, TypeOK, vars, backend
<1>1. ASSUME NEW s \in Scope, ServeApply(s)
      PROVE  req[s] \in Flying /\ req[s].cmd \notin Applied /\ Apply(req[s])
  BY <1>1 DEF ServeApply, Respond, Accepts, Flying
<1>2. ASSUME NEW r \in orphans, ServeOrphan(r)
      PROVE  r \in Flying /\ (UNCHANGED history \/ (r.cmd \notin Applied /\ Apply(r)))
  BY <1>2 DEF ServeOrphan, Accepts, Flying
<1>3. ASSUME NEW m \in Lane, ForeignChange(m)
      PROVE  history' = [history EXCEPT ![m] = Append(@, Foreign)]
  BY <1>3 DEF ForeignChange
<1>4. \/ \E s \in Scope : ServeApply(s)
      \/ \E r \in orphans : ServeOrphan(r)
      \/ \E m \in Lane : ForeignChange(m)
      \/ UNCHANGED history
  <2>1. ASSUME NEW s \in Scope, \/ \E c \in Command : Take(s, c)
                                \/ Handle(s) \/ StartFlush(s) \/ EndFlush(s) \/ Timeout(s)
        PROVE  UNCHANGED history
    BY <2>1 DEF Take, Handle, StartFlush, EndFlush, SendConflict, SendSkip, SendWaits, Send,
       Acknowledge, AnswerConflict, AnswerUnauthorized, AnswerUnavailable, Timeout
  <2>2. ASSUME NEW s \in Scope, Serve(s) \/ ServeInProgress(s) \/ ServeError(s)
        PROVE  ServeApply(s) \/ UNCHANGED history
    BY <2>2 DEF Serve, ServeReplay, ServeUnauthorized, ServeStale, ServeInProgress, ServeError
  <2>3. ASSUME NEW t \in Token, NEW c \in Command,
               \/ UseToken(t) \/ Expire(t) \/ Enqueue(c, t) \/ Retry(c, t) \/ Cancel(c, t)
        PROVE  UNCHANGED history
    BY <2>3 DEF UseToken, Expire, Enqueue, Retry, Cancel
  <2>4. ASSUME \/ \E c \in Command : BackoffElapsed(c)
               \/ \E l \in Lane : RefreshCache(l)
               \/ Restart
        PROVE  UNCHANGED history
    BY <2>4 DEF BackoffElapsed, RefreshCache, Restart
  <2> QED BY <2>1, <2>2, <2>3, <2>4 DEF Next, UseToken, Expire
<1> QED BY <1>1, <1>2, <1>3, <1>4

(* What the history of one lane can become in a step.                      *)
LEMMA HistoryStep ==
  ASSUME Types, [Next]_vars
  PROVE  \A l \in Lane :
           \/ history'[l] = history[l]
           \/ history'[l] = Append(history[l], Foreign)
           \/ \E r \in Flying : /\ LaneOf[r.cmd] = l
                               /\ r.cmd \notin Applied
                               /\ history'[l] = Append(history[l], r.cmd)
<1> SUFFICES ASSUME NEW l \in Lane
             PROVE  \/ history'[l] = history[l]
                    \/ history'[l] = Append(history[l], Foreign)
                    \/ \E r \in Flying : /\ LaneOf[r.cmd] = l
                                        /\ r.cmd \notin Applied
                                        /\ history'[l] = Append(history[l], r.cmd)
  OBVIOUS
<1>0. history \in [Lane -> Seq(Command \cup {Foreign})]
  BY DEF Types, TypeOK
<1>1. CASE UNCHANGED history
  BY <1>1
<1>2. ASSUME NEW m \in Lane, history' = [history EXCEPT ![m] = Append(@, Foreign)]
      PROVE  history'[l] = history[l] \/ history'[l] = Append(history[l], Foreign)
  BY <1>0, <1>2
<1>3. ASSUME NEW r \in Flying, Apply(r)
      PROVE  history'[l] = IF l = LaneOf[r.cmd] THEN Append(history[l], r.cmd) ELSE history[l]
  BY <1>0, <1>3 DEF Apply
<1> QED BY <1>1, <1>2, <1>3, HistoryShape

(* Effects are never undone, and a new one is that of a flying request.    *)
LEMMA AppliedStep ==
  ASSUME Types, [Next]_vars
  PROVE  /\ Applied \subseteq Applied'
         /\ \A c \in Applied' \ Applied : \E r \in Flying : r.cmd = c
<1>1. ASSUME NEW c \in Command
      PROVE  /\ history[LaneOf[c]] \in Seq(Command \cup {Foreign})
             /\ LaneOf[c] \in Lane
  BY DEF Types, TypeOK
<1>2. ASSUME NEW c \in Applied PROVE c \in Applied'
  <2> DEFINE h == history[LaneOf[c]]
  <2>1. PICK i \in 1..Len(h) : h[i] = c
    BY <1>2 DEF Applied
  <2>2. c \in Command /\ LaneOf[c] \in Lane /\ h \in Seq(Command \cup {Foreign})
    BY <1>1, <1>2 DEF Applied
  <2>3. \/ history'[LaneOf[c]] = h
        \/ \E x : history'[LaneOf[c]] = Append(h, x)
    BY <2>2, HistoryStep
  <2>4. i \in 1..Len(history'[LaneOf[c]]) /\ history'[LaneOf[c]][i] = c
    BY <2>1, <2>2, <2>3
  <2> QED BY <2>2, <2>4 DEF Applied
<1>3. ASSUME NEW c \in Applied' \ Applied PROVE \E r \in Flying : r.cmd = c
  <2> DEFINE h == history[LaneOf[c]]
  <2>1. c \in Command /\ LaneOf[c] \in Lane /\ h \in Seq(Command \cup {Foreign})
    BY <1>1, <1>3 DEF Applied
  <2>2. PICK i \in 1..Len(history'[LaneOf[c]]) : history'[LaneOf[c]][i] = c
    BY <1>3 DEF Applied
  <2>3. \A j \in 1..Len(h) : h[j] # c
    BY <1>3, <2>1 DEF Applied
  <2>4. history'[LaneOf[c]] # h
    BY <2>2, <2>3
  <2>5. ASSUME NEW x, history'[LaneOf[c]] = Append(h, x) PROVE x = c
    BY <2>1, <2>2, <2>3, <2>5
  <2>6. c # Foreign
    BY <2>1
  <2> QED BY <2>1, <2>4, <2>5, <2>6, HistoryStep
<1> QED BY <1>2, <1>3

(* Requests take off only in Send.                                         *)
LEMMA FlyingStep ==
  ASSUME Types, [Next]_vars
  PROVE  \A r \in Flying' :
           \/ r \in Flying
           \/ \E s \in Scope, c \in Command :
                /\ Send(s, c)
                /\ r = [cmd |-> c, exp |-> base[c], tok |-> auth[s]]
<1> USE DEF Types, TypeOK, vars, gateway, Flying
<1>1. ASSUME NEW s \in Scope, NEW c \in Command, Send(s, c)
      PROVE  \A r \in Flying' :
               r \in Flying \/ r = [cmd |-> c, exp |-> base[c], tok |-> auth[s]]
  BY <1>1 DEF Send
<1>2. ASSUME NEW s \in Scope, Timeout(s) PROVE Flying' \subseteq Flying
  BY <1>2 DEF Timeout
<1>3. ASSUME Restart PROVE Flying' \subseteq Flying
  BY <1>3 DEF Restart
<1>4. ASSUME NEW c \in Command, NEW t \in Token, Retry(c, t) PROVE Flying' \subseteq Flying
  BY <1>4 DEF Retry
<1>5. ASSUME NEW s \in Scope, StartFlush(s) \/ EndFlush(s) PROVE Flying' \subseteq Flying
  BY <1>5 DEF StartFlush, EndFlush
<1>6. ASSUME NEW s \in Scope, Handle(s) PROVE Flying' \subseteq Flying
  BY <1>6 DEF Handle, Acknowledge, AnswerConflict, AnswerUnauthorized, AnswerUnavailable,
              Answered
<1>7. ASSUME NEW r \in orphans, ServeOrphan(r) PROVE Flying' \subseteq Flying
  BY <1>7 DEF ServeOrphan
<1>8. ASSUME UNCHANGED <<pc, req, orphans>> PROVE Flying' = Flying
  BY <1>8
<1>9. ASSUME NEW t \in Token, UseToken(t) \/ Expire(t) PROVE UNCHANGED <<pc, req, orphans>>
  BY <1>9 DEF UseToken, Expire
<1>10. ASSUME NEW c \in Command, NEW t \in Token, Enqueue(c, t) \/ Cancel(c, t)
       PROVE  UNCHANGED <<pc, req, orphans>>
  BY <1>10 DEF Enqueue, Cancel
<1>11. ASSUME NEW s \in Scope, Serve(s) \/ ServeInProgress(s) \/ ServeError(s)
       PROVE  UNCHANGED <<pc, req, orphans>>
  BY <1>11 DEF Serve, ServeApply, ServeReplay, ServeUnauthorized, ServeStale, ServeInProgress,
               ServeError, Respond
<1>12. ASSUME NEW s \in Scope, NEW c \in Command,
              SendConflict(s, c) \/ SendSkip(s, c) \/ SendWaits(s, c)
       PROVE  UNCHANGED <<pc, req, orphans>>
  BY <1>12 DEF SendConflict, SendSkip, SendWaits
<1>13. ASSUME NEW l \in Lane, RefreshCache(l) \/ ForeignChange(l)
       PROVE  UNCHANGED <<pc, req, orphans>>
  BY <1>13 DEF RefreshCache, ForeignChange
<1>14. ASSUME NEW c \in Command, BackoffElapsed(c) PROVE UNCHANGED <<pc, req, orphans>>
  BY <1>14 DEF BackoffElapsed
<1>15. CASE UNCHANGED vars
  BY <1>15
<1> HIDE DEF Flying, Types, TypeOK
<1> QED
  BY <1>1, <1>2, <1>3, <1>4, <1>5, <1>6, <1>7, <1>8, <1>9, <1>10, <1>11, <1>12, <1>13, <1>14,
     <1>15 DEF Next, Take

(* Requests that an answer of success waits for.                           *)
Answered2xx == {req[s].cmd : s \in {u \in Scope : reply[u].kind = "ok"}}

(* A row is fixed once queued: its owner stays, it counts as tried for     *)
(* ever, it is cancelled only untried, it is acknowledged and its local id *)
(* is recorded only for an answer of success.                              *)
LEMMA RowStep ==
  ASSUME Types, [Next]_vars, NEW c \in Command
  PROVE  /\ tried[c] => tried'[c]
         /\ state[c] = "none" \/ owner'[c] = owner[c]
         /\ state'[c] \in {"none", "cancelled"} =>
              \/ state[c] = state'[c] /\ tried'[c] = tried[c]
              \/ ~tried'[c]
         /\ state'[c] = "acknowledged" => state[c] = "acknowledged" \/ c \in Answered2xx
         /\ mapped'[c] # NoScope => mapped[c] # NoScope \/ c \in Answered2xx
         /\ \A s \in Scope : Send(s, c) => tried'[c] /\ state[c] = "pending"
<1> DEFINE Row ==
         /\ tried[c] => tried'[c]
         /\ state[c] = "none" \/ owner'[c] = owner[c]
         /\ state'[c] \in {"none", "cancelled"} =>
              \/ state[c] = state'[c] /\ tried'[c] = tried[c]
              \/ ~tried'[c]
         /\ state'[c] = "acknowledged" => state[c] = "acknowledged" \/ c \in Answered2xx
         /\ mapped'[c] # NoScope => mapped[c] # NoScope \/ c \in Answered2xx
<1> USE DEF Types, TypeOK, vars, store, gateway, Queued
<1>1. ASSUME UNCHANGED <<state, owner, tried, mapped>> PROVE Row
  BY <1>1
<1>2. ASSUME NEW t \in Token, UseToken(t) PROVE Row
  BY <1>2 DEF UseToken
<1>3. ASSUME NEW d \in Command, NEW t \in Token, Enqueue(d, t) PROVE Row
  BY <1>3 DEF Enqueue
<1>4. ASSUME NEW d \in Command, NEW t \in Token, Retry(d, t) PROVE Row
  BY <1>4 DEF Retry
<1>5. ASSUME NEW d \in Command, NEW t \in Token, Cancel(d, t) PROVE Row
  BY <1>5 DEF Cancel
<1>6. ASSUME NEW s \in Scope, NEW d \in Command, Take(s, d) PROVE Row
  <2>1. CASE SendConflict(s, d)
    BY <2>1 DEF SendConflict
  <2>2. CASE SendSkip(s, d)
    BY <2>2, <1>1 DEF SendSkip
  <2>3. CASE SendWaits(s, d)
    BY <2>3 DEF SendWaits
  <2>4. CASE Send(s, d)
    BY <2>4 DEF Send
  <2> QED BY <1>6, <2>1, <2>2, <2>3, <2>4 DEF Take
<1>7. ASSUME NEW s \in Scope, Handle(s) PROVE Row
  <2>1. CASE Acknowledge(s)
    <3>1. req[s].cmd \in Answered2xx
      BY <2>1 DEF Acknowledge, Answered, Answered2xx
    <3>2. /\ c # req[s].cmd => state'[c] = state[c] /\ mapped'[c] = mapped[c]
          /\ c = req[s].cmd => state'[c] \notin {"none", "cancelled"} \/ state'[c] = state[c]
          /\ UNCHANGED <<owner, tried>>
      BY <2>1 DEF Acknowledge, SaveMapping
    <3> QED BY <3>1, <3>2
  <2>2. CASE AnswerConflict(s)
    BY <2>2 DEF AnswerConflict
  <2>3. CASE AnswerUnauthorized(s)
    <3>1. state'[c] = state[c] \/ state'[c] = "pending"
      BY <2>3 DEF AnswerUnauthorized
    <3>2. UNCHANGED <<owner, tried, mapped>>
      BY <2>3 DEF AnswerUnauthorized
    <3> QED BY <3>1, <3>2
  <2>4. CASE AnswerUnavailable(s)
    BY <2>4 DEF AnswerUnavailable, BackOff
  <2> QED BY <1>7, <2>1, <2>2, <2>3, <2>4 DEF Handle
<1>8. ASSUME NEW s \in Scope, Timeout(s) PROVE Row
  BY <1>8 DEF Timeout, BackOff
<1>9. ASSUME Restart PROVE Row
  <2>1. mapped'[c] = mapped[c] \/ c \in Answered2xx
    BY <1>9 DEF Restart, Answered2xx
  <2>2. state'[c] = state[c] \/ state'[c] = "pending"
    BY <1>9 DEF Restart, Recovered
  <2>3. UNCHANGED <<owner, tried>>
    BY <1>9 DEF Restart
  <2> QED BY <2>1, <2>2, <2>3
<1>10. ASSUME NEW s \in Scope, Serve(s) \/ ServeInProgress(s) \/ ServeError(s)
       PROVE  UNCHANGED <<state, owner, tried, mapped>>
  BY <1>10 DEF Serve, ServeApply, ServeReplay, ServeUnauthorized, ServeStale, ServeInProgress,
               ServeError, Respond
<1>11. ASSUME NEW s \in Scope, StartFlush(s) \/ EndFlush(s)
       PROVE  UNCHANGED <<state, owner, tried, mapped>>
  BY <1>11 DEF StartFlush, EndFlush
<1>12. ASSUME NEW l \in Lane, RefreshCache(l) \/ ForeignChange(l)
       PROVE  UNCHANGED <<state, owner, tried, mapped>>
  BY <1>12 DEF RefreshCache, ForeignChange
<1>13. ASSUME NEW d \in Command, BackoffElapsed(d) PROVE UNCHANGED <<state, owner, tried, mapped>>
  BY <1>13 DEF BackoffElapsed
<1>14. ASSUME NEW t \in Token, Expire(t) PROVE UNCHANGED <<state, owner, tried, mapped>>
  BY <1>14 DEF Expire
<1>15. ASSUME NEW r \in orphans, ServeOrphan(r) PROVE UNCHANGED <<state, owner, tried, mapped>>
  BY <1>15 DEF ServeOrphan
<1>16. ASSUME UNCHANGED vars PROVE UNCHANGED <<state, owner, tried, mapped>>
  BY <1>16
<1>17. ASSUME NEW s \in Scope, Send(s, c) PROVE tried'[c] /\ state[c] = "pending"
  BY <1>17 DEF Send
<1> HIDE DEF Row, Types, TypeOK
<1>18. Row
  BY <1>1, <1>2, <1>3, <1>4, <1>5, <1>6, <1>7, <1>8, <1>9, <1>10, <1>11, <1>12, <1>13, <1>14,
     <1>15, <1>16 DEF Next
<1> QED BY <1>17, <1>18 DEF Row

(* An answer of success is given for an effect, to a scope that waits.     *)
TrueAnswers ==
  \A s \in Scope : reply[s].kind = "ok" => pc[s] = "wait" /\ req[s].cmd \in Applied

LEMMA TrueAnswersStep ==
  ASSUME Types, TrueAnswers, [Next]_vars, NEW s \in Scope, reply'[s].kind = "ok"
  PROVE  pc'[s] = "wait" /\ req'[s].cmd \in Applied'
<1> USE DEF Types, TypeOK, vars, gateway, NoReply
<1>1. Applied \subseteq Applied'
  BY AppliedStep
<1>2. ASSUME reply'[s] = reply[s], req'[s] = req[s], pc[s] = "wait" => pc'[s] = "wait"
      PROVE  pc'[s] = "wait" /\ req'[s].cmd \in Applied'
  BY <1>1, <1>2 DEF TrueAnswers
<1>3. ASSUME NEW u \in Scope, ServeApply(u) PROVE pc'[s] = "wait" /\ req'[s].cmd \in Applied'
  <2>1. CASE u = s
    <3>1. pc'[s] = "wait" /\ req' = req /\ req[s] \in Request /\ Apply(req[s])
      BY <1>3, <2>1 DEF ServeApply, Respond, LoopHasToken
    <3>2. /\ req[s].cmd \in Command
          /\ LaneOf[req[s].cmd] \in Lane
          /\ history[LaneOf[req[s].cmd]] \in Seq(Command \cup {Foreign})
          /\ history'[LaneOf[req[s].cmd]] = Append(history[LaneOf[req[s].cmd]], req[s].cmd)
      BY <3>1 DEF Apply, Request
    <3>3. LET h == history'[LaneOf[req[s].cmd]] IN Len(h) \in 1..Len(h) /\ h[Len(h)] = req[s].cmd
      BY <3>2
    <3> QED BY <3>1, <3>2, <3>3 DEF Applied
  <2>2. CASE u # s
    BY <1>2, <1>3, <2>2 DEF ServeApply, Respond
  <2> QED BY <2>1, <2>2
<1>4. ASSUME NEW u \in Scope, ServeReplay(u) PROVE pc'[s] = "wait" /\ req'[s].cmd \in Applied'
  <2>1. CASE u = s
    BY <1>1, <1>4, <2>1 DEF ServeReplay, Respond
  <2>2. CASE u # s
    BY <1>2, <1>4, <2>2 DEF ServeReplay, Respond
  <2> QED BY <2>1, <2>2
<1>5. ASSUME NEW u \in Scope,
             \/ ServeUnauthorized(u) \/ ServeStale(u) \/ ServeInProgress(u) \/ ServeError(u)
      PROVE  pc'[s] = "wait" /\ req'[s].cmd \in Applied'
  <2>1. u # s
    BY <1>5 DEF ServeUnauthorized, ServeStale, ServeInProgress, ServeError, Respond
  <2> QED BY <1>2, <1>5, <2>1 DEF ServeUnauthorized, ServeStale, ServeInProgress, ServeError,
                                   Respond
<1>6. ASSUME NEW u \in Scope, Handle(u) PROVE pc'[s] = "wait" /\ req'[s].cmd \in Applied'
  <2>1. Answered(u, reply[u].kind)
    BY <1>6 DEF Handle, Acknowledge, AnswerConflict, AnswerUnauthorized, AnswerUnavailable,
                Answered
  <2>2. u # s
    BY <2>1 DEF Answered
  <2> QED BY <1>2, <2>1, <2>2 DEF Answered
<1>7. ASSUME NEW u \in Scope, Timeout(u) PROVE pc'[s] = "wait" /\ req'[s].cmd \in Applied'
  <2>1. u # s
    BY <1>7 DEF Timeout
  <2> QED BY <1>2, <1>7, <2>1 DEF Timeout
<1>8. ASSUME Restart PROVE FALSE
  BY <1>8 DEF Restart
<1>9. ASSUME NEW u \in Scope, NEW c \in Command, Take(u, c)
      PROVE  pc'[s] = "wait" /\ req'[s].cmd \in Applied'
  <2>1. CASE Send(u, c)
    <3>1. u # s
      BY <2>1 DEF Send, Takes, TrueAnswers
    <3> QED BY <1>2, <2>1, <3>1 DEF Send
  <2>2. CASE SendConflict(u, c) \/ SendSkip(u, c) \/ SendWaits(u, c)
    BY <1>2, <2>2 DEF SendConflict, SendSkip, SendWaits
  <2> QED BY <1>9, <2>1, <2>2 DEF Take
<1>10. ASSUME NEW c \in Command, NEW t \in Token, Retry(c, t)
       PROVE  pc'[s] = "wait" /\ req'[s].cmd \in Applied'
  BY <1>2, <1>10 DEF Retry
<1>11. ASSUME NEW u \in Scope, StartFlush(u) \/ EndFlush(u)
       PROVE  pc'[s] = "wait" /\ req'[s].cmd \in Applied'
  BY <1>2, <1>11 DEF StartFlush, EndFlush
<1>12. ASSUME UNCHANGED <<pc, req, reply>> PROVE pc'[s] = "wait" /\ req'[s].cmd \in Applied'
  BY <1>2, <1>12
<1>13. ASSUME NEW t \in Token, UseToken(t) \/ Expire(t) PROVE UNCHANGED <<pc, req, reply>>
  BY <1>13 DEF UseToken, Expire
<1>14. ASSUME NEW c \in Command, NEW t \in Token, Enqueue(c, t) \/ Cancel(c, t)
       PROVE  UNCHANGED <<pc, req, reply>>
  BY <1>14 DEF Enqueue, Cancel
<1>15. ASSUME NEW c \in Command, BackoffElapsed(c) PROVE UNCHANGED <<pc, req, reply>>
  BY <1>15 DEF BackoffElapsed
<1>16. ASSUME NEW l \in Lane, RefreshCache(l) \/ ForeignChange(l)
       PROVE  UNCHANGED <<pc, req, reply>>
  BY <1>16 DEF RefreshCache, ForeignChange
<1>17. ASSUME NEW r \in orphans, ServeOrphan(r) PROVE UNCHANGED <<pc, req, reply>>
  BY <1>17 DEF ServeOrphan
<1>18. ASSUME UNCHANGED vars PROVE UNCHANGED <<pc, req, reply>>
  BY <1>18
<1> HIDE DEF Types, TypeOK
<1> QED
  BY <1>3, <1>4, <1>5, <1>6, <1>7, <1>8, <1>9, <1>10, <1>11, <1>12, <1>13, <1>14, <1>15, <1>16,
     <1>17, <1>18 DEF Next, Serve

----------------------------------------------------------------------------
(* The inductive invariant.  Its heart is Untried: a row whose attempt     *)
(* count is zero has no request anywhere and no effect, which is why it    *)
(* may be cancelled.                                                       *)
Untried ==
  \A c \in Command : ~tried[c] => c \notin Applied /\ \A r \in Flying : r.cmd # c
Unsent ==
  \A c \in Command : state[c] \in {"none", "cancelled"} => ~tried[c]
Acknowledged ==
  \A c \in Command : state[c] = "acknowledged" => c \in Applied
MappedIsApplied ==
  \A c \in Command : mapped[c] # NoScope => c \in Applied
AppliedOnce ==
  \A c \in Command : \A i, j \in 1..Len(history[LaneOf[c]]) :
    history[LaneOf[c]][i] = c /\ history[LaneOf[c]][j] = c => i = j
FlyAsOwner ==
  \A r \in Flying : EmployeeOf[r.tok] = owner[r.cmd]
FlyResolved ==
  \A r \in Flying : References(r.cmd) \subseteq Applied

OutboxInv ==
  /\ Types
  /\ TrueAnswers
  /\ Untried
  /\ Unsent
  /\ Acknowledged
  /\ MappedIsApplied
  /\ AppliedOnce
  /\ FlyAsOwner
  /\ FlyResolved

LEMMA OutboxInit == Init => OutboxInv
<1> SUFFICES ASSUME Init PROVE OutboxInv
  OBVIOUS
<1>1. Types
  BY TypesInit
<1>2. Flying = {}
  BY DEF Init, Flying
<1>3. \A l \in Lane : history[l] = <<>>
  BY DEF Init
<1>4. Applied = {} /\ AppliedOnce
  BY <1>3 DEF Applied, AppliedOnce
<1>5. /\ \A c \in Command : state[c] = "none" /\ ~tried[c] /\ mapped[c] = NoScope
      /\ \A s \in Scope : reply[s].kind = "none"
  BY DEF Init, NoReply
<1> QED BY <1>1, <1>2, <1>4, <1>5 DEF OutboxInv, TrueAnswers, Untried, Unsent, Acknowledged,
           MappedIsApplied, FlyAsOwner, FlyResolved

LEMMA OutboxStep == OutboxInv /\ [Next]_vars => OutboxInv'
<1> SUFFICES ASSUME OutboxInv, [Next]_vars PROVE OutboxInv'
  OBVIOUS
<1> USE DEF OutboxInv
<1>1. Types'
  BY TypesStep
<1>2. Applied \subseteq Applied' /\ \A c \in Applied' \ Applied : \E r \in Flying : r.cmd = c
  BY AppliedStep
<1>3. TrueAnswers'
  BY TrueAnswersStep DEF TrueAnswers
<1>4. Answered2xx \subseteq Applied
  BY DEF Answered2xx, TrueAnswers
<1>5. Untried'
  <2> SUFFICES ASSUME NEW c \in Command, ~tried'[c]
               PROVE  c \notin Applied' /\ \A r \in Flying' : r.cmd # c
    BY DEF Untried
  <2>1. ~tried[c] /\ \A s \in Scope : ~Send(s, c)
    BY RowStep
  <2>2. c \notin Applied /\ \A r \in Flying : r.cmd # c
    BY <2>1 DEF Untried
  <2>3. c \notin Applied'
    BY <1>2, <2>2
  <2>4. ASSUME NEW r \in Flying' PROVE r.cmd # c
    BY <2>1, <2>2, FlyingStep
  <2> QED BY <2>3, <2>4
<1>6. Unsent'
  BY RowStep DEF Unsent
<1>7. Acknowledged'
  BY RowStep, <1>2, <1>4 DEF Acknowledged
<1>8. MappedIsApplied'
  BY RowStep, <1>2, <1>4 DEF MappedIsApplied
<1>9. AppliedOnce'
  <2> SUFFICES ASSUME NEW c \in Command,
                      NEW i \in 1..Len(history'[LaneOf[c]]),
                      NEW j \in 1..Len(history'[LaneOf[c]]),
                      history'[LaneOf[c]][i] = c, history'[LaneOf[c]][j] = c
               PROVE  i = j
    BY DEF AppliedOnce
  <2> DEFINE h == history[LaneOf[c]]
  <2>1. LaneOf[c] \in Lane /\ h \in Seq(Command \cup {Foreign}) /\ c # Foreign
    BY DEF Types, TypeOK
  <2>2. \A k, m \in 1..Len(h) : h[k] = c /\ h[m] = c => k = m
    BY DEF AppliedOnce
  <2>3. CASE history'[LaneOf[c]] = h
    BY <2>2, <2>3
  <2>4. ASSUME NEW x, history'[LaneOf[c]] = Append(h, x), x = c => c \notin Applied
        PROVE  i = j
    <3>1. x = c => \A k \in 1..Len(h) : h[k] # c
      BY <2>4 DEF Applied
    <3> QED BY <2>1, <2>2, <2>4, <3>1
  <2>5. \/ history'[LaneOf[c]] = h
        \/ history'[LaneOf[c]] = Append(h, Foreign)
        \/ \E r \in Flying : r.cmd \notin Applied /\ history'[LaneOf[c]] = Append(h, r.cmd)
    BY <2>1, HistoryStep
  <2>6. CASE history'[LaneOf[c]] = Append(h, Foreign)
    BY <2>1, <2>4, <2>6
  <2>7. ASSUME NEW r \in Flying, r.cmd \notin Applied, history'[LaneOf[c]] = Append(h, r.cmd)
        PROVE  i = j
    BY <2>4, <2>7
  <2> QED BY <2>3, <2>5, <2>6, <2>7
<1>10. FlyAsOwner'
  <2> SUFFICES ASSUME NEW r \in Flying' PROVE EmployeeOf[r.tok] = owner'[r.cmd]
    BY DEF FlyAsOwner
  <2>1. CASE r \in Flying
    <3>1. r.cmd \in Command
      BY <2>1 DEF Flying, Types, TypeOK, LoopHasToken, Request
    <3>2. state[r.cmd] # "none"
      BY <2>1, <3>1 DEF Untried, Unsent
    <3> QED BY <2>1, <3>1, <3>2, RowStep DEF FlyAsOwner
  <2>2. ASSUME NEW s \in Scope, NEW c \in Command, Send(s, c),
               r = [cmd |-> c, exp |-> base[c], tok |-> auth[s]]
        PROVE  EmployeeOf[r.tok] = owner'[r.cmd]
    <3>1. owner[c] = EmployeeOf[auth[s]] /\ owner' = owner
      BY <2>2 DEF Send, OwnerMatches
    <3> QED BY <2>2, <3>1
  <2> QED BY <2>1, <2>2, FlyingStep
<1>11. FlyResolved'
  <2> SUFFICES ASSUME NEW r \in Flying' PROVE References(r.cmd) \subseteq Applied'
    BY DEF FlyResolved, References
  <2>1. CASE r \in Flying
    BY <1>2, <2>1 DEF FlyResolved
  <2>2. ASSUME NEW s \in Scope, NEW c \in Command, Send(s, c),
               r = [cmd |-> c, exp |-> base[c], tok |-> auth[s]]
        PROVE  References(r.cmd) \subseteq Applied'
    <3>1. \A d \in References(c) : d \in Command /\ mapped[d] = s
      BY <2>2 DEF Send, Resolved, References
    <3>2. References(c) \subseteq Applied
      BY <3>1 DEF MappedIsApplied
    <3> QED BY <1>2, <2>2, <3>2
  <2> QED BY <2>1, <2>2, FlyingStep
<1> QED BY <1>1, <1>3, <1>5, <1>6, <1>7, <1>8, <1>9, <1>10, <1>11

LEMMA OutboxInvariant == Spec => []OutboxInv
BY OutboxInit, OutboxStep, PTL DEF Spec

(* A cancelled command never takes effect.                                 *)
THEOREM CancelledStaysUndone == Spec => []CancelledNeverApplied
<1>1. OutboxInv => CancelledNeverApplied
  BY DEF OutboxInv, Untried, Unsent, CancelledNeverApplied
<1> QED BY <1>1, OutboxInvariant, PTL

(* An acknowledged command took effect, and no command does so twice.      *)
THEOREM AcknowledgedOnce == Spec => []AcknowledgedAppliedOnce
<1>1. OutboxInv => AcknowledgedAppliedOnce
  BY DEF OutboxInv, Acknowledged, AppliedOnce, AcknowledgedAppliedOnce
<1> QED BY <1>1, OutboxInvariant, PTL

(* A command travels only under a token of the employee who queued it.     *)
THEOREM TravelsAsItsOwner == Spec => []TravelsAsOwner
<1>1. OutboxInv => TravelsAsOwner
  BY DEF OutboxInv, FlyAsOwner, Flying, TravelsAsOwner
<1> QED BY <1>1, OutboxInvariant, PTL

(* No request carries a local id the backend does not know.                *)
THEOREM LocalIdsAreResolved == Spec => []LocalIdsResolved
<1>1. OutboxInv => LocalIdsResolved
  BY DEF OutboxInv, FlyResolved, Flying, LocalIdsResolved
<1> QED BY <1>1, OutboxInvariant, PTL

-----------------------------------------------------------------------------
(* One mutation scope.  With two neither the order of a lane nor LaneDelivery *)
(* holds: each scope drains its rows by itself.                               *)
OneScope == \A s, u \in Scope : s = u

(* Nothing before c on its lane can still take effect.                     *)
Precedes(d, c) == LaneOf[d] = LaneOf[c] /\ 0 < rowid[d] /\ rowid[d] < rowid[c]
Final == {"acknowledged", "cancelled"}
Clear(c) ==
  /\ state[c] # "none"
  /\ \A d \in Command : Precedes(d, c) => state[d] \in Final

(* What dueMutations finds for one scope is all there is.                  *)
Rows ==
  \A c \in Command : /\ rowid[c] = 0 <=> state[c] = "none"
                     /\ state[c] \notin {"none", "cancelled"} => scope[c] \in Scope

(* While an answer is awaited, nobody but its turn changes the row.        *)
Waiting == \A s \in Scope : pc[s] = "wait" => state[req[s].cmd] = "sending"

(* The rows a loop has read were the first of their lanes, and still are.  *)
Batched ==
  \A s \in Scope : \A c \in batch[s] : state[c] \in {"pending", "cancelled"} /\ Clear(c)

FlyClear == \A r \in Flying : Clear(r.cmd)
AppliedClear == \A c \in Applied : Clear(c)

LaneInv == Rows /\ Waiting /\ Batched /\ FlyClear /\ AppliedClear /\ LaneOrder

(* The loop takes a row of its batch, the first one.                       *)
LEMMA FirstIsIn ==
  ASSUME TypeOK, NEW W \in SUBSET Command, W # {}
  PROVE  First(W) \in W
<1> DEFINE Below(c) == {d \in W : rowid[d] < rowid[c]}
           T == {Below(c) : c \in W}
<1>1. IsWellFoundedOn(StrictSubsetOrdering(Command), SUBSET Command)
  <2>1. IsFiniteSet(Command)
    OBVIOUS
  <2>2. FiniteSubsetsOf(Command) = SUBSET Command
    BY <2>1, FS_FiniteSubsetsOfFinite
  <2>3. IsWellFoundedOn(StrictSubsetOrdering(Command), FiniteSubsetsOf(Command))
    BY FS_StrictSubsetOrderingWellFounded
  <2> QED BY <2>2, <2>3
<1>2. T \subseteq SUBSET Command /\ T # {}
  <2>1. \A c \in W : Below(c) \in SUBSET Command
    OBVIOUS
  <2> HIDE DEF Below
  <2>2. PICK c \in W : TRUE
    OBVIOUS
  <2>3. Below(c) \in T
    OBVIOUS
  <2> QED BY <2>1, <2>3
<1>3. PICK B \in T : \A C \in T : <<C, B>> \notin StrictSubsetOrdering(Command)
  <2> HIDE DEF T
  <2> QED BY <1>1, <1>2, WFMin
<1>4. PICK c \in W : B = Below(c)
  BY <1>3
<1>5. ASSUME NEW d \in W PROVE rowid[c] <= rowid[d]
  <2>1. rowid \in [Command -> Nat]
    BY DEF TypeOK
  <2>2. SUFFICES ASSUME rowid[d] < rowid[c] PROVE FALSE
    BY <2>1
  <2>3. Below(d) \subseteq Below(c) /\ d \in Below(c) /\ d \notin Below(d)
    BY <2>1, <2>2
  <2>4. Below(d) \in T /\ Below(c) \in T
    OBVIOUS
  <2>5. <<Below(d), Below(c)>> \in StrictSubsetOrdering(Command)
    BY <1>2, <2>3, <2>4 DEF StrictSubsetOrdering
  <2> QED BY <1>3, <1>4, <2>4, <2>5
<1> QED BY <1>5 DEF First

LEMMA TakesOne ==
  ASSUME Types, NEW s \in Scope, NEW c \in Command, Takes(s, c)
  PROVE  c \in Work(s) /\ pc[s] = "next"
<1>1. Work(s) \in SUBSET Command /\ Work(s) # {} /\ c = First(Work(s)) /\ pc[s] = "next"
  BY DEF Takes, Work, Due, Types, TypeOK
<1> QED BY <1>1, FirstIsIn DEF Types

----------------------------------------------------------------------------
(* What a step does to the rows.  Quiet: no row is queued, withdrawn or    *)
(* confirmed.                                                              *)
Quiet ==
  /\ UNCHANGED rowid
  /\ \A c \in Command :
       state'[c] = state[c] \/ (state[c] \in Unresolved /\ state'[c] \in Unresolved)

LEMMA WorkRows ==
  ASSUME OutboxInv, LaneInv, NEW s \in Scope, NEW c \in Work(s)
  PROVE  c \in Command /\ state[c] \in {"pending", "cancelled"}
BY DEF OutboxInv, Types, TypeOK, LaneInv, Batched, Work, Due

LEMMA StepShape ==
  ASSUME OutboxInv, LaneInv, [Next]_vars
  PROVE  \/ \E c \in Command, t \in Token : Enqueue(c, t) \/ Cancel(c, t)
         \/ \E s \in Scope : Acknowledge(s)
         \/ Quiet
<1> USE DEF Quiet, Unresolved, vars, store
<1>0. state \in [Command -> States]
  BY DEF OutboxInv, Types, TypeOK
<1>w. ASSUME NEW s \in Scope, pc[s] = "wait"
      PROVE  req[s].cmd \in Command /\ state[req[s].cmd] = "sending"
  BY <1>w DEF OutboxInv, Types, LoopHasToken, Request, LaneInv, Waiting
<1>1. ASSUME NEW c \in Command, NEW t \in Token, Retry(c, t) PROVE Quiet
  BY <1>0, <1>1 DEF Retry
<1>2. ASSUME NEW s \in Scope, NEW c \in Command, Take(s, c) PROVE Quiet
  <2>1. state[c] \in {"pending", "cancelled"}
    BY <1>2, TakesOne, WorkRows DEF OutboxInv, Take, SendConflict, SendSkip, SendWaits, Send
  <2>2. CASE SendConflict(s, c)
    BY <1>0, <2>1, <2>2 DEF SendConflict, Queued
  <2>3. CASE Send(s, c)
    BY <1>0, <2>3 DEF Send
  <2> QED BY <1>2, <2>2, <2>3 DEF Take, SendSkip, SendWaits
<1>3. ASSUME NEW s \in Scope,
             AnswerConflict(s) \/ AnswerUnauthorized(s) \/ AnswerUnavailable(s) \/ Timeout(s)
      PROVE  Quiet
  <2>1. pc[s] = "wait"
    BY <1>3 DEF AnswerConflict, AnswerUnauthorized, AnswerUnavailable, Timeout, Answered
  <2> QED BY <1>0, <1>3, <1>w, <2>1
          DEF AnswerConflict, AnswerUnauthorized, AnswerUnavailable, Timeout, BackOff, Queued
<1>4. CASE Restart
  BY <1>0, <1>4 DEF Restart, Recovered
<1>5. CASE UNCHANGED <<state, rowid>>
  BY <1>5
<1>6. ASSUME NEW s \in Scope,
             \/ StartFlush(s) \/ EndFlush(s) \/ Serve(s) \/ ServeInProgress(s) \/ ServeError(s)
      PROVE  UNCHANGED <<state, rowid>>
  BY <1>6 DEF StartFlush, EndFlush, Serve, ServeApply, ServeReplay, ServeUnauthorized,
              ServeStale, ServeInProgress, ServeError, Respond
<1>7. ASSUME NEW t \in Token, UseToken(t) \/ Expire(t) PROVE UNCHANGED <<state, rowid>>
  BY <1>7 DEF UseToken, Expire
<1>8. ASSUME NEW c \in Command, BackoffElapsed(c) PROVE UNCHANGED <<state, rowid>>
  BY <1>8 DEF BackoffElapsed
<1>9. ASSUME NEW l \in Lane, RefreshCache(l) \/ ForeignChange(l)
      PROVE  UNCHANGED <<state, rowid>>
  BY <1>9 DEF RefreshCache, ForeignChange
<1>10. ASSUME NEW r \in orphans, ServeOrphan(r) PROVE UNCHANGED <<state, rowid>>
  BY <1>10 DEF ServeOrphan
<1>11. ASSUME UNCHANGED vars PROVE UNCHANGED <<state, rowid>>
  BY <1>11
<1> HIDE DEF Quiet, vars
<1> QED
  BY <1>1, <1>2, <1>3, <1>4, <1>5, <1>6, <1>7, <1>8, <1>9, <1>10, <1>11 DEF Next, Handle

(* The steps that are not quiet.                                           *)
LEMMA EnqueueRow ==
  ASSUME OutboxInv, NEW c \in Command, NEW t \in Token, Enqueue(c, t)
  PROVE  /\ state[c] = "none" /\ state'[c] = "pending" /\ scope'[c] \in Scope
         /\ \A d \in Command : rowid[d] < rowid'[c]
         /\ \A d \in Command \ {c} : /\ state'[d] = state[d] /\ rowid'[d] = rowid[d]
                                     /\ scope'[d] = scope[d]
         /\ UNCHANGED history
BY DEF Enqueue, OutboxInv, Types, TypeOK, backend

LEMMA CancelRow ==
  ASSUME OutboxInv, NEW c \in Command, NEW t \in Token, Cancel(c, t)
  PROVE  /\ state[c] \in {"pending", "conflict"} /\ state'[c] = "cancelled" /\ ~tried[c]
         /\ \A d \in Command \ {c} : state'[d] = state[d]
         /\ UNCHANGED <<rowid, history>>
BY DEF Cancel, OutboxInv, Types, TypeOK, backend

LEMMA AcknowledgeRow ==
  ASSUME OutboxInv, LaneInv, NEW s \in Scope, Acknowledge(s)
  PROVE  /\ req[s].cmd \in Command \cap Applied
         /\ state[req[s].cmd] = "sending" /\ state'[req[s].cmd] = "acknowledged"
         /\ \A d \in Command \ {req[s].cmd} : state'[d] = state[d]
         /\ UNCHANGED <<rowid, history>>
<1>1. pc[s] = "wait" /\ req[s].cmd \in Command \cap Applied /\ state[req[s].cmd] = "sending"
  BY DEF Acknowledge, Answered, OutboxInv, Types, LoopHasToken, Request, TrueAnswers, LaneInv,
         Waiting
<1> QED BY <1>1 DEF Acknowledge, Queued, OutboxInv, Types, TypeOK, backend

(* What cannot take effect any more stays so, and nothing slips in before  *)
(* a row that is queued.                                                   *)
LEMMA ClearKept ==
  ASSUME OutboxInv, LaneInv, [Next]_vars, NEW c \in Command, Clear(c)
  PROVE  Clear(c)'
<1>0. \A d \in Command : rowid[d] \in Nat /\ state[d] \in States
  BY DEF OutboxInv, Types, TypeOK
<1>1. ASSUME NEW d \in Command, NEW t \in Token, Enqueue(d, t) PROVE Clear(c)'
  <2>1. c # d
    BY <1>1, EnqueueRow DEF Clear
  <2>a. /\ rowid[c] < rowid'[d] /\ rowid'[c] = rowid[c] /\ rowid'[d] \in Nat
        /\ \A e \in Command \ {d} : rowid'[e] = rowid[e]
    <3>1. Types'
      BY TypesStep DEF OutboxInv
    <3>2. rowid'[d] \in Nat
      BY <3>1 DEF Types, TypeOK
    <3>3. rowid'[c] = rowid[c] /\ rowid[c] < rowid'[d]
      BY <1>1, <2>1, EnqueueRow
    <3>4. \A e \in Command \ {d} : rowid'[e] = rowid[e]
      BY <1>1, EnqueueRow
    <3> QED BY <3>2, <3>3, <3>4
  <2>2. ASSUME NEW e \in Command, Precedes(e, c)' PROVE e # d /\ Precedes(e, c)
    <3>1. LaneOf[e] = LaneOf[c] /\ 0 < rowid'[e] /\ rowid'[e] < rowid[c]
      BY <2>2, <2>a DEF Precedes
    <3>2. e # d
      BY <1>0, <2>a, <3>1
    <3> QED BY <2>a, <3>1, <3>2 DEF Precedes
  <2> QED BY <1>1, <2>1, <2>2, EnqueueRow DEF Clear
<1>2. ASSUME UNCHANGED rowid,
             \A d \in Command : state'[d] = state[d] \/ state'[d] = "cancelled"
                \/ (state[d] \in Unresolved /\ state'[d] \in Unresolved \cup {"acknowledged"})
      PROVE  Clear(c)'
  BY <1>2 DEF Clear, Precedes, Final, Unresolved
<1>3. ASSUME NEW d \in Command, NEW t \in Token, Cancel(d, t) PROVE Clear(c)'
  BY <1>2, <1>3, CancelRow
<1>4. ASSUME NEW s \in Scope, Acknowledge(s) PROVE Clear(c)'
  BY <1>2, <1>4, AcknowledgeRow DEF Unresolved
<1>5. CASE Quiet
  BY <1>2, <1>5 DEF Quiet
<1> QED BY <1>1, <1>3, <1>4, <1>5, StepShape

----------------------------------------------------------------------------
(* The parts of the invariant.                                             *)
LEMMA RowsStep ==
  ASSUME OneScope, OutboxInv, LaneInv, [Next]_vars
  PROVE  Rows'
<1> SUFFICES ASSUME NEW c \in Command
             PROVE  /\ rowid'[c] = 0 <=> state'[c] = "none"
                    /\ state'[c] \notin {"none", "cancelled"} => scope'[c] \in Scope
  BY DEF Rows
<1>0. /\ rowid[c] = 0 <=> state[c] = "none"
      /\ state[c] \notin {"none", "cancelled"} => scope[c] \in Scope
      /\ \A d \in Command : rowid[d] \in Nat
  BY DEF LaneInv, Rows, OutboxInv, Types, TypeOK
<1>1. ASSUME NEW d \in Command, NEW t \in Token, Enqueue(d, t)
      PROVE  rowid'[c] > 0 \/ rowid'[c] = rowid[c]
  <2>1. rowid'[d] \in Nat
    BY TypesStep DEF OutboxInv, Types, TypeOK
  <2>2. rowid[d] < rowid'[d] /\ rowid[d] \in Nat
    BY <1>0, <1>1, EnqueueRow
  <2> QED BY <1>1, <2>1, <2>2, EnqueueRow
<1>2. rowid'[c] = 0 <=> state'[c] = "none"
  <2>1. ASSUME NEW d \in Command, NEW t \in Token, Enqueue(d, t)
        PROVE  rowid'[c] = 0 <=> state'[c] = "none"
    <3>1. rowid'[d] \in Nat /\ rowid[d] < rowid'[d] /\ rowid[d] \in Nat
      BY <1>0, <2>1, EnqueueRow, TypesStep DEF OutboxInv, Types, TypeOK
    <3> QED BY <1>0, <2>1, <3>1, EnqueueRow
  <2>2. ASSUME NEW d \in Command, NEW t \in Token, Cancel(d, t)
        PROVE  rowid'[c] = 0 <=> state'[c] = "none"
    BY <1>0, <2>2, CancelRow
  <2>3. ASSUME NEW s \in Scope, Acknowledge(s)
        PROVE  rowid'[c] = 0 <=> state'[c] = "none"
    BY <1>0, <2>3, AcknowledgeRow
  <2>4. CASE Quiet
    BY <1>0, <2>4 DEF Quiet, Unresolved
  <2> QED BY <2>1, <2>2, <2>3, <2>4, StepShape
<1>3. scope'[c] = scope[c] \/ scope'[c] \in Scope
  <2>1. ASSUME NEW t \in Token, UseToken(t) PROVE scope'[c] = scope[c] \/ scope'[c] \in Scope
    BY <2>1 DEF UseToken
  <2>2. ASSUME NEW d \in Command, NEW t \in Token, Enqueue(d, t)
        PROVE  scope'[c] = scope[c] \/ scope'[c] \in Scope
    BY <2>2, EnqueueRow
  <2>3. ASSUME NEW d \in Command, NEW t \in Token, Cancel(d, t) \/ Retry(d, t)
        PROVE  UNCHANGED scope
    BY <2>3 DEF Cancel, Retry
  <2>4. ASSUME NEW s \in Scope, NEW d \in Command, Take(s, d) PROVE UNCHANGED scope
    BY <2>4 DEF Take, SendConflict, SendSkip, SendWaits, Send, store
  <2>5. ASSUME NEW s \in Scope, Handle(s) \/ Timeout(s) PROVE UNCHANGED scope
    BY <2>5 DEF Handle, Acknowledge, AnswerConflict, AnswerUnauthorized, AnswerUnavailable,
                Timeout
  <2>6. ASSUME NEW s \in Scope,
               \/ StartFlush(s) \/ EndFlush(s) \/ Serve(s) \/ ServeInProgress(s) \/ ServeError(s)
        PROVE  UNCHANGED scope
    BY <2>6 DEF StartFlush, EndFlush, Serve, ServeApply, ServeReplay, ServeUnauthorized,
                ServeStale, ServeInProgress, ServeError, Respond, store
  <2>7. ASSUME NEW d \in Command, BackoffElapsed(d) PROVE UNCHANGED scope
    BY <2>7 DEF BackoffElapsed
  <2>8. ASSUME NEW l \in Lane, RefreshCache(l) \/ ForeignChange(l) PROVE UNCHANGED scope
    BY <2>8 DEF RefreshCache, ForeignChange, store
  <2>9. ASSUME NEW r \in orphans, ServeOrphan(r) PROVE UNCHANGED scope
    BY <2>9 DEF ServeOrphan, store
  <2>10. ASSUME NEW t \in Token, Expire(t) PROVE UNCHANGED scope
    BY <2>10 DEF Expire, store
  <2>11. ASSUME Restart PROVE UNCHANGED scope
    BY <2>11 DEF Restart
  <2>12. ASSUME UNCHANGED vars PROVE UNCHANGED scope
    BY <2>12 DEF vars, store
  <2> QED BY <2>1, <2>2, <2>3, <2>4, <2>5, <2>6, <2>7, <2>8, <2>9, <2>10, <2>11, <2>12 DEF Next
<1>4. state'[c] \notin {"none", "cancelled"} => scope'[c] \in Scope
  <2>1. ASSUME NEW d \in Command, NEW t \in Token, Enqueue(d, t), state[c] = "none"
        PROVE  state'[c] # "none" => scope'[c] \in Scope
    BY <2>1, EnqueueRow
  <2>2. ASSUME state[c] \notin {"none", "cancelled"} PROVE scope'[c] \in Scope
    BY <1>0, <1>3, <2>2
  <2>3. CASE state[c] \in {"none", "cancelled"}
    <3>1. ASSUME NEW d \in Command, NEW t \in Token, Enqueue(d, t)
          PROVE  state'[c] \notin {"none", "cancelled"} => scope'[c] \in Scope
      BY <2>3, <3>1, EnqueueRow
    <3>2. ASSUME NEW d \in Command, NEW t \in Token, Cancel(d, t)
          PROVE  state'[c] \in {"none", "cancelled"}
      BY <2>3, <3>2, CancelRow
    <3>3. ASSUME NEW s \in Scope, Acknowledge(s) PROVE state'[c] \in {"none", "cancelled"}
      BY <2>3, <3>3, AcknowledgeRow
    <3>4. CASE Quiet
      BY <2>3, <3>4 DEF Quiet, Unresolved
    <3> QED BY <3>1, <3>2, <3>3, <3>4, StepShape
  <2> QED BY <2>2, <2>3
<1> QED BY <1>2, <1>4

LEMMA WaitingStep ==
  ASSUME OneScope, OutboxInv, LaneInv, [Next]_vars, NEW s \in Scope, pc'[s] = "wait"
  PROVE  state'[req'[s].cmd] = "sending"
<1> USE DEF vars, store, gateway
<1>0. /\ state \in [Command -> States] /\ pc \in [Scope -> {"idle", "next", "wait"}]
      /\ req \in [Scope -> Request \cup {NoReq}] /\ \A u \in Scope : u = s
      /\ pc[s] = "wait" => req[s].cmd \in Command /\ state[req[s].cmd] = "sending"
  BY DEF OneScope, OutboxInv, Types, TypeOK, LoopHasToken, LaneInv, Waiting, Request
<1> DEFINE Goal == state'[req'[s].cmd] = "sending"
<1>1. ASSUME pc[s] = "wait", req'[s] = req[s],
             \A c \in Command : state[c] = "sending" => state'[c] = "sending"
      PROVE  Goal
  BY <1>0, <1>1
<1>2. ASSUME NEW u \in Scope, NEW c \in Command, Take(u, c) PROVE Goal
  <2>1. CASE Send(u, c)
    BY <1>0, <2>1 DEF Send
  <2>2. CASE SendConflict(u, c) \/ SendSkip(u, c) \/ SendWaits(u, c)
    <3>1. pc' = pc /\ pc[u] = "next"
      BY <2>2 DEF SendConflict, SendSkip, SendWaits, Takes
    <3> QED BY <1>0, <3>1
  <2> QED BY <1>2, <2>1, <2>2 DEF Take
<1>3. ASSUME NEW u \in Scope, Handle(u) \/ Timeout(u) PROVE FALSE
  <2>1. pc' = [pc EXCEPT ![u] = "next"]
    BY <1>3 DEF Handle, Acknowledge, AnswerConflict, AnswerUnauthorized, AnswerUnavailable,
                Answered, Timeout
  <2> QED BY <1>0, <2>1
<1>4. ASSUME Restart PROVE FALSE
  BY <1>4 DEF Restart
<1>5. ASSUME NEW c \in Command, NEW t \in Token, Enqueue(c, t) PROVE Goal
  BY <1>0, <1>1, <1>5 DEF Enqueue
<1>6. ASSUME NEW c \in Command, NEW t \in Token, Cancel(c, t) PROVE Goal
  BY <1>0, <1>1, <1>6 DEF Cancel
<1>7. ASSUME NEW c \in Command, NEW t \in Token, Retry(c, t) PROVE Goal
  <2>1. pc[s] = "wait" /\ req' = req
    BY <1>0, <1>7 DEF Retry
  <2> QED BY <1>0, <1>1, <1>7, <2>1 DEF Retry
<1>8. ASSUME NEW u \in Scope, StartFlush(u) \/ EndFlush(u) PROVE Goal
  <2>1. pc[s] = "wait" /\ UNCHANGED <<req, state>>
    BY <1>0, <1>8 DEF StartFlush, EndFlush
  <2> QED BY <1>1, <2>1
<1>9. ASSUME UNCHANGED <<pc, req, state>> PROVE Goal
  BY <1>1, <1>9
<1>10. ASSUME NEW u \in Scope, Serve(u) \/ ServeInProgress(u) \/ ServeError(u)
       PROVE  UNCHANGED <<pc, req, state>>
  BY <1>10 DEF Serve, ServeApply, ServeReplay, ServeUnauthorized, ServeStale, ServeInProgress,
               ServeError, Respond
<1>11. ASSUME NEW t \in Token, UseToken(t) \/ Expire(t) PROVE UNCHANGED <<pc, req, state>>
  BY <1>11 DEF UseToken, Expire
<1>12. ASSUME NEW c \in Command, BackoffElapsed(c) PROVE UNCHANGED <<pc, req, state>>
  BY <1>12 DEF BackoffElapsed
<1>13. ASSUME NEW l \in Lane, RefreshCache(l) \/ ForeignChange(l)
       PROVE  UNCHANGED <<pc, req, state>>
  BY <1>13 DEF RefreshCache, ForeignChange
<1>14. ASSUME NEW r \in orphans, ServeOrphan(r) PROVE UNCHANGED <<pc, req, state>>
  BY <1>14 DEF ServeOrphan
<1>15. ASSUME UNCHANGED vars PROVE UNCHANGED <<pc, req, state>>
  BY <1>15
<1> HIDE DEF Goal, vars, store, gateway
<1>16. Goal
  BY <1>2, <1>3, <1>4, <1>5, <1>6, <1>7, <1>8, <1>9, <1>10, <1>11, <1>12, <1>13, <1>14, <1>15
     DEF Next
<1> QED BY <1>16 DEF Goal

(* The loop reads and takes only rows with nothing left before them.       *)
LEMMA WorkClear ==
  ASSUME OneScope, OutboxInv, LaneInv, NEW s \in Scope, NEW c \in Work(s)
  PROVE  Clear(c)
<1>1. CASE c \in batch[s]
  BY <1>1 DEF LaneInv, Batched
<1>2. CASE c \in Due(s)
  <2>1. c \in Command /\ state[c] = "pending" /\ scope[c] = s /\ HeadOfLane(c)
    BY <1>2 DEF Due
  <2>2. ASSUME NEW d \in Command, Precedes(d, c) PROVE state[d] \in Final
    <3>1. state[d] # "none" /\ state[d] \in States
      BY <2>2 DEF LaneInv, Rows, Precedes, OutboxInv, Types, TypeOK
    <3>2. state[d] \notin {"none", "cancelled"} => scope[d] = s
      BY DEF LaneInv, Rows, OneScope
    <3>3. state[d] \in Unresolved => scope[d] = scope[c]
      BY <2>1, <3>2 DEF Unresolved
    <3>4. state[d] \notin Unresolved
      BY <2>1, <2>2, <3>3 DEF HeadOfLane, Precedes
    <3> QED BY <3>1, <3>4 DEF States, Unresolved, Final
  <2> QED BY <2>1, <2>2 DEF Clear
<1> QED BY <1>1, <1>2 DEF Work

LEMMA BatchedStep ==
  ASSUME OneScope, OutboxInv, LaneInv, [Next]_vars, NEW s \in Scope, NEW c \in batch'[s]
  PROVE  state'[c] \in {"pending", "cancelled"} /\ Clear(c)'
<1> USE DEF vars, store, gateway
<1>0. /\ state \in [Command -> States] /\ batch \in [Scope -> SUBSET Command]
      /\ \A u \in Scope : \A d \in Work(u) :
           d \in Command /\ state[d] \in {"pending", "cancelled"} /\ Clear(d)
      /\ \A d \in batch[s] : d \in Work(s)
  BY WorkRows, WorkClear DEF OutboxInv, Types, TypeOK, Work
<1>1. ASSUME c \in Work(s), state'[c] \in {"pending", "cancelled"}
      PROVE  state'[c] \in {"pending", "cancelled"} /\ Clear(c)'
  BY <1>0, <1>1, ClearKept
<1>2. ASSUME NEW u \in Scope, NEW d \in Command, Take(u, d)
      PROVE  c \in Work(s) /\ state'[c] = state[c]
  <2>1. u = s /\ batch' = [batch EXCEPT ![s] = Work(s) \ {d}]
    BY <1>2 DEF OneScope, Take, SendConflict, SendSkip, SendWaits, Send, Takes
  <2>2. c \in Work(s) /\ c # d /\ c \in Command
    BY <1>0, <2>1
  <2> QED BY <1>0, <1>2, <2>2 DEF Take, SendConflict, SendSkip, SendWaits, Send
<1>3. ASSUME NEW u \in Scope, EndFlush(u) PROVE c \in batch[s] /\ state' = state
  BY <1>0, <1>3 DEF EndFlush
<1>4. ASSUME Restart PROVE FALSE
  BY <1>4 DEF Restart
<1>5. ASSUME NEW u \in Scope, Handle(u) \/ Timeout(u)
      PROVE  c \in batch[s] /\ state'[c] = state[c]
  <2>1. pc[u] = "wait" /\ batch' = batch
    BY <1>5 DEF Handle, Acknowledge, AnswerConflict, AnswerUnauthorized, AnswerUnavailable,
                Answered, Timeout
  <2>2. state[req[u].cmd] = "sending" /\ c # req[u].cmd /\ c \in Command
    BY <1>0, <2>1 DEF LaneInv, Waiting
  <2>3. state'[c] = state[c]
    BY <1>0, <1>5, <2>2 DEF Handle, Acknowledge, AnswerConflict, AnswerUnauthorized,
                            AnswerUnavailable, BackOff, Timeout
  <2> QED BY <2>1, <2>3
<1>6. ASSUME NEW d \in Command, NEW t \in Token, Enqueue(d, t)
      PROVE  c \in batch[s] /\ state'[c] = state[c]
  BY <1>0, <1>6 DEF Enqueue
<1>7. ASSUME NEW d \in Command, NEW t \in Token, Cancel(d, t) \/ Retry(d, t)
      PROVE  c \in batch[s] /\ state'[c] \in {state[c], "pending", "cancelled"}
  BY <1>0, <1>7 DEF Cancel, Retry
<1>8. CASE UNCHANGED <<batch, state>>
  BY <1>0, <1>1, <1>8
<1>9. ASSUME NEW u \in Scope, \/ StartFlush(u) \/ Serve(u) \/ ServeInProgress(u) \/ ServeError(u)
      PROVE  UNCHANGED <<batch, state>>
  BY <1>9 DEF StartFlush, Serve, ServeApply, ServeReplay, ServeUnauthorized, ServeStale,
              ServeInProgress, ServeError, Respond
<1>10. ASSUME NEW t \in Token, UseToken(t) \/ Expire(t) PROVE UNCHANGED <<batch, state>>
  BY <1>10 DEF UseToken, Expire
<1>11. ASSUME NEW d \in Command, BackoffElapsed(d) PROVE UNCHANGED <<batch, state>>
  BY <1>11 DEF BackoffElapsed
<1>12. ASSUME NEW l \in Lane, RefreshCache(l) \/ ForeignChange(l)
       PROVE  UNCHANGED <<batch, state>>
  BY <1>12 DEF RefreshCache, ForeignChange
<1>13. ASSUME NEW r \in orphans, ServeOrphan(r) PROVE UNCHANGED <<batch, state>>
  BY <1>13 DEF ServeOrphan
<1>14. ASSUME UNCHANGED vars PROVE UNCHANGED <<batch, state>>
  BY <1>14
<1> HIDE DEF vars
<1>15. \/ c \in Work(s) /\ state'[c] \in {state[c], "pending", "cancelled"}
       \/ UNCHANGED <<batch, state>>
  BY <1>0, <1>2, <1>3, <1>4, <1>5, <1>6, <1>7, <1>9, <1>10, <1>11, <1>12, <1>13, <1>14 DEF Next
<1> QED BY <1>0, <1>1, <1>8, <1>15

(* Whatever may still take effect, or has, has nothing left before it.     *)
LEMMA FlyCommand ==
  ASSUME OutboxInv, NEW r \in Flying
  PROVE  r.cmd \in Command
BY DEF OutboxInv, Types, TypeOK, LoopHasToken, Flying, Request

LEMMA FlyClearStep ==
  ASSUME OneScope, OutboxInv, LaneInv, [Next]_vars, NEW r \in Flying'
  PROVE  Clear(r.cmd)'
<1>1. Types
  BY DEF OutboxInv
<1>2. \/ r \in Flying
      \/ \E s \in Scope, c \in Command :
           Send(s, c) /\ r = [cmd |-> c, exp |-> base[c], tok |-> auth[s]]
  BY <1>1, FlyingStep
<1>3. CASE r \in Flying
  <2>1. r.cmd \in Command /\ Clear(r.cmd)
    BY <1>3, FlyCommand DEF LaneInv, FlyClear
  <2>2. \A c \in Command : c = r.cmd => Clear(c)'
    BY <2>1, ClearKept
  <2>3. PICK c \in Command : c = r.cmd
    BY <2>1
  <2> QED BY <2>2, <2>3 DEF Clear, Precedes
<1>4. ASSUME NEW s \in Scope, NEW c \in Command, Send(s, c), r.cmd = c
      PROVE  Clear(r.cmd)'
  <2>1. Takes(s, c)
    BY <1>4 DEF Send
  <2>2. Clear(c)
    BY <1>1, <2>1, TakesOne, WorkClear
  <2>3. Clear(c)'
    BY <2>2, ClearKept
  <2> QED BY <1>4, <2>3 DEF Clear, Precedes
<1> QED BY <1>2, <1>3, <1>4

LEMMA AppliedClearStep ==
  ASSUME OneScope, OutboxInv, LaneInv, [Next]_vars, NEW c \in Applied'
  PROVE  Clear(c)'
<1>1. c \in Command /\ (c \in Applied \/ \E r \in Flying : r.cmd = c)
  <2>1. Types
    BY DEF OutboxInv
  <2> QED BY <2>1, AppliedStep DEF Applied
<1>2. Clear(c)
  BY <1>1 DEF LaneInv, FlyClear, AppliedClear
<1> QED BY <1>1, <1>2, ClearKept

----------------------------------------------------------------------------
(* The order of effects.                                                   *)
LEMMA ChosenIndex ==
  \A h, x : \A i \in 1..Len(h) :
    (h[i] = x /\ \A j \in 1..Len(h) : h[j] = x => j = i)
      => (CHOOSE j \in 1..Len(h) : h[j] = x) = i
OBVIOUS

(* A row that is queued comes after all others, so what precedes an old    *)
(* row preceded it before.                                                 *)
LEMMA PrecededBefore ==
  ASSUME OutboxInv, LaneInv, [Next]_vars,
         NEW c \in Command, state[c] # "none", NEW d \in Command, Precedes(d, c)'
  PROVE  Precedes(d, c)
<1>0. rowid \in [Command -> Nat] /\ rowid' \in [Command -> Nat]
  <2>1. Types'
    BY TypesStep DEF OutboxInv
  <2> QED BY <2>1 DEF OutboxInv, Types, TypeOK
<1>1. ASSUME NEW e \in Command, NEW t \in Token, Enqueue(e, t) PROVE Precedes(d, c)
  <2>1. c # e
    BY <1>1, EnqueueRow
  <2>2. rowid'[c] = rowid[c] /\ rowid[c] < rowid'[e]
    BY <1>1, <2>1, EnqueueRow
  <2>3. d # e
    BY <1>0, <2>2 DEF Precedes
  <2>4. rowid'[d] = rowid[d]
    BY <1>1, <2>3, EnqueueRow
  <2> QED BY <2>2, <2>4 DEF Precedes
<1>2. ASSUME UNCHANGED rowid PROVE Precedes(d, c)
  BY <1>2 DEF Precedes
<1>3. ASSUME NEW e \in Command, NEW t \in Token, Cancel(e, t) PROVE UNCHANGED rowid
  BY <1>3, CancelRow
<1>4. ASSUME NEW s \in Scope, Acknowledge(s) PROVE UNCHANGED rowid
  BY <1>4, AcknowledgeRow
<1>5. Quiet => UNCHANGED rowid
  BY DEF Quiet
<1> QED BY <1>1, <1>2, <1>3, <1>4, <1>5, StepShape

LEMMA CancelledKept ==
  ASSUME OutboxInv, LaneInv, [Next]_vars, NEW c \in Command, state[c] = "cancelled"
  PROVE  state'[c] = "cancelled"
<1>1. ASSUME NEW d \in Command, NEW t \in Token, Enqueue(d, t) \/ Cancel(d, t)
      PROVE  state'[c] = "cancelled"
  BY <1>1, EnqueueRow, CancelRow
<1>2. ASSUME NEW s \in Scope, Acknowledge(s) PROVE state'[c] = "cancelled"
  BY <1>2, AcknowledgeRow
<1>3. CASE Quiet
  BY <1>3 DEF Quiet, Unresolved
<1> QED BY <1>1, <1>2, <1>3, StepShape

LEMMA LaneOrderStep ==
  ASSUME OneScope, OutboxInv, LaneInv, [Next]_vars
  PROVE  LaneOrder'
<1> SUFFICES ASSUME NEW c \in Applied', NEW d \in Command, Precedes(d, c)',
                    state'[d] # "cancelled"
             PROVE  d \in Applied' /\ IndexOf(d)' < IndexOf(c)'
  BY DEF LaneOrder, Precedes
<1> DEFINE l == LaneOf[c]
<1>0. c \in Command /\ l \in Lane /\ LaneOf[d] = l /\ c # Foreign /\ d # Foreign
  BY DEF Applied, Precedes
<1>1. OutboxInv'
  BY OutboxStep
<1>2. state'[d] = "acknowledged"
  BY AppliedClearStep DEF Clear, Final
<1>3. d \in Applied'
  BY <1>1, <1>2 DEF OutboxInv, Acknowledged
<1>4. PICK h : h = history[l]
  OBVIOUS
<1>5. PICK g : g = history'[l]
  OBVIOUS
<1>6. h \in Seq(Command \cup {Foreign}) /\ g \in Seq(Command \cup {Foreign})
  BY <1>0, <1>1, <1>4, <1>5 DEF OutboxInv, Types, TypeOK
<1>7. PICK i \in 1..Len(g) : g[i] = c
  BY <1>0, <1>5 DEF Applied
<1>8. PICK j \in 1..Len(g) : g[j] = d
  BY <1>0, <1>3, <1>5 DEF Applied
<1>9. \A k, m \in 1..Len(g) : (g[k] = c /\ g[m] = c) \/ (g[k] = d /\ g[m] = d) => k = m
  BY <1>0, <1>1, <1>5 DEF OutboxInv, AppliedOnce
<1>10. IndexOf(c)' = i /\ IndexOf(d)' = j
  <2>1. (CHOOSE k \in 1..Len(g) : g[k] = c) = i
    BY <1>7, <1>9, ChosenIndex
  <2>2. (CHOOSE k \in 1..Len(g) : g[k] = d) = j
    BY <1>8, <1>9, ChosenIndex
  <2> QED BY <1>0, <1>5, <2>1, <2>2 DEF IndexOf
<1>11. c # d
  <2>1. rowid'[d] < rowid'[c] /\ rowid' \in [Command -> Nat]
    BY <1>1 DEF Precedes, OutboxInv, Types, TypeOK
  <2> QED BY <1>0, <2>1
<1>12. g = h \/ \E x : g = Append(h, x)
  <2>1. Types
    BY DEF OutboxInv
  <2> QED BY <1>0, <1>4, <1>5, <2>1, HistoryStep
<1>13. CASE i \in 1..Len(h) /\ h[i] = c
  <2>1. c \in Applied
    BY <1>0, <1>4, <1>13 DEF Applied
  <2>2. Precedes(d, c)
    BY <1>0, <2>1, PrecededBefore DEF LaneInv, AppliedClear, Clear
  <2>3. d \in Applied /\ IndexOf(d) < IndexOf(c)
    BY <2>1, <2>2, CancelledKept DEF LaneInv, LaneOrder, Precedes
  <2>4. PICK k \in 1..Len(h) : h[k] = d
    BY <1>0, <1>4, <2>3 DEF Applied
  <2>5. k = j
    BY <1>6, <1>8, <1>9, <1>12, <2>4
  <2>6. \A m, n \in 1..Len(h) : (h[m] = c /\ h[n] = c) \/ (h[m] = d /\ h[n] = d) => m = n
    BY <1>0, <1>4 DEF OutboxInv, AppliedOnce
  <2>7. (CHOOSE m \in 1..Len(h) : h[m] = c) = i /\ (CHOOSE m \in 1..Len(h) : h[m] = d) = k
    BY <1>13, <2>4, <2>6, ChosenIndex
  <2>8. IndexOf(c) = i /\ IndexOf(d) = k
    BY <1>0, <1>4, <2>7 DEF IndexOf
  <2> QED BY <1>3, <1>10, <2>3, <2>5, <2>8
<1>14. CASE ~(i \in 1..Len(h) /\ h[i] = c)
  <2>1. g # h
    BY <1>7, <1>14
  <2>2. PICK x : g = Append(h, x)
    BY <1>12, <2>1
  <2>3. Len(g) = Len(h) + 1 /\ \A m \in 1..Len(h) : g[m] = h[m]
    BY <1>6, <2>2
  <2>4. i = Len(g)
    BY <1>6, <1>7, <1>14, <2>3
  <2>5. j # i
    BY <1>7, <1>8, <1>11
  <2> QED BY <1>3, <1>6, <1>10, <2>4, <2>5
<1> QED BY <1>13, <1>14

----------------------------------------------------------------------------
LEMMA LaneInit == Init => LaneInv
<1> SUFFICES ASSUME Init PROVE LaneInv
  OBVIOUS
<1>1. Flying = {} /\ Applied = {}
  BY DEF Init, Flying, Applied
<1>2. Rows /\ Waiting /\ Batched
  BY DEF Init, Rows, Waiting, Batched
<1> QED BY <1>1, <1>2 DEF LaneInv, FlyClear, AppliedClear, LaneOrder

LEMMA LaneStep == OneScope /\ OutboxInv /\ LaneInv /\ [Next]_vars => LaneInv'
<1> SUFFICES ASSUME OneScope, OutboxInv, LaneInv, [Next]_vars PROVE LaneInv'
  OBVIOUS
<1>1. Rows'
  BY RowsStep
<1>2. Waiting'
  BY WaitingStep DEF Waiting
<1>3. Batched'
  BY BatchedStep DEF Batched
<1>4. FlyClear'
  BY FlyClearStep DEF FlyClear
<1>5. AppliedClear'
  BY AppliedClearStep DEF AppliedClear
<1>6. LaneOrder'
  BY LaneOrderStep
<1> QED BY <1>1, <1>2, <1>3, <1>4, <1>5, <1>6 DEF LaneInv

LEMMA LaneInvariant ==
  ASSUME OneScope
  PROVE  Spec => [](OutboxInv /\ LaneInv)
<1>1. Init => OutboxInv /\ LaneInv
  BY OutboxInit, LaneInit
<1>2. (OutboxInv /\ LaneInv) /\ [Next]_vars => (OutboxInv /\ LaneInv)'
  BY OutboxStep, LaneStep
<1> QED BY <1>1, <1>2, PTL DEF Spec

(* The backend applies the commands of a lane in the order in which they   *)
(* were queued, when the actor's tokens share one mutation scope.          *)
THEOREM LaneOrderHolds ==
  ASSUME OneScope
  PROVE  Spec => []LaneOrder
<1>1. LaneInv => LaneOrder
  BY DEF LaneInv
<1> QED BY <1>1, LaneInvariant, PTL

----------------------------------------------------------------------------
(* Refinement of LaneDelivery.                                             *)
LEMMA AppendOther ==
  ASSUME NEW S, NEW h \in Seq(S), NEW x \in S, NEW y, x # y,
         NEW g, g = h \/ g = Append(h, x),
         NEW i \in 1..Len(g), g[i] = y
  PROVE  i \in 1..Len(h) /\ h[i] = y
<1>1. CASE g = h
  BY <1>1
<1>2. CASE g = Append(h, x)
  <2>1. Len(h) \in Nat /\ Len(g) = Len(h) + 1 /\ g[Len(h) + 1] = x
    BY <1>2
  <2>2. i \in 1..Len(h)
    BY <2>1
  <2> QED BY <1>2, <2>2
<1> QED BY <1>1, <1>2

LEMMA EffectStep ==
  ASSUME OneScope, OutboxInv, LaneInv, Quiet, [Next]_vars
  PROVE  [Promise!Deliver]_(Promise!delivery)
<1>0. /\ UNCHANGED rowid
      /\ {c \in Command : state[c] = "cancelled"}' = {c \in Command : state[c] = "cancelled"}
      /\ {c \in Command : state[c] = "acknowledged"}'
           = {c \in Command : state[c] = "acknowledged"}
  BY DEF Quiet, Unresolved
<1>1. Types
  BY DEF OutboxInv
<1>2. ASSUME Applied' = Applied PROVE UNCHANGED Promise!delivery
  BY <1>0, <1>2 DEF Promise!delivery
<1>3. CASE UNCHANGED history
  BY <1>2, <1>3 DEF Applied
<1>4. ASSUME NEW m \in Lane, history' = [history EXCEPT ![m] = Append(@, Foreign)]
      PROVE  Applied' = Applied
  <2>1. history \in [Lane -> Seq(Command \cup {Foreign})]
    BY <1>1 DEF Types, TypeOK
  <2>2. Applied \subseteq Applied'
    BY <1>1, AppliedStep
  <2>3. ASSUME NEW c \in Applied' PROVE c \in Applied
    <3>1. c \in Command /\ LaneOf[c] \in Lane /\ c # Foreign
      BY DEF Applied
    <3>2. PICK i \in 1..Len(history'[LaneOf[c]]) : history'[LaneOf[c]][i] = c
      BY DEF Applied
    <3>3. \/ history'[LaneOf[c]] = history[LaneOf[c]]
          \/ history'[LaneOf[c]] = Append(history[LaneOf[c]], Foreign)
      BY <1>4, <2>1, <3>1
    <3>4. i \in 1..Len(history[LaneOf[c]]) /\ history[LaneOf[c]][i] = c
      <4>1. PICK g : g = history'[LaneOf[c]]
        OBVIOUS
      <4>2. history[LaneOf[c]] \in Seq(Command \cup {Foreign})
        BY <2>1, <3>1
      <4>3. i \in 1..Len(g) /\ g[i] = c
        BY <3>2, <4>1
      <4>4. g = history[LaneOf[c]] \/ g = Append(history[LaneOf[c]], Foreign)
        BY <3>3, <4>1
      <4> QED BY <3>1, <4>2, <4>3, <4>4, AppendOther
    <3> QED BY <3>1, <3>4 DEF Applied
  <2> QED BY <2>2, <2>3
<1>5. ASSUME NEW r \in Flying, r.cmd \notin Applied, Apply(r)
      PROVE  \E c \in Command : Promise!TakeEffect(c)
  <2>1. PICK c \in Command : c = r.cmd
    BY FlyCommand
  <2>2. history \in [Lane -> Seq(Command \cup {Foreign})] /\ rowid \in [Command -> Nat]
    BY <1>1 DEF Types, TypeOK
  <2>3. Applied' = Applied \cup {c}
    <3>1. Applied \subseteq Applied'
      BY <1>1, AppliedStep
    <3>2. history' = [history EXCEPT ![LaneOf[c]] = Append(@, c)] /\ LaneOf[c] \in Lane
      BY <1>5, <2>1 DEF Apply
    <3>3. history'[LaneOf[c]] = Append(history[LaneOf[c]], c)
      BY <2>2, <3>2
    <3>4. Len(history'[LaneOf[c]]) \in 1..Len(history'[LaneOf[c]])
          /\ history'[LaneOf[c]][Len(history'[LaneOf[c]])] = c
      BY <2>2, <3>2, <3>3
    <3>5. c \in Applied'
      BY <3>4 DEF Applied
    <3>6. ASSUME NEW d \in Applied', d # c PROVE d \in Applied
      <4>1. d \in Command /\ LaneOf[d] \in Lane
        BY DEF Applied
      <4>2. PICK i \in 1..Len(history'[LaneOf[d]]) : history'[LaneOf[d]][i] = d
        BY DEF Applied
      <4>3. \/ history'[LaneOf[d]] = history[LaneOf[d]]
            \/ history'[LaneOf[d]] = Append(history[LaneOf[d]], c)
        BY <2>2, <3>2, <4>1
      <4>4. i \in 1..Len(history[LaneOf[d]]) /\ history[LaneOf[d]][i] = d
        <5>1. PICK g : g = history'[LaneOf[d]]
          OBVIOUS
        <5>2. history[LaneOf[d]] \in Seq(Command \cup {Foreign})
          BY <2>2, <4>1
        <5>3. i \in 1..Len(g) /\ g[i] = d
          BY <4>2, <5>1
        <5>4. g = history[LaneOf[d]] \/ g = Append(history[LaneOf[d]], c)
          BY <4>3, <5>1
        <5> QED BY <3>6, <5>2, <5>3, <5>4, AppendOther
      <4> QED BY <4>1, <4>4 DEF Applied
    <3> QED BY <3>1, <3>5, <3>6
  <2>4. Clear(c)
    BY <2>1 DEF LaneInv, FlyClear
  <2>5. rowid[c] > 0
    BY <2>2, <2>4 DEF LaneInv, Rows, Clear
  <2>6. state[c] # "cancelled" /\ c \notin Applied
    BY <1>5, <2>1 DEF OutboxInv, Unsent, Untried
  <2>7. ASSUME NEW d \in Command, Precedes(d, c)
        PROVE  state[d] = "cancelled" \/ d \in Applied
    BY <2>4, <2>7 DEF Clear, Final, OutboxInv, Acknowledged
  <2>8. Promise!Ahead(c) \subseteq {d \in Command : state[d] = "cancelled"} \cup Applied
    BY <2>7 DEF Promise!Ahead, Precedes
  <2>9. Promise!TakeEffect(c)
    BY <1>0, <2>3, <2>5, <2>6, <2>8 DEF Promise!TakeEffect
  <2> QED BY <2>9
<1> QED BY <1>1, <1>2, <1>3, <1>4, <1>5, HistoryShape DEF Promise!Deliver

LEMMA PromiseStart == Init => Promise!Start
<1> SUFFICES ASSUME Init PROVE Promise!Start
  OBVIOUS
<1>1. Applied = {}
  BY DEF Init, Applied
<1>2. /\ rowid = [c \in Command |-> 0]
      /\ \A c \in Command : state[c] = "none"
  BY DEF Init
<1> QED BY <1>1, <1>2 DEF Promise!Start

LEMMA PromiseStep ==
  OneScope /\ OutboxInv /\ LaneInv /\ [Next]_vars => [Promise!Deliver]_(Promise!delivery)
<1> SUFFICES ASSUME OneScope, OutboxInv, LaneInv, [Next]_vars
             PROVE  [Promise!Deliver]_(Promise!delivery)
  OBVIOUS
<1>0. state \in [Command -> States] /\ rowid \in [Command -> Nat]
  BY DEF OutboxInv, Types, TypeOK
<1>1. ASSUME NEW c \in Command, NEW t \in Token, Enqueue(c, t) PROVE Promise!QueueUp(c)
  <2>1. state[c] = "none" /\ state'[c] = "pending" /\ UNCHANGED history
        /\ \A d \in Command \ {c} : state'[d] = state[d]
    BY <1>1, EnqueueRow
  <2>2. rowid[c] = 0
    BY <2>1 DEF LaneInv, Rows
  <2>3. \E n \in {rowid[d] + 1 : d \in Command} :
          (\A d \in Command : rowid[d] < n) /\ rowid' = [rowid EXCEPT ![c] = n]
    BY <1>1 DEF Enqueue
  <2>4. Applied' = Applied
    BY <2>1 DEF Applied
  <2>5. /\ {d \in Command : state[d] = "cancelled"}' = {d \in Command : state[d] = "cancelled"}
        /\ {d \in Command : state[d] = "acknowledged"}'
             = {d \in Command : state[d] = "acknowledged"}
    BY <2>1
  <2> QED BY <2>2, <2>3, <2>4, <2>5 DEF Promise!QueueUp
<1>2. ASSUME NEW c \in Command, NEW t \in Token, Cancel(c, t) PROVE Promise!Withdraw(c)
  <2>1. /\ state[c] \in {"pending", "conflict"} /\ state'[c] = "cancelled" /\ ~tried[c]
        /\ \A d \in Command \ {c} : state'[d] = state[d]
        /\ UNCHANGED <<rowid, history>>
    BY <1>2, CancelRow
  <2>2. rowid[c] > 0 /\ c \notin Applied
    BY <1>0, <2>1 DEF LaneInv, Rows, OutboxInv, Untried
  <2>3. Applied' = Applied
    BY <2>1 DEF Applied
  <2>4. /\ {d \in Command : state[d] = "cancelled"}'
             = {d \in Command : state[d] = "cancelled"} \cup {c}
        /\ {d \in Command : state[d] = "acknowledged"}'
             = {d \in Command : state[d] = "acknowledged"}
    BY <2>1
  <2> QED BY <2>1, <2>2, <2>3, <2>4 DEF Promise!Withdraw
<1>3. ASSUME NEW s \in Scope, Acknowledge(s) PROVE \E c \in Command : Promise!Confirm(c)
  <2>1. PICK c \in Command : c = req[s].cmd
    BY <1>3, AcknowledgeRow
  <2>2. /\ c \in Applied /\ state[c] = "sending" /\ state'[c] = "acknowledged"
        /\ \A d \in Command \ {c} : state'[d] = state[d]
        /\ UNCHANGED <<rowid, history>>
    BY <1>3, <2>1, AcknowledgeRow
  <2>3. Applied' = Applied
    BY <2>2 DEF Applied
  <2>4. /\ {d \in Command : state[d] = "cancelled"}' = {d \in Command : state[d] = "cancelled"}
        /\ {d \in Command : state[d] = "acknowledged"}'
             = {d \in Command : state[d] = "acknowledged"} \cup {c}
    BY <2>2
  <2>5. Promise!Confirm(c)
    BY <2>2, <2>3, <2>4 DEF Promise!Confirm
  <2> QED BY <2>5
<1>4. CASE Quiet
  BY <1>4, EffectStep
<1> QED BY <1>1, <1>2, <1>3, <1>4, StepShape DEF Promise!Deliver

(* With one mutation scope the offline queue implements LaneDelivery:      *)
(* whatever is lost, repeated, refused or killed on the way, each step     *)
(* queues, withdraws, makes effective or confirms one command as           *)
(* LaneDelivery allows it, or changes nothing the user was promised.       *)
THEOREM ImplementsLaneDelivery ==
  ASSUME OneScope
  PROVE  Spec => ImplementsDelivery
<1>1. Init => Promise!Start
  BY PromiseStart
<1>2. (OutboxInv /\ LaneInv) /\ [Next]_vars => [Promise!Deliver]_(Promise!delivery)
  BY PromiseStep
<1> QED BY <1>1, <1>2, LaneInvariant, PTL DEF Spec, ImplementsDelivery, Promise!Delivery
============================================================================
