--------------------------- MODULE DesktopOutbox ---------------------------
(***************************************************************************)
(* The offline command queue of the desktop gateway: the mutation_outbox   *)
(* and local_id_map tables of apps/desktop/src/store.ts, the replay loop   *)
(* of apps/desktop/src/gateway.ts that drains them, and the part of the    *)
(* backend the replay depends on (idempotency keys and order versions).    *)
(*                                                                         *)
(* One desktop, one actor, one branch.  The actor may hold several access  *)
(* tokens; two tokens of the same actor have different mutation scopes     *)
(* when their global flag differs (DesktopStore.mutationScope).            *)
(*                                                                         *)
(* A lane is what dueMutations serialises on: (aggregate type, aggregate   *)
(* id).  The backend keeps one history per lane; the version of an order,  *)
(* ticket or delivery is the length of that history.                       *)
(***************************************************************************)
EXTENDS Naturals, Sequences, FiniteSets

CONSTANTS
  Command,      \* idempotency keys of the commands the actor may queue
  Lane,         \* aggregates
  LaneOf,       \* LaneOf[c]: the aggregate of c's outbox row
  Touches,      \* Touches[c]: the aggregates named by c's row, URL or body
  Creates,      \* commands that create their aggregate under a local id
  Versioned,    \* lanes whose commands carry expectedVersion
  Reconciled,   \* the versioned lanes whose cached copy an answer updates
  Cancellable,  \* order.status.update, order.action, order.items.update
  Token,        \* access tokens of the actor
  Scope,        \* mutation scopes
  ScopeOf,      \* ScopeOf[t]: DesktopStore.mutationScope of the token
  Employee,
  EmployeeOf,   \* EmployeeOf[t]: the employeeId claim of the token
  NoToken, NoScope, NoEmployee, NoCommand, Foreign,
  MaxForeign,   \* bound: changes by other devices, over all lanes
  MaxFaults     \* bound: lost answers, error answers, desktop restarts
                \* and sessions that end

ASSUME OutboxConstants ==
  /\ IsFiniteSet(Command)
  /\ LaneOf \in [Command -> Lane]
  /\ Touches \in [Command -> SUBSET Lane]
  /\ \A c \in Command : LaneOf[c] \in Touches[c]
  /\ Creates \subseteq Command
  /\ \A c, d \in Creates : LaneOf[c] = LaneOf[d] => c = d
  /\ Versioned \subseteq Lane
  /\ Reconciled \subseteq Versioned
  /\ Cancellable \subseteq Command \ Creates
  /\ ScopeOf \in [Token -> Scope]
  /\ EmployeeOf \in [Token -> Employee]
  /\ NoToken \notin Token
  /\ NoEmployee \notin Employee
  /\ NoScope \notin Scope
  /\ NoCommand \notin Command
  /\ Foreign \notin Command
  /\ MaxForeign \in Nat
  /\ MaxFaults \in Nat

VARIABLES
  \* mutation_outbox and local_id_map: durable
  state, rowid, scope, owner, base, tried, delayed, mapped,
  \* gateway memory: lost when the desktop stops
  active, blocked, adopted, pc, auth, batch, req, reply,
  \* the api_cache row of each aggregate: the version the actor looks at
  known,
  \* the backend, and requests the desktop no longer waits for
  history, orphans, expired,
  \* bound, and history variable: foreign changes seen when c was queued
  faults, seen

store   == <<state, rowid, scope, owner, base, tried, delayed, mapped>>
gateway == <<active, blocked, adopted, pc, auth, batch, req, reply>>
backend == <<history, expired>>
vars == <<store, gateway, backend, known, orphans, faults, seen>>

States == {"none", "pending", "sending", "acknowledged", "conflict", "cancelled"}
Unresolved == {"pending", "sending", "conflict"}

NoReq == [cmd |-> NoCommand, exp |-> 0, tok |-> NoToken]
Request == [cmd : Command, exp : Nat, tok : Token]
NoReply == [kind |-> "none", ver |-> 0]
Answers == {"ok", "conflict", "unavailable", "unauthorized"}

TypeOK ==
  /\ state \in [Command -> States]
  /\ rowid \in [Command -> Nat]
  /\ scope \in [Command -> Scope \cup {NoScope}]
  /\ owner \in [Command -> Employee \cup {NoEmployee}]
  /\ base \in [Command -> Nat]
  /\ tried \in [Command -> BOOLEAN]
  /\ delayed \subseteq Command
  /\ mapped \in [Command -> Scope \cup {NoScope}]
  /\ active \in [Scope -> Token \cup {NoToken}]
  /\ blocked \subseteq Scope
  /\ adopted \subseteq Scope
  /\ pc \in [Scope -> {"idle", "next", "wait"}]
  /\ auth \in [Scope -> Token \cup {NoToken}]
  /\ batch \in [Scope -> SUBSET Command]
  /\ req \in [Scope -> Request \cup {NoReq}]
  /\ reply \in [Scope -> [kind : Answers, ver : Nat] \cup {NoReply}]
  /\ known \in [Lane -> Nat]
  /\ history \in [Lane -> Seq(Command \cup {Foreign})]
  /\ orphans \subseteq Request
  /\ expired \subseteq Token
  /\ faults \in 0..MaxFaults
  /\ seen \in [Command -> Nat]

----------------------------------------------------------------------------
(* The backend's view. *)

Applied == {c \in Command : \E i \in 1..Len(history[LaneOf[c]]) :
                               history[LaneOf[c]][i] = c}
Version(l) == Len(history[l])
ForeignUpTo(l, n) == Cardinality({i \in 1..n : i <= Version(l) /\ history[l][i] = Foreign})
IndexOf(c) == CHOOSE i \in 1..Len(history[LaneOf[c]]) : history[LaneOf[c]][i] = c

(* A lane exists on the backend unless a queued command still has to       *)
(* create it.                                                              *)
LocalLane(l) == \E c \in Creates : LaneOf[c] = l
Exists(l) == LocalLane(l) => history[l] # <<>>

----------------------------------------------------------------------------
(* The outbox's queries. *)

Queued(c) == state[c] # "none" /\ state[c] # "cancelled"

\* Mutant: conflicts no longer hold back the lane.
HeadOfLaneDespiteConflict(c) ==
  ~ \E d \in Command : /\ state[d] \in {"pending", "sending"}
                       /\ scope[d] = scope[c]
                       /\ LaneOf[d] = LaneOf[c]
                       /\ rowid[d] < rowid[c]

(* dueMutations: an unresolved earlier row of the lane, in any of the      *)
(* states pending, sending, conflict (and dead_letter, which no code sets),*)
(* holds back the later ones of the same scope.                            *)
HeadOfLane(c) ==
  ~ \E d \in Command : /\ state[d] \in Unresolved
                       /\ scope[d] = scope[c]
                       /\ LaneOf[d] = LaneOf[c]
                       /\ rowid[d] < rowid[c]

Due(s) == {c \in Command : /\ state[c] = "pending"
                           /\ scope[c] = s
                           /\ c \notin delayed
                           /\ HeadOfLane(c)}

\* Mutant: a row is sent without waiting for the local ids it names.
ResolvedAlways(c, s) == TRUE

(* resolveLocalReferences under the scope the batch was read for. *)
References(c) == {d \in Creates \ {c} : LaneOf[d] \in Touches[c]}
Resolved(c, s) == \A d \in References(c) : mapped[d] = s

First(C) == CHOOSE c \in C : \A d \in C : rowid[c] <= rowid[d]

----------------------------------------------------------------------------
Init ==
  /\ state = [c \in Command |-> "none"]
  /\ rowid = [c \in Command |-> 0]
  /\ scope = [c \in Command |-> NoScope]
  /\ owner = [c \in Command |-> NoEmployee]
  /\ base = [c \in Command |-> 0]
  /\ tried = [c \in Command |-> FALSE]
  /\ delayed = {}
  /\ mapped = [c \in Command |-> NoScope]
  /\ active = [s \in Scope |-> NoToken]
  /\ blocked = {}
  /\ adopted = {}
  /\ pc = [s \in Scope |-> "idle"]
  /\ auth = [s \in Scope |-> NoToken]
  /\ batch = [s \in Scope |-> {}]
  /\ req = [s \in Scope |-> NoReq]
  /\ reply = [s \in Scope |-> NoReply]
  /\ known = [l \in Lane |-> 0]
  /\ history = [l \in Lane |-> <<>>]
  /\ orphans = {}
  /\ expired = {}
  /\ faults = 0
  /\ seen = [c \in Command |-> 0]

----------------------------------------------------------------------------
(* HTTP requests of the actor. *)

(* Every API request first adopts the rows the identity queued under       *)
(* another scope, once per scope and process, and then makes its token the *)
(* one the scope syncs with; a token that differs from the previous one    *)
(* lifts the authentication block.                                         *)
Adopts(s, c) == s \notin adopted /\ Queued(c) /\ scope[c] # s

UseToken(t) ==
  LET s == ScopeOf[t] IN
  /\ scope' = [c \in Command |-> IF Adopts(s, c) THEN s ELSE scope[c]]
  /\ mapped' = [c \in Command |-> IF Adopts(s, c) /\ mapped[c] # NoScope
                                  THEN s ELSE mapped[c]]
  /\ adopted' = adopted \cup {s}
  /\ blocked' = IF active[s] \in Token \ {t} THEN blocked \ {s} ELSE blocked
  /\ active' = [active EXCEPT ![s] = t]
  /\ UNCHANGED <<state, rowid, owner, base, tried, delayed, pc, auth, batch, req, reply,
                 backend, known, orphans, faults, seen>>

(* queueMutation: the write is queued while the backend is unreachable, in *)
(* a request whose token was used just before.  A command that refers to a *)
(* local aggregate was built from the answer that created it.  The         *)
(* expected version must equal the projected one: the cached version plus  *)
(* the lane's writes that are still queued.                                *)
Ahead(c) == {d \in Command : state[d] \in {"pending", "sending"} /\ LaneOf[d] = LaneOf[c]}

Enqueue(c, t) ==
  LET l == LaneOf[c] IN
  /\ state[c] = "none"
  /\ ScopeOf[t] \in adopted
  /\ \A d \in References(c) : Queued(d)
  /\ state' = [state EXCEPT ![c] = "pending"]
  /\ \E n \in {rowid[d] + 1 : d \in Command} :
       /\ \A d \in Command : rowid[d] < n
       /\ rowid' = [rowid EXCEPT ![c] = n]
  /\ scope' = [scope EXCEPT ![c] = ScopeOf[t]]
  /\ owner' = [owner EXCEPT ![c] = EmployeeOf[t]]
  /\ base' = [base EXCEPT ![c] = IF l \in Versioned
                                 THEN known[l] + Cardinality(Ahead(c)) ELSE 0]
  /\ seen' = [seen EXCEPT ![c] = ForeignUpTo(l, known[l])]
  /\ UNCHANGED <<tried, delayed, mapped, gateway, backend, known, orphans, faults>>

(* An online read replaces the cached copy of an aggregate. *)
RefreshCache(l) ==
  /\ known[l] # Version(l)
  /\ known' = [known EXCEPT ![l] = Version(l)]
  /\ UNCHANGED <<store, gateway, backend, orphans, faults, seen>>

(* The operator's retry of a pending or conflicted row.  The route sets    *)
(* the active token itself and starts a flush, which returns at once while *)
(* the scope is blocked or already syncing.                                *)
Retry(c, t) ==
  LET s == ScopeOf[t] IN
  /\ state[c] \in {"pending", "conflict"}
  /\ scope[c] = s
  /\ state' = [state EXCEPT ![c] = "pending"]
  /\ delayed' = delayed \ {c}
  /\ active' = [active EXCEPT ![s] = t]
  /\ IF pc[s] = "idle" /\ s \notin blocked
     THEN pc' = [pc EXCEPT ![s] = "next"] /\ auth' = [auth EXCEPT ![s] = t]
     ELSE UNCHANGED <<pc, auth>>
  /\ UNCHANGED <<rowid, scope, owner, base, tried, mapped, blocked, adopted, batch,
                 req, reply, backend, known, orphans, faults, seen>>

\* Mutant: a row that was already sent can be cancelled.
CancelTried(c, t) ==
  /\ state[c] \in {"pending", "conflict"}
  /\ scope[c] = ScopeOf[t]
  /\ c \in Cancellable
  /\ \A d \in Command \ {c} :
        state[d] \in Unresolved => LaneOf[c] \notin Touches[d]
  /\ state' = [state EXCEPT ![c] = "cancelled"]
  /\ UNCHANGED <<rowid, scope, owner, base, tried, delayed, mapped, gateway, backend,
                 known, orphans, faults, seen>>

(* The operator's cancel: only a row that was never handed to the network, *)
(* of a non-financial type, and whose aggregate no other unacknowledged    *)
(* row names.  The row is deleted.                                         *)
Cancel(c, t) ==
  /\ state[c] \in {"pending", "conflict"}
  /\ scope[c] = ScopeOf[t]
  /\ ~tried[c]
  /\ c \in Cancellable
  /\ \A d \in Command \ {c} :
        state[d] \in Unresolved => LaneOf[c] \notin Touches[d]
  /\ state' = [state EXCEPT ![c] = "cancelled"]
  /\ UNCHANGED <<rowid, scope, owner, base, tried, delayed, mapped, gateway, backend,
                 known, orphans, faults, seen>>

----------------------------------------------------------------------------
(* The replay loop of one scope.  pc = "next": about to take a row.        *)
(* pc = "wait": suspended in fetch.  Everything between two waits is one   *)
(* uninterrupted turn of the event loop.                                   *)

(* flushPendingMutations, from the health probe or after an API request. *)
StartFlush(s) ==
  /\ pc[s] = "idle"
  /\ s \notin blocked
  /\ active[s] # NoToken
  /\ pc' = [pc EXCEPT ![s] = "next"]
  /\ auth' = [auth EXCEPT ![s] = active[s]]
  /\ UNCHANGED <<store, active, blocked, adopted, batch, req, reply, backend, known,
                 orphans, faults, seen>>

Stopped(s) == s \in blocked \/ active[s] # auth[s]
Work(s) == IF batch[s] = {} THEN Due(s) ELSE batch[s]

(* The loop ends when the scope is blocked, has a newer token or has       *)
(* nothing due; the finally block starts over with a newer token.          *)
EndFlush(s) ==
  /\ pc[s] = "next"
  /\ Stopped(s) \/ Work(s) = {}
  /\ batch' = [batch EXCEPT ![s] = {}]
  /\ IF active[s] # auth[s] /\ s \notin blocked
     THEN pc' = pc /\ auth' = [auth EXCEPT ![s] = active[s]]
     ELSE pc' = [pc EXCEPT ![s] = "idle"] /\ auth' = [auth EXCEPT ![s] = NoToken]
  /\ UNCHANGED <<store, active, blocked, adopted, req, reply, backend, known, orphans,
                 faults, seen>>

(* sendQueuedMutation up to its fetch, for the row c the loop takes next:  *)
(* the employee check, the compare-and-set to sending, the local           *)
(* references.                                                             *)
Takes(s, c) ==
  /\ pc[s] = "next"
  /\ ~Stopped(s)
  /\ Work(s) # {}
  /\ c = First(Work(s))
  /\ batch' = [batch EXCEPT ![s] = Work(s) \ {c}]

\* Mutant: any token of the scope carries the row.
AnyOwner(s, c) == TRUE

(* The employeeId of the token against the one stored with the payload. *)
OwnerMatches(s, c) == owner[c] = EmployeeOf[auth[s]]

SendConflict(s, c) ==
  /\ Takes(s, c)
  /\ ~OwnerMatches(s, c)
  /\ state' = IF Queued(c) THEN [state EXCEPT ![c] = "conflict"] ELSE state
  /\ UNCHANGED <<rowid, scope, owner, base, tried, delayed, mapped, active, blocked,
                 adopted, pc, auth, req, reply, backend, known, orphans, faults, seen>>

SendSkip(s, c) ==
  /\ Takes(s, c)
  /\ OwnerMatches(s, c)
  /\ state[c] # "pending"
  /\ UNCHANGED <<store, active, blocked, adopted, pc, auth, req, reply, backend, known,
                 orphans, faults, seen>>

SendWaits(s, c) ==
  /\ Takes(s, c)
  /\ OwnerMatches(s, c)
  /\ state[c] = "pending"
  /\ ~Resolved(c, s)
  /\ tried' = [tried EXCEPT ![c] = TRUE]
  /\ delayed' = delayed \cup {c}
  /\ UNCHANGED <<state, rowid, scope, owner, base, mapped, active, blocked, adopted,
                 pc, auth, req, reply, backend, known, orphans, faults, seen>>

Send(s, c) ==
  /\ Takes(s, c)
  /\ OwnerMatches(s, c)
  /\ state[c] = "pending"
  /\ Resolved(c, s)
  /\ state' = [state EXCEPT ![c] = "sending"]
  /\ tried' = [tried EXCEPT ![c] = TRUE]
  /\ pc' = [pc EXCEPT ![s] = "wait"]
  /\ req' = [req EXCEPT ![s] = [cmd |-> c, exp |-> base[c], tok |-> auth[s]]]
  /\ UNCHANGED <<rowid, scope, owner, base, delayed, mapped, active, blocked, adopted,
                 auth, reply, backend, known, orphans, faults, seen>>

\* Mutant: the row is left in sending.
BackOffWhileSending(c) ==
  /\ delayed' = delayed \cup {c}
  /\ UNCHANGED state

(* markMutationPending: the row is pending again, whatever it was, and     *)
(* backs off.                                                              *)
BackOff(c) ==
  /\ state' = IF Queued(c) THEN [state EXCEPT ![c] = "pending"] ELSE state
  /\ delayed' = delayed \cup {c}

BackoffElapsed(c) ==
  /\ c \in delayed
  /\ delayed' = delayed \ {c}
  /\ UNCHANGED <<state, rowid, scope, owner, base, tried, mapped, gateway, backend,
                 known, orphans, faults, seen>>

(* The turn that follows the answer ends the wait. *)
Answered(s, k) ==
  /\ pc[s] = "wait"
  /\ reply[s].kind = k
  /\ pc' = [pc EXCEPT ![s] = "next"]
  /\ req' = [req EXCEPT ![s] = NoReq]
  /\ reply' = [reply EXCEPT ![s] = NoReply]

(* A 2xx answer: the server id of a local aggregate is stored, then the    *)
(* row is acknowledged and, on a versioned lane, the rows queued behind it *)
(* are rebased to the version the answer shows.                            *)
SaveMapping(s, c) ==
  mapped' = IF c \in Creates THEN [mapped EXCEPT ![c] = s] ELSE mapped

Rebased(c, s, v) ==
  {d \in Command : /\ state[d] = "pending"
                   /\ scope[d] = s
                   /\ LaneOf[d] = LaneOf[c]
                   /\ rowid[d] > rowid[c]}

Acknowledge(s) ==
  LET c == req[s].cmd
      v == reply[s].ver
      l == LaneOf[c]
  IN /\ Answered(s, "ok")
     /\ SaveMapping(s, c)
     /\ state' = IF Queued(c) THEN [state EXCEPT ![c] = "acknowledged"] ELSE state
     /\ base' = [d \in Command |-> IF l \in Versioned /\ d \in Rebased(c, s, v)
                                   THEN v ELSE base[d]]
     /\ known' = IF l \in Reconciled THEN [known EXCEPT ![l] = v] ELSE known
     /\ UNCHANGED <<rowid, scope, owner, tried, delayed, active, blocked, adopted, auth,
                    batch, backend, orphans, faults, seen>>

(* 409 and every other 4xx but 401. *)
AnswerConflict(s) ==
  LET c == req[s].cmd IN
  /\ Answered(s, "conflict")
  /\ state' = IF Queued(c) THEN [state EXCEPT ![c] = "conflict"] ELSE state
  /\ UNCHANGED <<rowid, scope, owner, base, tried, delayed, mapped, active, blocked,
                 adopted, auth, batch, backend, known, orphans, faults, seen>>

(* 401: the scope is blocked unless a newer token has arrived meanwhile. *)
AnswerUnauthorized(s) ==
  LET c == req[s].cmd IN
  /\ Answered(s, "unauthorized")
  /\ blocked' = IF active[s] = auth[s] THEN blocked \cup {s} ELSE blocked
  /\ IF state[c] = "sending"
     THEN state' = [state EXCEPT ![c] = "pending"] /\ delayed' = delayed \ {c}
     ELSE UNCHANGED <<state, delayed>>
  /\ UNCHANGED <<rowid, scope, owner, base, tried, mapped, active, adopted, auth, batch,
                 backend, known, orphans, faults, seen>>

AnswerUnavailable(s) ==
  /\ Answered(s, "unavailable")
  /\ BackOff(req[s].cmd)
  /\ UNCHANGED <<rowid, scope, owner, base, tried, mapped, active, blocked, adopted, auth,
                 batch, backend, known, orphans, faults, seen>>

(* fetch fails or its ten seconds pass: the answer is lost, but the        *)
(* request may still reach the backend.                                    *)
Timeout(s) ==
  /\ pc[s] = "wait"
  /\ faults < MaxFaults
  /\ faults' = faults + 1
  /\ BackOff(req[s].cmd)
  /\ pc' = [pc EXCEPT ![s] = "next"]
  /\ req' = [req EXCEPT ![s] = NoReq]
  /\ reply' = [reply EXCEPT ![s] = NoReply]
  /\ orphans' = IF reply[s] = NoReply THEN orphans \cup {req[s]} ELSE orphans
  /\ UNCHANGED <<rowid, scope, owner, base, tried, mapped, active, blocked, adopted, auth,
                 batch, backend, known, seen>>

\* Mutant: rows interrupted in flight are taken for sent.
RecoveredAsSent(c) == IF state[c] = "sending" THEN "acknowledged" ELSE state[c]

(* recoverInterruptedMutations. *)
Recovered(c) == IF state[c] = "sending" THEN "pending" ELSE state[c]

(* The desktop is killed and started again.  It may die in the turn that   *)
(* handles a 2xx answer, after the local id was stored and before the row  *)
(* was acknowledged (two SQLite transactions).  The store's constructor    *)
(* makes sending rows pending.                                             *)
Restart ==
  /\ faults < MaxFaults
  /\ faults' = faults + 1
  /\ \E half \in BOOLEAN :
       mapped' = [c \in Command |->
         IF half /\ c \in Creates /\ \E s \in Scope : reply[s].kind = "ok" /\ req[s].cmd = c
         THEN CHOOSE s \in Scope : reply[s].kind = "ok" /\ req[s].cmd = c
         ELSE mapped[c]]
  /\ state' = [c \in Command |-> Recovered(c)]
  /\ delayed' = delayed \ {c \in Command : state[c] = "sending"}
  /\ active' = [s \in Scope |-> NoToken]
  /\ blocked' = {}
  /\ adopted' = {}
  /\ pc' = [s \in Scope |-> "idle"]
  /\ auth' = [s \in Scope |-> NoToken]
  /\ batch' = [s \in Scope |-> {}]
  /\ req' = [s \in Scope |-> NoReq]
  /\ reply' = [s \in Scope |-> NoReply]
  /\ orphans' = orphans \cup {req[s] : s \in {u \in Scope : pc[u] = "wait" /\ reply[u] = NoReply}}
  /\ UNCHANGED <<rowid, scope, owner, base, tried, backend, known, seen>>

----------------------------------------------------------------------------
(* The backend. *)

\* Mutant: the idempotency key is not looked up.
AcceptsAgain(r) ==
  /\ r.tok \notin expired
  /\ \A m \in Touches[r.cmd] : Exists(m) \/ (r.cmd \in Creates /\ m = LaneOf[r.cmd])
  /\ LaneOf[r.cmd] \in Versioned => r.exp = Version(LaneOf[r.cmd])

(* What the backend may do with a request.  A finished key is answered     *)
(* with the order as it is now (the replay branch of runOrderMutation);    *)
(* a key another copy of the request holds is refused; a versioned write   *)
(* must expect the current version.                                        *)
Accepts(r) ==
  LET l == LaneOf[r.cmd] IN
  /\ r.tok \notin expired
  /\ r.cmd \notin Applied
  /\ \A m \in Touches[r.cmd] : Exists(m) \/ (r.cmd \in Creates /\ m = l)
  /\ l \in Versioned => r.exp = Version(l)

Apply(r) == history' = [history EXCEPT ![LaneOf[r.cmd]] = Append(@, r.cmd)]

Respond(s, k, v) ==
  /\ pc[s] = "wait"
  /\ reply[s] = NoReply
  /\ reply' = [reply EXCEPT ![s] = [kind |-> k, ver |-> v]]
  /\ UNCHANGED <<store, active, blocked, adopted, pc, auth, batch, req, known, orphans,
                 expired, seen>>

ServeApply(s) ==
  LET r == req[s] IN
  /\ Respond(s, "ok", Version(LaneOf[r.cmd]) + 1)
  /\ Accepts(r)
  /\ Apply(r)
  /\ UNCHANGED faults

ServeReplay(s) ==
  LET r == req[s] IN
  /\ Respond(s, "ok", Version(LaneOf[r.cmd]))
  /\ r.tok \notin expired
  /\ r.cmd \in Applied
  /\ UNCHANGED <<history, faults>>

ServeUnauthorized(s) ==
  /\ Respond(s, "unauthorized", 0)
  /\ req[s].tok \in expired
  /\ UNCHANGED <<history, faults>>

ServeStale(s) ==
  LET r == req[s] IN
  /\ Respond(s, "conflict", 0)
  /\ r.tok \notin expired
  /\ r.cmd \notin Applied
  /\ ~Accepts(r)
  /\ UNCHANGED <<history, faults>>

ServeInProgress(s) ==
  LET r == req[s] IN
  /\ Respond(s, "conflict", 0)
  /\ r.tok \notin expired
  /\ \E o \in orphans : o.cmd = r.cmd
  /\ UNCHANGED <<history, faults>>

(* A business rule refuses the write, or the backend fails before it       *)
(* commits: no effect.                                                     *)
ServeError(s) ==
  /\ faults < MaxFaults
  /\ faults' = faults + 1
  /\ req[s].cmd \notin Applied
  /\ \E k \in {"conflict", "unavailable"} : Respond(s, k, 0)
  /\ UNCHANGED history

(* A request nobody waits for is served late, or is dropped. *)
ServeOrphan(r) ==
  /\ r \in orphans
  /\ orphans' = orphans \ {r}
  /\ \/ Accepts(r) /\ Apply(r)
     \/ UNCHANGED history
  /\ UNCHANGED <<store, gateway, expired, known, faults, seen>>

(* Another device changes an aggregate. *)
ForeignChange(l) ==
  /\ l \in Versioned
  /\ Exists(l)
  /\ \A m \in Lane : ForeignUpTo(m, Version(m)) < MaxForeign
  /\ history' = [history EXCEPT ![l] = Append(@, Foreign)]
  /\ UNCHANGED <<store, gateway, expired, known, orphans, faults, seen>>

(* The token's session ends: from now on the backend answers it 401. *)
Expire(t) ==
  /\ t \notin expired
  /\ faults < MaxFaults
  /\ faults' = faults + 1
  /\ expired' = expired \cup {t}
  /\ UNCHANGED <<store, gateway, history, known, orphans, seen>>

----------------------------------------------------------------------------
Serve(s) == \/ ServeApply(s)
            \/ ServeReplay(s)
            \/ ServeUnauthorized(s)
            \/ ServeStale(s)

Take(s, c) == \/ SendConflict(s, c)
              \/ SendSkip(s, c)
              \/ SendWaits(s, c)
              \/ Send(s, c)

Handle(s) == \/ Acknowledge(s)
             \/ AnswerConflict(s)
             \/ AnswerUnauthorized(s)
             \/ AnswerUnavailable(s)

Next ==
  \/ \E t \in Token : UseToken(t) \/ Expire(t)
  \/ \E c \in Command, t \in Token : Enqueue(c, t) \/ Retry(c, t) \/ Cancel(c, t)
  \/ \E c \in Command : BackoffElapsed(c)
  \/ \E s \in Scope : \/ StartFlush(s)
                      \/ EndFlush(s)
                      \/ \E c \in Command : Take(s, c)
                      \/ Handle(s)
                      \/ Timeout(s)
                      \/ Serve(s)
                      \/ ServeInProgress(s)
                      \/ ServeError(s)
  \/ Restart
  \/ \E r \in orphans : ServeOrphan(r)
  \/ \E l \in Lane : RefreshCache(l) \/ ForeignChange(l)

Spec == Init /\ [][Next]_vars

(* The probe timer starts a flush while the backend answers; the loop and  *)
(* the handlers are turns of the event loop; a fetch is answered or times  *)
(* out; a backoff is a finite delay.  Nothing is assumed of users, tokens, *)
(* other devices or faults.                                                *)
Fairness ==
  /\ \A s \in Scope : /\ WF_vars(StartFlush(s))
                     /\ WF_vars(EndFlush(s))
                     /\ WF_vars(\E c \in Command : Take(s, c))
                     /\ WF_vars(Serve(s))
                     /\ WF_vars(Handle(s))
  /\ \A c \in Command : WF_vars(BackoffElapsed(c))

FairSpec == Spec /\ Fairness

----------------------------------------------------------------------------
(* Properties. *)

(* The backend applies the commands of a lane in the order they were       *)
(* queued, each after every earlier one that was not cancelled ("replay in *)
(* order when connectivity returns").                                      *)
LaneOrder ==
  \A c \in Applied : \A d \in Command :
    (LaneOf[d] = LaneOf[c] /\ 0 < rowid[d] /\ rowid[d] < rowid[c])
      => \/ state[d] = "cancelled"
         \/ d \in Applied /\ IndexOf(d) < IndexOf(c)

(* A command the operator cancelled never takes effect, although requests  *)
(* for it may have been lost, delayed or repeated.                         *)
CancelledNeverApplied ==
  \A c \in Command : state[c] = "cancelled" => c \notin Applied

(* The queue forgets no command: a row is acknowledged only when its       *)
(* effect is in the backend's history, and it appears there once.          *)
AcknowledgedAppliedOnce ==
  \A c \in Command :
    /\ state[c] = "acknowledged" => c \in Applied
    /\ \A i, j \in 1..Len(history[LaneOf[c]]) :
         history[LaneOf[c]][i] = c /\ history[LaneOf[c]][j] = c => i = j

(* Whatever tokens come and go, a command travels only under a token of    *)
(* the employee who queued it.                                             *)
TravelsAsOwner ==
  /\ \A s \in Scope : pc[s] = "wait" => EmployeeOf[req[s].tok] = owner[req[s].cmd]
  /\ \A r \in orphans : EmployeeOf[r.tok] = owner[r.cmd]

(* No request carries the local id of an aggregate the backend does not    *)
(* have: whoever creates an aggregate a request names has taken effect     *)
(* before the request is sent, through crashes between the two writes that *)
(* record a creation and through every loss of an answer.                  *)
LocalIdsResolved ==
  /\ \A s \in Scope : pc[s] = "wait" => References(req[s].cmd) \subseteq Applied
  /\ \A r \in orphans : References(r.cmd) \subseteq Applied

(* The queue implements LaneDelivery: order, single effect, withdrawal     *)
(* before effect and confirmation after it.                                *)
Promise == INSTANCE LaneDelivery WITH
  place <- rowid,
  withdrawn <- {c \in Command : state[c] = "cancelled"},
  effective <- Applied,
  confirmed <- {c \in Command : state[c] = "acknowledged"}
ImplementsDelivery == Promise!Delivery

(* A versioned command takes effect only if no other device changed the    *)
(* aggregate since the version the actor looked at when queueing it.       *)
NoSilentOverwrite ==
  \A c \in Applied : LaneOf[c] \in Versioned =>
    ForeignUpTo(LaneOf[c], IndexOf(c)) = seen[c]

(* A scope with a usable token is not kept waiting for authentication. *)
FreshTokenUnblocks ==
  \A s \in blocked : active[s] # NoToken => active[s] \in expired

(* A queued command does not wait for ever: it is acknowledged, cancelled  *)
(* or shown as a conflict, unless an earlier command it depends on is in   *)
(* conflict, or the scope waits for the user to sign in.                   *)
Behind(c) == {d \in Command : /\ rowid[d] < rowid[c]
                              /\ LaneOf[d] = LaneOf[c] \/ d \in References(c)}
WaitsForUser(c) ==
  \/ \E d \in Behind(c) : state[d] = "conflict"
  \/ active[scope[c]] = NoToken
  \/ scope[c] \in blocked

Drains ==
  \A c \in Command : state[c] \in {"pending", "sending"}
                         ~> state[c] \notin {"pending", "sending"} \/ WaitsForUser(c)

============================================================================
