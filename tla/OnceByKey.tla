----------------------------- MODULE OnceByKey -----------------------------
(***************************************************************************)
(* What an Idempotency-Key promises the clients of an order, with no rows, *)
(* no transactions and no process in it: requests take effect one at a     *)
(* time and while they are asked for, a key once under each scope and a    *)
(* versioned payload only on the version it names; and what a client is    *)
(* told of his request is true when he is told.                            *)
(***************************************************************************)
EXTENDS Naturals, Sequences

CONSTANTS Request, KeyOf, ScopeOf, BodyOf, Versioned, Expects, LooksUp, Plain

VARIABLES
  effects,  \* the effects on the order, in order; their number is its version
  told      \* told[r]: "none" before r was sent, "asked", or the last answer

service == <<effects, told>>

Start ==
  /\ effects = <<>>
  /\ told = [r \in Request |-> "none"]

Effect(r) == [key |-> KeyOf[r], scope |-> ScopeOf[r], body |-> BodyOf[r]]

(* One of the effects is of this key, and for this payload. *)
Took(r) == \E i \in 1..Len(effects) : effects[i].key = KeyOf[r] /\ effects[i].body = BodyOf[r]

(* Of this key, but under another actor or branch. *)
TookElsewhere(r) ==
  \E i \in 1..Len(effects) : effects[i].key = KeyOf[r] /\ effects[i].scope # ScopeOf[r]

(* What makes an answer true.  A request is outdated if the order has moved *)
(* past the version it names, unless the request itself moved it; a plain   *)
(* one may have found the order as it asks and left it so; a key is         *)
(* misused if somebody sent it with another payload.  "busy", "refused" and *)
(* "error" promise nothing.                                                 *)
IsTrue(r, e) ==
  CASE e = "ok" -> Took(r) \/ TookElsewhere(r) \/ KeyOf[r] \in Plain
    [] e = "stale" -> /\ BodyOf[r] \in Versioned /\ Expects[BodyOf[r]] < Len(effects)
                      /\ KeyOf[r] \in LooksUp => ~Took(r)
    [] e = "mismatch" -> \E q \in Request : /\ KeyOf[q] = KeyOf[r]
                                            /\ BodyOf[q] # BodyOf[r]
                                            /\ told[q] # "none"
    [] OTHER -> e \in {"busy", "refused", "error"}

Ask(r) ==
  /\ told[r] \notin {"asked", "ok", "mismatch"}
  /\ BodyOf[r] \in Versioned => Expects[BodyOf[r]] <= Len(effects)
  /\ told' = [told EXCEPT ![r] = "asked"]
  /\ UNCHANGED effects

Free(r) ==
  /\ \A i \in 1..Len(effects) : effects[i].key = KeyOf[r] => effects[i].scope # ScopeOf[r]
  /\ BodyOf[r] \in Versioned => Expects[BodyOf[r]] = Len(effects)

(* The client is told at once, later, or never. *)
Perform(r) ==
  /\ told[r] = "asked"
  /\ Free(r)
  /\ effects' = Append(effects, Effect(r))
  /\ UNCHANGED told \/ told' = [told EXCEPT ![r] = "ok"]

Tell(r, e) ==
  /\ told[r] = "asked"
  /\ IsTrue(r, e)
  /\ told' = [told EXCEPT ![r] = e]
  /\ UNCHANGED effects

(* Whoever waits is told that something went wrong. *)
BreakOff ==
  /\ told' = [r \in Request |-> IF told[r] = "asked" THEN "error" ELSE told[r]]
  /\ UNCHANGED effects

Serve ==
  \/ \E r \in Request : \/ Ask(r) \/ Perform(r)
                        \/ \E e \in {"ok", "stale", "mismatch", "busy", "refused", "error"} :
                             Tell(r, e)
  \/ BreakOff

Service == Start /\ [][Serve]_service

============================================================================
