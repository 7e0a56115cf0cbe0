---------------------------- MODULE LaneDelivery ----------------------------
(***************************************************************************)
(* What the offline queue promises its user, with no network, no tokens    *)
(* and no process in it: commands take effect in the order they were       *)
(* queued on their lane, each at most once; a command may be withdrawn     *)
(* only while it has no effect; a command is confirmed only when it has.   *)
(***************************************************************************)
EXTENDS Naturals

CONSTANTS Command, Lane, LaneOf

VARIABLES
  place,      \* place[c]: position in the queue, 0 when c was not queued
  withdrawn,  \* commands the user took back
  effective,  \* commands that took effect
  confirmed   \* commands the user was told took effect

delivery == <<place, withdrawn, effective, confirmed>>

Start ==
  /\ place = [c \in Command |-> 0]
  /\ withdrawn = {}
  /\ effective = {}
  /\ confirmed = {}

QueueUp(c) ==
  /\ place[c] = 0
  /\ \E n \in {place[d] + 1 : d \in Command} :
       /\ \A d \in Command : place[d] < n
       /\ place' = [place EXCEPT ![c] = n]
  /\ UNCHANGED <<withdrawn, effective, confirmed>>

Withdraw(c) ==
  /\ place[c] > 0
  /\ c \notin effective
  /\ withdrawn' = withdrawn \cup {c}
  /\ UNCHANGED <<place, effective, confirmed>>

Ahead(c) == {d \in Command : /\ LaneOf[d] = LaneOf[c]
                             /\ 0 < place[d]
                             /\ place[d] < place[c]}

TakeEffect(c) ==
  /\ place[c] > 0
  /\ c \notin withdrawn \cup effective
  /\ Ahead(c) \subseteq withdrawn \cup effective
  /\ effective' = effective \cup {c}
  /\ UNCHANGED <<place, withdrawn, confirmed>>

Confirm(c) ==
  /\ c \in effective
  /\ confirmed' = confirmed \cup {c}
  /\ UNCHANGED <<place, withdrawn, effective>>

Deliver == \E c \in Command : QueueUp(c) \/ Withdraw(c) \/ TakeEffect(c) \/ Confirm(c)

Delivery == Start /\ [][Deliver]_delivery

============================================================================
