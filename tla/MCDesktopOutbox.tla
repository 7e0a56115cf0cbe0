-------------------------- MODULE MCDesktopOutbox --------------------------
(* Instances of DesktopOutbox for TLC.                                     *)
EXTENDS DesktopOutbox, TLC
CONSTANTS sale, edit, edit2, pay,  \* commands
          order, till,             \* lanes
          tA, tB, eA, eB, s1, s2   \* tokens, employees, scopes

\* A sale, two edits of the sale, and a payment that names the sale.
LaneOfAll == (sale :> order) @@ (edit :> order) @@ (edit2 :> order) @@ (pay :> till)
MCLaneOf == [c \in Command |-> LaneOfAll[c]]
MCTouches == [c \in Command |-> {order, LaneOfAll[c]}]

\* One token; two tokens of one scope; two tokens of one employee in two scopes.
OneToken == tA :> s1
SameScope == (tA :> s1) @@ (tB :> s1)
TwoScopes == (tA :> s1) @@ (tB :> s2)
OneEmployee == tA :> eA
SameEmployee == (tA :> eA) @@ (tB :> eA)
TwoEmployees == (tA :> eA) @@ (tB :> eB)
============================================================================
