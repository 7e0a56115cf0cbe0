-------------------------- MODULE MCRealtimeCatchUp --------------------------
(* The instance of RealtimeCatchUp for TLC: a waiter's or a kitchen's panel   *)
(* on a desktop, the till's with its snapshot, and a panel in a browser, each *)
(* of a branch with two events; and the till of an employee of two other      *)
(* branches, with an event each, that has kept a snapshot's cursor.           *)
EXTENDS RealtimeCatchUp, TLC

CONSTANTS b1, b2, b3, e1, e2, e3, e4

MCBranchOf == e1 :> b1 @@ e2 :> b1 @@ e3 :> b2 @@ e4 :> b3

P(scope, desktop, snapshot, kept) ==
  [scope |-> scope, desktop |-> desktop, snapshot |-> snapshot, kept |-> kept]

MCPanels == {P({b1}, TRUE, FALSE, FALSE), P({b1}, TRUE, TRUE, FALSE),
             P({b1}, FALSE, FALSE, FALSE), P({b2, b3}, TRUE, TRUE, TRUE)}
=============================================================================
