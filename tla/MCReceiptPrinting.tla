-------------------------- MODULE MCReceiptPrinting --------------------------
(* Instances of ReceiptPrinting for TLC: an order taken on one of two         *)
(* desktops, whose document goes to two printers.                             *)
EXTENDS ReceiptPrinting, TLC

CONSTANTS till, bar, p1, p2, sync, reprint, offline

MCDesktop == {till, bar}
MCPrinter == {p1, p2}
MCTill == {till}
MCOne == {p1}
MCBoth == {sync, reprint}
MCJust == {sync}
MCReprint == {reprint}
MCTargets == [c \in Copy |-> IF c = reprint THEN {p1} ELSE Printer]
MCSymmetry == Permutations(MCPrinter)
=============================================================================
