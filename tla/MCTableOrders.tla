---------------------------- MODULE MCTableOrders ----------------------------
(* Instances of TableOrders for TLC: a base order and a supplement that share *)
(* the table, with one or two items each.                                     *)
EXTENDS TableOrders

CONSTANTS base, extra, tea, soup, cake

MCSupplement == {extra}
MCOrderOf == [i \in Item |-> IF i = cake THEN extra ELSE base]
MCTypeOf == [o \in Order |-> IF o = extra THEN "TAKEAWAY" ELSE "DINE_IN"]
MCDelivery == [o \in Order |-> "DELIVERY"]
=============================================================================
