------------------------ MODULE MCNotificationOutbox ------------------------
(* Instances of NotificationOutbox for TLC.                                *)
EXTENDS NotificationOutbox, TLC
CONSTANTS placed, refresh1, refresh2,           \* jobs
          told1, told2,                         \* jobs for the customer
          p1, p2, r1, r2                        \* processes, requests

AllKinds == (placed :> "staff_new_order") @@ (refresh1 :> "staff_status_refresh")
            @@ (refresh2 :> "staff_status_refresh")
            @@ (told1 :> "customer_status") @@ (told2 :> "customer_status")
AllLevels == (placed :> 0) @@ (refresh1 :> 1) @@ (refresh2 :> 2)
             @@ (told1 :> 1) @@ (told2 :> 2)
MCKindOf == [j \in Job |-> AllKinds[j]]
MCLevelOf == [j \in Job |-> AllLevels[j]]
MCInstanceOf == [r \in Retry |-> p1]
============================================================================
