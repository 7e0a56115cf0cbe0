------------------------- MODULE MCIdempotencyKeys -------------------------
(* An instance of IdempotencyKeys for TLC: an order action, which is       *)
(* nested and looks its event up.                                          *)
EXTENDS IdempotencyKeys

CONSTANTS accept,          \* the key
          a1, a2, a3, a4,  \* attempts
          blind, seen,     \* payloads: without a version, and with one
          branch, global   \* scopes

OneKey == [a \in Attempt |-> accept]
MCBody == {blind, seen}
\* a1 and a2 overtake each other with a request that names no version; a3 uses
\* their key for another payload, which names the version it has seen.
MCBodyOf == [a \in Attempt |-> IF a \in {a1, a2} THEN blind ELSE seen]
\* a4 repeats the request of a3 after a change of role.
MCScopeOf == [a \in Attempt |-> IF a = a4 THEN global ELSE branch]
FromTheStart == [b \in MCBody |-> 0]
============================================================================
