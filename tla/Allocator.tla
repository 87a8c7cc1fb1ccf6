----------------------------- MODULE Allocator -----------------------------
(***************************************************************************)
(* What memmgr promises its clients, with no free list: while a session is *)
(* open a client may be handed an interval of the pool that overlaps no    *)
(* interval another client holds, keeps it unchanged until it gives it     *)
(* back, and may be refused at any time.  Addresses and sizes are counted  *)
(* in quantas; an interval starts at the address of its header.            *)
(***************************************************************************)
EXTENDS Integers

CONSTANTS PoolQuantas,   \* size of the pool
          Sizes          \* the block sizes clients can be handed

VARIABLES open,          \* a session exists
          held           \* held[a]: size of the interval held at address a

vars == <<open, held>>

Init == open = FALSE /\ held = [a \in {} |-> 0]

Open == ~open /\ open' = TRUE /\ UNCHANGED held

(* Closing a session revokes everything that was handed out in it. *)
Close == open' = FALSE /\ held' = [a \in {} |-> 0]

Clear(a, n) == \A b \in DOMAIN held : a + n <= b \/ b + held[b] <= a

Grant(a, n) ==
  /\ open
  /\ a + n <= PoolQuantas
  /\ Clear(a, n)
  /\ held' = [b \in DOMAIN held \cup {a} |-> IF b = a THEN n ELSE held[b]]
  /\ UNCHANGED open

Return(a) ==
  /\ a \in DOMAIN held
  /\ held' = [b \in DOMAIN held \ {a} |-> held[b]]
  /\ UNCHANGED open

Next == \/ Open
        \/ Close
        \/ \E a \in 0 .. PoolQuantas - 1, n \in Sizes : Grant(a, n)
        \/ \E a \in DOMAIN held : Return(a)

Spec == Init /\ [][Next]_vars
=============================================================================
