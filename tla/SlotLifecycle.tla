--------------------------- MODULE SlotLifecycle ---------------------------
(***************************************************************************)
(* What the frame ring promises of one slot, whatever the threads do: it   *)
(* goes round empty, captured, inferred, tracked, empty, and no stage is   *)
(* skipped, repeated or undone.  One slot moves at a time.                 *)
(***************************************************************************)
CONSTANT Slots

VARIABLE stage

Init == stage = [s \in Slots |-> "empty"]

Step(s, from, to) ==
  /\ stage[s] = from
  /\ stage' = [stage EXCEPT ![s] = to]

Advance(s) == \/ Step(s, "empty", "captured")
              \/ Step(s, "captured", "inferred")
              \/ Step(s, "inferred", "tracked")
              \/ Step(s, "tracked", "empty")

Next == \E s \in Slots : Advance(s)

Spec == Init /\ [][Next]_stage

=============================================================================
