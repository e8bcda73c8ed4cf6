------------------------------ MODULE LogQueues -----------------------------
(***************************************************************************)
(* What the logger promises of its rings, whatever indices it keeps and    *)
(* whoever drains them: each ring is a bounded queue.  A message with room *)
(* is put at its end, newer than all the ring has had, and messages are    *)
(* written from its head, each once.  One ring moves at a time.            *)
(***************************************************************************)
EXTENDS Naturals, Sequences

CONSTANTS Rings, Messages, Room

VARIABLES waiting, written

queueVars == <<waiting, written>>

Init == waiting = [k \in Rings |-> <<>>] /\ written = [k \in Rings |-> <<>>]

\* Messages are numbered as they are logged.
Newest(k, m) == \A s \in {waiting[k], written[k]} : \A i \in DOMAIN s : s[i] < m

Put(k, m) ==
  /\ Len(waiting[k]) < Room /\ Newest(k, m)
  /\ waiting' = [waiting EXCEPT ![k] = Append(@, m)]
  /\ UNCHANGED written

Write(k) ==
  /\ waiting[k] # <<>>
  /\ written' = [written EXCEPT ![k] = Append(@, Head(waiting[k]))]
  /\ waiting' = [waiting EXCEPT ![k] = Tail(@)]

Next == \E k \in Rings : Write(k) \/ \E m \in Messages : Put(k, m)

=============================================================================
