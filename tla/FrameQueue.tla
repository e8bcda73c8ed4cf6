----------------------------- MODULE FrameQueue -----------------------------
(***************************************************************************)
(* What the web server promises of its frames, whatever ring, indices and  *)
(* list it keeps: the newest ones wait in a queue, from which the oldest   *)
(* is dropped when there is no room, and which is emptied to everybody who *)
(* listens.  Frames are numbered as they are pushed.                       *)
(***************************************************************************)
EXTENDS Naturals, Sequences

CONSTANTS Listeners, Room

VARIABLES waiting, pushed, listening, received

queueVars == <<waiting, pushed, listening, received>>

Init ==
  /\ waiting = <<>> /\ pushed = 0
  /\ listening = {} /\ received = [c \in Listeners |-> <<>>]

Push ==
  /\ waiting' = Append(IF Len(waiting) < Room THEN waiting ELSE Tail(waiting), pushed)
  /\ pushed' = pushed + 1
  /\ UNCHANGED <<listening, received>>

Deliver ==
  /\ waiting # <<>> /\ waiting' = <<>>
  /\ received' = [c \in Listeners |->
                    IF c \in listening THEN received[c] \o waiting ELSE received[c]]
  /\ UNCHANGED <<pushed, listening>>

Join(c) ==
  /\ c \notin listening /\ listening' = listening \cup {c}
  /\ UNCHANGED <<waiting, pushed, received>>

Leave(c) ==
  /\ c \in listening /\ listening' = listening \ {c}
  /\ received' = [received EXCEPT ![c] = <<>>]
  /\ UNCHANGED <<waiting, pushed>>

Next == Push \/ Deliver \/ \E c \in Listeners : Join(c) \/ Leave(c)

Spec == Init /\ [][Next]_queueVars

=============================================================================
