---------------------------- MODULE WorldPersons ----------------------------
(***************************************************************************)
(* The persons with world coordinates (src/src/world_coord.c), registered  *)
(* by the postprocess thread for every track it shows and cleared now and  *)
(* then.                                                                   *)
(*                                                                         *)
(* A place is [id, active, age, from]: age is the time since the last      *)
(* registration, from the track whose measurement the anchor started with. *)
(* The memory of a new table is zero, so that its places read as track 0   *)
(* with an anchor in the origin.  Left out: the geometry, the recording.   *)
(***************************************************************************)
EXTENDS Integers, FiniteSets, FiniteSetsExt

CONSTANTS PersonIds,   \* track ids, 0 among them
          MaxPersons,  \* WORLD_MAX_PERSONS
          Timeout,     \* WORLD_TIMEOUT_S
          Period,      \* time between two clearings
          Origin       \* the anchor of zeroed memory

ASSUME PersonsAssumption ==
  /\ PersonIds \subseteq Nat /\ 0 \in PersonIds
  /\ {MaxPersons, Timeout, Period} \subseteq Nat \ {0}

VARIABLES persons,   \* the places
          numPersons,
          sincePrune \* time since last_prune_time

personsVars == <<persons, numPersons, sincePrune>>

Seats == 1..MaxPersons
Zeroed  == [id |-> 0, active |-> FALSE, age |-> 0, from |-> Origin]
Cleared == [id |-> -1, active |-> FALSE, age |-> 0, from |-> Origin]

PersonsInit ==
  /\ persons = [i \in Seats |-> Zeroed]
  /\ numPersons = 0 /\ sincePrune = Period

\* The place of a track: its own, the first free one, or the one seen longest ago.
Seat(t) ==
  LET own  == {i \in 1..numPersons : persons[i].id = t}
      free == {i \in Seats : persons[i].id < 0 \/ ~persons[i].active}
  IN IF own # {} THEN Min(own)
     ELSE IF free # {} THEN Min(free)
     ELSE CHOOSE i \in Seats : \A k \in Seats :
            persons[i].age > persons[k].age \/ (persons[i].age = persons[k].age /\ i <= k)

\* Bug: a place taken over from another person keeps its anchor.
MutAnchor(t, old) == IF old.active THEN old.from ELSE t

\* A place that was another track's gets a new anchor; one that reads as this
\* track's own keeps the anchor that is there.
Anchor(t, old) == IF old.id # t THEN t ELSE old.from

\* world_coord_register_person
Register(t) ==
  LET i == Seat(t) IN
    /\ persons' = [persons EXCEPT ![i] =
         [id |-> t, active |-> TRUE, age |-> 0, from |-> Anchor(t, @)]]
    /\ numPersons' = Max({numPersons, i})
    /\ UNCHANGED sincePrune

Stays(i) == persons[i].active /\ persons[i].id >= 0 /\ persons[i].age <= Timeout

\* Where the persons that stay are moved to.
Kept == {i \in 1..numPersons : Stays(i)}

\* Bug: the last place is not cleared after the others have moved up.
MutCompacted(i) ==
  IF i <= Cardinality(Kept)
    THEN persons[CHOOSE k \in Kept : Cardinality({x \in Kept : x <= k}) = i]
  ELSE IF i < numPersons THEN Cleared ELSE persons[i]

Compacted(i) ==
  IF i <= Cardinality(Kept)
    THEN persons[CHOOSE k \in Kept : Cardinality({x \in Kept : x <= k}) = i]
  ELSE IF i <= numPersons THEN Cleared ELSE persons[i]

\* world_coord_prune_timeout: who has not been seen for long goes, the others move up.
Prune ==
  /\ sincePrune >= Period
  /\ persons' = [i \in Seats |-> Compacted(i)]
  /\ numPersons' = Cardinality(Kept)
  /\ sincePrune' = 0

PersonsTick ==
  /\ persons' = [i \in Seats |->
       IF persons[i].active THEN [persons[i] EXCEPT !.age = Min({@ + 1, Timeout + 1})]
       ELSE persons[i]]
  /\ sincePrune' = Min({sincePrune + 1, Period})
  /\ UNCHANGED numPersons

PersonsNext == (\E t \in PersonIds : Register(t)) \/ Prune \/ PersonsTick

\* Time passes, and every frame asks for the clearing.
PersonsSpec == PersonsInit /\ [][PersonsNext]_personsVars
               /\ WF_personsVars(PersonsTick) /\ WF_personsVars(Prune)

-----------------------------------------------------------------------------
Persons == [id : PersonIds \cup {-1}, active : BOOLEAN, age : 0..(Timeout + 1),
            from : PersonIds \cup {Origin}]

PersonsTypeOK ==
  /\ persons \in [Seats -> Persons]
  /\ numPersons \in 0..MaxPersons /\ sincePrune \in 0..Period

\* However persons are evicted, time out and move up, the table has them at its
\* front without a gap, each one once: a track is always found again.
OnePlace ==
  /\ \A i \in Seats : persons[i].active <=> i <= numPersons
  /\ \A i, k \in 1..numPersons : persons[i].id = persons[k].id => i = k

\* "First registration: the current world position is the anchor": nobody's
\* position starts with that of somebody who had the place before.  (Except that
\* of track 0, which unused memory reads as already registered.)
OwnAnchor == \A i \in Seats : persons[i].active /\ persons[i].id # 0
                                 => persons[i].from = persons[i].id

=============================================================================
