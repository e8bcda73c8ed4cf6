--------------------------- MODULE LogRings_proofs ---------------------------
(***************************************************************************)
(* The logger's rings (LogRings), for any number of threads, flushes, rings*)
(* and slots.                                                              *)
(***************************************************************************)
EXTENDS LogRings, BasicLemmas, SequenceTheorems

Registered == {t \in Threads : ringOf[t] # 0}

\* Each ring up to NRings has one thread, and the others have had no message.
RingsOwned ==
  /\ IsFiniteSet(Registered) /\ NRings <= MaxRings
  /\ \A t \in Registered : ringOf[t] <= NRings
  /\ \A t, u \in Registered : ringOf[t] = ringOf[u] => t = u
  /\ \A t \in Threads : pushing[t] # 0 => ringOf[t] # 0
  /\ \A k \in Rings : k > NRings => accepted[k] = <<>>

\* No ring has more messages than there have been.
LogCounted ==
  /\ \A k \in Rings : Len(accepted[k]) <= logged
  /\ \A t \in Threads : pushing[t] # 0 => Len(accepted[ringOf[t]]) < logged
  /\ \A c \in Consumers, k \in Rings : due[c][k] <= Len(accepted[k])

DrainPlaces ==
  \A c \in Consumers : drain[c].pc \in {"emit", "store"} => drain[c].ring \in Rings

LogTypes == LogTypeOK /\ RingsOwned /\ LogCounted /\ DrainPlaces

Phases == {"idle", "look", "emit", "store", "gone"}
Drains == [pc : Phases, ring : 1..(MaxRings + 1), at : Indices, final : BOOLEAN]

LEMMA LogConstants ==
  /\ Writer \notin Flushers /\ Beyond \in BOOLEAN
  /\ MaxRings \in Nat \ {0} /\ Slots \in Nat \ {0} /\ MaxLogs \in Nat \ {0}
BY LogAssumption

LEMMA NextIndex == \A i \in Indices : Next1(i) \in Indices
BY LogConstants DEF Indices, Next1

\* One consumer is moved on, the others stay.
Moved(c, pc, ring, at, final) ==
  /\ drain' \in [Consumers -> Drains]
  /\ drain'[c].pc = pc /\ drain'[c].ring = ring
  /\ drain'[c].at = at /\ drain'[c].final = final
  /\ \A d \in Consumers \ {c} : drain'[d] = drain[d]

LEMMA Replaced ==
  ASSUME NEW S, NEW T, NEW f \in [S -> T], NEW g, NEW x \in S, NEW y \in T,
         g = [f EXCEPT ![x] = y]
  PROVE  g \in [S -> T] /\ g[x] = y /\ \A z \in S \ {x} : g[z] = f[z]
OBVIOUS

LEMMA Moves ==
  ASSUME LogTypeOK, NEW c \in Consumers, NEW pc \in Phases,
         NEW ring \in 1..(MaxRings + 1), NEW at \in Indices, NEW final \in BOOLEAN,
         NEW w, w = [pc |-> pc, ring |-> ring, at |-> at, final |-> final],
         drain' = [drain EXCEPT ![c] = w]
  PROVE  Moved(c, pc, ring, at, final)
<1>1. drain \in [Consumers -> Drains]
  BY DEF LogTypeOK, Drains, Phases
<1>2. w \in Drains
  BY DEF Drains
<1>3. w.pc = pc /\ w.ring = ring /\ w.at = at /\ w.final = final
  OBVIOUS
<1>4. drain' = [drain EXCEPT ![c] = w]
  OBVIOUS
<1>5. drain' \in [Consumers -> Drains] /\ drain'[c] = w
      /\ \A d \in Consumers \ {c} : drain'[d] = drain[d]
  BY <1>1, <1>2, <1>4, Replaced
<1>6. QED BY <1>3, <1>5 DEF Moved

\* The assignments of the steps, written out.
LEMMA DrainFields ==
  ASSUME NEW w \in Drains, NEW p, NEW r, NEW a, NEW f
  PROVE  /\ [w EXCEPT !.pc = p]
              = [pc |-> p, ring |-> w.ring, at |-> w.at, final |-> w.final]
         /\ [w EXCEPT !.ring = r]
              = [pc |-> w.pc, ring |-> r, at |-> w.at, final |-> w.final]
         /\ [w EXCEPT !.pc = p, !.ring = r]
              = [pc |-> p, ring |-> r, at |-> w.at, final |-> w.final]
         /\ [w EXCEPT !.pc = p, !.at = a]
              = [pc |-> p, ring |-> w.ring, at |-> a, final |-> w.final]
         /\ [w EXCEPT !.ring = r, !.final = f]
              = [pc |-> w.pc, ring |-> r, at |-> w.at, final |-> f]
<1>1. [w EXCEPT !.pc = p] = [pc |-> p, ring |-> w.ring, at |-> w.at, final |-> w.final]
  BY DEF Drains
<1>2. [w EXCEPT !.ring = r] = [pc |-> w.pc, ring |-> r, at |-> w.at, final |-> w.final]
  BY DEF Drains
<1>3. /\ [w EXCEPT !.pc = p, !.ring = r] = [[w EXCEPT !.pc = p] EXCEPT !.ring = r]
      /\ [w EXCEPT !.pc = p, !.at = a] = [[w EXCEPT !.pc = p] EXCEPT !.at = a]
      /\ [w EXCEPT !.ring = r, !.final = f] = [[w EXCEPT !.ring = r] EXCEPT !.final = f]
  BY DEF Drains
<1>4. PICK u, v : /\ u = [pc |-> p, ring |-> w.ring, at |-> w.at, final |-> w.final]
                  /\ v = [pc |-> w.pc, ring |-> r, at |-> w.at, final |-> w.final]
  OBVIOUS
<1>5. /\ [u EXCEPT !.ring = r] = [pc |-> p, ring |-> r, at |-> w.at, final |-> w.final]
      /\ [u EXCEPT !.at = a] = [pc |-> p, ring |-> w.ring, at |-> a, final |-> w.final]
      /\ [v EXCEPT !.final = f] = [pc |-> w.pc, ring |-> r, at |-> w.at, final |-> f]
  BY <1>4
<1>6. QED BY <1>1, <1>2, <1>3, <1>4, <1>5, Zenon

LEMMA DrainType ==
  ASSUME LogTypeOK, NEW c \in Consumers
  PROVE  /\ drain[c].pc \in Phases /\ drain[c].ring \in 1..(MaxRings + 1)
         /\ drain[c].at \in Indices /\ drain[c].final \in BOOLEAN
         /\ drain[c] \in Drains
<1>1. drain[c] \in Drains
  BY DEF LogTypeOK, Drains, Phases
<1>2. QED BY <1>1 DEF Drains

LEMMA RingCount ==
  ASSUME LogTypes
  PROVE  NRings \in 0..MaxRings
<1>1. NRings = Cardinality(Registered) /\ IsFiniteSet(Registered)
  BY DEF NRings, Registered, LogTypes, RingsOwned
<1>2. NRings \in Nat
  BY <1>1, FS_CardinalityType
<1>3. NRings <= MaxRings
  BY DEF LogTypes, RingsOwned
<1>4. QED BY <1>2, <1>3, LogConstants

-----------------------------------------------------------------------------
(* What each step of a consumer does. *)

LEMMA LookIs ==
  ASSUME LogTypes, NEW c \in Consumers, Look(c)
  PROVE  LET k == drain[c].ring IN
         /\ drain[c].pc = "look" /\ k \in Rings /\ k <= NRings
         /\ UNCHANGED <<producing, rpos, logger, out, due>>
         /\ \/ /\ rpos[k] = wpos[k] /\ crossed' = crossed
               /\ Moved(c, "look", k + 1, drain[c].at, drain[c].final)
            \/ /\ rpos[k] # wpos[k] /\ crossed' = (crossed \/ Busy(c, k))
               /\ Moved(c, "emit", k, rpos[k], drain[c].final)
<1> DEFINE k == drain[c].ring
<1>1. /\ drain[c].pc = "look" /\ k <= NRings
      /\ UNCHANGED <<producing, rpos, logger, out, due>>
  BY DEF Look
<1>2. LogTypeOK /\ drain[c] \in Drains
  BY DrainType DEF LogTypes
<1>3. k \in Rings
  <2>1. k \in 1..(MaxRings + 1)
    BY <1>2, DrainType
  <2>2. QED BY <1>1, <2>1, RingCount, LogConstants DEF Rings
<1>4. CASE rpos[k] = wpos[k]
  <2> DEFINE w == [drain[c] EXCEPT !.ring = k + 1]
  <2>1. drain' = [drain EXCEPT ![c] = w] /\ crossed' = crossed
    BY <1>4 DEF Look
  <2>2. w = [pc |-> "look", ring |-> k + 1, at |-> drain[c].at, final |-> drain[c].final]
    BY <1>1, <1>2, DrainFields, ZenonT(40)
  <2>3. k + 1 \in 1..(MaxRings + 1)
    BY <1>3, LogConstants DEF Rings
  <2> HIDE DEF w
  <2>4. Moved(c, "look", k + 1, drain[c].at, drain[c].final)
    BY <1>2, <2>1, <2>2, <2>3, DrainType, Moves DEF Phases
  <2>5. QED BY <1>1, <1>3, <1>4, <2>1, <2>4
<1>5. CASE rpos[k] # wpos[k]
  <2> DEFINE w == [drain[c] EXCEPT !.pc = "emit", !.at = rpos[k]]
  <2>1. drain' = [drain EXCEPT ![c] = w] /\ crossed' = (crossed \/ Busy(c, k))
    BY <1>5 DEF Look
  <2>2. w = [pc |-> "emit", ring |-> k, at |-> rpos[k], final |-> drain[c].final]
    BY <1>2, DrainFields, Zenon
  <2>3. rpos[k] \in Indices
    BY <1>2, <1>3 DEF LogTypeOK
  <2> HIDE DEF w
  <2>4. Moved(c, "emit", k, rpos[k], drain[c].final)
    BY <1>2, <2>1, <2>2, <2>3, DrainType, Moves DEF Phases
  <2>5. QED BY <1>1, <1>3, <1>5, <2>1, <2>4
<1>6. QED BY <1>4, <1>5

LEMMA EmitIs ==
  ASSUME LogTypes, NEW c \in Consumers, Emit(c)
  PROVE  LET k == drain[c].ring IN
         /\ drain[c].pc = "emit" /\ k \in Rings
         /\ out' = [out EXCEPT ![k] = Append(out[k], slot[k][drain[c].at])]
         /\ UNCHANGED <<producing, rpos, logger, due, crossed>>
         /\ Moved(c, "store", k, drain[c].at, drain[c].final)
<1> DEFINE k == drain[c].ring
           w == [drain[c] EXCEPT !.pc = "store"]
<1>1. /\ drain[c].pc = "emit"
      /\ drain' = [drain EXCEPT ![c] = w]
      /\ out' = [out EXCEPT ![k] = Append(out[k], slot[k][drain[c].at])]
      /\ UNCHANGED <<producing, rpos, logger, due, crossed>>
  BY DEF Emit
<1>2. LogTypeOK /\ k \in Rings /\ drain[c] \in Drains
  BY <1>1, DrainType DEF LogTypes, DrainPlaces
<1>3. w = [pc |-> "store", ring |-> k, at |-> drain[c].at, final |-> drain[c].final]
  BY <1>2, DrainFields
<1> HIDE DEF w
<1>4. Moved(c, "store", k, drain[c].at, drain[c].final)
  BY <1>1, <1>2, <1>3, DrainType, Moves DEF Phases
<1>5. QED BY <1>1, <1>2, <1>4

LEMMA StoreIs ==
  ASSUME LogTypes, NEW c \in Consumers, Store(c)
  PROVE  LET k == drain[c].ring IN
         /\ drain[c].pc = "store" /\ k \in Rings
         /\ rpos' = [rpos EXCEPT ![k] = Next1(drain[c].at)]
         /\ UNCHANGED <<producing, logger, out, due, crossed>>
         /\ Moved(c, "look", k, drain[c].at, drain[c].final)
<1> DEFINE k == drain[c].ring
           w == [drain[c] EXCEPT !.pc = "look"]
<1>1. /\ drain[c].pc = "store"
      /\ drain' = [drain EXCEPT ![c] = w]
      /\ rpos' = [rpos EXCEPT ![k] = Next1(drain[c].at)]
      /\ UNCHANGED <<producing, logger, out, due, crossed>>
  BY DEF Store
<1>2. LogTypeOK /\ k \in Rings /\ drain[c] \in Drains
  BY <1>1, DrainType DEF LogTypes, DrainPlaces
<1>3. w = [pc |-> "look", ring |-> k, at |-> drain[c].at, final |-> drain[c].final]
  BY <1>2, DrainFields
<1> HIDE DEF w
<1>4. Moved(c, "look", k, drain[c].at, drain[c].final)
  BY <1>1, <1>2, <1>3, DrainType, Moves DEF Phases
<1>5. QED BY <1>1, <1>2, <1>4

LEMMA FlushStartIs ==
  ASSUME LogTypes, NEW c \in Flushers, FlushStart(c)
  PROVE  /\ drain[c].pc = "idle" /\ due' = [due EXCEPT ![c] = Stored]
         /\ UNCHANGED <<producing, rpos, logger, out, crossed>>
         /\ Moved(c, "look", 1, drain[c].at, drain[c].final)
<1> DEFINE w == [drain[c] EXCEPT !.pc = "look", !.ring = 1]
<1>1. /\ drain[c].pc = "idle" /\ drain' = [drain EXCEPT ![c] = w]
      /\ due' = [due EXCEPT ![c] = Stored]
      /\ UNCHANGED <<producing, rpos, logger, out, crossed>>
  BY DEF FlushStart
<1>2. c \in Consumers
  BY DEF Consumers
<1>3. LogTypeOK /\ 1 \in 1..(MaxRings + 1) /\ drain[c] \in Drains
  BY <1>2, LogConstants, DrainType DEF LogTypes
<1>4. w = [pc |-> "look", ring |-> 1, at |-> drain[c].at, final |-> drain[c].final]
  BY <1>3, DrainFields, Zenon
<1> HIDE DEF w
<1>5. Moved(c, "look", 1, drain[c].at, drain[c].final)
  BY <1>1, <1>2, <1>3, <1>4, DrainType, Moves DEF Phases
<1>6. QED BY <1>1, <1>5

LEMMA FlushEndIs ==
  ASSUME LogTypes, NEW c \in Flushers, FlushEnd(c)
  PROVE  /\ drain[c].pc = "look" /\ drain[c].ring > NRings
         /\ UNCHANGED <<producing, rpos, logger, out, due, crossed>>
         /\ Moved(c, "idle", drain[c].ring, drain[c].at, drain[c].final)
<1> DEFINE w == [drain[c] EXCEPT !.pc = "idle"]
<1>1. /\ drain[c].pc = "look" /\ drain[c].ring > NRings
      /\ drain' = [drain EXCEPT ![c] = w]
      /\ UNCHANGED <<producing, rpos, logger, out, due, crossed>>
  BY DEF FlushEnd
<1>2. c \in Consumers
  BY DEF Consumers
<1>3. LogTypeOK /\ drain[c] \in Drains
  BY <1>2, DrainType DEF LogTypes
<1>4. w = [pc |-> "idle", ring |-> drain[c].ring, at |-> drain[c].at, final |-> drain[c].final]
  BY <1>3, DrainFields
<1> HIDE DEF w
<1>5. Moved(c, "idle", drain[c].ring, drain[c].at, drain[c].final)
  BY <1>1, <1>2, <1>3, <1>4, DrainType, Moves DEF Phases
<1>6. QED BY <1>1, <1>5

LEMMA WriterPassIs ==
  ASSUME LogTypes, WriterPass
  PROVE  /\ drain[Writer].pc = "look" /\ drain[Writer].ring > NRings
         /\ UNCHANGED <<producing, rpos, logger, out, due, crossed>>
         /\ \/ logger = "on" /\ Moved(Writer, "look", 1, drain[Writer].at, drain[Writer].final)
            \/ /\ logger # "on" /\ ~drain[Writer].final
               /\ Moved(Writer, "look", 1, drain[Writer].at, TRUE)
            \/ /\ logger # "on" /\ drain[Writer].final
               /\ Moved(Writer, "gone", drain[Writer].ring, drain[Writer].at, TRUE)
<1> DEFINE w == drain[Writer]
           v == PassOver(w)
<1>1. /\ w.pc = "look" /\ w.ring > NRings /\ drain' = [drain EXCEPT ![Writer] = v]
      /\ UNCHANGED <<producing, rpos, logger, out, due, crossed>>
  BY DEF WriterPass
<1>2. LogTypeOK /\ 1 \in 1..(MaxRings + 1) /\ Writer \in Consumers
  BY LogConstants DEF LogTypes, Consumers
<1>3. /\ w \in Drains /\ w.pc \in Phases /\ w.ring \in 1..(MaxRings + 1)
      /\ w.at \in Indices /\ w.final \in BOOLEAN
  BY <1>2, DrainType
<1>4. CASE logger = "on"
  <2>1. v = [w EXCEPT !.ring = 1]
    BY <1>4 DEF PassOver
  <2>2. v = [pc |-> "look", ring |-> 1, at |-> w.at, final |-> w.final]
    BY <1>1, <1>3, <2>1, DrainFields
  <2> HIDE DEF v
  <2>3. Moved(Writer, "look", 1, w.at, w.final)
    BY <1>1, <1>2, <1>3, <2>2, Moves DEF Phases
  <2>4. QED BY <1>1, <1>4, <2>3
<1>5. CASE logger # "on" /\ ~w.final
  <2>1. v = [w EXCEPT !.ring = 1, !.final = TRUE]
    BY <1>5 DEF PassOver
  <2>2. v = [pc |-> w.pc, ring |-> 1, at |-> w.at, final |-> TRUE]
    BY <1>3, <2>1, DrainFields, Zenon
  <2> HIDE DEF v
  <2>3. Moved(Writer, "look", 1, w.at, TRUE)
    BY <1>1, <1>2, <1>3, <2>2, Moves DEF Phases
  <2>4. QED BY <1>1, <1>5, <2>3
<1>6. CASE logger # "on" /\ w.final
  <2>1. v = [w EXCEPT !.pc = "gone"] /\ w.final = TRUE
    BY <1>3, <1>6 DEF PassOver
  <2>2. v = [pc |-> "gone", ring |-> w.ring, at |-> w.at, final |-> TRUE]
    BY <1>3, <2>1, DrainFields
  <2> HIDE DEF v
  <2>3. Moved(Writer, "gone", w.ring, w.at, TRUE)
    BY <1>1, <1>2, <1>3, <2>2, Moves DEF Phases
  <2>4. QED BY <1>1, <1>6, <2>3
<1>7. QED BY <1>4, <1>5, <1>6

-----------------------------------------------------------------------------
(* Types, and who owns which ring. *)

LEMMA LogInitTypes == LogInit => LogTypes
<1> SUFFICES ASSUME LogInit PROVE LogTypes
  OBVIOUS
<1> USE LogConstants
<1>1. Registered = {} /\ \A k \in Rings : accepted[k] = <<>> /\ out[k] = <<>>
  BY DEF LogInit, Registered
<1>2. IsFiniteSet(Registered) /\ NRings = 0
  BY <1>1, FS_EmptySet DEF NRings, Registered
<1>3. RingsOwned
  BY <1>1, <1>2 DEF RingsOwned, LogInit
<1>4. LogTypeOK
  <2>1. drain \in [Consumers -> Drains]
    <3>1. \A c \in Consumers : drain[c] \in Drains
      BY DEF LogInit, Drains, Phases, Indices
    <3>2. QED BY <3>1 DEF LogInit
  <2>2. /\ ringOf \in [Threads -> 0..MaxRings]
        /\ logged \in 0..MaxLogs /\ pushing \in [Threads -> 0..MaxLogs]
        /\ wpos \in [Rings -> Indices] /\ rpos \in [Rings -> Indices]
        /\ logger \in {"on", "closing", "down"} /\ crossed \in BOOLEAN
    <3>1. 0 \in Indices /\ 0 \in 0..MaxRings /\ 0 \in 0..MaxLogs
      BY DEF Indices
    <3>2. QED BY <3>1 DEF LogInit
  <2>3. slot \in [Rings -> [Indices -> 0..MaxLogs]]
    <3>1. 0 \in 0..MaxLogs
      OBVIOUS
    <3> DEFINE zero == [i \in Indices |-> 0]
    <3>2. zero \in [Indices -> 0..MaxLogs]
      BY <3>1
    <3>3. slot = [k \in Rings |-> zero]
      BY Zenon DEF LogInit
    <3> HIDE DEF zero
    <3>4. QED BY <3>2, <3>3
  <2>4. accepted \in [Rings -> Seq(Entries)] /\ out \in [Rings -> Seq(0..MaxLogs)]
    <3>1. <<>> \in Seq(Entries) /\ <<>> \in Seq(0..MaxLogs)
      OBVIOUS
    <3>2. QED BY <3>1 DEF LogInit
  <2>5. due \in [Consumers -> [Rings -> 0..MaxLogs]]
    BY DEF LogInit
  <2>6. QED BY <2>1, <2>2, <2>3, <2>4, <2>5 DEF LogTypeOK, Drains, Phases
<1>5. LogCounted /\ DrainPlaces
  BY <1>1 DEF LogInit, LogCounted, DrainPlaces
<1>6. QED BY <1>3, <1>4, <1>5 DEF LogTypes

\* A step that stores no message.
LEMMA ConsumerTypes ==
  ASSUME LogTypes, UNCHANGED producing, drain' \in [Consumers -> Drains], DrainPlaces',
         rpos' \in [Rings -> Indices], logger' \in {"on", "closing", "down"},
         out' \in [Rings -> Seq(0..MaxLogs)], crossed' \in BOOLEAN,
         due' = due \/ \E c \in Consumers : due' = [due EXCEPT ![c] = Stored]
  PROVE  LogTypes'
<1>1. /\ ringOf' = ringOf /\ logged' = logged /\ pushing' = pushing /\ slot' = slot
      /\ wpos' = wpos /\ accepted' = accepted
  BY DEF producing
<1>2. RingsOwned'
  BY <1>1 DEF LogTypes, RingsOwned, Registered, NRings
<1>3. \A c \in Consumers : \/ due'[c] = due[c]
                           \/ due'[c] = Stored
  BY DEF LogTypes, LogTypeOK
<1>4. \A c \in Consumers, k \in Rings : due'[c][k] <= Len(accepted[k])
  <2> TAKE c \in Consumers, k \in Rings
  <2>1. due[c][k] <= Len(accepted[k]) /\ Len(accepted[k]) \in Nat
    BY DEF LogTypes, LogTypeOK, LogCounted
  <2>2. Stored[k] = Len(accepted[k])
    BY DEF Stored
  <2>3. QED BY <1>3, <2>1, <2>2
<1>5. LogCounted'
  BY <1>1, <1>4 DEF LogTypes, LogCounted
<1>6. Stored \in [Rings -> 0..MaxLogs]
  <2>1. \A k \in Rings : Len(accepted[k]) \in Nat
    BY DEF LogTypes, LogTypeOK
  <2>2. \A k \in Rings : Len(accepted[k]) <= logged
    BY DEF LogTypes, LogCounted
  <2>3. logged \in 0..MaxLogs
    BY DEF LogTypes, LogTypeOK
  <2>4. \A k \in Rings : Len(accepted[k]) \in 0..MaxLogs
    BY <2>1, <2>2, <2>3, LogConstants
  <2>5. QED BY <2>4 DEF Stored
<1>7. due' \in [Consumers -> [Rings -> 0..MaxLogs]]
  <2>1. due \in [Consumers -> [Rings -> 0..MaxLogs]]
    BY DEF LogTypes, LogTypeOK
  <2> HIDE DEF Stored
  <2>2. QED BY <1>6, <2>1
<1>8. LogTypeOK'
  BY <1>1, <1>7 DEF LogTypes, LogTypeOK, Drains, Phases
<1>9. QED BY <1>2, <1>5, <1>8 DEF LogTypes

LEMMA MovedPlaces ==
  ASSUME LogTypes, NEW c \in Consumers, NEW pc, NEW ring, NEW at, NEW final,
         Moved(c, pc, ring, at, final), pc \in {"emit", "store"} => ring \in Rings
  PROVE  DrainPlaces' /\ drain' \in [Consumers -> Drains]
<1>1. \A d \in Consumers \ {c} : drain'[d] = drain[d]
  BY DEF Moved
<1>2. drain'[c].pc = pc /\ drain'[c].ring = ring
  BY DEF Moved
<1>3. QED BY <1>1, <1>2 DEF LogTypes, DrainPlaces, Moved

LEMMA LookTypes == ASSUME LogTypes, NEW c \in Consumers, Look(c) PROVE LogTypes'
<1>1. /\ UNCHANGED <<producing, rpos, logger, out, due>> /\ drain[c].ring \in Rings
      /\ crossed' \in BOOLEAN
      /\ \E pc \in Phases : \E ring, at, final :
           /\ Moved(c, pc, ring, at, final)
           /\ pc \in {"emit", "store"} => ring \in Rings
  BY LookIs DEF LogTypes, LogTypeOK, Busy, Phases
<1>2. DrainPlaces' /\ drain' \in [Consumers -> Drains]
  BY <1>1, MovedPlaces
<1>3. QED BY <1>1, <1>2, ConsumerTypes DEF LogTypes, LogTypeOK

LEMMA EmitTypes == ASSUME LogTypes, NEW c \in Consumers, Emit(c) PROVE LogTypes'
<1> DEFINE k == drain[c].ring
           m == slot[k][drain[c].at]
<1>1. /\ k \in Rings /\ out' = [out EXCEPT ![k] = Append(out[k], m)]
      /\ UNCHANGED <<producing, rpos, logger, due, crossed>>
      /\ Moved(c, "store", k, drain[c].at, drain[c].final)
  BY EmitIs
<1>2. DrainPlaces' /\ drain' \in [Consumers -> Drains]
  BY <1>1, MovedPlaces
<1>3. out' \in [Rings -> Seq(0..MaxLogs)]
  <2>1. m \in 0..MaxLogs
    BY <1>1, DrainType DEF LogTypes, LogTypeOK
  <2>2. Append(out[k], m) \in Seq(0..MaxLogs)
    BY <1>1, <2>1 DEF LogTypes, LogTypeOK
  <2>3. QED BY <1>1, <2>2 DEF LogTypes, LogTypeOK
<1>4. QED BY <1>1, <1>2, <1>3, ConsumerTypes DEF LogTypes, LogTypeOK

LEMMA StoreTypes == ASSUME LogTypes, NEW c \in Consumers, Store(c) PROVE LogTypes'
<1> DEFINE k == drain[c].ring
<1>1. /\ k \in Rings /\ rpos' = [rpos EXCEPT ![k] = Next1(drain[c].at)]
      /\ UNCHANGED <<producing, logger, out, due, crossed>>
      /\ Moved(c, "look", k, drain[c].at, drain[c].final)
  BY StoreIs
<1>2. DrainPlaces' /\ drain' \in [Consumers -> Drains]
  BY <1>1, MovedPlaces
<1>3. rpos' \in [Rings -> Indices]
  BY <1>1, DrainType, NextIndex DEF LogTypes, LogTypeOK
<1>4. QED BY <1>1, <1>2, <1>3, ConsumerTypes DEF LogTypes, LogTypeOK

LEMMA FlushTypes ==
  ASSUME LogTypes, NEW c \in Flushers, FlushStart(c) \/ FlushEnd(c)
  PROVE  LogTypes'
<1>1. c \in Consumers
  BY DEF Consumers
<1>2. /\ UNCHANGED <<producing, rpos, logger, out, crossed>>
      /\ due' = due \/ due' = [due EXCEPT ![c] = Stored]
      /\ \E pc \in {"look", "idle"} : \E ring, at, final : Moved(c, pc, ring, at, final)
  BY FlushStartIs, FlushEndIs
<1>3. DrainPlaces' /\ drain' \in [Consumers -> Drains]
  BY <1>1, <1>2, MovedPlaces
<1>4. QED BY <1>1, <1>2, <1>3, ConsumerTypes DEF LogTypes, LogTypeOK

LEMMA WriterPassTypes == LogTypes /\ WriterPass => LogTypes'
<1> SUFFICES ASSUME LogTypes, WriterPass PROVE LogTypes'
  OBVIOUS
<1>1. Writer \in Consumers
  BY DEF Consumers
<1>2. /\ UNCHANGED <<producing, rpos, logger, out, due, crossed>>
      /\ \E pc \in {"look", "gone"} : \E ring, at, final : Moved(Writer, pc, ring, at, final)
  BY WriterPassIs
<1>3. DrainPlaces' /\ drain' \in [Consumers -> Drains]
  BY <1>1, <1>2, MovedPlaces
<1>4. QED BY <1>2, <1>3, ConsumerTypes DEF LogTypes, LogTypeOK

LEMMA ShutdownTypes == LogTypes /\ (ShutdownStart \/ ShutdownEnd) => LogTypes'
<1> SUFFICES ASSUME LogTypes, ShutdownStart \/ ShutdownEnd PROVE LogTypes'
  OBVIOUS
<1>1. Writer \in Consumers
  BY DEF Consumers
<1>2. /\ UNCHANGED <<producing, rpos, drain, out, crossed>> /\ logger' \in {"closing", "down"}
      /\ due' = due \/ due' = [due EXCEPT ![Writer] = Stored]
  BY DEF ShutdownStart, ShutdownEnd
<1>3. DrainPlaces' /\ drain' \in [Consumers -> Drains]
  BY <1>2 DEF LogTypes, LogTypeOK, DrainPlaces, Drains, Phases
<1>4. QED BY <1>1, <1>2, <1>3, ConsumerTypes DEF LogTypes, LogTypeOK

\* The ring a message goes to, and room for it unless it is dropped.
LEMMA LogWriteIs ==
  ASSUME LogTypes, NEW t \in Threads, LogWrite(t)
  PROVE  /\ logged' = logged + 1 /\ logged < MaxLogs /\ pushing[t] = 0
         /\ UNCHANGED <<slot, wpos, rpos, drain, logger, accepted, out, due, crossed>>
         /\ \/ UNCHANGED <<ringOf, pushing>>
            \/ /\ ringOf'[t] \in Rings
               /\ \/ ringOf[t] # 0 /\ ringOf' = ringOf
                  \/ /\ ringOf[t] = 0 /\ NRings < MaxRings
                     /\ ringOf' = [ringOf EXCEPT ![t] = NRings + 1]
               /\ \/ pushing' = pushing
                  \/ ~Full(ringOf'[t]) /\ pushing' = [pushing EXCEPT ![t] = logged + 1]
<1>1. /\ logged' = logged + 1 /\ logged < MaxLogs /\ pushing[t] = 0
      /\ UNCHANGED <<slot, wpos, rpos, drain, logger, accepted, out, due, crossed>>
  BY DEF LogWrite
<1>2. NRings \in 0..MaxRings /\ MaxRings \in Nat
  BY RingCount, LogConstants
<1>3. ringOf \in [Threads -> 0..MaxRings]
  BY DEF LogTypes, LogTypeOK
<1>4. CASE ringOf[t] = 0 /\ NRings >= MaxRings
  BY <1>1, <1>4 DEF LogWrite
<1>5. CASE ~(ringOf[t] = 0 /\ NRings >= MaxRings)
  <2>1. /\ ringOf' = IF ringOf[t] # 0 THEN ringOf ELSE [ringOf EXCEPT ![t] = NRings + 1]
        /\ pushing' = IF Full(ringOf'[t]) THEN pushing
                      ELSE [pushing EXCEPT ![t] = logged']
    BY <1>5 DEF LogWrite
  <2>2. ringOf'[t] \in Rings
    BY <1>2, <1>3, <1>5, <2>1 DEF Rings
  <2>3. \/ ringOf[t] # 0 /\ ringOf' = ringOf
        \/ /\ ringOf[t] = 0 /\ NRings < MaxRings
           /\ ringOf' = [ringOf EXCEPT ![t] = NRings + 1]
    BY <1>2, <1>5, <2>1
  <2>4. \/ pushing' = pushing
        \/ ~Full(ringOf'[t]) /\ pushing' = [pushing EXCEPT ![t] = logged + 1]
    BY <1>1, <2>1
  <2>5. QED BY <1>1, <2>2, <2>3, <2>4
<1>6. QED BY <1>4, <1>5

\* A thread that gets a ring gets one that is nobody's.
LEMMA RingGiven ==
  ASSUME LogTypes, NEW t \in Threads, ringOf[t] = 0, NRings < MaxRings,
         ringOf' = [ringOf EXCEPT ![t] = NRings + 1]
  PROVE  /\ Registered' = Registered \cup {t} /\ t \notin Registered
         /\ IsFiniteSet(Registered') /\ NRings' = NRings + 1
         /\ \A u \in Registered : ringOf'[u] = ringOf[u] /\ ringOf[u] <= NRings
         /\ ringOf'[t] = NRings + 1
<1>1. NRings \in Nat /\ IsFiniteSet(Registered) /\ NRings = Cardinality(Registered)
  BY RingCount DEF NRings, Registered, LogTypes, RingsOwned
<1>2. /\ ringOf'[t] = NRings + 1 /\ t \notin Registered
      /\ \A u \in Threads \ {t} : ringOf'[u] = ringOf[u]
  BY DEF LogTypes, LogTypeOK, Registered
<1>3. Registered' = Registered \cup {t}
  BY <1>1, <1>2 DEF Registered
<1>4. IsFiniteSet(Registered') /\ Cardinality(Registered') = NRings + 1
  BY <1>1, <1>2, <1>3, FS_AddElement
<1>5. NRings' = NRings + 1
  BY <1>4 DEF NRings, Registered
<1>6. \A u \in Registered : u \in Threads \ {t} /\ ringOf[u] <= NRings
  BY <1>2 DEF LogTypes, RingsOwned, Registered
<1>7. QED BY <1>2, <1>3, <1>4, <1>5, <1>6

LEMMA LogWriteTypes == ASSUME LogTypes, NEW t \in Threads, LogWrite(t) PROVE LogTypes'
<1>1. /\ logged' = logged + 1 /\ logged < MaxLogs /\ pushing[t] = 0
      /\ UNCHANGED <<slot, wpos, rpos, drain, logger, accepted, out, due, crossed>>
      /\ \/ UNCHANGED <<ringOf, pushing>>
         \/ /\ ringOf'[t] \in Rings
            /\ \/ ringOf[t] # 0 /\ ringOf' = ringOf
               \/ /\ ringOf[t] = 0 /\ NRings < MaxRings
                  /\ ringOf' = [ringOf EXCEPT ![t] = NRings + 1]
            /\ pushing' = pushing \/ pushing' = [pushing EXCEPT ![t] = logged + 1]
  BY LogWriteIs
<1>2. /\ logged \in 0..MaxLogs /\ pushing \in [Threads -> 0..MaxLogs]
      /\ ringOf \in [Threads -> 0..MaxRings] /\ MaxLogs \in Nat /\ MaxRings \in Nat
  BY LogConstants DEF LogTypes, LogTypeOK
<1>3. logged' \in 0..MaxLogs /\ pushing' \in [Threads -> 0..MaxLogs]
  BY <1>1, <1>2
<1>4. ringOf' \in [Threads -> 0..MaxRings]
  BY <1>1, <1>2, RingCount
<1>5. LogTypeOK'
  BY <1>1, <1>3, <1>4 DEF LogTypes, LogTypeOK
<1>6. DrainPlaces'
  BY <1>1 DEF LogTypes, DrainPlaces
<1>7. /\ \A u \in Threads \ {t} : pushing'[u] = pushing[u]
      /\ pushing'[t] # 0 => ringOf'[t] \in Rings
  BY <1>1, <1>2
<1>8. \A k \in Rings : k \in Nat /\ Len(accepted[k]) \in Nat /\ Len(accepted[k]) <= logged
  BY DEF LogTypes, LogTypeOK, LogCounted, Rings
<1>9. RingsOwned' /\ \A u \in Threads \ {t} : pushing[u] # 0 => ringOf'[u] = ringOf[u]
  <2>1. CASE ringOf' = ringOf
    <3>1. Registered' = Registered /\ NRings' = NRings
      BY <2>1 DEF Registered, NRings
    <3>2. \A u \in Threads : pushing'[u] # 0 => ringOf'[u] # 0
      BY <1>7, <2>1 DEF LogTypes, RingsOwned, Rings
    <3>3. QED BY <1>1, <2>1, <3>1, <3>2 DEF LogTypes, RingsOwned
  <2>2. CASE /\ ringOf[t] = 0 /\ NRings < MaxRings
             /\ ringOf' = [ringOf EXCEPT ![t] = NRings + 1]
    <3>1. /\ Registered' = Registered \cup {t} /\ t \notin Registered
          /\ IsFiniteSet(Registered') /\ NRings' = NRings + 1
          /\ \A u \in Registered : ringOf'[u] = ringOf[u] /\ ringOf[u] <= NRings
          /\ ringOf'[t] = NRings + 1
      BY <2>2, RingGiven
    <3>2. NRings \in Nat /\ NRings' <= MaxRings
      BY <1>2, <2>2, <3>1, RingCount
    <3>3. \A u \in Threads : ringOf[u] \in Int
      BY <1>2
    <3>4. \A u \in Registered' : ringOf'[u] <= NRings'
      BY <3>1, <3>2, <3>3 DEF Registered
    <3>5. \A u, v \in Registered' : ringOf'[u] = ringOf'[v] => u = v
      BY <3>1, <3>2, <3>3 DEF LogTypes, RingsOwned, Registered
    <3>6. \A u \in Threads : pushing'[u] # 0 => ringOf'[u] # 0
      <4>1. \A u \in Threads \ {t} : ringOf'[u] = ringOf[u]
        BY <1>2, <2>2
      <4>2. QED BY <1>7, <3>1, <3>2, <4>1 DEF LogTypes, RingsOwned
    <3>7. \A k \in Rings : k > NRings' => accepted'[k] = <<>>
      BY <1>1, <1>8, <3>1, <3>2 DEF LogTypes, RingsOwned
    <3>8. \A u \in Threads \ {t} : ringOf'[u] = ringOf[u]
      BY <1>2, <2>2
    <3>9. QED BY <3>1, <3>2, <3>4, <3>5, <3>6, <3>7, <3>8 DEF RingsOwned
  <2>3. QED BY <1>1, <2>1, <2>2
<1>10. LogCounted'
  <2>1. \A k \in Rings : Len(accepted'[k]) <= logged'
    BY <1>1, <1>2, <1>8
  <2>2. ASSUME NEW u \in Threads, pushing'[u] # 0
        PROVE  Len(accepted'[ringOf'[u]]) < logged'
    <3>1. ringOf'[u] \in Rings
      BY <1>4, <1>9, <2>2 DEF RingsOwned, Rings
    <3>2. QED BY <1>1, <1>2, <1>8, <3>1
  <2>3. \A c \in Consumers, k \in Rings : due'[c][k] <= Len(accepted'[k])
    BY <1>1 DEF LogTypes, LogCounted
  <2>4. QED BY <2>1, <2>2, <2>3 DEF LogCounted
<1>11. QED BY <1>5, <1>6, <1>9, <1>10 DEF LogTypes

LEMMA PublishIs ==
  ASSUME LogTypes, NEW t \in Threads, Publish(t)
  PROVE  LET k == ringOf[t] IN
         /\ k \in Rings /\ k <= NRings /\ pushing[t] # 0 /\ pushing[t] \in Entries
         /\ wpos[k] \in Indices /\ slot \in [Rings -> [Indices -> 0..MaxLogs]]
         /\ slot' = [slot EXCEPT ![k] = [slot[k] EXCEPT ![wpos[k]] = pushing[t]]]
         /\ wpos' = [wpos EXCEPT ![k] = Next1(wpos[k])]
         /\ accepted' = [accepted EXCEPT ![k] = Append(accepted[k], pushing[t])]
         /\ pushing' = [pushing EXCEPT ![t] = 0]
         /\ UNCHANGED <<ringOf, logged, rpos, drain, logger, out, due, crossed>>
         /\ \A u \in Threads \ {t} : pushing[u] # 0 => ringOf[u] # k /\ ringOf[u] \in Rings
<1> DEFINE k == ringOf[t]
<1>1. /\ pushing[t] # 0
      /\ slot' = [slot EXCEPT ![k] = [slot[k] EXCEPT ![wpos[k]] = pushing[t]]]
      /\ wpos' = [wpos EXCEPT ![k] = Next1(wpos[k])]
      /\ accepted' = [accepted EXCEPT ![k] = Append(accepted[k], pushing[t])]
      /\ pushing' = [pushing EXCEPT ![t] = 0]
      /\ UNCHANGED <<ringOf, logged, rpos, drain, logger, out, due, crossed>>
  BY DEF Publish
<1>2. /\ ringOf \in [Threads -> 0..MaxRings] /\ pushing \in [Threads -> 0..MaxLogs]
      /\ wpos \in [Rings -> Indices] /\ slot \in [Rings -> [Indices -> 0..MaxLogs]]
  BY DEF LogTypes, LogTypeOK
<1>3. \A u \in Threads : pushing[u] # 0 => u \in Registered /\ ringOf[u] \in Rings
  BY <1>2 DEF LogTypes, RingsOwned, Registered, Rings
<1>4. pushing[t] \in Entries
  BY <1>1, <1>2 DEF Entries
<1>5. k <= NRings /\ \A u \in Threads \ {t} : pushing[u] # 0 => ringOf[u] # k
  BY <1>1, <1>3 DEF LogTypes, RingsOwned
<1>6. QED BY <1>1, <1>2, <1>3, <1>4, <1>5

LEMMA PublishTypes == ASSUME LogTypes, NEW t \in Threads, Publish(t) PROVE LogTypes'
<1> DEFINE k == ringOf[t]
<1>1. /\ k \in Rings /\ k <= NRings /\ pushing[t] # 0 /\ pushing[t] \in Entries
      /\ wpos[k] \in Indices /\ slot \in [Rings -> [Indices -> 0..MaxLogs]]
      /\ slot' = [slot EXCEPT ![k] = [slot[k] EXCEPT ![wpos[k]] = pushing[t]]]
      /\ wpos' = [wpos EXCEPT ![k] = Next1(wpos[k])]
      /\ accepted' = [accepted EXCEPT ![k] = Append(accepted[k], pushing[t])]
      /\ pushing' = [pushing EXCEPT ![t] = 0]
      /\ UNCHANGED <<ringOf, logged, rpos, drain, logger, out, due, crossed>>
      /\ \A u \in Threads \ {t} : pushing[u] # 0 => ringOf[u] # k /\ ringOf[u] \in Rings
  BY PublishIs
<1> HIDE DEF k
<1>2. /\ accepted \in [Rings -> Seq(Entries)] /\ wpos \in [Rings -> Indices]
      /\ pushing \in [Threads -> 0..MaxLogs] /\ logged \in 0..MaxLogs
  BY DEF LogTypes, LogTypeOK
<1>3. /\ accepted' \in [Rings -> Seq(Entries)]
      /\ Len(accepted'[k]) = Len(accepted[k]) + 1
      /\ \A j \in Rings \ {k} : accepted'[j] = accepted[j]
  BY <1>1, <1>2
<1>4. slot' \in [Rings -> [Indices -> 0..MaxLogs]]
  <2>1. [slot[k] EXCEPT ![wpos[k]] = pushing[t]] \in [Indices -> 0..MaxLogs]
    BY <1>1, <1>2
  <2>2. QED BY <1>1, <2>1
<1>5. wpos' \in [Rings -> Indices]
  BY <1>1, <1>2, NextIndex
<1>6. pushing' \in [Threads -> 0..MaxLogs]
  BY <1>1, <1>2, LogConstants
<1>7. LogTypeOK'
  BY <1>1, <1>3, <1>4, <1>5, <1>6 DEF LogTypes, LogTypeOK
<1>8. DrainPlaces'
  BY <1>1 DEF LogTypes, DrainPlaces
<1>9. RingsOwned'
  <2>1. Registered' = Registered /\ NRings' = NRings
    BY <1>1 DEF Registered, NRings
  <2>2. \A u \in Threads : pushing'[u] # 0 => pushing[u] # 0
    BY <1>1, <1>2
  <2>3. \A j \in Rings : j > NRings => j # k
    <3>1. \A j \in Rings : j \in Int
      BY DEF Rings
    <3>2. NRings \in Int
      BY RingCount
    <3>3. QED BY <1>1, <3>1, <3>2
  <2>4. QED BY <1>1, <1>3, <2>1, <2>2, <2>3 DEF LogTypes, RingsOwned
<1>10. LogCounted'
  <2>1. Len(accepted[k]) < logged
    BY <1>1 DEF LogTypes, LogCounted, k
  <2>2. \A j \in Rings : Len(accepted[j]) \in Nat /\ Len(accepted[j]) <= logged
    BY <1>2 DEF LogTypes, LogCounted
  <2>3. \A j \in Rings : /\ Len(accepted'[j]) <= logged
                         /\ Len(accepted[j]) <= Len(accepted'[j])
    BY <1>1, <1>2, <1>3, <2>1, <2>2
  <2>4. \A u \in Threads : pushing'[u] # 0 => Len(accepted'[ringOf[u]]) < logged
    <3> TAKE u \in Threads
    <3> HAVE pushing'[u] # 0
    <3>1. u # t /\ pushing[u] # 0
      BY <1>1, <1>2
    <3>2. accepted'[ringOf[u]] = accepted[ringOf[u]]
      BY <1>1, <1>3, <3>1
    <3>3. QED BY <3>1, <3>2 DEF LogTypes, LogCounted
  <2>5. \A c \in Consumers, j \in Rings : due[c][j] <= Len(accepted'[j])
    <3> TAKE c \in Consumers, j \in Rings
    <3>1. due[c][j] \in Nat /\ due[c][j] <= Len(accepted[j]) /\ Len(accepted'[j]) \in Nat
      BY <1>3 DEF LogTypes, LogTypeOK, LogCounted
    <3>2. QED BY <2>2, <2>3, <3>1
  <2>6. QED BY <1>1, <2>3, <2>4, <2>5 DEF LogCounted
<1>11. QED BY <1>7, <1>8, <1>9, <1>10 DEF LogTypes

LEMMA LogNextTypes == LogTypes /\ [LogNext]_logVars => LogTypes'
<1> SUFFICES ASSUME LogTypes, [LogNext]_logVars PROVE LogTypes'
  OBVIOUS
<1>1. CASE UNCHANGED logVars
  <2>1. UNCHANGED <<ringOf, logged, pushing, slot, wpos, rpos, drain, logger, accepted,
                    out, due, crossed>>
    BY <1>1 DEF logVars
  <2>2. Registered' = Registered /\ NRings' = NRings
    BY <2>1 DEF Registered, NRings
  <2>3. QED
    BY <2>1, <2>2 DEF LogTypes, LogTypeOK, RingsOwned, LogCounted, DrainPlaces
<1>2. Writer \in Consumers /\ \A c \in Flushers : c \in Consumers
  BY DEF Consumers
<1>3. QED
  BY <1>1, <1>2, LogWriteTypes, PublishTypes, LookTypes, EmitTypes, StoreTypes, FlushTypes,
     WriterPassTypes, ShutdownTypes
  DEF LogNext, WriterStep

LEMMA LogTypesInvariant == LogSpec => []LogTypes
BY LogInitTypes, LogNextTypes, PTL DEF LogSpec

-----------------------------------------------------------------------------
(* What a ring holds while no two consumers have met. *)

AtEntry(c, k) == drain[c].ring = k /\ drain[c].pc \in {"emit", "store"}

\* The entries of a ring that have been taken out, by the read index: the one that
\* is being stored past has been written already.
Taken(k) == IF Storing(k) THEN Len(out[k]) - 1 ELSE Len(out[k])

\* The slots between the indices hold what has been accepted and not taken.
SlotsHold(k) ==
  /\ Taken(k) \in Nat /\ Taken(k) <= Len(accepted[k]) /\ Len(accepted[k]) - Taken(k) < Slots
  /\ rpos[k] = Taken(k) % Slots /\ wpos[k] = Len(accepted[k]) % Slots
  /\ \A j \in Nat : Taken(k) <= j /\ j < Len(accepted[k])
                      => slot[k][j % Slots] = accepted[k][j + 1]

\* What has been written is what was accepted first.
Copied(k) ==
  /\ Len(out[k]) <= Len(accepted[k])
  /\ \A j \in 1..Len(out[k]) : out[k][j] = accepted[k][j]

\* One consumer at a time is at the ring's entry, and there is one.
OneAtEntry(k) ==
  /\ \A c, d \in Consumers : AtEntry(c, k) /\ AtEntry(d, k) => c = d
  /\ \A c \in Consumers :
       AtEntry(c, k) => drain[c].at = rpos[k] /\ Taken(k) < Len(accepted[k])

\* A thread that has found room still has it.
RoomLeft(k) ==
  \A t \in Threads : pushing[t] # 0 /\ ringOf[t] = k => Len(accepted[k]) - Taken(k) + 1 < Slots

RingHolds(k) == SlotsHold(k) /\ Copied(k) /\ OneAtEntry(k) /\ RoomLeft(k)

LEMMA RingTypes ==
  ASSUME LogTypes, NEW k \in Rings
  PROVE  /\ accepted[k] \in Seq(Entries) /\ out[k] \in Seq(0..MaxLogs)
         /\ Len(accepted[k]) \in Nat /\ Len(out[k]) \in Nat
         /\ Slots \in Nat \ {0} /\ Slots \in Int
BY LogConstants DEF LogTypes, LogTypeOK

LEMMA InitHolds == LogInit => \A k \in Rings : RingHolds(k)
<1> SUFFICES ASSUME LogInit, NEW k \in Rings PROVE RingHolds(k)
  OBVIOUS
<1>1. /\ Len(accepted[k]) = 0 /\ Len(out[k]) = 0 /\ rpos[k] = 0 /\ wpos[k] = 0
      /\ \A t \in Threads : pushing[t] = 0
  BY DEF LogInit
<1>2. \A c \in Consumers : drain[c].pc \in {"look", "idle"}
  BY DEF LogInit
<1>3. Taken(k) = 0
  BY <1>1, <1>2 DEF Taken, Storing
<1>4. 0 % Slots = 0 /\ 0 < Slots
  BY LogConstants
<1>5. SlotsHold(k)
  BY <1>1, <1>3, <1>4 DEF SlotsHold
<1>6. Copied(k) /\ OneAtEntry(k) /\ RoomLeft(k)
  BY <1>1, <1>2 DEF Copied, OneAtEntry, RoomLeft, AtEntry
<1>7. QED BY <1>5, <1>6 DEF RingHolds

\* A step that leaves a ring and whoever is at its entry alone.
LEMMA RingUntouched ==
  ASSUME LogTypes, NEW k \in Rings, RingHolds(k),
         out'[k] = out[k], accepted'[k] = accepted[k], rpos'[k] = rpos[k],
         wpos'[k] = wpos[k], slot'[k] = slot[k],
         \A c \in Consumers : drain'[c] = drain[c] \/ ~(AtEntry(c, k) \/ AtEntry(c, k)'),
         \A t \in Threads :
           pushing'[t] # 0 /\ ringOf'[t] = k
             => (pushing[t] # 0 /\ ringOf[t] = k) \/ Len(accepted[k]) - Taken(k) + 1 < Slots
  PROVE  RingHolds(k)'
<1>1. Storing(k)' <=> Storing(k)
  BY DEF Storing, AtEntry
<1>2. Taken(k)' = Taken(k)
  BY <1>1 DEF Taken
<1>3. SlotsHold(k)'
  BY <1>2 DEF RingHolds, SlotsHold
<1>4. Copied(k)'
  BY DEF RingHolds, Copied
<1>5. OneAtEntry(k)'
  <2>1. \A c \in Consumers : AtEntry(c, k)' => AtEntry(c, k) /\ drain'[c] = drain[c]
    BY DEF AtEntry
  <2>2. QED BY <1>2, <2>1 DEF RingHolds, OneAtEntry
<1>6. RoomLeft(k)'
  BY <1>2 DEF RingHolds, RoomLeft
<1>7. QED BY <1>3, <1>4, <1>5, <1>6 DEF RingHolds

LEMMA LogWriteHolds ==
  ASSUME LogTypes, NEW t \in Threads, LogWrite(t), NEW k \in Rings, RingHolds(k)
  PROVE  RingHolds(k)'
<1>1. /\ pushing[t] = 0
      /\ UNCHANGED <<slot, wpos, rpos, drain, logger, accepted, out, due, crossed>>
      /\ \/ UNCHANGED <<ringOf, pushing>>
         \/ /\ \/ ringOf[t] # 0 /\ ringOf' = ringOf
               \/ ringOf' = [ringOf EXCEPT ![t] = NRings + 1]
            /\ \/ pushing' = pushing
               \/ ~Full(ringOf'[t]) /\ pushing' = [pushing EXCEPT ![t] = logged + 1]
  BY LogWriteIs
<1>2. \A u \in Threads \ {t} : ringOf'[u] = ringOf[u] /\ pushing'[u] = pushing[u]
  BY <1>1 DEF LogTypes, LogTypeOK
<1>3. pushing'[t] # 0 => ~Full(ringOf'[t])
  BY <1>1
<1>4. ASSUME ~Full(k) PROVE Len(accepted[k]) - Taken(k) + 1 < Slots
  <2> DEFINE a == Len(accepted[k])
             r == Taken(k)
  <2>1. a \in Nat /\ r \in Nat /\ Slots \in Nat \ {0} /\ r <= a /\ a - r < Slots
    BY RingTypes DEF RingHolds, SlotsHold
  <2>2. (a + 1) % Slots # r % Slots
    <3>1. ((a % Slots) + 1) % Slots # r % Slots
      BY <1>4 DEF Full, Next1, RingHolds, SlotsHold
    <3> HIDE DEF a, r
    <3>2. QED BY <2>1, <3>1, ModNext
  <2> HIDE DEF a, r
  <2>3. SUFFICES ASSUME a + 1 = r + Slots PROVE FALSE
    BY <2>1 DEF a, r
  <2>4. (r + Slots) % Slots = r % Slots
    BY <2>1, ModAdd
  <2>5. QED BY <2>2, <2>3, <2>4
<1>5. \A u \in Threads :
        pushing'[u] # 0 /\ ringOf'[u] = k
          => (pushing[u] # 0 /\ ringOf[u] = k) \/ Len(accepted[k]) - Taken(k) + 1 < Slots
  BY <1>2, <1>3, <1>4
<1>6. QED BY <1>1, <1>5, RingUntouched

LEMMA PublishHolds ==
  ASSUME LogTypes, NEW t \in Threads, Publish(t), NEW k \in Rings, RingHolds(k)
  PROVE  RingHolds(k)'
<1> DEFINE o == ringOf[t]
<1>1. /\ o \in Rings /\ pushing[t] # 0 /\ pushing[t] \in Entries
      /\ wpos[o] \in Indices /\ slot \in [Rings -> [Indices -> 0..MaxLogs]]
      /\ slot' = [slot EXCEPT ![o] = [slot[o] EXCEPT ![wpos[o]] = pushing[t]]]
      /\ wpos' = [wpos EXCEPT ![o] = Next1(wpos[o])]
      /\ accepted' = [accepted EXCEPT ![o] = Append(accepted[o], pushing[t])]
      /\ pushing' = [pushing EXCEPT ![t] = 0]
      /\ UNCHANGED <<ringOf, logged, rpos, drain, logger, out, due, crossed>>
      /\ \A u \in Threads \ {t} : pushing[u] # 0 => ringOf[u] # o
  BY PublishIs
<1>2. /\ accepted \in [Rings -> Seq(Entries)] /\ wpos \in [Rings -> Indices]
      /\ pushing \in [Threads -> 0..MaxLogs]
  BY DEF LogTypes, LogTypeOK
<1>3. \A u \in Threads : pushing'[u] # 0 => u # t /\ pushing[u] # 0 /\ ringOf[u] # o
  BY <1>1, <1>2
<1> HIDE DEF o
<1>4. CASE k # o
  <2>1. wpos'[k] = wpos[k] /\ accepted'[k] = accepted[k] /\ slot'[k] = slot[k]
    BY <1>1, <1>2, <1>4
  <2>2. QED BY <1>1, <1>3, <2>1, RingUntouched
<1>5. CASE k = o
  <2>0. PICK a, r, m : a = Len(accepted[k]) /\ r = Taken(k) /\ m = pushing[t]
    OBVIOUS
  <2>1. /\ accepted[k] \in Seq(Entries) /\ a \in Nat /\ Slots \in Nat \ {0}
        /\ Len(out[k]) \in Nat
    BY <2>0, RingTypes
  <2>2. /\ Len(accepted'[k]) = a + 1 /\ accepted'[k][a + 1] = m
        /\ \A j \in 1..a : accepted'[k][j] = accepted[k][j]
    BY <2>0, <1>1, <1>2, <1>5, <2>1
  <2>3. /\ r \in Nat /\ r <= a /\ rpos[k] = r % Slots /\ wpos[k] = a % Slots
        /\ \A j \in Nat : r <= j /\ j < a => slot[k][j % Slots] = accepted[k][j + 1]
    BY <2>0 DEF RingHolds, SlotsHold
  <2>4. a - r + 1 < Slots
    BY <2>0, <1>1, <1>5 DEF RingHolds, RoomLeft, o
  <2>5. Taken(k)' = r
    BY <2>0, <1>1 DEF Taken, Storing
  <2>6. /\ slot'[k][a % Slots] = m
        /\ \A i \in Indices : i # a % Slots => slot'[k][i] = slot[k][i]
    BY <2>0, <1>1, <1>5, <2>3
  <2>7. wpos'[k] = (a + 1) % Slots
    <3>1. wpos'[k] = ((a % Slots) + 1) % Slots
      BY <2>0, <1>1, <1>2, <1>5, <2>3 DEF Next1
    <3>2. QED BY <2>1, <3>1, ModNext
  <2>8. ASSUME NEW j \in Nat, r <= j, j < a + 1
        PROVE  slot'[k][j % Slots] = accepted'[k][j + 1]
    <3>1. CASE j = a
      BY <2>2, <2>6, <3>1
    <3>2. CASE j < a
      <4>0. a - j < Slots
        BY <2>1, <2>3, <2>4, <2>8
      <4>1. j % Slots # a % Slots
        BY <2>1, <2>8, <3>2, <4>0, ModDiffers
      <4>2. j % Slots \in Indices
        BY <2>1 DEF Indices
      <4>3. j + 1 \in 1..a
        BY <2>1, <3>2
      <4>4. QED BY <2>2, <2>3, <2>6, <2>8, <3>2, <4>1, <4>2, <4>3
    <3>3. QED BY <2>1, <2>8, <3>1, <3>2
  <2>9. SlotsHold(k)'
    <3>1. rpos'[k] = r % Slots
      BY <2>0, <1>1, <2>3
    <3>2. r <= a + 1 /\ a + 1 - r < Slots
      BY <2>1, <2>3, <2>4
    <3>3. /\ Len(accepted'[k]) - Taken(k)' < Slots /\ Taken(k)' <= Len(accepted'[k])
          /\ Taken(k)' \in Nat
      <4>1. Len(accepted'[k]) = a + 1 /\ r \in Nat
        BY <2>2, <2>3
      <4>2. QED BY <2>1, <2>5, <3>2, <4>1
    <3>4. \A j \in Nat : Taken(k)' <= j /\ j < Len(accepted'[k])
                            => slot'[k][j % Slots] = accepted'[k][j + 1]
      BY <2>2, <2>5, <2>8
    <3>5. rpos'[k] = Taken(k)' % Slots /\ wpos'[k] = Len(accepted'[k]) % Slots
      BY <2>2, <2>5, <2>7, <3>1
    <3>6. QED BY <3>3, <3>4, <3>5 DEF SlotsHold
  <2>10. Copied(k)'
    <3>1. out'[k] = out[k] /\ Len(out[k]) <= a
          /\ \A j \in 1..Len(out[k]) : out[k][j] = accepted[k][j]
      BY <2>0, <1>1 DEF RingHolds, Copied
    <3>2. \A j \in 1..Len(out[k]) : j \in 1..a
      BY <2>1, <3>1
    <3>3. Len(out[k]) <= a + 1
      BY <2>1, <3>1
    <3>4. QED BY <2>2, <3>1, <3>2, <3>3 DEF Copied
  <2>11. OneAtEntry(k)'
    <3>1. \A c \in Consumers : AtEntry(c, k)' <=> AtEntry(c, k)
      BY <1>1 DEF AtEntry
    <3>2. r < a => r < a + 1
      BY <2>1, <2>3
    <3>3. QED BY <2>0, <1>1, <2>2, <2>5, <3>1, <3>2 DEF RingHolds, OneAtEntry
  <2>12. RoomLeft(k)'
    BY <1>1, <1>3, <1>5 DEF RoomLeft
  <2>13. QED BY <2>9, <2>10, <2>11, <2>12 DEF RingHolds
<1>6. QED BY <1>4, <1>5

\* The consumer found nothing, or the ring's next entry and nobody at it.
LEMMA LookHolds ==
  ASSUME LogTypes, NEW c \in Consumers, Look(c), ~crossed', NEW k \in Rings, RingHolds(k)
  PROVE  RingHolds(k)'
<1> DEFINE q == drain[c].ring
<1>1. /\ drain[c].pc = "look" /\ UNCHANGED <<producing, rpos, logger, out, due>>
      /\ \/ Moved(c, "look", q + 1, drain[c].at, drain[c].final)
         \/ /\ rpos[q] # wpos[q] /\ ~Busy(c, q)
            /\ Moved(c, "emit", q, rpos[q], drain[c].final)
  BY LookIs
<1>2. /\ \A d \in Consumers \ {c} : drain'[d] = drain[d]
      /\ drain'[c].pc \in {"look", "emit"}
  BY <1>1 DEF Moved
<1>3. /\ ringOf' = ringOf /\ pushing' = pushing /\ slot' = slot
      /\ wpos' = wpos /\ accepted' = accepted /\ out' = out /\ rpos' = rpos
  BY <1>1 DEF producing
<1>4. CASE ~AtEntry(c, k)'
  <2>1. ~AtEntry(c, k)
    BY <1>1 DEF AtEntry
  <2>2. QED BY <1>2, <1>3, <1>4, <2>1, RingUntouched
<1>5. CASE AtEntry(c, k)'
  <2>1. /\ q = k /\ rpos[k] # wpos[k] /\ ~Busy(c, k) /\ drain'[c].pc = "emit"
        /\ drain'[c].at = rpos[k]
    BY <1>1, <1>5 DEF Moved, AtEntry
  <2>2. Storing(k)' <=> Storing(k)
    BY <1>1, <1>2, <2>1 DEF Storing
  <2>3. Taken(k)' = Taken(k)
    BY <1>3, <2>2 DEF Taken
  <2>4. \A d \in Consumers : AtEntry(d, k)' => d = c
    BY <1>2, <2>1 DEF AtEntry, Busy
  <2>5. Taken(k) < Len(accepted[k])
    BY <2>1, RingTypes DEF RingHolds, SlotsHold
  <2>6. OneAtEntry(k)'
    BY <1>3, <2>1, <2>3, <2>4, <2>5 DEF OneAtEntry
  <2>7. SlotsHold(k)' /\ Copied(k)' /\ RoomLeft(k)'
    BY <1>3, <2>3 DEF RingHolds, SlotsHold, Copied, RoomLeft
  <2>8. QED BY <2>6, <2>7 DEF RingHolds
<1>6. QED BY <1>4, <1>5

\* It writes the entry that was accepted next.
LEMMA EmitHolds ==
  ASSUME LogTypes, NEW c \in Consumers, Emit(c), NEW k \in Rings, RingHolds(k)
  PROVE  RingHolds(k)'
<1> DEFINE q == drain[c].ring
<1>1. /\ drain[c].pc = "emit" /\ q \in Rings
      /\ out' = [out EXCEPT ![q] = Append(out[q], slot[q][drain[c].at])]
      /\ UNCHANGED <<producing, rpos, logger, due, crossed>>
      /\ Moved(c, "store", q, drain[c].at, drain[c].final)
  BY EmitIs
<1>2. /\ \A d \in Consumers \ {c} : drain'[d] = drain[d]
      /\ drain'[c].pc = "store" /\ drain'[c].ring = q /\ drain'[c].at = drain[c].at
  BY <1>1 DEF Moved
<1>3. /\ ringOf' = ringOf /\ pushing' = pushing /\ slot' = slot
      /\ wpos' = wpos /\ accepted' = accepted /\ rpos' = rpos
  BY <1>1 DEF producing
<1>4. out \in [Rings -> Seq(0..MaxLogs)]
  BY DEF LogTypes, LogTypeOK
<1> HIDE DEF q
<1>5. CASE q # k
  <2>1. out'[k] = out[k]
    BY <1>1, <1>4, <1>5
  <2>2. ~AtEntry(c, k) /\ ~AtEntry(c, k)'
    BY <1>2, <1>5 DEF AtEntry, q
  <2>3. QED BY <1>2, <1>3, <2>1, <2>2, RingUntouched
<1>6. CASE q = k
  <2> DEFINE a == Len(accepted[k])
             n == Len(out[k])
             m == slot[k][drain[c].at]
  <2>1. /\ out[k] \in Seq(0..MaxLogs) /\ a \in Nat /\ n \in Nat /\ Slots \in Nat \ {0}
    BY RingTypes
  <2>2. AtEntry(c, k) /\ \A d \in Consumers : AtEntry(d, k) => d = c
    BY <1>1, <1>6 DEF AtEntry, RingHolds, OneAtEntry, q
  <2>3. ~Storing(k) /\ Storing(k)'
    BY <1>1, <1>2, <1>6, <2>2 DEF Storing, AtEntry
  <2>4. Taken(k) = n
    BY <2>3 DEF Taken
  <2>5. drain[c].at = n % Slots /\ n < a
    BY <2>2, <2>4 DEF RingHolds, SlotsHold, OneAtEntry
  <2>6. m = accepted[k][n + 1]
    <3>1. \A j \in Nat : n <= j /\ j < a => slot[k][j % Slots] = accepted[k][j + 1]
      BY <2>4 DEF RingHolds, SlotsHold
    <3> HIDE DEF a, n
    <3>2. slot[k][n % Slots] = accepted[k][n + 1]
      BY <2>1, <2>5, <3>1
    <3>3. QED BY <2>5, <3>2
  <2>7. out'[k] = Append(out[k], m)
    BY <1>1, <1>4, <1>6
  <2> HIDE DEF a, m
  <2>8. /\ Len(out'[k]) = n + 1 /\ out'[k][n + 1] = m
        /\ \A j \in 1..n : out'[k][j] = out[k][j]
    <3>1. m \in 0..MaxLogs
      BY <1>1, <1>6, DrainType DEF LogTypes, LogTypeOK, m
    <3>2. QED BY <2>1, <2>7, <3>1
  <2> HIDE DEF n
  <2>9. Taken(k)' = n
    BY <2>1, <2>3, <2>8 DEF Taken
  <2>10. Copied(k)'
    <3>1. n + 1 <= a /\ \A j \in 1..(n + 1) : j \in 1..n \/ j = n + 1
      BY <2>1, <2>5
    <3>2. \A j \in 1..n : out[k][j] = accepted[k][j]
      BY DEF RingHolds, Copied, n
    <3>3. QED BY <1>3, <2>6, <2>8, <3>1, <3>2 DEF Copied, a
  <2>11. SlotsHold(k)' /\ RoomLeft(k)'
    BY <1>3, <2>4, <2>9 DEF RingHolds, SlotsHold, RoomLeft
  <2>12. OneAtEntry(k)'
    <3>1. \A d \in Consumers : AtEntry(d, k)' => d = c
      BY <1>2, <2>2 DEF AtEntry
    <3>2. QED BY <1>2, <1>3, <2>2, <2>4, <2>9, <3>1 DEF RingHolds, OneAtEntry
  <2>13. QED BY <2>10, <2>11, <2>12 DEF RingHolds
<1>7. QED BY <1>5, <1>6

\* It moves the read index past that entry, and no further.
LEMMA StoreHolds ==
  ASSUME LogTypes, NEW c \in Consumers, Store(c), NEW k \in Rings, RingHolds(k)
  PROVE  RingHolds(k)'
<1> DEFINE q == drain[c].ring
<1>1. /\ drain[c].pc = "store" /\ q \in Rings
      /\ rpos' = [rpos EXCEPT ![q] = Next1(drain[c].at)]
      /\ UNCHANGED <<producing, logger, out, due, crossed>>
      /\ Moved(c, "look", q, drain[c].at, drain[c].final)
  BY StoreIs
<1>2. /\ \A d \in Consumers \ {c} : drain'[d] = drain[d]
      /\ drain'[c].pc = "look" /\ drain'[c].ring = q
  BY <1>1 DEF Moved
<1>3. /\ ringOf' = ringOf /\ pushing' = pushing /\ slot' = slot
      /\ wpos' = wpos /\ accepted' = accepted /\ out' = out
  BY <1>1 DEF producing
<1>4. rpos \in [Rings -> Indices]
  BY DEF LogTypes, LogTypeOK
<1> HIDE DEF q
<1>5. CASE q # k
  <2>1. rpos'[k] = rpos[k]
    BY <1>1, <1>4, <1>5
  <2>2. ~AtEntry(c, k) /\ ~AtEntry(c, k)'
    BY <1>2, <1>5 DEF AtEntry, q
  <2>3. QED BY <1>2, <1>3, <2>1, <2>2, RingUntouched
<1>6. CASE q = k
  <2> DEFINE a == Len(accepted[k])
             n == Len(out[k])
             r == Taken(k)
  <2>1. a \in Nat /\ n \in Nat /\ Slots \in Nat \ {0}
    BY RingTypes
  <2>2. AtEntry(c, k) /\ \A d \in Consumers : AtEntry(d, k) => d = c
    BY <1>1, <1>6 DEF AtEntry, RingHolds, OneAtEntry, q
  <2>3. Storing(k) /\ ~Storing(k)' /\ \A d \in Consumers : ~AtEntry(d, k)'
    BY <1>1, <1>2, <1>6, <2>2 DEF Storing, AtEntry, q
  <2>4. n = r + 1 /\ Taken(k)' = n
    BY <1>3, <2>1, <2>3 DEF Taken
  <2>5. /\ r \in Nat /\ r < a /\ a - r < Slots /\ drain[c].at = r % Slots
        /\ wpos[k] = a % Slots
        /\ \A j \in Nat : r <= j /\ j < a => slot[k][j % Slots] = accepted[k][j + 1]
    BY <2>2 DEF RingHolds, SlotsHold, OneAtEntry
  <2> HIDE DEF a, n, r
  <2>6. rpos'[k] = n % Slots
    <3>1. rpos'[k] = ((r % Slots) + 1) % Slots
      BY <1>1, <1>4, <1>6, <2>5 DEF Next1
    <3>2. QED BY <2>1, <2>4, <2>5, <3>1, ModNext
  <2>7. n <= a /\ a - n < Slots
    BY <2>1, <2>4, <2>5
  <2>8. \A j \in Nat : n <= j /\ j < a => slot[k][j % Slots] = accepted[k][j + 1]
    BY <2>1, <2>4, <2>5
  <2>9. SlotsHold(k)'
    BY <1>3, <2>1, <2>4, <2>5, <2>6, <2>7, <2>8 DEF SlotsHold, a
  <2>10. Copied(k)' /\ OneAtEntry(k)'
    BY <1>3, <2>3 DEF RingHolds, Copied, OneAtEntry
  <2>11. RoomLeft(k)'
    <3>1. a - r + 1 < Slots => a - n + 1 < Slots
      BY <2>1, <2>4, <2>5
    <3>2. QED BY <1>3, <2>4, <3>1 DEF RingHolds, RoomLeft, a, r
  <2>12. QED BY <2>9, <2>10, <2>11 DEF RingHolds
<1>7. QED BY <1>5, <1>6

LEMMA CrossedStays == [LogNext]_logVars => (~crossed' => ~crossed)
<1> SUFFICES ASSUME [LogNext]_logVars, ~crossed' PROVE ~crossed
  OBVIOUS
<1>1. ASSUME NEW c, Look(c) \/ Emit(c) \/ Store(c) PROVE ~crossed
  BY <1>1 DEF Look, Emit, Store
<1>2. CASE UNCHANGED logVars
  BY <1>2 DEF logVars
<1>3. ASSUME ~(\E c \in Flushers \cup {Writer} : Look(c) \/ Emit(c) \/ Store(c)), LogNext
      PROVE  crossed' = crossed
  BY <1>3 DEF LogNext, WriterStep, LogWrite, Publish, FlushStart, FlushEnd, WriterPass,
    ShutdownStart, ShutdownEnd
<1>4. QED BY <1>1, <1>2, <1>3

LEMMA NextHolds ==
  ASSUME LogTypes, [LogNext]_logVars, ~crossed', \A k \in Rings : RingHolds(k)
  PROVE  \A k \in Rings : RingHolds(k)'
<1> TAKE k \in Rings
<1>0. RingHolds(k)
  OBVIOUS
\* Steps that change no ring and have nobody come to an entry or leave it.
<1>1. ASSUME UNCHANGED <<producing, rpos, out>>,
             \A c \in Consumers : drain'[c] = drain[c]
               \/ (drain[c].pc \notin {"emit", "store"} /\ drain'[c].pc \notin {"emit", "store"})
      PROVE  RingHolds(k)'
  BY <1>0, <1>1, RingUntouched DEF producing, AtEntry
<1>2. ASSUME NEW t \in Threads, LogWrite(t) PROVE RingHolds(k)'
  BY <1>0, <1>2, LogWriteHolds
<1>3. ASSUME NEW t \in Threads, Publish(t) PROVE RingHolds(k)'
  BY <1>0, <1>3, PublishHolds
<1>4. ASSUME NEW c \in Consumers, Look(c) \/ Emit(c) \/ Store(c) PROVE RingHolds(k)'
  BY <1>0, <1>4, LookHolds, EmitHolds, StoreHolds
<1>5. ASSUME NEW c \in Flushers, FlushStart(c) \/ FlushEnd(c) PROVE RingHolds(k)'
  <2>1. /\ UNCHANGED <<producing, rpos, out>> /\ drain[c].pc \in {"idle", "look"}
        /\ \E pc \in {"look", "idle"} : \E ring, at, final : Moved(c, pc, ring, at, final)
    BY <1>5, FlushStartIs, FlushEndIs
  <2>2. /\ drain'[c].pc \in {"idle", "look"}
        /\ \A d \in Consumers \ {c} : drain'[d] = drain[d]
    BY <2>1 DEF Moved
  <2>3. QED BY <1>1, <2>1, <2>2
<1>6. CASE WriterPass
  <2>1. /\ UNCHANGED <<producing, rpos, out>> /\ drain[Writer].pc = "look"
        /\ \E pc \in {"look", "gone"} : \E ring, at, final : Moved(Writer, pc, ring, at, final)
    BY <1>6, WriterPassIs
  <2>2. /\ drain'[Writer].pc \in {"look", "gone"}
        /\ \A d \in Consumers \ {Writer} : drain'[d] = drain[d]
    BY <2>1 DEF Moved
  <2>3. QED BY <1>1, <2>1, <2>2
<1>7. CASE ShutdownStart \/ ShutdownEnd \/ UNCHANGED logVars
  <2>1. UNCHANGED <<producing, rpos, out, drain>>
    BY <1>7 DEF ShutdownStart, ShutdownEnd, logVars, producing
  <2>2. QED BY <1>1, <2>1
<1>8. Writer \in Consumers /\ \A c \in Flushers : c \in Consumers
  BY DEF Consumers
<1>9. QED
  BY <1>2, <1>3, <1>4, <1>5, <1>6, <1>7, <1>8 DEF LogNext, WriterStep

-----------------------------------------------------------------------------
(* What the flushes and the writer's last pass have behind them. *)

\* The rings a consumer has been past hold nothing that was due, all of them once it
\* is through.
DonePast(c) ==
  \A k \in Rings : drain[c].pc \in {"idle", "gone"} \/ k < drain[c].ring
                     => Len(out[k]) >= due[c][k]

DrainProgress ==
  /\ \A c \in Flushers : DonePast(c)
  /\ drain[Writer].final => DonePast(Writer)

\* The writer's final pass begins after log_shutdown has, and ends before it does.
WriterPhases ==
  /\ drain[Writer].final \in BOOLEAN
  /\ logger = "on" => ~drain[Writer].final
  /\ drain[Writer].pc = "gone" => drain[Writer].final
  /\ logger = "down" => drain[Writer].pc = "gone"

LogInv ==
  /\ LogTypes /\ WriterPhases
  /\ ~crossed => (\A k \in Rings : RingHolds(k)) /\ DrainProgress

LEMMA OutGrows ==
  ASSUME LogTypes, [LogNext]_logVars, NEW k \in Rings
  PROVE  Len(out[k]) \in Nat /\ Len(out'[k]) \in Nat /\ Len(out[k]) <= Len(out'[k])
<1>1. Len(out[k]) \in Nat /\ out \in [Rings -> Seq(0..MaxLogs)]
  BY RingTypes DEF LogTypes, LogTypeOK
<1>2. CASE out' = out
  BY <1>1, <1>2
<1>3. ASSUME NEW c \in Consumers, Emit(c)
      PROVE  Len(out[k]) \in Nat /\ Len(out'[k]) \in Nat /\ Len(out[k]) <= Len(out'[k])
  <2> DEFINE q == drain[c].ring
             m == slot[q][drain[c].at]
  <2>1. q \in Rings /\ out' = [out EXCEPT ![q] = Append(out[q], m)]
    BY <1>3, EmitIs
  <2> HIDE DEF q, m
  <2>2. CASE q = k
    <3>1. Len(out'[k]) = Len(out[k]) + 1
      BY <1>1, <2>1, <2>2
    <3>2. QED BY <1>1, <3>1
  <2>3. CASE q # k
    BY <1>1, <2>1, <2>3
  <2>4. QED BY <2>2, <2>3
<1>4. ASSUME NEW c, Look(c) \/ Store(c) PROVE out' = out
  BY <1>4 DEF Look, Store
<1>5. ASSUME ~(\E c \in Consumers : Look(c) \/ Emit(c) \/ Store(c)) PROVE out' = out
  BY <1>5 DEF LogNext, WriterStep, LogWrite, Publish, FlushStart, FlushEnd, WriterPass,
    ShutdownStart, ShutdownEnd, Consumers, logVars
<1>6. QED BY <1>2, <1>3, <1>4, <1>5

\* A consumer that stays where it is, with what was due.
LEMMA PastKept ==
  ASSUME LogTypes, [LogNext]_logVars, NEW c \in Consumers, DonePast(c),
         drain'[c].ring = drain[c].ring, due'[c] = due[c],
         drain'[c].pc \in {"idle", "gone"} => drain[c].pc \in {"idle", "gone"}
  PROVE  DonePast(c)'
<1> SUFFICES ASSUME NEW k \in Rings,
                    drain'[c].pc \in {"idle", "gone"} \/ k < drain'[c].ring
             PROVE  Len(out'[k]) >= due'[c][k]
  BY DEF DonePast
<1>1. Len(out[k]) >= due[c][k]
  BY DEF DonePast
<1>2. due[c][k] \in Nat
  BY DEF LogTypes, LogTypeOK
<1>3. QED BY <1>1, <1>2, OutGrows

\* Past the last ring there is nothing due.
LEMMA PastAll ==
  ASSUME LogTypes, NEW c \in Consumers, DonePast(c), drain[c].ring > NRings, NEW k \in Rings
  PROVE  Len(out[k]) >= due[c][k]
<1>1. k \in Int /\ drain[c].ring \in Int /\ NRings \in Int
  BY DrainType, RingCount DEF LogTypes, Rings
<1>2. CASE k < drain[c].ring
  BY <1>2 DEF DonePast
<1>3. CASE ~(k < drain[c].ring)
  <2>1. k > NRings
    BY <1>1, <1>3
  <2>2. Len(accepted[k]) = 0
    BY <2>1 DEF LogTypes, RingsOwned
  <2>3. due[c][k] <= 0 /\ due[c][k] \in Nat /\ Len(out[k]) \in Nat
    BY <2>2, RingTypes DEF LogTypes, LogTypeOK, LogCounted
  <2>4. QED BY <2>3
<1>4. QED BY <1>2, <1>3

LEMMA LookPast ==
  ASSUME LogTypes, [LogNext]_logVars, NEW c \in Consumers, Look(c), DonePast(c),
         \A k \in Rings : RingHolds(k)
  PROVE  DonePast(c)'
<1> DEFINE q == drain[c].ring
<1>1. /\ drain[c].pc = "look" /\ q \in Rings /\ UNCHANGED <<out, due>>
      /\ \/ rpos[q] = wpos[q] /\ Moved(c, "look", q + 1, drain[c].at, drain[c].final)
         \/ Moved(c, "emit", q, rpos[q], drain[c].final)
  BY LookIs
<1>2. CASE Moved(c, "emit", q, rpos[q], drain[c].final)
  <2>1. drain'[c].ring = drain[c].ring /\ drain'[c].pc = "emit"
    BY <1>2 DEF Moved
  <2>2. QED BY <1>1, <2>1, PastKept
<1>3. CASE rpos[q] = wpos[q] /\ Moved(c, "look", q + 1, drain[c].at, drain[c].final)
  <2>1. drain'[c].ring = q + 1 /\ drain'[c].pc = "look"
    BY <1>3 DEF Moved
  <2>2. Len(out[q]) >= due[c][q]
    <3>1. PICK a, r : a = Len(accepted[q]) /\ r = Taken(q)
      OBVIOUS
    <3>2. /\ r \in Nat /\ a \in Nat /\ r <= a /\ a - r < Slots /\ r % Slots = a % Slots
          /\ Slots \in Nat \ {0}
      BY <1>1, <1>3, <3>1, RingTypes DEF RingHolds, SlotsHold
    <3>3. r = a
      <4>1. r < a => r % Slots # a % Slots
        BY <3>2, ModDiffers
      <4>2. QED BY <3>2, <4>1
    <3>4. Len(out[q]) \in Nat /\ (r = Len(out[q]) \/ r = Len(out[q]) - 1)
      BY <1>1, <3>1, RingTypes DEF Taken
    <3>5. due[c][q] <= a /\ due[c][q] \in Nat
      BY <1>1, <3>1 DEF LogTypes, LogTypeOK, LogCounted
    <3>6. QED BY <3>2, <3>3, <3>4, <3>5
  <2>3. \A k \in Rings : k < q + 1 => k < q \/ k = q
    BY <1>1 DEF Rings
  <2>4. QED BY <1>1, <2>1, <2>2, <2>3 DEF DonePast
<1>4. QED BY <1>1, <1>2, <1>3

LEMMA InitInv == LogInit => LogInv
<1> SUFFICES ASSUME LogInit PROVE LogInv
  OBVIOUS
<1>1. LogTypes /\ \A k \in Rings : RingHolds(k)
  BY LogInitTypes, InitHolds
<1>2. /\ \A c \in Consumers : drain[c].ring = 1 /\ ~drain[c].final
      /\ drain[Writer].pc = "look" /\ ~drain[Writer].final /\ drain[Writer].final \in BOOLEAN
      /\ logger = "on"
  BY DEF LogInit, Consumers
<1>3. WriterPhases
  BY <1>2 DEF WriterPhases
<1>4. \A c \in Flushers : DonePast(c)
  <2>1. \A c \in Consumers, k \in Rings : due[c][k] = 0 /\ Len(out[k]) = 0
    BY DEF LogInit
  <2>2. QED BY <2>1 DEF DonePast, Consumers
<1>5. QED BY <1>1, <1>2, <1>3, <1>4 DEF LogInv, DrainProgress

LEMMA NextPhases ==
  ASSUME LogTypes, WriterPhases, [LogNext]_logVars
  PROVE  WriterPhases'
<1>0. Writer \in Consumers /\ Writer \notin Flushers /\ \A c \in Flushers : c \in Consumers
  BY LogConstants DEF Consumers
<1>1. ASSUME drain'[Writer] = drain[Writer], logger' = logger PROVE WriterPhases'
  BY <1>1 DEF WriterPhases
<1>2. ASSUME NEW c \in Consumers, Look(c) \/ Emit(c) \/ Store(c) PROVE WriterPhases'
  <2>1. logger' = logger /\ drain[c].pc # "gone"
        /\ \E pc \in {"look", "emit", "store"} : \E ring, at :
             Moved(c, pc, ring, at, drain[c].final)
    BY <1>2, LookIs, EmitIs, StoreIs
  <2>2. CASE c = Writer
    BY <2>1, <2>2 DEF Moved, WriterPhases
  <2>3. CASE c # Writer
    BY <1>0, <1>1, <2>1, <2>3 DEF Moved
  <2>4. QED BY <2>2, <2>3
<1>3. ASSUME NEW c \in Flushers, FlushStart(c) \/ FlushEnd(c) PROVE WriterPhases'
  <2>1. logger' = logger /\ \E pc, ring, at, final : Moved(c, pc, ring, at, final)
    BY <1>3, FlushStartIs, FlushEndIs
  <2>2. QED BY <1>0, <1>1, <2>1 DEF Moved
<1>4. CASE WriterPass
  BY <1>4, WriterPassIs DEF Moved, WriterPhases
<1>5. CASE ShutdownStart \/ ShutdownEnd
  BY <1>5 DEF ShutdownStart, ShutdownEnd, WriterPhases
<1>6. ASSUME NEW t \in Threads, LogWrite(t) \/ Publish(t) PROVE WriterPhases'
  BY <1>1, <1>6 DEF LogWrite, Publish
<1>7. CASE UNCHANGED logVars
  BY <1>1, <1>7 DEF logVars
<1>8. QED
  BY <1>0, <1>2, <1>3, <1>4, <1>5, <1>6, <1>7 DEF LogNext, WriterStep

LEMMA NextProgress ==
  ASSUME LogTypes, WriterPhases, [LogNext]_logVars, ~crossed', DrainProgress,
         \A k \in Rings : RingHolds(k)
  PROVE  DrainProgress'
<1>0. Writer \in Consumers /\ Writer \notin Flushers /\ \A c \in Flushers : c \in Consumers
  BY LogConstants DEF Consumers
\* What a consumer that does not move has behind it stays so.
<1>1. ASSUME NEW c \in Consumers, DonePast(c), drain'[c] = drain[c], due'[c] = due[c]
      PROVE  DonePast(c)'
  BY <1>1, PastKept
<1>2. ASSUME NEW c \in Consumers, Look(c) \/ Emit(c) \/ Store(c) PROVE DrainProgress'
  <2>1. /\ due' = due
        /\ \E pc \in {"look", "emit", "store"} : \E ring, at :
             Moved(c, pc, ring, at, drain[c].final)
    BY <1>2, LookIs, EmitIs, StoreIs
  <2>2. /\ \A d \in Consumers \ {c} : drain'[d] = drain[d]
        /\ drain'[c].final = drain[c].final
        /\ drain'[c].pc \notin {"idle", "gone"}
    BY <2>1 DEF Moved
  <2>3. ASSUME DonePast(c) PROVE DonePast(c)'
    <3>1. CASE Look(c)
      BY <2>3, <3>1, LookPast
    <3>2. CASE Emit(c) \/ Store(c)
      <4>1. drain'[c].ring = drain[c].ring
        BY <3>2, EmitIs, StoreIs DEF Moved
      <4>2. QED BY <2>1, <2>2, <2>3, <4>1, PastKept
    <3>3. QED BY <1>2, <3>1, <3>2
  <2>4. \A d \in Consumers : DonePast(d) => DonePast(d)'
    BY <1>1, <2>1, <2>2, <2>3
  <2>5. drain'[Writer].final = drain[Writer].final
    BY <1>0, <2>2
  <2>6. QED BY <1>0, <2>4, <2>5 DEF DrainProgress
<1>3. ASSUME NEW c \in Flushers, FlushStart(c) PROVE DrainProgress'
  <2>1. /\ due' = [due EXCEPT ![c] = Stored] /\ drain'[c].ring = 1 /\ drain'[c].pc = "look"
        /\ \A d \in Consumers \ {c} : drain'[d] = drain[d]
    BY <1>3, FlushStartIs DEF Moved
  <2>2. \A d \in Consumers \ {c} : due'[d] = due[d]
    BY <2>1 DEF LogTypes, LogTypeOK
  <2>3. DonePast(c)'
    <3>1. \A k \in Rings : ~(k < 1)
      BY DEF Rings
    <3>2. QED BY <2>1, <3>1 DEF DonePast
  <2>4. QED BY <1>0, <1>1, <2>1, <2>2, <2>3 DEF DrainProgress
<1>4. ASSUME NEW c \in Flushers, FlushEnd(c) PROVE DrainProgress'
  <2>1. /\ UNCHANGED <<out, due>> /\ drain[c].ring > NRings
        /\ \A d \in Consumers \ {c} : drain'[d] = drain[d]
    BY <1>4, FlushEndIs DEF Moved
  <2>2. DonePast(c)'
    <3>1. \A k \in Rings : Len(out[k]) >= due[c][k]
      BY <1>0, <2>1, PastAll DEF DrainProgress
    <3>2. QED BY <2>1, <3>1 DEF DonePast
  <2>3. QED BY <1>0, <1>1, <2>1, <2>2 DEF DrainProgress
<1>5. CASE WriterPass
  <2>1. /\ UNCHANGED <<out, due>> /\ drain[Writer].ring > NRings
        /\ \A d \in Consumers \ {Writer} : drain'[d] = drain[d]
        /\ \/ logger = "on" /\ drain'[Writer].final = drain[Writer].final
           \/ drain'[Writer].ring = 1 /\ drain'[Writer].pc = "look"
           \/ drain[Writer].final
    BY <1>5, WriterPassIs DEF Moved
  <2>2. \A c \in Flushers : DonePast(c)'
    BY <1>0, <1>1, <2>1 DEF DrainProgress
  <2>3. ASSUME drain'[Writer].final PROVE DonePast(Writer)'
    <3>1. CASE drain'[Writer].ring = 1 /\ drain'[Writer].pc = "look"
      <4>1. \A k \in Rings : ~(k < 1)
        BY DEF Rings
      <4>2. QED BY <3>1, <4>1 DEF DonePast
    <3>2. CASE drain[Writer].final
      <4>1. \A k \in Rings : Len(out[k]) >= due[Writer][k]
        BY <1>0, <2>1, <3>2, PastAll DEF DrainProgress
      <4>2. QED BY <2>1, <4>1 DEF DonePast
    <3>3. QED BY <2>1, <2>3, <3>1, <3>2 DEF WriterPhases
  <2>4. QED BY <2>2, <2>3 DEF DrainProgress
<1>6. CASE ShutdownStart
  <2>1. /\ logger = "on" /\ drain' = drain /\ out' = out
        /\ due' = [due EXCEPT ![Writer] = Stored]
    BY <1>6 DEF ShutdownStart
  <2>2. ~drain'[Writer].final
    BY <2>1 DEF WriterPhases
  <2>3. \A c \in Flushers : due'[c] = due[c]
    BY <1>0, <2>1 DEF LogTypes, LogTypeOK
  <2>4. QED BY <1>0, <1>1, <2>1, <2>2, <2>3 DEF DrainProgress
<1>7. ASSUME drain' = drain, due' = due PROVE DrainProgress'
  BY <1>0, <1>1, <1>7 DEF DrainProgress
<1>8. CASE ShutdownEnd \/ UNCHANGED logVars
  BY <1>7, <1>8 DEF ShutdownEnd, logVars
<1>9. ASSUME NEW t \in Threads, LogWrite(t) \/ Publish(t) PROVE DrainProgress'
  BY <1>7, <1>9 DEF LogWrite, Publish
<1>10. QED
  BY <1>0, <1>2, <1>3, <1>4, <1>5, <1>6, <1>8, <1>9 DEF LogNext, WriterStep

LEMMA LogInvariant == LogSpec => []LogInv
<1>1. ASSUME LogInv, [LogNext]_logVars PROVE LogInv'
  <2>1. LogTypes /\ WriterPhases
    BY <1>1 DEF LogInv
  <2>2. LogTypes' /\ WriterPhases'
    BY <1>1, <2>1, LogNextTypes, NextPhases
  <2>3. ASSUME ~crossed' PROVE (\A k \in Rings : RingHolds(k)') /\ DrainProgress'
    <3>1. ~crossed
      BY <1>1, <2>3, CrossedStays
    <3>2. (\A k \in Rings : RingHolds(k)) /\ DrainProgress
      BY <1>1, <3>1 DEF LogInv
    <3>3. QED BY <1>1, <2>1, <2>3, <3>2, NextHolds, NextProgress
  <2>4. Rings' = Rings
    BY DEF Rings
  <2>5. QED BY <2>2, <2>3, <2>4 DEF LogInv
<1>2. QED BY <1>1, InitInv, PTL DEF LogSpec

\* The variables keep their types, for any number of threads, flushes, rings and slots.
THEOREM LogTypesHold == LogSpec => []LogTypeOK
<1>1. LogTypes => LogTypeOK
  BY DEF LogTypes
<1>2. QED BY <1>1, LogTypesInvariant, PTL

\* Each ring's messages are written once each and in order while no two consumers meet
\* at one of its entries (ring_push, writer_thread and log_flush).
THEOREM WrittenOnceInOrder == LogSpec => []OnceInOrder
<1>1. ASSUME LogInv PROVE OnceInOrder
  <2> SUFFICES ASSUME ~crossed, NEW k \in Rings PROVE IsPrefix(out[k], accepted[k])
    BY DEF OnceInOrder
  <2>1. LogTypes /\ Copied(k)
    BY <1>1 DEF LogInv, RingHolds
  <2>2. /\ accepted[k] \in Seq(Entries) /\ out[k] \in Seq(0..MaxLogs)
        /\ Len(out[k]) <= Len(accepted[k])
        /\ \A j \in 1..Len(out[k]) : out[k][j] = accepted[k][j]
    BY <2>1, RingTypes DEF Copied
  <2>3. SubSeq(out[k], 1, Len(out[k])) = SubSeq(accepted[k], 1, Len(out[k]))
    BY <2>2
  <2>4. QED BY <2>2, <2>3 DEF IsPrefix
<1>2. QED BY <1>1, LogInvariant, PTL

\* A flush or a shutdown that has returned has everything written that had been stored
\* when it was called, while no two consumers meet (log_flush, log_shutdown).
THEOREM DrainsWriteAll == LogSpec => []DrainsAreComplete
<1>1. ASSUME LogInv PROVE DrainsAreComplete
  <2> SUFFICES ASSUME ~crossed, NEW k \in Rings
               PROVE  /\ \A c \in Flushers : drain[c].pc = "idle" => Len(out[k]) >= due[c][k]
                      /\ logger = "down" => Len(out[k]) >= due[Writer][k]
    BY DEF DrainsAreComplete
  <2>1. DrainProgress /\ WriterPhases
    BY <1>1 DEF LogInv
  <2>2. QED BY <2>1 DEF DrainProgress, DonePast, WriterPhases
<1>2. QED BY <1>1, LogInvariant, PTL

-----------------------------------------------------------------------------
(* The rings are queues (LogQueues): what waits are the messages accepted   *)
(* and not yet written, as a function of those two histories.               *)

\* The messages of s after its first n.
After(s, n) == [i \in 1..(Len(s) - n) |-> s[n + i]]

LEMMA AfterIs ==
  ASSUME NEW S, NEW s \in Seq(S), NEW n \in Nat, n <= Len(s)
  PROVE  /\ After(s, n) \in Seq(S) /\ Len(After(s, n)) = Len(s) - n
         /\ \A i \in 1..(Len(s) - n) : After(s, n)[i] = s[n + i]
<1>1. PICK a \in Nat : a = Len(s)
  OBVIOUS
<1>2. a - n \in Nat /\ \A i \in 1..(a - n) : n + i \in 1..a
  BY <1>1
<1>3. \A i \in 1..(a - n) : s[n + i] \in S
  BY <1>1, <1>2
<1>4. PICK b \in Nat : b = a - n
  BY <1>2
<1>5. After(s, n) = [i \in 1..b |-> s[n + i]]
  BY <1>1, <1>4 DEF After
<1>6. After(s, n) \in [1..b -> S]
  BY <1>3, <1>4, <1>5
<1>7. After(s, n) \in Seq(S) /\ Len(After(s, n)) = b
  BY <1>6
<1>8. QED BY <1>1, <1>4, <1>5, <1>7

\* One more is accepted, or written.
LEMMA AfterPut ==
  ASSUME NEW S, NEW s \in Seq(S), NEW m \in S, NEW n \in Nat, n <= Len(s)
  PROVE  After(Append(s, m), n) = Append(After(s, n), m)
<1> DEFINE t == Append(s, m)
           f == After(s, n)
<1>1. PICK a \in Nat : a = Len(s)
  OBVIOUS
<1>2. /\ t \in Seq(S) /\ Len(t) = a + 1 /\ t[a + 1] = m
      /\ \A i \in 1..a : t[i] = s[i]
  BY <1>1, AppendProperties
<1>3. f \in Seq(S) /\ Len(f) = a - n /\ \A i \in 1..(a - n) : f[i] = s[n + i]
  BY <1>1, AfterIs
<1> HIDE DEF t, f
<1>4. n <= a + 1
  BY <1>1
<1>5. /\ After(t, n) \in Seq(S) /\ Len(After(t, n)) = a + 1 - n
      /\ \A i \in 1..(a + 1 - n) : After(t, n)[i] = t[n + i]
  <2>1. t \in Seq(S) /\ n <= Len(t)
    BY <1>2, <1>4
  <2>2. /\ After(t, n) \in Seq(S) /\ Len(After(t, n)) = Len(t) - n
        /\ \A i \in 1..(Len(t) - n) : After(t, n)[i] = t[n + i]
    BY <2>1, AfterIs, Zenon
  <2>3. QED BY <1>2, <2>2
<1>6. /\ Append(f, m) \in Seq(S) /\ Len(Append(f, m)) = a - n + 1
      /\ \A i \in 1..(a - n) : Append(f, m)[i] = f[i]
      /\ Append(f, m)[a - n + 1] = m
  BY <1>3, AppendProperties, SMTT(30)
<1>7. ASSUME NEW i \in 1..(a + 1 - n)
      PROVE  After(t, n)[i] = Append(f, m)[i]
  <2>1. CASE i = a - n + 1
    <3>1. n + i = a + 1
      BY <2>1
    <3>2. QED BY <1>2, <1>5, <1>6, <2>1, <3>1
  <2>2. CASE i # a - n + 1
    <3>1. i \in 1..(a - n) /\ n + i \in 1..a
      BY <1>1, <2>2
    <3>2. After(t, n)[i] = t[n + i]
      BY <1>5
    <3>3. QED BY <1>2, <1>3, <1>6, <3>1, <3>2
  <2>3. QED BY <2>1, <2>2
<1>8. Len(After(t, n)) = Len(Append(f, m))
  BY <1>5, <1>6
<1>9. After(t, n) = Append(f, m)
  BY <1>5, <1>6, <1>7, <1>8, SeqEqual
<1>10. QED BY <1>9 DEF t, f

LEMMA AfterWrite ==
  ASSUME NEW S, NEW s \in Seq(S), NEW n \in Nat, n < Len(s)
  PROVE  /\ After(s, n) # <<>> /\ Head(After(s, n)) = s[n + 1]
         /\ After(s, n + 1) = Tail(After(s, n))
<1> DEFINE f == After(s, n)
           g == After(s, n + 1)
<1>1. PICK a \in Nat : a = Len(s)
  OBVIOUS
<1>2. n <= a /\ n + 1 <= a /\ n + 1 \in Nat
  BY <1>1
<1>3. f \in Seq(S) /\ Len(f) = a - n /\ \A i \in 1..(a - n) : f[i] = s[n + i]
  BY <1>1, <1>2, AfterIs
<1>4. /\ g \in Seq(S) /\ Len(g) = a - (n + 1)
      /\ \A i \in 1..(a - (n + 1)) : g[i] = s[n + 1 + i]
  BY <1>1, <1>2, AfterIs
<1> HIDE DEF f, g
<1>5. f # <<>> /\ 1 \in 1..(a - n)
  <2>1. Len(f) # 0
    BY <1>1, <1>3
  <2>2. QED BY <1>1, <2>1
<1>6. Head(f) = s[n + 1]
  <2>1. Head(f) = f[1]
    BY <1>3, <1>5
  <2>2. f[1] = s[n + 1]
    BY <1>3, <1>5
  <2>3. QED BY <2>1, <2>2
<1>7. /\ Tail(f) \in Seq(S) /\ Len(Tail(f)) = a - (n + 1)
      /\ \A i \in 1..(a - (n + 1)) : Tail(f)[i] = f[i + 1]
  <2>1. /\ Tail(f) \in Seq(S) /\ Len(Tail(f)) = Len(f) - 1
        /\ \A i \in 1..Len(Tail(f)) : Tail(f)[i] = f[i + 1]
    BY <1>3, <1>5, HeadTailProperties
  <2>2. Len(f) - 1 = a - (n + 1)
    BY <1>1, <1>3
  <2>3. QED BY <2>1, <2>2
<1>8. ASSUME NEW i \in 1..(a - (n + 1)) PROVE g[i] = Tail(f)[i]
  <2>1. i + 1 \in 1..(a - n) /\ n + (i + 1) = n + 1 + i
    BY <1>1
  <2>2. f[i + 1] = s[n + 1 + i]
    BY <1>3, <2>1
  <2>3. QED BY <1>4, <1>7, <2>2
<1>9. g = Tail(f)
  BY <1>4, <1>7, <1>8, SeqEqual
<1>10. QED BY <1>5, <1>6, <1>9 DEF f, g

\* What is read of a ring of this size that has had the messages of s, from the index
\* of r, or from the next, to that of the last.
Reads(size, s, r, n, ring) ==
  LET a     == Len(s)
      first == (r % size) + (n - r)
      left  == (((a % size) - (r % size)) % size) + (r % size) - first
  IN [i \in 1..left |-> ring[(first + i - 1) % size]]

\* The slots of such a ring hold the messages from index r on.
Holds(size, s, r, ring) ==
  \A j \in Nat : r <= j /\ j < Len(s) => ring[j % size] = s[j + 1]

\* What is read between the indices are the messages after the first n.
LEMMA ReadsAfter ==
  ASSUME NEW size \in Nat \ {0}, NEW s, Len(s) \in Nat, NEW r \in Nat, NEW n \in Nat,
         n = r \/ n = r + 1, n <= Len(s), r <= Len(s), Len(s) - r < size, NEW ring,
         Holds(size, s, r, ring)
  PROVE  Reads(size, s, r, n, ring) = After(s, n)
<1>0. PICK a \in Nat : /\ a = Len(s) /\ n <= a /\ r <= a /\ a - r < size
                      /\ \A j \in Nat : r <= j /\ j < a => ring[j % size] = s[j + 1]
  BY DEF Holds
<1> DEFINE first == (r % size) + (n - r)
           left  == (((a % size) - (r % size)) % size) + (r % size) - first
<1>1. r % size \in Nat
  OBVIOUS
<1>2. ((a % size) - (r % size)) % size = a - r
  BY <1>0, ModBetween
<1>3. left = a - n
  <2>1. PICK x \in Nat : x = r % size
    BY <1>1
  <2>2. left = (a - r) + x - (x + (n - r))
    BY <1>2, <2>1
  <2> HIDE DEF left
  <2>3. QED BY <2>2
<1>4. ASSUME NEW i \in 1..(a - n) PROVE ring[(first + i - 1) % size] = s[n + i]
  <2>1. PICK d \in Nat : d = n - r + i - 1
    OBVIOUS
  <2>2. first + i - 1 = (r % size) + d
    BY <1>1, <2>1
  <2> HIDE DEF first, left
  <2>3. (first + i - 1) % size = (r + d) % size
    <3>1. ((r % size) + d) % size = (r + d) % size
      BY ModShift
    <3>2. QED BY <2>2, <3>1, Zenon
  <2>4. r + d \in Nat /\ r <= r + d /\ r + d < a /\ (r + d) + 1 = n + i
    BY <1>0, <2>1
  <2>5. ring[(r + d) % size] = s[n + i]
    BY <1>0, <2>4
  <2>6. QED BY <2>3, <2>5
<1> HIDE DEF first, left
<1>5. [i \in 1..left |-> ring[(first + i - 1) % size]] = [i \in 1..(a - n) |-> s[n + i]]
  BY <1>3, <1>4
<1>6. QED BY <1>0, <1>5 DEF Reads, After, first, left

\* The rings are read right as long as no two consumers have met.
ReadRight ==
  ~crossed => \A k \in Rings : Unwritten(k) = After(accepted[k], Len(out[k]))

LEMMA RingsReadRight == LogInv => ReadRight
<1> SUFFICES ASSUME LogInv, ~crossed, NEW k \in Rings
             PROVE  Unwritten(k) = After(accepted[k], Len(out[k]))
  BY DEF ReadRight
<1>1. LogTypes /\ RingHolds(k)
  BY DEF LogInv
<1>2. PICK a, r, n : a = Len(accepted[k]) /\ r = Taken(k) /\ n = Len(out[k])
  OBVIOUS
<1>3. /\ a \in Nat /\ r \in Nat /\ n \in Nat /\ Slots \in Nat \ {0}
      /\ n <= a /\ r <= a /\ a - r < Slots
      /\ rpos[k] = r % Slots /\ wpos[k] = a % Slots
      /\ \A j \in Nat : r <= j /\ j < a => slot[k][j % Slots] = accepted[k][j + 1]
  BY <1>1, <1>2, RingTypes DEF RingHolds, SlotsHold, Copied
<1>4. n = IF Storing(k) THEN r + 1 ELSE r
  BY <1>2, <1>3 DEF Taken
<1>5. Unwritten(k) = Reads(Slots, accepted[k], r, n, slot[k])
  <2> DEFINE first == (r % Slots) + (n - r)
  <2>1. (IF Storing(k) THEN rpos[k] + 1 ELSE rpos[k]) = first
    <3>1. r % Slots \in Nat
      BY <1>3
    <3>2. QED BY <1>3, <1>4, <3>1
  <2>2. QED BY <1>2, <1>3, <2>1 DEF Unwritten, Reads
<1>6. n = r \/ n = r + 1
  BY <1>4
<1>7. Holds(Slots, accepted[k], r, slot[k])
  BY <1>2, <1>3 DEF Holds
<1>8. /\ Len(accepted[k]) \in Nat /\ n <= Len(accepted[k]) /\ r <= Len(accepted[k])
      /\ Len(accepted[k]) - r < Slots
  BY <1>2, <1>3
<1>9. Reads(Slots, accepted[k], r, n, slot[k]) = After(accepted[k], n)
  BY <1>3, <1>6, <1>7, <1>8, ReadsAfter
<1>10. QED BY <1>2, <1>5, <1>9

\* A ring gets its messages in the order of their numbers.
Numbered ==
  /\ \A k \in Rings : \A i \in 1..Len(accepted[k]) : accepted[k][i] <= logged
  /\ \A t \in Threads : pushing[t] # 0 =>
       /\ pushing[t] <= logged
       /\ \A i \in 1..Len(accepted[ringOf[t]]) : accepted[ringOf[t]][i] < pushing[t]

LEMMA LogWriteNumbered ==
  ASSUME LogTypes, Numbered, NEW t \in Threads, LogWrite(t) PROVE Numbered'
<1>1. /\ logged' = logged + 1 /\ accepted' = accepted /\ pushing[t] = 0
      /\ \/ UNCHANGED <<ringOf, pushing>>
         \/ /\ ringOf'[t] \in Rings
            /\ ringOf' = ringOf \/ ringOf' = [ringOf EXCEPT ![t] = NRings + 1]
            /\ pushing' = pushing \/ pushing' = [pushing EXCEPT ![t] = logged + 1]
  BY LogWriteIs
<1>2. /\ logged \in Nat /\ pushing \in [Threads -> 0..MaxLogs]
      /\ ringOf \in [Threads -> 0..MaxRings]
  BY LogConstants DEF LogTypes, LogTypeOK
<1>3. \A k \in Rings : \A i \in 1..Len(accepted[k]) :
        accepted[k][i] \in Int /\ accepted[k][i] <= logged
  <2> TAKE k \in Rings
  <2>1. accepted[k] \in Seq(Entries)
    BY RingTypes
  <2>2. ASSUME NEW i \in 1..Len(accepted[k]) PROVE accepted[k][i] \in Int
    <3>1. accepted[k][i] \in Entries
      BY <2>1, ElementOfSeq
    <3>2. QED BY <3>1, LogConstants DEF Entries
  <2>3. QED BY <2>2 DEF Numbered
<1>4. \A u \in Threads \ {t} : pushing'[u] = pushing[u] /\ ringOf'[u] = ringOf[u]
  BY <1>1, <1>2
<1>5. pushing'[t] = 0 \/ (pushing'[t] = logged + 1 /\ ringOf'[t] \in Rings)
  BY <1>1, <1>2
<1>6. ASSUME NEW u \in Threads, pushing'[u] # 0
      PROVE  /\ pushing'[u] <= logged'
             /\ \A i \in 1..Len(accepted'[ringOf'[u]]) :
                  accepted'[ringOf'[u]][i] < pushing'[u]
  <2>1. CASE u = t
    BY <1>1, <1>2, <1>3, <1>5, <1>6, <2>1
  <2>2. CASE u # t
    <3>1. pushing[u] # 0 /\ pushing[u] <= logged /\ pushing[u] \in Int
      BY <1>2, <1>4, <1>6, <2>2 DEF Numbered
    <3>2. QED BY <1>1, <1>2, <1>4, <2>2, <3>1 DEF Numbered
  <2>3. QED BY <2>1, <2>2
<1>7. \A k \in Rings : \A i \in 1..Len(accepted'[k]) : accepted'[k][i] <= logged'
  BY <1>1, <1>2, <1>3
<1>8. QED BY <1>6, <1>7 DEF Numbered

LEMMA PublishNumbered ==
  ASSUME LogTypes, Numbered, NEW t \in Threads, Publish(t) PROVE Numbered'
<1> DEFINE o == ringOf[t]
<1>1. /\ o \in Rings /\ pushing[t] # 0 /\ pushing[t] \in Entries
      /\ accepted' = [accepted EXCEPT ![o] = Append(accepted[o], pushing[t])]
      /\ pushing' = [pushing EXCEPT ![t] = 0]
      /\ ringOf' = ringOf /\ logged' = logged
      /\ \A u \in Threads \ {t} : pushing[u] # 0 => ringOf[u] # o /\ ringOf[u] \in Rings
  BY PublishIs
<1>2. accepted \in [Rings -> Seq(Entries)] /\ pushing \in [Threads -> 0..MaxLogs]
  BY DEF LogTypes, LogTypeOK
<1>3. pushing[t] <= logged
  BY <1>1 DEF Numbered
<1> HIDE DEF o
<1>4. accepted[o] \in Seq(Entries) /\ accepted'[o] = Append(accepted[o], pushing[t])
  BY <1>1, <1>2
<1>5. PICK n \in Nat : n = Len(accepted[o])
  BY <1>4
<1>6. /\ Len(accepted'[o]) = n + 1 /\ accepted'[o][n + 1] = pushing[t]
      /\ \A i \in 1..n : accepted'[o][i] = accepted[o][i]
  BY <1>1, <1>4, <1>5, AppendProperties
<1>7. ASSUME NEW k \in Rings, NEW i \in 1..Len(accepted'[k])
      PROVE  accepted'[k][i] <= logged'
  <2>1. CASE k = o
    <3>1. i \in 1..n \/ i = n + 1
      BY <1>5, <1>6, <1>7, <2>1
    <3>2. i \in 1..n => accepted[o][i] <= logged
      BY <1>1, <1>5 DEF Numbered
    <3>3. QED BY <1>1, <1>3, <1>6, <2>1, <3>1, <3>2
  <2>2. CASE k # o
    <3>1. accepted'[k] = accepted[k]
      BY <1>1, <1>2, <2>2
    <3>2. QED BY <1>1, <1>7, <3>1 DEF Numbered
  <2>3. QED BY <2>1, <2>2
<1>8. ASSUME NEW u \in Threads, pushing'[u] # 0
      PROVE  /\ pushing'[u] <= logged'
             /\ \A i \in 1..Len(accepted'[ringOf'[u]]) :
                  accepted'[ringOf'[u]][i] < pushing'[u]
  <2>1. u # t /\ pushing'[u] = pushing[u]
    BY <1>1, <1>2, <1>8
  <2>2. accepted'[ringOf'[u]] = accepted[ringOf[u]]
    BY <1>1, <1>2, <1>8, <2>1
  <2>3. QED BY <1>1, <1>8, <2>1, <2>2 DEF Numbered
<1>9. QED BY <1>7, <1>8 DEF Numbered

LEMMA NextNumbered == LogTypes /\ Numbered /\ [LogNext]_logVars => Numbered'
<1> SUFFICES ASSUME LogTypes, Numbered, [LogNext]_logVars PROVE Numbered'
  OBVIOUS
<1>1. ASSUME UNCHANGED producing PROVE Numbered'
  BY <1>1 DEF Numbered, producing
<1>2. ASSUME NEW t \in Threads, LogWrite(t) \/ Publish(t) PROVE Numbered'
  BY <1>2, LogWriteNumbered, PublishNumbered
<1>3. ASSUME NEW c, \/ Look(c) \/ Emit(c) \/ Store(c) \/ FlushStart(c) \/ FlushEnd(c)
                    \/ WriterPass \/ ShutdownStart \/ ShutdownEnd
      PROVE  UNCHANGED producing
  BY <1>3 DEF Look, Emit, Store, FlushStart, FlushEnd, WriterPass, ShutdownStart,
    ShutdownEnd
<1>4. CASE UNCHANGED logVars
  BY <1>1, <1>4 DEF logVars, producing
<1>5. QED BY <1>1, <1>2, <1>3, <1>4 DEF LogNext, WriterStep

\* One message more: it is put at the end of its ring's queue.
LEMMA PublishPuts ==
  ASSUME LogInv, Numbered, NEW t \in Threads, Publish(t), ~crossed,
         Backlog = [k \in Rings |-> After(accepted[k], Len(out[k]))],
         Backlog' = [k \in Rings |-> After(accepted'[k], Len(out'[k]))]
  PROVE  Queues!Put(ringOf[t], pushing[t]) /\ ringOf[t] \in Rings /\ pushing[t] \in Entries
<1> DEFINE o == ringOf[t]
           m == pushing[t]
<1>1. /\ o \in Rings /\ m # 0 /\ m \in Entries /\ out' = out
      /\ accepted' = [accepted EXCEPT ![o] = Append(accepted[o], m)]
  BY PublishIs DEF LogInv
<1>2. LogTypes /\ RingHolds(o)
  BY <1>1 DEF LogInv
<1>3. /\ accepted \in [Rings -> Seq(Entries)] /\ accepted[o] \in Seq(Entries)
      /\ out[o] \in Seq(0..MaxLogs)
  BY <1>1, <1>2 DEF LogTypes, LogTypeOK
<1>4. PICK a \in Nat, n \in Nat : a = Len(accepted[o]) /\ n = Len(out[o]) /\ n <= a
  BY <1>2, <1>3 DEF RingHolds, Copied
<1>5. a - n < Slots - 1
  <2>1. a - Taken(o) + 1 < Slots
    BY <1>1, <1>2, <1>4 DEF RingHolds, RoomLeft
  <2>2. Taken(o) \in Int /\ Taken(o) <= n
    BY <1>4 DEF Taken
  <2>3. QED BY <2>1, <2>2, LogConstants
<1> HIDE DEF o, m
<1>6. Backlog[o] = After(accepted[o], n)
  BY <1>1, <1>4
<1>7. Len(Backlog[o]) = a - n /\ \A i \in 1..(a - n) : Backlog[o][i] = accepted[o][n + i]
  <2>1. PICK s \in Seq(Entries) : s = accepted[o]
    BY <1>3
  <2>2. n <= Len(s) /\ Len(s) = a
    BY <1>4, <2>1
  <2>3. /\ Len(After(s, n)) = Len(s) - n
        /\ \A i \in 1..(Len(s) - n) : After(s, n)[i] = s[n + i]
    BY <2>2, AfterIs
  <2>4. QED BY <1>6, <2>1, <2>2, <2>3
<1>8. \A i \in 1..a : accepted[o][i] < m
  BY <1>1, <1>4 DEF Numbered, o, m
<1>9. Queues!Newest(o, m)
  <2>1. ASSUME NEW i \in DOMAIN Backlog[o] PROVE Backlog[o][i] < m
    <3>1. Backlog[o] \in Seq(Entries)
      BY <1>3, <1>4, <1>6, AfterIs
    <3>2. i \in 1..(a - n)
      BY <1>7, <2>1, <3>1
    <3>3. n + i \in 1..a
      BY <1>4, <3>2
    <3>4. QED BY <1>7, <1>8, <3>2, <3>3
  <2>2. ASSUME NEW i \in DOMAIN out[o] PROVE out[o][i] < m
    <3>1. i \in 1..n
      BY <1>3, <1>4, <2>2
    <3>2. out[o][i] = accepted[o][i] /\ i \in 1..a
      BY <1>2, <1>4, <3>1 DEF RingHolds, Copied
    <3>3. QED BY <1>8, <3>2
  <2>3. QED BY <2>1, <2>2 DEF Queues!Newest
<1>10. Backlog' = [Backlog EXCEPT ![o] = Append(Backlog[o], m)]
  <2>1. After(accepted'[o], Len(out'[o])) = Append(Backlog[o], m)
    <3>1. accepted'[o] = Append(accepted[o], m) /\ Len(out'[o]) = n
      BY <1>1, <1>3, <1>4
    <3>2. QED BY <1>1, <1>3, <1>4, <1>6, <3>1, AfterPut
  <2>2. \A k \in Rings \ {o} : accepted'[k] = accepted[k] /\ out'[k] = out[k]
    BY <1>1, <1>3
  <2>3. QED BY <2>1, <2>2
<1>11. Queues!Put(o, m)
  BY <1>1, <1>5, <1>7, <1>9, <1>10 DEF Queues!Put
<1>12. QED BY <1>1, <1>11 DEF o, m

\* A message is written: it is the one at the head.
LEMMA EmitWrites ==
  ASSUME LogInv, NEW c \in Consumers, Emit(c), ~crossed, \A k \in Rings : RingHolds(k)',
         Backlog = [k \in Rings |-> After(accepted[k], Len(out[k]))],
         Backlog' = [k \in Rings |-> After(accepted'[k], Len(out'[k]))]
  PROVE  Queues!Write(drain[c].ring) /\ drain[c].ring \in Rings
<1>0. PICK q, x : q = drain[c].ring /\ x = slot[q][drain[c].at]
  OBVIOUS
<1>1. /\ q \in Rings /\ out' = [out EXCEPT ![q] = Append(out[q], x)]
      /\ accepted' = accepted
  BY <1>0, EmitIs DEF LogInv, producing
<1>2. LogTypes /\ Copied(q)'
  <2>1. RingHolds(q)'
    BY <1>1
  <2>2. QED BY <2>1 DEF LogInv, RingHolds
<1>3. /\ accepted[q] \in Seq(Entries) /\ out \in [Rings -> Seq(0..MaxLogs)]
      /\ out[q] \in Seq(0..MaxLogs) /\ x \in 0..MaxLogs
  BY <1>0, <1>1, <1>2, DrainType DEF LogTypes, LogTypeOK
<1>4. PICK a \in Nat, n \in Nat : a = Len(accepted[q]) /\ n = Len(out[q])
  BY <1>3
<1>5. out'[q] = Append(out[q], x) /\ Len(out'[q]) = n + 1 /\ out'[q][n + 1] = x
  <2>1. out'[q] = Append(out[q], x)
    BY <1>1, <1>3
  <2>2. QED BY <1>3, <1>4, <2>1, AppendProperties
<1>6. n < a /\ x = accepted[q][n + 1]
  <2>1. n + 1 <= a /\ \A j \in 1..(n + 1) : out'[q][j] = accepted[q][j]
    <3>1. accepted'[q] = accepted[q]
      BY <1>1
    <3>2. QED BY <1>2, <1>4, <1>5, <3>1 DEF Copied
  <2>2. n + 1 \in 1..(n + 1) /\ n < a
    BY <1>4, <2>1
  <2>3. out'[q][n + 1] = accepted[q][n + 1]
    BY <2>1, <2>2
  <2>4. QED BY <1>5, <2>2, <2>3
<1>7. Backlog[q] = After(accepted[q], n)
  BY <1>1, <1>4
<1>8. /\ Backlog[q] # <<>> /\ Head(Backlog[q]) = x
      /\ After(accepted[q], n + 1) = Tail(Backlog[q])
  BY <1>3, <1>4, <1>6, <1>7, AfterWrite
<1>9. out' = [out EXCEPT ![q] = Append(out[q], Head(Backlog[q]))]
  BY <1>1, <1>8
<1>10. Backlog' = [Backlog EXCEPT ![q] = Tail(Backlog[q])]
  <2>1. After(accepted'[q], Len(out'[q])) = Tail(Backlog[q])
    BY <1>1, <1>5, <1>8
  <2>2. \A k \in Rings \ {q} : accepted'[k] = accepted[k] /\ out'[k] = out[k]
    BY <1>1, <1>3
  <2>3. QED BY <2>1, <2>2
<1>11. QED BY <1>0, <1>1, <1>8, <1>9, <1>10 DEF Queues!Write

\* Every step is a step of the queues, or changes none of them.
LEMMA StepQueues ==
  ASSUME LogInv, LogInv', Numbered, ReadRight, ReadRight', [LogNext]_logVars, ~crossed'
  PROVE  UNCHANGED Queues!queueVars \/ Queues!Next
<1>1. ~crossed
  BY CrossedStays
<1>2. Backlog = [k \in Rings |-> After(accepted[k], Len(out[k]))]
  BY <1>1 DEF Backlog, ReadRight
<1>3. Backlog' = [k \in Rings |-> After(accepted'[k], Len(out'[k]))]
  BY DEF Backlog, ReadRight
<1>4. \A k \in Rings : RingHolds(k)'
  BY DEF LogInv
<1>5. ASSUME NEW t \in Threads, Publish(t) PROVE Queues!Next
  BY <1>1, <1>2, <1>3, <1>5, PublishPuts DEF Queues!Next
<1>6. ASSUME NEW c \in Consumers, Emit(c) PROVE Queues!Next
  BY <1>1, <1>2, <1>3, <1>4, <1>6, EmitWrites DEF Queues!Next
<1>7. ASSUME accepted' = accepted, out' = out PROVE UNCHANGED Queues!queueVars
  BY <1>2, <1>3, <1>7 DEF Queues!queueVars
<1>8. ASSUME NEW t \in Threads, LogWrite(t) PROVE accepted' = accepted /\ out' = out
  BY <1>8 DEF LogWrite
<1>9. ASSUME NEW c, \/ Look(c) \/ Store(c) \/ FlushStart(c) \/ FlushEnd(c)
                    \/ WriterPass \/ ShutdownStart \/ ShutdownEnd
      PROVE  accepted' = accepted /\ out' = out
  BY <1>9 DEF Look, Store, FlushStart, FlushEnd, WriterPass, ShutdownStart, ShutdownEnd,
    producing
<1>10. CASE UNCHANGED logVars
  BY <1>7, <1>10 DEF logVars
<1>11. ASSUME NEW c \in Consumers, \/ Look(c) \/ Emit(c) \/ Store(c) \/ FlushStart(c)
                                  \/ FlushEnd(c) \/ WriterPass
       PROVE  UNCHANGED Queues!queueVars \/ Queues!Next
  BY <1>6, <1>7, <1>9, <1>11
<1>12. CASE LogNext
  BY <1>5, <1>7, <1>8, <1>9, <1>11, <1>12 DEF LogNext, WriterStep, Consumers
<1>13. QED BY <1>10, <1>12

LEMMA InitQueues == LogInit => Queues!Init /\ Numbered
<1> SUFFICES ASSUME LogInit PROVE Queues!Init /\ Numbered
  OBVIOUS
<1>1. LogInv /\ ~crossed
  BY InitInv DEF LogInit
<1>2. Backlog = [k \in Rings |-> After(accepted[k], Len(out[k]))]
  BY <1>1, RingsReadRight DEF Backlog, ReadRight
<1>3. /\ accepted = [k \in Rings |-> <<>>] /\ out = [k \in Rings |-> <<>>]
      /\ pushing = [t \in Threads |-> 0]
  BY DEF LogInit
<1>4. After(<<>>, 0) = <<>>
  BY DEF After
<1>5. Backlog = [k \in Rings |-> <<>>]
  BY <1>2, <1>3, <1>4
<1>6. Numbered
  BY <1>3 DEF Numbered
<1>7. QED BY <1>3, <1>5, <1>6 DEF Queues!Init

\* The rings of the logger are bounded queues of messages, each of them written once,
\* in order and from the head, until two consumers meet at one entry: whatever the
\* number of slots, of threads and of flushes, and wherever the indices wrap around.
THEOREM RingsImplementQueues == LogSpec => RingsAreQueues
<1>1. LogInit => Queues!Init /\ Numbered
  BY InitQueues
<1>2. LogInv => LogTypes /\ ReadRight
  BY RingsReadRight DEF LogInv
<1>3. LogTypes /\ Numbered /\ [LogNext]_logVars => Numbered'
  BY NextNumbered
<1>4. LogInv /\ LogInv' /\ Numbered /\ ReadRight /\ ReadRight' /\ [LogNext]_logVars
        => [crossed' \/ UNCHANGED Queues!queueVars \/ Queues!Next]_logVars
  BY StepQueues
<1>5. QED BY <1>1, <1>2, <1>3, <1>4, LogInvariant, PTL DEF LogSpec, RingsAreQueues

=============================================================================
