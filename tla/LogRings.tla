------------------------------ MODULE LogRings ------------------------------
(***************************************************************************)
(* The asynchronous logger (src/src/logger.c): each thread that logs has a *)
(* ring of its own, a writer thread drains the rings, and so does log_flush*)
(* in whatever thread calls it.  There is no lock on the draining side.    *)
(*                                                                         *)
(* A ring is named by its place in G.rings, an entry by its number among   *)
(* all the messages.  "out" is what has reached the console or the file.   *)
(* Left out: levels, formatting, rotation, the count of dropped messages,  *)
(* spans and histograms.                                                   *)
(***************************************************************************)
EXTENDS Integers, Sequences, FiniteSets, SequencesExt

CONSTANTS Threads,    \* threads that log
          Flushers,   \* calls of log_flush, one at a time in each
          Writer,     \* the writer thread
          MaxRings,   \* MAX_THREADS
          Slots,      \* RING_ENTRIES
          MaxLogs,    \* bound: messages
          Beyond      \* bound: behaviours are followed beyond a crossing (see below)

ASSUME LogAssumption ==
  /\ Writer \notin Flushers
  /\ {MaxRings, Slots, MaxLogs} \subseteq Nat \ {0} /\ Beyond \in BOOLEAN

VARIABLES ringOf,     \* TL_ring, 0 for none
          logged,     \* how many messages there have been
          pushing,    \* the entry a thread has found room for and not yet stored
          slot,       \* G.rings: the entries
          wpos, rpos, \* the indices of each ring
          drain,      \* the consumers: where each is
          logger,     \* "on", "closing" from log_shutdown on, then "down"
          accepted,   \* history: the entries stored in each ring
          out,        \* history: the entries written from each ring
          due,        \* history: what was stored when a flush or shutdown began
          crossed     \* history: two consumers have been at one ring's entry

logVars == <<ringOf, logged, pushing, slot, wpos, rpos, drain, logger,
             accepted, out, due, crossed>>
producing == <<ringOf, logged, pushing, slot, wpos, accepted>>

Rings     == 1..MaxRings
Indices   == 0..(Slots - 1)
Consumers == Flushers \cup {Writer}
Entries   == 1..MaxLogs

NRings == Cardinality({t \in Threads : ringOf[t] # 0})
Next1(i) == (i + 1) % Slots

\* A flush is idle between its calls; the writer begins with its first pass.
LogInit ==
  /\ ringOf = [t \in Threads |-> 0]
  /\ logged = 0 /\ pushing = [t \in Threads |-> 0]
  /\ slot = [k \in Rings |-> [i \in Indices |-> 0]]
  /\ wpos = [k \in Rings |-> 0] /\ rpos = [k \in Rings |-> 0]
  /\ drain = [c \in Consumers |->
                [pc |-> IF c = Writer THEN "look" ELSE "idle",
                 ring |-> 1, at |-> 0, final |-> FALSE]]
  /\ logger = "on"
  /\ accepted = [k \in Rings |-> <<>>] /\ out = [k \in Rings |-> <<>>]
  /\ due = [c \in Consumers |-> [k \in Rings |-> 0]]
  /\ crossed = FALSE

-----------------------------------------------------------------------------
(* The producers: log_write, ring_register and ring_push. *)

\* Bug: a ring is taken to be full only when all its slots are in use.
MutNeverFull(k) == FALSE

Full(k) == Next1(wpos[k]) = rpos[k]

\* A message: to the thread's ring, which it may first have to get; to stderr
\* when there is no ring left; nowhere when its ring is full.
LogWrite(t) ==
  /\ logger # "down" /\ pushing[t] = 0 /\ logged < MaxLogs
  /\ logged' = logged + 1
  /\ IF ringOf[t] = 0 /\ NRings >= MaxRings
       THEN UNCHANGED <<ringOf, pushing>>
       ELSE /\ ringOf' = IF ringOf[t] # 0 THEN ringOf
                         ELSE [ringOf EXCEPT ![t] = NRings + 1]
            /\ pushing' = IF Full(ringOf'[t]) THEN pushing
                          ELSE [pushing EXCEPT ![t] = logged']
  /\ UNCHANGED <<slot, wpos, rpos, drain, logger, accepted, out, due, crossed>>

\* The entry is copied in and published.
Publish(t) ==
  LET k == ringOf[t] IN
    /\ pushing[t] # 0 /\ logger # "down"
    /\ slot' = [slot EXCEPT ![k][wpos[k]] = pushing[t]]
    /\ wpos' = [wpos EXCEPT ![k] = Next1(@)]
    /\ accepted' = [accepted EXCEPT ![k] = Append(@, pushing[t])]
    /\ pushing' = [pushing EXCEPT ![t] = 0]
    /\ UNCHANGED <<ringOf, logged, rpos, drain, logger, out, due, crossed>>

-----------------------------------------------------------------------------
(* The consumers: writer_thread and log_flush. *)

\* Some other consumer has read the same read index and not yet stored the next.
Busy(c, k) == \E d \in Consumers \ {c} :
                drain[d].ring = k /\ drain[d].pc \in {"emit", "store"}

\* The next entry of the ring it is at, or on to the next ring.
Look(c) ==
  LET k == drain[c].ring IN
    /\ drain[c].pc = "look" /\ k <= NRings /\ logger # "down"
    /\ IF rpos[k] = wpos[k]
         THEN /\ drain' = [drain EXCEPT ![c].ring = @ + 1]
              /\ UNCHANGED crossed
         ELSE /\ drain' = [drain EXCEPT ![c].pc = "emit", ![c].at = rpos[k]]
              /\ crossed' = (crossed \/ Busy(c, k))
    /\ UNCHANGED <<producing, rpos, logger, out, due>>

\* It writes what that slot holds now.
Emit(c) ==
  LET k == drain[c].ring IN
    /\ drain[c].pc = "emit" /\ logger # "down"
    /\ out' = [out EXCEPT ![k] = Append(@, slot[k][drain[c].at])]
    /\ drain' = [drain EXCEPT ![c].pc = "store"]
    /\ UNCHANGED <<producing, rpos, logger, due, crossed>>

\* The read index is set from the one it read.
Store(c) ==
  LET k == drain[c].ring IN
    /\ drain[c].pc = "store" /\ logger # "down"
    /\ rpos' = [rpos EXCEPT ![k] = Next1(drain[c].at)]
    /\ drain' = [drain EXCEPT ![c].pc = "look"]
    /\ UNCHANGED <<producing, logger, out, due, crossed>>

Stored == [k \in Rings |-> Len(accepted[k])]

FlushStart(c) ==
  /\ c \in Flushers /\ drain[c].pc = "idle" /\ logger # "down"
  /\ drain' = [drain EXCEPT ![c].pc = "look", ![c].ring = 1]
  /\ due' = [due EXCEPT ![c] = Stored]
  /\ UNCHANGED <<producing, rpos, logger, out, crossed>>

FlushEnd(c) ==
  /\ c \in Flushers /\ drain[c].pc = "look" /\ drain[c].ring > NRings
  /\ drain' = [drain EXCEPT ![c].pc = "idle"]
  /\ UNCHANGED <<producing, rpos, logger, out, due, crossed>>

\* Bug: when told to stop, the writer skips the final drain.
MutNoFinalDrain(w) == IF logger = "on" THEN [w EXCEPT !.ring = 1]
                      ELSE [w EXCEPT !.pc = "gone"]

\* Bug: the writer does not start over after a pass.
MutOnePass(w) == IF logger = "on" THEN w
                 ELSE IF ~w.final THEN [w EXCEPT !.ring = 1, !.final = TRUE]
                 ELSE [w EXCEPT !.pc = "gone"]

\* After a pass over the rings: another, the final drain, or the end.
PassOver(w) ==
  IF logger = "on" THEN [w EXCEPT !.ring = 1]
  ELSE IF ~w.final THEN [w EXCEPT !.ring = 1, !.final = TRUE]
  ELSE [w EXCEPT !.pc = "gone"]

WriterPass ==
  /\ drain[Writer].pc = "look" /\ drain[Writer].ring > NRings
  /\ drain' = [drain EXCEPT ![Writer] = PassOver(@)]
  /\ UNCHANGED <<producing, rpos, logger, out, due, crossed>>

\* log_shutdown, up to the join and after it, when the rings are freed.
ShutdownStart ==
  /\ logger = "on"
  /\ logger' = "closing"
  /\ due' = [due EXCEPT ![Writer] = Stored]
  /\ UNCHANGED <<producing, rpos, drain, out, crossed>>

ShutdownEnd ==
  /\ logger = "closing" /\ drain[Writer].pc = "gone"
  /\ logger' = "down"
  /\ UNCHANGED <<producing, rpos, drain, out, due, crossed>>

WriterStep == Look(Writer) \/ Emit(Writer) \/ Store(Writer) \/ WriterPass

Followed == Beyond \/ ~crossed

LogNext ==
  /\ Followed
  /\ \/ \E t \in Threads : LogWrite(t) \/ Publish(t)
     \/ \E c \in Flushers :
          FlushStart(c) \/ Look(c) \/ Emit(c) \/ Store(c) \/ FlushEnd(c)
     \/ WriterStep \/ ShutdownStart \/ ShutdownEnd

\* The writer is a thread of its own, which nothing blocks.
LogSpec == LogInit /\ [][LogNext]_logVars /\ WF_logVars(Followed /\ WriterStep)

-----------------------------------------------------------------------------
LogTypeOK ==
  /\ ringOf \in [Threads -> 0..MaxRings]
  /\ logged \in 0..MaxLogs /\ pushing \in [Threads -> 0..MaxLogs]
  /\ slot \in [Rings -> [Indices -> 0..MaxLogs]]
  /\ wpos \in [Rings -> Indices] /\ rpos \in [Rings -> Indices]
  /\ drain \in [Consumers ->
       [pc : {"idle", "look", "emit", "store", "gone"},
        ring : 1..(MaxRings + 1), at : Indices, final : BOOLEAN]]
  /\ logger \in {"on", "closing", "down"}
  /\ accepted \in [Rings -> Seq(Entries)] /\ out \in [Rings -> Seq(0..MaxLogs)]
  /\ due \in [Consumers -> [Rings -> 0..MaxLogs]]
  /\ crossed \in BOOLEAN

\* Somebody has written the entry at the read index and not yet moved the index.
Storing(k) == \E c \in Consumers : drain[c].ring = k /\ drain[c].pc = "store"

\* What is still to be written of a ring: the slots from there to the write index.
Unwritten(k) ==
  LET first == IF Storing(k) THEN rpos[k] + 1 ELSE rpos[k]
      n     == ((wpos[k] - rpos[k]) % Slots) + rpos[k] - first
  IN [i \in 1..n |-> slot[k][(first + i - 1) % Slots]]

Backlog == [k \in Rings |-> Unwritten(k)]

Queues == INSTANCE LogQueues
  WITH waiting <- Backlog, written <- out, Messages <- Entries, Room <- Slots - 1

\* The rings are bounded queues, as long as no two consumers have been at the same
\* entry: no message is written twice, out of order or before it is whole, none is
\* overwritten while it waits and none is forgotten, though rings wrap around, fill
\* up and are drained by several threads.
RingsAreQueues ==
  /\ Queues!Init
  /\ [][crossed' \/ UNCHANGED Queues!queueVars \/ Queues!Next]_logVars

\* The same of what has been written so far: the first entries accepted, each once
\* and in order.
OnceInOrder == ~crossed => \A k \in Rings : IsPrefix(out[k], accepted[k])

\* The header of the logger: the rings have one producer and one consumer, so that
\* the same holds unconditionally.
SingleConsumer == \A k \in Rings : IsPrefix(out[k], accepted[k])

\* log_flush is synchronous, and log_shutdown drains the rings: when one of them
\* returns, what had been logged when it was called has been written, by it or by
\* another consumer it met on the way.
DrainsAreComplete ==
  ~crossed =>
    \A k \in Rings :
      /\ \A c \in Flushers : drain[c].pc = "idle" => Len(out[k]) >= due[c][k]
      /\ logger = "down" => Len(out[k]) >= due[Writer][k]

\* A message that has a slot is written in the end, whatever the flushes do: once the
\* threads pause (here at MaxLogs) the writer, which gets to every ring again and
\* again, has written everything.
Delivered ==
  []<>((\A k \in Rings : Len(out[k]) = Len(accepted[k])) \/ crossed \/ logger # "on")

=============================================================================
