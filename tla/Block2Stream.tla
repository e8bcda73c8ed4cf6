---------------------------- MODULE Block2Stream ----------------------------
(***************************************************************************)
(* The picture stream from the ESP32 camera to the K1: JPEG frames cut     *)
(* into CoAP Block2 packets (src/receive/coap_server.h), sent over UDP and *)
(* put together again (src/src/coap_receiver.c).                           *)
(*                                                                         *)
(* The server keeps one picture, g_frame_buf, for up to two subscribers,   *)
(* each with its own progress through it.  Each capture bumps _frame_etag, *)
(* so the counter also names the picture that is in the buffer.  A packet  *)
(* carries that name as "picture", the frame it is sent for as "frame",    *)
(* and of the frame, as the ETag option, what 24 bits hold.                *)
(*                                                                         *)
(* Sizes are in blocks.  Left out: blocks of a wrong length, which this    *)
(* server does not send, and frames beyond the receiver's buffer: the      *)
(* server's own buffer is smaller.                                         *)
(***************************************************************************)
EXTENDS Integers, Sequences, FiniteSets

CONSTANTS Clients,    \* subscribers of /stream
          Me,         \* the one whose receiver is modelled
          EtagMod,    \* 2^24: an ETag option has at most three bytes
          PerTick,    \* STREAM_BLOCKS_PER_TICK
          MaxFrames,  \* bound: pictures taken
          MaxBlocks,  \* bound: blocks of a frame
          MaxNet      \* bound: packets under way

ASSUME StreamAssumption ==
  /\ Me \in Clients
  /\ {EtagMod, PerTick, MaxFrames, MaxBlocks, MaxNet} \subseteq Nat \ {0}

VARIABLES buffer,   \* _frame_etag: the picture in g_frame_buf
          active,   \* subscribed clients
          tx,       \* the transmission to each client
          heard,    \* the server sends to the socket the receiver has now
          net,      \* packets on their way: UDP loses, repeats and reorders them
          as,       \* Block2Assembly
          data,     \* as->data: what each block position holds
          shown,    \* the last frame put into jpeg_buf, as its blocks
          torn,     \* history: frames under way when /frame retook the picture
          seen      \* history: what has arrived of one frame without a break

vars == <<buffer, active, tx, heard, net, as, data, shown, torn, seen>>
server   == <<buffer, active, tx, torn>>
receiver == <<as, data, shown, seen>>

Frames == 1..MaxFrames
Places == 0..(MaxBlocks - 1)
Empty  == [frame |-> 0, picture |-> 0]

Packets == [frame : Frames, picture : Frames, num : Places, size : 1..MaxBlocks]

Etag(p) == p.frame % EtagMod
More(p) == p.num < p.size - 1

Idle   == [on |-> FALSE, frame |-> 0, size |-> 0, next |-> 0]
NoneOn == [on |-> FALSE, etag |-> 0, size |-> 0, total |-> 0, count |-> 0,
           got |-> {}]
Unseen == [frame |-> 0, size |-> 0, nums |-> {}, streak |-> 0]

Init ==
  /\ buffer = 0 /\ active = {} /\ heard = FALSE
  /\ tx = [c \in Clients |-> Idle]
  /\ net = {}
  /\ as = NoneOn
  /\ data = [i \in Places |-> Empty]
  /\ shown = <<>>
  /\ torn = {} /\ seen = Unseen

-----------------------------------------------------------------------------
(* The server. *)

InProgress == {c \in active : tx[c].on}

\* Where the next burst of transmission t ends, PerTick blocks at most.
BurstEnd(t) == IF t.next + PerTick < t.size THEN t.next + PerTick ELSE t.size

Burst(t, picture) ==
  {[frame |-> t.frame, picture |-> picture, num |-> i, size |-> t.size] :
     i \in t.next..(BurstEnd(t) - 1)}

\* t once that burst is sent.
Advanced(t) == [t EXCEPT !.next = BurstEnd(t), !.on = BurstEnd(t) < t.size]

\* What reaches the receiver's socket of the packets sent to Me.
Send(packets) ==
  /\ net' = IF heard THEN net \cup packets ELSE net
  /\ Cardinality(net') <= MaxNet

\* Bug: those not yet due for a burst are forgotten.
MutForgetsLate(due) == {c \in due : Advanced(tx[c]).on}

\* Who still has blocks to come when those in due have been served.
StillBusy(due) == {c \in InProgress : c \in due => Advanced(tx[c]).on}

\* tickStream: those whose block gap is over (due) get a burst.  If nobody has
\* a frame under way then, a picture is taken and started for everyone whose frame
\* gap is over (ready; who has just been served is not), each served once at once.
Tick(due, ready, size) ==
  /\ due \subseteq InProgress /\ ready \subseteq active \ InProgress
  /\ ready # {} => StillBusy(due) = {} /\ buffer < MaxFrames
  /\ buffer' = IF ready = {} THEN buffer ELSE buffer + 1
  /\ LET new == [on |-> TRUE, frame |-> buffer + 1, size |-> size, next |-> 0] IN
       /\ tx' = [c \in Clients |-> IF c \in due THEN Advanced(tx[c])
                              ELSE IF c \in ready THEN Advanced(new) ELSE tx[c]]
       /\ Send(IF Me \in due THEN Burst(tx[Me], buffer)
               ELSE IF Me \in ready THEN Burst(new, buffer + 1) ELSE {})
  /\ UNCHANGED <<active, heard, torn, receiver>>

\* A GET /frame, of any host, retakes the picture; its blocks go to that host.
FrameRequest ==
  /\ buffer < MaxFrames
  /\ buffer' = buffer + 1
  /\ torn' = torn \cup {tx[c].frame : c \in InProgress}
  /\ UNCHANGED <<active, tx, heard, net, receiver>>

\* _registerStream: new, renewed (the keepalive) or from a new port, the frame
\* under way is given up.
Subscribe(c) ==
  /\ active' = active \cup {c}
  /\ tx' = [tx EXCEPT ![c].on = FALSE]
  /\ heard' = (heard \/ c = Me)
  /\ UNCHANGED <<buffer, torn, net, receiver>>

\* Silent clients are pruned, one is evicted by a newer host, or all are stopped.
Unsubscribe(gone) ==
  /\ gone # {} /\ gone \subseteq active
  /\ active' = active \ gone
  /\ tx' = [c \in Clients |-> IF c \in gone THEN Idle ELSE tx[c]]
  /\ UNCHANGED <<buffer, torn, heard, net, receiver>>

-----------------------------------------------------------------------------
(* The receiver: process_coap_packet and assembly_add_block. *)

\* Bug: a block 0 begins a frame only when none is under way.
MutFirstFrameWins(p) == p.num = 0 /\ ~as.on

\* A block 0 or another ETag begins a new frame.
IsNewFrame(p) ==
  \/ p.num = 0
  \/ as.on /\ Etag(p) # 0 /\ Etag(p) # as.etag

\* Bug: the bitmap of the last frame is kept.
MutKeepMap(p) ==
  [on |-> TRUE, etag |-> Etag(p), size |-> p.size, total |-> 0, count |-> 0,
   got |-> as.got]

\* assembly_reset and the first fields of the new frame.
Begin(p) ==
  [on |-> TRUE, etag |-> Etag(p), size |-> p.size, total |-> 0, count |-> 0,
   got |-> {}]

\* The assembly p is checked against, and the checks.
Current(p) == IF IsNewFrame(p) THEN Begin(p) ELSE as

\* Bug: a repeated block is counted again.
MutTakeRepeats(p) == Current(p).on /\ (Etag(p) # 0 => Etag(p) = Current(p).etag)

Fits(p) == /\ Current(p).on
           /\ Etag(p) # 0 => Etag(p) = Current(p).etag
           /\ p.num \notin Current(p).got

\* p is stored; the last block tells the number of blocks.
Stored(p) ==
  [Current(p) EXCEPT !.got = @ \cup {p.num},
                     !.count = @ + 1,
                     !.total = IF More(p) THEN @ ELSE p.num + 1]

IsWhole(a) == a.total # 0 /\ a.count >= a.total

\* The frame goes to jpeg_buf: total_size, whatever those places hold.
AddBlock(p) ==
  IF ~Fits(p)
    THEN as' = Current(p) /\ UNCHANGED <<data, shown>>
    ELSE /\ data' = [data EXCEPT ![p.num] =
                       [frame |-> p.frame, picture |-> p.picture]]
         /\ as' = [Stored(p) EXCEPT !.on = ~IsWhole(Stored(p))]
         /\ shown' = IF IsWhole(Stored(p))
                       THEN [i \in 1..as'.size |-> data'[i - 1]]
                       ELSE shown

\* History: the blocks of this frame that came with no other frame's between,
\* and how many of them came in order, counted from the last block 0.
Note(p) ==
  LET same == seen.frame = p.frame IN
    seen' = [frame |-> p.frame, size |-> p.size,
             nums |-> (IF same THEN seen.nums ELSE {}) \cup {p.num},
             streak |-> IF p.num = 0 THEN 1
                   ELSE IF same /\ seen.streak = p.num THEN p.num + 1 ELSE 0]

\* A datagram arrives, perhaps not for the last time.
Receive ==
  \E p \in net :
    /\ AddBlock(p) /\ Note(p)
    /\ net' \in {net, net \ {p}}
    /\ UNCHANGED <<server, heard>>

Lose ==
  /\ \E p \in net : net' = net \ {p}
  /\ UNCHANGED <<server, heard, receiver>>

\* A frame is not whole after FRAME_TIMEOUT_MS.
Timeout ==
  /\ as.on
  /\ as' = NoneOn /\ seen' = Unseen
  /\ UNCHANGED <<server, heard, net, data, shown>>

\* recvfrom failed: a new socket, which the server does not know yet.
Reconnect ==
  /\ heard
  /\ heard' = FALSE /\ net' = {}
  /\ as' = NoneOn /\ seen' = Unseen
  /\ UNCHANGED <<server, data, shown>>

Next ==
  \/ \E due, ready \in SUBSET active, size \in 1..MaxBlocks : Tick(due, ready, size)
  \/ \E c \in Clients : Subscribe(c)
  \/ \E gone \in SUBSET active : Unsubscribe(gone)
  \/ FrameRequest \/ Receive \/ Lose \/ Timeout \/ Reconnect

Spec == Init /\ [][Next]_vars

-----------------------------------------------------------------------------
TypeOK ==
  /\ buffer \in 0..MaxFrames /\ active \subseteq Clients /\ heard \in BOOLEAN
  /\ tx \in [Clients -> [on : BOOLEAN, frame : 0..MaxFrames,
                         size : 0..MaxBlocks, next : 0..MaxBlocks]]
  /\ net \subseteq Packets
  /\ as \in [on : BOOLEAN, etag : 0..(EtagMod - 1), size : 0..MaxBlocks,
             total : 0..MaxBlocks, count : Nat, got : SUBSET Places]
  /\ data \in [Places -> [frame : 0..MaxFrames, picture : 0..MaxFrames]]
  /\ shown \in Seq([frame : 0..MaxFrames, picture : 0..MaxFrames])
  /\ torn \subseteq Frames
  /\ seen \in [frame : 0..MaxFrames, size : 0..MaxBlocks, nums : SUBSET Places,
              streak : 0..MaxBlocks]

\* The count that decides whether a frame is whole is the number of different
\* places filled since the frame began, and blocks go only to a frame begun.
AssemblyCounts ==
  /\ TypeOK
  /\ as.count = Cardinality(as.got)
  /\ as.got # {} => as.size > 0 /\ \A i \in as.got : i < as.size
  /\ as.total # 0 => as.total = as.size

\* A frame handed to the pipeline is of one piece: every block of it was sent for
\* the same frame, whatever the network lost, repeated or reordered and whatever
\* older frames left in the buffer, and shows the same picture, unless a /frame
\* request retook it.
WholeFrames ==
  shown # <<>> =>
    \A i \in DOMAIN shown :
      /\ shown[i].frame # 0 /\ shown[i].frame = shown[1].frame
      /\ shown[i].frame \notin torn => shown[i].picture = shown[i].frame

\* No picture is retaken for one subscriber while the blocks of it are still
\* being sent to the other: the buffer they share has no lock over a frame.
BufferKept ==
  \A c \in InProgress : tx[c].frame = buffer \/ tx[c].frame \in torn

\* The receiver heals: whatever earlier losses, repeats and timeouts left behind,
\* a frame whose blocks now arrive in order is handed over.
Healing ==
  (seen.streak # 0 /\ seen.streak = seen.size)
    => shown # <<>> /\ shown[1].frame = seen.frame

\* The comment on the assembly: blocks may arrive out of order, and the frame is
\* whole once all have been collected.
AnyOrder ==
  (seen.size # 0 /\ seen.nums = 0..(seen.size - 1))
    => shown # <<>> /\ shown[1].frame = seen.frame

=============================================================================
