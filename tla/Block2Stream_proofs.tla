------------------------ MODULE Block2Stream_proofs ---------------------------
(***************************************************************************)
(* That frames handed over are whole and the receiver heals, for any       *)
(* number of subscribers, pictures, blocks and packets under way, as long  *)
(* as the ETag does not wrap.  The receiver never learns how long a frame  *)
(* is before its last block; what it may rely on is that all the blocks of *)
(* one ETag are of frames of one size, and of one picture.                 *)
(***************************************************************************)
EXTENDS Block2Stream, FiniteSetTheorems, TLAPS

\* Every picture has an ETag of its own, and none is 0.
NoWrap == MaxFrames < EtagMod

Blocks == [frame : 0..MaxFrames, picture : 0..MaxFrames]
Transmissions == [on : BOOLEAN, frame : 0..MaxFrames,
                  size : 0..MaxBlocks, next : 0..MaxBlocks]
Assemblies == [on : BOOLEAN, etag : 0..(EtagMod - 1), size : 0..MaxBlocks,
               total : 0..MaxBlocks, count : Nat, got : SUBSET Places]

\* A transmission is of a picture taken, and not at its end.
Sending ==
  \A c \in Clients :
    tx[c].on => /\ tx[c].frame \in 1..buffer
                /\ tx[c].size \in 1..MaxBlocks
                /\ tx[c].next \in 0..(tx[c].size - 1)

\* So is a packet, and it shows the picture of its frame.
Travelling ==
  \A p \in net : /\ p.frame <= buffer /\ p.num < p.size
                 /\ p.frame \notin torn => p.picture = p.frame

\* F tells the size of each frame.
SizesBy(F) ==
  /\ \A c \in Clients : tx[c].on => tx[c].size = F[tx[c].frame]
  /\ \A p \in net : p.size = F[p.frame]
  /\ as.on => as.size = F[as.etag]
  /\ seen.streak # 0 => seen.size = F[seen.frame]

Sizes == \E F \in [Frames -> 1..MaxBlocks] : SizesBy(F)

\* What AssemblyCounts says beyond the types.
Counted(a) ==
  /\ a.count = Cardinality(a.got)
  /\ a.got # {} => a.size > 0 /\ \A i \in a.got : i < a.size
  /\ a.total # 0 => a.total = a.size

\* The places filled hold blocks of the frame under way.
Collected(a, d) ==
  a.on => a.etag \in Frames /\ \A i \in a.got : d[i].frame = a.etag

\* No block shows another picture than its frame's.
DataTrue == \A i \in Places : data[i].frame \notin torn => data[i].picture = data[i].frame

\* What arrives is of a picture taken.
Noted == seen.streak # 0 => seen.frame \in 1..buffer

\* The frame that arrives in order is the one that is put together.
Streaks ==
  seen.streak # 0 =>
    IF seen.streak = seen.size
      THEN shown # <<>> /\ shown[1].frame = seen.frame
      ELSE /\ as.on /\ as.etag = seen.frame /\ as.total = 0
           /\ as.got = 0..(seen.streak - 1)

StreamInv ==
  /\ TypeOK
  /\ Sending /\ Travelling /\ Sizes /\ BufferKept
  /\ Counted(as) /\ Collected(as, data) /\ as.etag <= buffer
  /\ DataTrue /\ WholeFrames /\ Noted /\ Streaks

LEMMA StreamConstants ==
  /\ Me \in Clients /\ EtagMod \in Nat \ {0} /\ PerTick \in Nat \ {0}
  /\ MaxFrames \in Nat \ {0} /\ MaxBlocks \in Nat \ {0}
BY StreamAssumption

LEMMA StreamInitInv == Init => StreamInv
<1> SUFFICES ASSUME Init PROVE StreamInv
  OBVIOUS
<1> USE StreamConstants
<1>1. TypeOK
  <2>1. /\ buffer \in 0..MaxFrames /\ active \subseteq Clients /\ heard \in BOOLEAN
        /\ net \subseteq Packets /\ torn \subseteq Frames
    <3>1. buffer = 0 /\ active = {} /\ net = {} /\ torn = {} /\ heard = FALSE
      BY DEF Init
    <3>2. 0 \in 0..MaxFrames
      OBVIOUS
    <3>3. QED BY <3>1, <3>2, Zenon
  <2>0. shown \in Seq(Blocks)
    BY DEF Init
  <2>2. tx \in [Clients -> Transmissions]
    BY DEF Init, Idle, Transmissions
  <2>3. as \in Assemblies
    BY DEF Init, NoneOn, Assemblies
  <2>4. data \in [Places -> Blocks]
    BY DEF Init, Empty, Blocks
  <2>5. seen \in [frame : 0..MaxFrames, size : 0..MaxBlocks, nums : SUBSET Places,
                  streak : 0..MaxBlocks]
    BY DEF Init, Unseen
  <2>6. QED BY <2>0, <2>1, <2>2, <2>3, <2>4, <2>5 DEF TypeOK, Transmissions, Assemblies, Blocks
<1>2. Sending /\ Travelling /\ BufferKept
  BY DEF Init, Sending, Travelling, BufferKept, InProgress, Idle
<1>3. Sizes
  <2>1. [f \in Frames |-> 1] \in [Frames -> 1..MaxBlocks]
    OBVIOUS
  <2>2. SizesBy([f \in Frames |-> 1])
    BY DEF Init, SizesBy, Idle, NoneOn, Unseen
  <2>3. QED BY <2>1, <2>2 DEF Sizes
<1>4. Counted(as) /\ Collected(as, data) /\ as.etag <= buffer
  BY FS_EmptySet DEF Init, Counted, Collected, NoneOn
<1>5. DataTrue /\ WholeFrames /\ Streaks
  BY DEF Init, DataTrue, WholeFrames, Streaks, Empty, Unseen
<1>6. Noted
  BY DEF Init, Noted, Unseen
<1>7. QED BY <1>1, <1>2, <1>3, <1>4, <1>5, <1>6 DEF StreamInv

-----------------------------------------------------------------------------
(* The server's steps. *)

LEMMA AdvancedIs ==
  ASSUME NEW t \in Transmissions, t.next <= t.size
  PROVE  LET a == Advanced(t)
         IN /\ a \in Transmissions /\ a.frame = t.frame /\ a.size = t.size
            /\ a.next = BurstEnd(t) /\ BurstEnd(t) \in t.next..t.size
            /\ a.on <=> BurstEnd(t) < t.size
<1>1. t.next \in Nat /\ t.size \in Nat /\ t.size <= MaxBlocks /\ MaxBlocks \in Nat
  BY StreamConstants DEF Transmissions
<1>2. BurstEnd(t) \in t.next..t.size
  BY <1>1, StreamConstants DEF BurstEnd
<1>3. PICK on \in BOOLEAN : on = (BurstEnd(t) < t.size)
  <2>1. CASE BurstEnd(t) < t.size
    BY <2>1
  <2>2. CASE ~(BurstEnd(t) < t.size)
    <3>1. FALSE = (BurstEnd(t) < t.size)
      BY <2>2
    <3>2. QED BY <3>1, Zenon
  <2>3. QED BY <2>1, <2>2
<1>4. PICK n : n = BurstEnd(t)
  OBVIOUS
<1>5. Advanced(t) = [t EXCEPT !.next = n, !.on = on]
  BY <1>3, <1>4, Zenon DEF Advanced
<1>6. n \in 0..MaxBlocks
  BY <1>1, <1>2, <1>4
<1>7. QED BY <1>2, <1>3, <1>4, <1>5, <1>6 DEF Transmissions

\* A burst of a frame of the right size, of one picture.
LEMMA BurstIs ==
  ASSUME NEW t \in Transmissions, t.next <= t.size, t.frame # 0, NEW picture \in Frames
  PROVE  /\ Burst(t, picture) \subseteq Packets
         /\ \A p \in Burst(t, picture) :
              /\ p.frame = t.frame /\ p.size = t.size /\ p.num < p.size
              /\ p.picture = picture
<1>1. BurstEnd(t) \in t.next..t.size
  BY AdvancedIs
<1>2. /\ t.next \in Nat /\ t.size \in Nat /\ t.size <= MaxBlocks /\ MaxBlocks \in Nat
      /\ t.frame \in Frames
  BY StreamConstants DEF Transmissions, Frames
<1>3. ASSUME NEW p \in Burst(t, picture)
      PROVE  /\ p \in Packets /\ p.frame = t.frame /\ p.size = t.size
             /\ p.num < p.size /\ p.picture = picture
  <2>1. PICK i \in t.next..(BurstEnd(t) - 1) :
          p = [frame |-> t.frame, picture |-> picture, num |-> i, size |-> t.size]
    BY DEF Burst
  <2>2. i \in Places /\ i < t.size /\ t.size \in 1..MaxBlocks
    BY <1>1, <1>2 DEF Places
  <2>3. QED BY <2>1, <2>2, <1>2 DEF Packets
<1>4. QED BY <1>3

\* The receiver does not depend on what the server does.
LEMMA ReceiverKept ==
  ASSUME StreamInv, UNCHANGED receiver, torn \subseteq torn', buffer' >= buffer,
         buffer' \in Nat
  PROVE  /\ (Counted(as) /\ Collected(as, data) /\ as.etag <= buffer)'
         /\ (DataTrue /\ WholeFrames /\ Noted /\ Streaks)'
<1>1. as' = as /\ data' = data /\ shown' = shown /\ seen' = seen
  BY DEF receiver
<1>2. (Counted(as) /\ Collected(as, data))'
  BY <1>1 DEF StreamInv, Counted, Collected
<1>3. (as.etag <= buffer)'
  <2>1. as \in Assemblies /\ buffer \in 0..MaxFrames /\ as.etag <= buffer
    BY DEF StreamInv, TypeOK, Assemblies
  <2>2. as.etag \in 0..(EtagMod - 1)
    BY <2>1 DEF Assemblies
  <2>3. PICK e, b, m : e = as.etag /\ b = buffer /\ m = EtagMod
    OBVIOUS
  <2>4. e <= buffer'
    <3>1. e \in 0..(m - 1) /\ m \in Nat
      BY <2>2, <2>3, StreamConstants
    <3>2. b \in Nat
      BY <2>1, <2>3, StreamConstants
    <3>3. e <= b
      BY <2>1, <2>3
    <3>4. buffer' >= b
      BY <2>3
    <3>5. QED BY <3>1, <3>2, <3>3, <3>4
  <2>5. QED BY <1>1, <2>3, <2>4
<1>4. DataTrue'
  BY <1>1 DEF StreamInv, DataTrue
<1>5. WholeFrames'
  BY <1>1 DEF StreamInv, WholeFrames
<1>6. Streaks'
  BY <1>1 DEF StreamInv, Streaks
<1>7. Noted'
  <2>1. PICK f, b, k : f = seen.frame /\ b = buffer /\ k = seen.streak
    OBVIOUS
  <2>2. k # 0 => f \in 1..b
    BY <2>1 DEF StreamInv, Noted
  <2>3. b \in Nat /\ buffer' >= b
    <3>1. buffer \in 0..MaxFrames /\ MaxFrames \in Nat
      BY StreamConstants DEF StreamInv, TypeOK
    <3>2. b \in Nat
      BY <2>1, <3>1
    <3>3. QED BY <2>1, <3>2
  <2>4. k # 0 => f \in 1..buffer'
    BY <2>2, <2>3
  <2>5. QED BY <1>1, <2>1, <2>4 DEF Noted
<1>8. QED BY <1>2, <1>3, <1>4, <1>5, <1>6, <1>7

LEMMA TickInv ==
  ASSUME StreamInv, NEW due \in SUBSET active, NEW ready \in SUBSET active,
         NEW size \in 1..MaxBlocks, Tick(due, ready, size)
  PROVE  StreamInv'
<1> USE StreamConstants
<1> DEFINE new == [on |-> TRUE, frame |-> buffer + 1, size |-> size, next |-> 0]
<1>1. /\ due \subseteq InProgress /\ ready \subseteq active \ InProgress
      /\ ready # {} => StillBusy(due) = {} /\ buffer < MaxFrames
      /\ buffer' = IF ready = {} THEN buffer ELSE buffer + 1
      /\ tx' = [c \in Clients |-> IF c \in due THEN Advanced(tx[c])
                              ELSE IF c \in ready THEN Advanced(new) ELSE tx[c]]
      /\ active' = active /\ heard' = heard /\ torn' = torn
      /\ UNCHANGED receiver
  BY DEF Tick
<1>2. PICK packets :
        /\ packets = (IF Me \in due THEN Burst(tx[Me], buffer)
                      ELSE IF Me \in ready THEN Burst(new, buffer + 1) ELSE {})
        /\ net' = IF heard THEN net \cup packets ELSE net
  BY DEF Tick, Send
<1>3. /\ buffer \in 0..MaxFrames /\ active \subseteq Clients /\ heard \in BOOLEAN
      /\ tx \in [Clients -> Transmissions] /\ net \subseteq Packets /\ torn \subseteq Frames
      /\ Sending /\ Travelling /\ BufferKept
  BY DEF StreamInv, TypeOK, Transmissions
<1>4. buffer' \in 0..MaxFrames /\ buffer' >= buffer /\ buffer' \in Nat
  BY <1>1, <1>3
<1>5. ASSUME NEW c \in due
      PROVE  /\ c \in Clients /\ c \in InProgress /\ tx[c].on /\ tx[c] \in Transmissions
             /\ tx[c].frame \in 1..buffer /\ tx[c].size \in 1..MaxBlocks
             /\ tx[c].next <= tx[c].size /\ tx[c].frame # 0
  <2>1. c \in Clients /\ c \in InProgress /\ tx[c].on
    BY <1>1, <1>3 DEF InProgress
  <2>2. tx[c] \in Transmissions
    BY <2>1, <1>3
  <2>3. /\ tx[c].frame \in 1..buffer /\ tx[c].size \in 1..MaxBlocks
        /\ tx[c].next \in 0..(tx[c].size - 1)
    BY <2>1, <1>3 DEF Sending
  <2>4. QED BY <2>1, <2>2, <2>3, <1>3
<1>6. ASSUME ready # {}
      PROVE  /\ new \in Transmissions /\ new.next <= new.size /\ new.frame # 0
             /\ new.frame = buffer + 1 /\ new.size = size /\ buffer + 1 \in Frames
             /\ buffer' = buffer + 1
  BY <1>1, <1>3, <1>6 DEF Transmissions, Frames
<1> HIDE DEF new
\* What becomes of each transmission.
<1>7. ASSUME NEW c \in Clients
      PROVE  \/ /\ c \in due /\ tx'[c] \in Transmissions
                /\ tx'[c].frame = tx[c].frame /\ tx'[c].size = tx[c].size
                /\ tx'[c].next = BurstEnd(tx[c]) /\ BurstEnd(tx[c]) \in Nat
                /\ tx'[c].on <=> BurstEnd(tx[c]) < tx[c].size
             \/ /\ c \in ready /\ c \notin due /\ tx'[c] \in Transmissions
                /\ tx'[c].frame = buffer + 1 /\ tx'[c].size = size
                /\ tx'[c].next = BurstEnd(new) /\ BurstEnd(new) \in Nat
                /\ tx'[c].on <=> BurstEnd(new) < size
             \/ c \notin due /\ c \notin ready /\ tx'[c] = tx[c]
  <2>1. CASE c \in due
    <3>1. PICK t : t = tx[c]
      OBVIOUS
    <3>2. t \in Transmissions /\ t.next <= t.size
      BY <3>1, <1>5, <2>1
    <3>3. tx'[c] = Advanced(t)
      BY <3>1, <1>1, <2>1
    <3>4. t.next \in Nat /\ t.size \in Nat
      BY <3>2 DEF Transmissions
    <3>5. /\ Advanced(t) \in Transmissions /\ Advanced(t).frame = t.frame
          /\ Advanced(t).size = t.size /\ Advanced(t).next = BurstEnd(t)
          /\ BurstEnd(t) \in t.next..t.size
          /\ Advanced(t).on <=> BurstEnd(t) < t.size
      BY <3>2, AdvancedIs
    <3>6. BurstEnd(t) \in Nat
      BY <3>4, <3>5
    <3>7. QED BY <2>1, <3>1, <3>3, <3>5, <3>6
  <2>2. CASE c \notin due /\ c \in ready
    <3>1. /\ new \in Transmissions /\ new.next <= new.size
          /\ new.frame = buffer + 1 /\ new.size = size
      BY <1>6, <2>2
    <3>2. tx'[c] = Advanced(new)
      BY <1>1, <2>2 DEF new
    <3>3. new.next \in Nat /\ new.size \in Nat
      BY <3>1 DEF Transmissions
    <3>4. /\ Advanced(new) \in Transmissions /\ Advanced(new).frame = new.frame
          /\ Advanced(new).size = new.size /\ Advanced(new).next = BurstEnd(new)
          /\ BurstEnd(new) \in new.next..new.size
          /\ Advanced(new).on <=> BurstEnd(new) < new.size
      BY <3>1, AdvancedIs
    <3>5. BurstEnd(new) \in Nat
      BY <3>3, <3>4
    <3>6. QED BY <2>2, <3>1, <3>2, <3>4, <3>5
  <2>3. CASE c \notin due /\ c \notin ready
    BY <1>1, <2>3
  <2>4. QED BY <2>1, <2>2, <2>3
\* What is sent.
<1>8. ASSUME NEW p \in net', p \notin net
      PROVE  /\ p \in Packets /\ p.num < p.size
             /\ \/ /\ Me \in due /\ p.frame = tx[Me].frame
                   /\ p.size = tx[Me].size /\ p.picture = buffer
                \/ /\ ready # {} /\ p.frame = buffer + 1
                   /\ p.size = size /\ p.picture = buffer + 1
  <2>1. p \in packets
    BY <1>2, <1>8
  <2>2. CASE Me \in due
    <3>1. buffer \in Frames
      BY <1>3, <1>5, <2>2 DEF Frames
    <3>2. PICK t : t = tx[Me]
      OBVIOUS
    <3>3. p \in Burst(t, buffer)
      BY <1>2, <2>1, <2>2, <3>2
    <3>4. t \in Transmissions /\ t.next <= t.size /\ t.frame # 0
      BY <1>5, <2>2, <3>2
    <3>5. /\ p \in Packets /\ p.frame = t.frame /\ p.size = t.size
          /\ p.num < p.size /\ p.picture = buffer
      BY <3>1, <3>3, <3>4, BurstIs
    <3>6. QED BY <2>2, <3>2, <3>5
  <2>3. CASE Me \notin due
    <3>1. Me \in ready /\ p \in Burst(new, buffer + 1)
      BY <1>2, <2>1, <2>3 DEF new
    <3>2. /\ new \in Transmissions /\ new.next <= new.size /\ new.frame # 0
          /\ new.frame = buffer + 1 /\ new.size = size /\ buffer + 1 \in Frames
      BY <1>6, <3>1
    <3>3. /\ p \in Packets /\ p.frame = new.frame /\ p.size = new.size
          /\ p.num < p.size /\ p.picture = buffer + 1
      BY <3>1, <3>2, BurstIs
    <3>4. QED BY <3>1, <3>2, <3>3
  <2>4. QED BY <2>2, <2>3
<1>9. TypeOK'
  <2>1. tx' \in [Clients -> Transmissions]
    <3>1. \A c \in Clients : tx'[c] \in Transmissions
      BY <1>3, <1>7
    <3>2. QED BY <1>1, <3>1
  <2>2. net' \subseteq Packets
    BY <1>3, <1>8
  <2>3. /\ as' = as /\ data' = data /\ shown' = shown /\ seen' = seen
    BY <1>1 DEF receiver
  <2>4. QED BY <1>1, <1>3, <1>4, <2>1, <2>2, <2>3 DEF StreamInv, TypeOK, Transmissions
<1>10. Sending'
  <2>1. ASSUME NEW c \in Clients, tx'[c].on
        PROVE  /\ tx'[c].frame \in 1..buffer' /\ tx'[c].size \in 1..MaxBlocks
               /\ tx'[c].next \in 0..(tx'[c].size - 1)
    <3>1. CASE c \in due
      <4>1. /\ tx'[c].frame \in 1..buffer /\ tx'[c].size \in 1..MaxBlocks
            /\ tx'[c].next < tx'[c].size /\ tx'[c].next \in Nat
        BY <1>5, <1>7, <2>1, <3>1
      <4>2. QED BY <4>1, <1>3, <1>4
    <3>2. CASE c \in ready /\ c \notin due
      <4>1. /\ tx'[c].frame = buffer + 1 /\ tx'[c].size = size
            /\ tx'[c].next < size /\ tx'[c].next \in Nat
        BY <1>7, <2>1, <3>2
      <4>2. buffer' = buffer + 1
        BY <1>6, <3>2
      <4>3. QED BY <4>1, <4>2, <1>3
    <3>3. CASE c \notin ready /\ c \notin due
      <4>1. /\ tx'[c].frame \in 1..buffer /\ tx'[c].size \in 1..MaxBlocks
            /\ tx'[c].next \in 0..(tx'[c].size - 1)
        BY <1>3, <1>7, <2>1, <3>3 DEF Sending
      <4>2. QED BY <4>1, <1>3, <1>4
    <3>4. QED BY <3>1, <3>2, <3>3
  <2>2. QED BY <2>1 DEF Sending
<1>11. Travelling'
  <2>1. ASSUME NEW p \in net'
        PROVE  /\ p.frame <= buffer' /\ p.num < p.size
               /\ p.frame \notin torn => p.picture = p.frame
    <3>1. CASE p \in net
      <4>1. /\ p.frame <= buffer /\ p.num < p.size /\ p.frame \in Nat
            /\ p.frame \notin torn => p.picture = p.frame
        BY <1>3, <3>1 DEF Travelling, Packets, Frames
      <4>2. QED BY <4>1, <1>3, <1>4
    <3>2. CASE p \notin net /\ Me \in due /\ p.frame = tx[Me].frame /\ p.picture = buffer
      <4>1. tx[Me].frame \in 1..buffer /\ Me \in InProgress
        BY <1>5, <3>2
      <4>2. tx[Me].frame = buffer \/ tx[Me].frame \in torn
        BY <1>3, <4>1 DEF BufferKept
      <4>3. p.num < p.size
        BY <1>8, <3>2
      <4>4. p.frame <= buffer'
        BY <1>3, <1>4, <3>2, <4>1
      <4>5. QED BY <3>2, <4>2, <4>3, <4>4
    <3>3. CASE /\ p \notin net /\ ready # {} /\ p.frame = buffer + 1
               /\ p.picture = buffer + 1
      <4>1. p.num < p.size /\ buffer' = buffer + 1
        BY <1>6, <1>8, <3>3
      <4>2. QED BY <1>3, <3>3, <4>1
    <3>4. QED BY <1>8, <3>1, <3>2, <3>3
  <2>2. QED BY <1>1, <2>1 DEF Travelling
<1>12. Sizes'
  <2>1. PICK F \in [Frames -> 1..MaxBlocks] : SizesBy(F)
    BY DEF StreamInv, Sizes
  <2>2. PICK G \in [Frames -> 1..MaxBlocks] :
          /\ \A f \in Frames : f <= buffer => G[f] = F[f]
          /\ ready # {} => G[buffer + 1] = size
    <3>1. CASE ready = {}
      BY <3>1
    <3>2. CASE ready # {}
      <4>1. PICK G : G = [F EXCEPT ![buffer + 1] = size]
        OBVIOUS
      <4>2. G \in [Frames -> 1..MaxBlocks]
        BY <4>1
      <4>3. G[buffer + 1] = size
        BY <1>6, <3>2, <4>1
      <4>4. ASSUME NEW f \in Frames, f <= buffer PROVE G[f] = F[f]
        <5>1. f # buffer + 1
          BY <1>3, <4>4 DEF Frames
        <5>2. QED BY <4>1, <5>1
      <4>5. QED BY <4>2, <4>3, <4>4
    <3>3. QED BY <3>1, <3>2
  <2>3. ASSUME NEW c \in Clients, tx'[c].on PROVE tx'[c].size = G[tx'[c].frame]
    <3>1. ASSUME tx[c].on PROVE tx[c].size = G[tx[c].frame]
      <4>1. tx[c].frame \in 1..buffer /\ tx[c].size = F[tx[c].frame]
        BY <1>3, <2>1, <3>1 DEF Sending, SizesBy
      <4>2. tx[c].frame \in Frames /\ tx[c].frame <= buffer
        BY <1>3, <4>1 DEF Frames
      <4>3. QED BY <2>2, <4>1, <4>2
    <3>2. CASE c \in due
      BY <1>5, <1>7, <3>1, <3>2
    <3>3. CASE c \in ready /\ c \notin due
      BY <1>7, <2>2, <3>3
    <3>4. CASE c \notin ready /\ c \notin due
      BY <1>7, <2>3, <3>1, <3>4
    <3>5. QED BY <3>2, <3>3, <3>4
  <2>4. ASSUME NEW p \in net' PROVE p.size = G[p.frame]
    <3>1. CASE p \in net
      <4>1. p.frame \in Frames /\ p.frame <= buffer /\ p.size = F[p.frame]
        BY <1>3, <2>1, <3>1 DEF Travelling, SizesBy, Packets
      <4>2. QED BY <2>2, <4>1
    <3>2. CASE Me \in due /\ p.frame = tx[Me].frame /\ p.size = tx[Me].size
      <4>1. tx[Me].on /\ tx[Me].frame \in 1..buffer
        BY <1>5, <3>2
      <4>2. p.frame \in Frames /\ p.frame <= buffer /\ p.size = F[p.frame]
        BY <1>3, <2>1, <3>2, <4>1 DEF SizesBy, Frames
      <4>3. QED BY <2>2, <4>2
    <3>3. CASE ready # {} /\ p.frame = buffer + 1 /\ p.size = size
      BY <2>2, <3>3
    <3>4. QED BY <1>8, <3>1, <3>2, <3>3
  <2>5. ASSUME as'.on PROVE as'.size = G[as'.etag]
    <3>1. as' = as
      BY <1>1 DEF receiver
    <3>2. as.etag \in Frames /\ as.etag <= buffer /\ as.size = F[as.etag]
      BY <2>1, <2>5, <3>1 DEF StreamInv, Collected, SizesBy
    <3>3. QED BY <2>2, <3>1, <3>2
  <2>6. ASSUME seen'.streak # 0 PROVE seen'.size = G[seen'.frame]
    <3>1. seen' = seen
      BY <1>1 DEF receiver
    <3>2. seen.frame \in 1..buffer /\ seen.size = F[seen.frame]
      BY <2>1, <2>6, <3>1 DEF StreamInv, Noted, SizesBy
    <3>3. seen.frame \in Frames /\ seen.frame <= buffer
      BY <1>3, <3>2 DEF Frames
    <3>4. QED BY <2>2, <3>1, <3>2, <3>3
  <2>7. SizesBy(G)'
    BY <2>3, <2>4, <2>5, <2>6 DEF SizesBy
  <2>8. QED BY <2>7 DEF Sizes
<1>13. BufferKept'
  <2>1. ASSUME NEW c \in active, tx'[c].on
        PROVE  tx'[c].frame = buffer' \/ tx'[c].frame \in torn
    <3>1. c \in Clients
      BY <1>3
    <3>2. CASE c \in due
      <4>1. ready = {}
        <5>1. Advanced(tx[c]).on /\ c \in InProgress
          BY <1>1, <1>5, <2>1, <3>1, <3>2
        <5>2. c \in StillBusy(due)
          BY <5>1 DEF StillBusy
        <5>3. QED BY <1>1, <5>2
      <4>2. QED BY <1>1, <1>3, <1>5, <1>7, <3>1, <3>2, <4>1 DEF BufferKept
    <3>3. CASE c \in ready /\ c \notin due
      BY <1>6, <1>7, <3>1, <3>3
    <3>4. CASE c \notin ready /\ c \notin due
      <4>1. tx'[c] = tx[c]
        BY <1>7, <3>1, <3>4
      <4>2. c \in InProgress
        BY <2>1, <4>1 DEF InProgress
      <4>3. ready = {}
        <5>1. c \in StillBusy(due)
          BY <3>4, <4>2 DEF StillBusy
        <5>2. QED BY <1>1, <5>1
      <4>4. QED BY <1>1, <1>3, <4>1, <4>2, <4>3 DEF BufferKept
    <3>5. QED BY <3>2, <3>3, <3>4
  <2>2. QED BY <1>1, <2>1 DEF BufferKept, InProgress
<1>14. QED BY <1>1, <1>4, <1>9, <1>10, <1>11, <1>12, <1>13, ReceiverKept DEF StreamInv

LEMMA FrameRequestInv == ASSUME StreamInv, FrameRequest PROVE StreamInv'
<1> USE StreamConstants
<1>1. /\ buffer < MaxFrames /\ buffer' = buffer + 1
      /\ torn' = torn \cup {tx[c].frame : c \in InProgress}
      /\ active' = active /\ tx' = tx /\ heard' = heard /\ net' = net
      /\ UNCHANGED receiver
  BY DEF FrameRequest
<1>2. as' = as /\ data' = data /\ shown' = shown /\ seen' = seen
  BY <1>1 DEF receiver
<1>3. /\ buffer \in 0..MaxFrames /\ active \subseteq Clients /\ torn \subseteq Frames
      /\ net \subseteq Packets
  BY DEF StreamInv, TypeOK
<1>4. buffer' \in 0..MaxFrames /\ buffer' \in Nat /\ buffer' >= buffer
  BY <1>1, <1>3
<1>5. \A c \in Clients : tx[c].on => tx[c].frame \in Frames
  BY <1>3 DEF StreamInv, Sending, Frames
<1>6. TypeOK'
  <2>1. torn' \subseteq Frames
    BY <1>1, <1>3, <1>5 DEF InProgress
  <2>2. QED BY <1>1, <1>2, <1>4, <2>1 DEF StreamInv, TypeOK
<1>7. Sending'
  BY <1>1, <1>3 DEF StreamInv, Sending
<1>8. Travelling'
  BY <1>1, <1>3 DEF StreamInv, Travelling, Packets, Frames
<1>9. Sizes'
  BY <1>1, <1>2 DEF StreamInv, Sizes, SizesBy
<1>10. BufferKept'
  BY <1>1 DEF BufferKept, InProgress
<1>11. torn \subseteq torn'
  BY <1>1
<1>12. QED BY <1>1, <1>4, <1>6, <1>7, <1>8, <1>9, <1>10, <1>11, ReceiverKept
       DEF StreamInv

\* A step that only gives up transmissions and packets.
LEMMA GivingUp ==
  ASSUME StreamInv, UNCHANGED <<buffer, torn, net, receiver>>,
         active' \subseteq Clients, heard' \in BOOLEAN,
         tx' \in [Clients -> Transmissions],
         \A c \in Clients : tx'[c].on => tx'[c] = tx[c],
         \A c \in active' : tx'[c].on => c \in active
  PROVE  StreamInv'
<1>1. /\ buffer' = buffer /\ torn' = torn /\ net' = net
      /\ UNCHANGED receiver
      /\ as' = as /\ data' = data /\ shown' = shown /\ seen' = seen
  BY DEF receiver
<1>2. TypeOK'
  BY <1>1 DEF StreamInv, TypeOK, Transmissions
<1>3. Sending'
  BY <1>1 DEF StreamInv, Sending
<1>4. Travelling'
  BY <1>1 DEF StreamInv, Travelling
<1>5. Sizes'
  <2>1. PICK F \in [Frames -> 1..MaxBlocks] : SizesBy(F)
    BY DEF StreamInv, Sizes
  <2>2. SizesBy(F)'
    BY <1>1, <2>1 DEF SizesBy
  <2>3. QED BY <2>2 DEF Sizes
<1>6. BufferKept'
  <2>1. ASSUME NEW c \in active', tx'[c].on
        PROVE  tx'[c].frame = buffer \/ tx'[c].frame \in torn
    <3>1. tx'[c] = tx[c] /\ c \in InProgress
      BY <2>1 DEF InProgress
    <3>2. QED BY <3>1 DEF StreamInv, BufferKept
  <2>2. QED BY <1>1, <2>1 DEF BufferKept, InProgress
<1>7. /\ (Counted(as) /\ Collected(as, data) /\ as.etag <= buffer)'
      /\ (DataTrue /\ WholeFrames /\ Noted /\ Streaks)'
  BY <1>1 DEF StreamInv, Counted, Collected, DataTrue, WholeFrames, Noted, Streaks
<1>8. QED BY <1>2, <1>3, <1>4, <1>5, <1>6, <1>7 DEF StreamInv

LEMMA SubscribeInv ==
  ASSUME StreamInv, NEW c \in Clients, Subscribe(c) PROVE StreamInv'
<1>1. /\ active' = active \cup {c} /\ tx' = [tx EXCEPT ![c].on = FALSE]
      /\ heard' = (heard \/ c = Me)
      /\ UNCHANGED <<buffer, torn, net, receiver>>
  BY DEF Subscribe
<1>2. active \subseteq Clients /\ tx \in [Clients -> Transmissions]
  BY DEF StreamInv, TypeOK, Transmissions
<1>3. heard' \in BOOLEAN
  BY <1>1
<1>4. tx' \in [Clients -> Transmissions]
  BY <1>1, <1>2 DEF Transmissions
<1>5. ASSUME NEW d \in Clients, tx'[d].on PROVE d # c /\ tx'[d] = tx[d]
  BY <1>1, <1>2, <1>5 DEF Transmissions
<1>6. active' \subseteq Clients
  BY <1>1, <1>2
<1>7. \A d \in active' : tx'[d].on => d \in active
  BY <1>1, <1>5, <1>6
<1>8. QED BY <1>1, <1>3, <1>4, <1>5, <1>6, <1>7, GivingUp

LEMMA UnsubscribeInv ==
  ASSUME StreamInv, NEW gone \in SUBSET active, Unsubscribe(gone) PROVE StreamInv'
<1>1. /\ active' = active \ gone
      /\ tx' = [c \in Clients |-> IF c \in gone THEN Idle ELSE tx[c]]
      /\ heard' = heard
      /\ UNCHANGED <<buffer, torn, net, receiver>>
  BY DEF Unsubscribe
<1>2. active \subseteq Clients /\ tx \in [Clients -> Transmissions] /\ heard \in BOOLEAN
  BY DEF StreamInv, TypeOK, Transmissions
<1>3. Idle \in Transmissions /\ ~Idle.on
  BY StreamConstants DEF Idle, Transmissions
<1>4. tx' \in [Clients -> Transmissions]
  BY <1>1, <1>2, <1>3
<1>5. ASSUME NEW d \in Clients, tx'[d].on PROVE tx'[d] = tx[d]
  BY <1>1, <1>3, <1>5
<1>6. active' \subseteq Clients /\ active' \subseteq active
  BY <1>1, <1>2
<1>7. QED BY <1>1, <1>2, <1>4, <1>5, <1>6, GivingUp

-----------------------------------------------------------------------------
(* The network and the receiver's steps. *)

\* What the server's side keeps of a step of the receiver that loses packets.
LEMMA ServerKept ==
  ASSUME StreamInv, UNCHANGED server, net' \subseteq net,
         as'.on => as'.size = as.size /\ as'.etag = as.etag /\ as.on,
         seen'.streak # 0 => seen' = seen
  PROVE  (Sending /\ Travelling /\ Sizes /\ BufferKept)'
<1>1. buffer' = buffer /\ active' = active /\ tx' = tx /\ torn' = torn
  BY DEF server
<1>2. (Sending /\ BufferKept)'
  BY <1>1 DEF StreamInv, Sending, BufferKept, InProgress
<1>3. Travelling'
  BY <1>1 DEF StreamInv, Travelling
<1>4. PICK F \in [Frames -> 1..MaxBlocks] : SizesBy(F)
  BY DEF StreamInv, Sizes
<1>5. SizesBy(F)'
  BY <1>1, <1>4 DEF SizesBy
<1>6. QED BY <1>2, <1>3, <1>5 DEF Sizes

LEMMA LoseInv == ASSUME StreamInv, Lose PROVE StreamInv'
<1>1. /\ UNCHANGED server /\ heard' = heard /\ net' \subseteq net
      /\ as' = as /\ data' = data /\ shown' = shown /\ seen' = seen
      /\ buffer' = buffer /\ active' = active /\ tx' = tx /\ torn' = torn
  BY DEF Lose, receiver, server
<1>2. TypeOK'
  BY <1>1 DEF StreamInv, TypeOK
<1>3. /\ (Counted(as) /\ Collected(as, data) /\ as.etag <= buffer)'
      /\ (DataTrue /\ WholeFrames /\ Noted /\ Streaks)'
  BY <1>1 DEF StreamInv, Counted, Collected, DataTrue, WholeFrames, Noted, Streaks
<1>4. (Sending /\ Travelling /\ Sizes /\ BufferKept)'
  BY <1>1, ServerKept
<1>5. QED BY <1>2, <1>3, <1>4 DEF StreamInv

\* The assembly is reset, and perhaps the socket is a new one.
LEMMA ResetInv == ASSUME StreamInv, Timeout \/ Reconnect PROVE StreamInv'
<1> USE StreamConstants
<1>1. /\ UNCHANGED server /\ heard' \in BOOLEAN /\ net' \subseteq net
      /\ as' = NoneOn /\ data' = data /\ shown' = shown /\ seen' = Unseen
      /\ buffer' = buffer /\ active' = active /\ tx' = tx /\ torn' = torn
  BY DEF Timeout, Reconnect, server, StreamInv, TypeOK
<1>2. NoneOn \in Assemblies /\ ~NoneOn.on /\ NoneOn.etag = 0
  BY DEF NoneOn, Assemblies
<1>3. /\ Unseen \in [frame : 0..MaxFrames, size : 0..MaxBlocks, nums : SUBSET Places,
                     streak : 0..MaxBlocks]
      /\ Unseen.streak = 0
  BY DEF Unseen
<1>4. TypeOK'
  BY <1>1, <1>2, <1>3 DEF StreamInv, TypeOK, Assemblies
<1>5. (Counted(as) /\ Collected(as, data) /\ as.etag <= buffer)'
  <2>1. Counted(NoneOn)
    BY FS_EmptySet DEF Counted, NoneOn
  <2>2. Collected(NoneOn, data)
    BY <1>2 DEF Collected
  <2>3. buffer \in Nat
    BY DEF StreamInv, TypeOK
  <2>4. QED BY <1>1, <1>2, <2>1, <2>2, <2>3 DEF Counted, Collected
<1>6. (DataTrue /\ WholeFrames /\ Noted /\ Streaks)'
  BY <1>1, <1>3 DEF StreamInv, DataTrue, WholeFrames, Noted, Streaks
<1>7. (Sending /\ Travelling /\ Sizes /\ BufferKept)'
  BY <1>1, <1>2, <1>3, ServerKept
<1>8. QED BY <1>4, <1>5, <1>6, <1>7 DEF StreamInv

LEMMA SmallMod == ASSUME NEW x \in Nat, NEW m \in Nat, x < m PROVE x % m = x
OBVIOUS

\* A packet as the receiver finds it.
LEMMA PacketIs ==
  ASSUME NoWrap, StreamInv, NEW p \in net
  PROVE  /\ p.frame \in Frames /\ p.picture \in Frames /\ p.num \in Places
         /\ p.size \in 1..MaxBlocks /\ p.num \in 0..(p.size - 1)
         /\ p.frame <= buffer /\ Etag(p) = p.frame /\ Etag(p) # 0
         /\ Etag(p) \in 0..(EtagMod - 1)
<1> USE StreamConstants
<1>1. p \in Packets
  BY DEF StreamInv, TypeOK
<1>2. /\ p.frame \in Frames /\ p.picture \in Frames /\ p.num \in Places
      /\ p.size \in 1..MaxBlocks
  BY <1>1 DEF Packets
<1>3. p.frame <= buffer /\ p.num < p.size
  BY DEF StreamInv, Travelling
<1>4. PICK f : f = p.frame
  OBVIOUS
<1>5. f \in Nat /\ f # 0 /\ f < EtagMod
  BY <1>2, <1>4 DEF Frames, NoWrap
<1>6. f % EtagMod = f
  BY <1>5, SmallMod
<1>7. Etag(p) = f
  BY <1>4, <1>6, Zenon DEF Etag
<1>8. p.num \in 0..(p.size - 1)
  BY <1>2, <1>3 DEF Places
<1>9. QED BY <1>2, <1>3, <1>4, <1>5, <1>7, <1>8

\* The assembly a packet is checked against.
LEMMA CurrentIs ==
  ASSUME NoWrap, StreamInv, NEW p \in net, NEW F, SizesBy(F)
  PROVE  LET a == Current(p)
         IN /\ a \in Assemblies /\ Counted(a) /\ Collected(a, data)
            /\ a.etag <= buffer /\ (a.on => a.size = F[a.etag])
            /\ p.num = 0 => /\ a.on /\ a.etag = p.frame /\ a.got = {}
                            /\ a.total = 0 /\ a.count = 0 /\ a.size = p.size
            /\ p.num # 0 /\ as.on /\ as.etag = p.frame => a = as
<1> USE StreamConstants
<1>1. /\ p.frame \in Frames /\ p.size \in 1..MaxBlocks /\ p.frame <= buffer
      /\ Etag(p) = p.frame /\ Etag(p) \in 0..(EtagMod - 1)
  BY PacketIs
<1>2. /\ Begin(p) \in Assemblies /\ Begin(p).on /\ Begin(p).etag = p.frame
      /\ Begin(p).got = {} /\ Begin(p).total = 0 /\ Begin(p).count = 0
      /\ Begin(p).size = p.size
  BY <1>1 DEF Begin, Assemblies
<1>3. Counted(Begin(p)) /\ Collected(Begin(p), data)
  BY <1>1, <1>2, FS_EmptySet DEF Counted, Collected
<1>4. p.size = F[p.frame] /\ (as.on => as.size = F[as.etag])
  BY DEF SizesBy
<1>5. /\ as \in Assemblies /\ Counted(as) /\ Collected(as, data)
      /\ as.etag <= buffer
  BY DEF StreamInv, TypeOK, Assemblies
<1>6. CASE IsNewFrame(p)
  <2>1. Current(p) = Begin(p)
    BY <1>6 DEF Current
  <2>2. ~(p.num # 0 /\ as.on /\ as.etag = p.frame)
    BY <1>1, <1>6 DEF IsNewFrame
  <2>3. QED BY <1>1, <1>2, <1>3, <1>4, <2>1, <2>2
<1>7. CASE ~IsNewFrame(p)
  <2>1. Current(p) = as
    BY <1>7 DEF Current
  <2>2. p.num # 0
    BY <1>7 DEF IsNewFrame
  <2>3. QED BY <1>4, <1>5, <2>1, <2>2
<1>8. QED BY <1>6, <1>7

\* The assembly with the packet in it.
LEMMA StoredIs ==
  ASSUME NoWrap, StreamInv, NEW p \in net, NEW F, SizesBy(F), Fits(p)
  PROVE  LET a == Current(p)
             b == Stored(p)
         IN /\ b \in Assemblies /\ b.on /\ b.etag = p.frame /\ b.size = p.size
            /\ b.got = a.got \cup {p.num} /\ b.count = a.count + 1
            /\ b.total = (IF p.num < p.size - 1 THEN a.total ELSE p.size)
            /\ Counted(b)
<1> USE StreamConstants
<1>1. /\ p.frame \in Frames /\ p.num \in Places /\ p.size \in 1..MaxBlocks
      /\ p.num \in 0..(p.size - 1) /\ Etag(p) = p.frame /\ Etag(p) # 0
  BY PacketIs
<1>2. PICK a : a = Current(p)
  OBVIOUS
<1>3. /\ a \in Assemblies /\ Counted(a)
      /\ a.on => a.size = F[a.etag]
  BY <1>2, CurrentIs
<1>4. a.on /\ a.etag = p.frame /\ p.num \notin a.got
  BY <1>1, <1>2 DEF Fits
<1>5. a.size = p.size
  BY <1>3, <1>4 DEF SizesBy
<1>6. PICK t : t = (IF More(p) THEN a.total ELSE p.num + 1)
  OBVIOUS
<1>7. t = (IF p.num < p.size - 1 THEN a.total ELSE p.size)
  BY <1>1, <1>6 DEF More
<1>8. t \in 0..MaxBlocks
  <2>1. a.total \in 0..MaxBlocks
    BY <1>3 DEF Assemblies
  <2>2. QED BY <1>1, <1>7, <2>1
<1>9. a.got \subseteq Places /\ a.count \in Nat
  BY <1>3 DEF Assemblies
<1>10. PICK g, n : g = a.got \cup {p.num} /\ n = a.count + 1
  OBVIOUS
<1>11. g \subseteq Places /\ n \in Nat
  BY <1>1, <1>9, <1>10
<1>12. Stored(p) = [a EXCEPT !.got = g, !.count = n, !.total = t]
  BY <1>2, <1>6, <1>10, Zenon DEF Stored
<1>13. PICK b : b = Stored(p)
  OBVIOUS
<1>14. /\ b \in Assemblies /\ b.on /\ b.etag = p.frame /\ b.size = p.size
       /\ b.got = g /\ b.count = n /\ b.total = t
  BY <1>3, <1>4, <1>5, <1>8, <1>11, <1>12, <1>13 DEF Assemblies
<1>15. n = Cardinality(g)
  <2>1. IsFiniteSet(Places)
    BY FS_Interval DEF Places
  <2>2. IsFiniteSet(a.got)
    BY <1>9, <2>1, FS_Subset
  <2>3. Cardinality(g) = Cardinality(a.got) + 1
    BY <1>4, <1>10, <2>2, FS_AddElement
  <2>4. a.count = Cardinality(a.got)
    BY <1>3 DEF Counted
  <2>5. QED BY <1>10, <2>3, <2>4
<1>16. \A i \in g : i < p.size
  <2>1. \A i \in a.got : i < p.size
    BY <1>3, <1>5 DEF Counted
  <2>2. QED BY <1>1, <1>10, <2>1
<1>17. t # 0 => t = p.size
  <2>1. a.total # 0 => a.total = p.size
    BY <1>3, <1>5 DEF Counted
  <2>2. QED BY <1>7, <2>1
<1>18. Counted(b)
  BY <1>1, <1>14, <1>15, <1>16, <1>17 DEF Counted
<1>19. QED BY <1>2, <1>7, <1>10, <1>13, <1>14, <1>18

\* As many places as a frame has are all its places.
LEMMA AllPlaces ==
  ASSUME NEW n \in Nat, NEW g \in SUBSET (0..(n - 1)), Cardinality(g) >= n
  PROVE  g = 0..(n - 1)
<1>1. IsFiniteSet(0..(n - 1)) /\ Cardinality(0..(n - 1)) = n
  <2>1. 0 \in Int /\ n - 1 \in Int /\ (IF 0 > n - 1 THEN 0 ELSE n - 1 - 0 + 1) = n
    OBVIOUS
  <2>2. /\ IsFiniteSet(0..(n - 1))
        /\ Cardinality(0..(n - 1)) = IF 0 > n - 1 THEN 0 ELSE n - 1 - 0 + 1
    BY <2>1, FS_Interval
  <2>3. QED BY <2>1, <2>2
<1>2. /\ IsFiniteSet(g) /\ Cardinality(g) <= n
      /\ n = Cardinality(g) => g = 0..(n - 1)
  <2>1. PICK all : all = 0..(n - 1)
    OBVIOUS
  <2>2. IsFiniteSet(all) /\ Cardinality(all) = n /\ g \in SUBSET all
    BY <1>1, <2>1
  <2>3. /\ IsFiniteSet(g) /\ Cardinality(g) <= Cardinality(all)
        /\ Cardinality(all) = Cardinality(g) => all = g
    BY <2>2, FS_Subset
  <2>4. QED BY <2>1, <2>2, <2>3
<1>3. Cardinality(g) \in Nat
  BY <1>2, FS_CardinalityType
<1>4. QED BY <1>2, <1>3

LEMMA ListIs ==
  ASSUME NEW S, NEW n \in Nat, NEW r, r = [i \in 1..n |-> r[i]],
         \A i \in 1..n : r[i] \in S
  PROVE  r \in Seq(S) /\ Len(r) = n
OBVIOUS

\* What has arrived in order, with the packet.
LEMMA NoteIs ==
  ASSUME NoWrap, StreamInv, NEW p \in net, NEW F, SizesBy(F), Note(p)
  PROVE  /\ seen' \in [frame : 0..MaxFrames, size : 0..MaxBlocks, nums : SUBSET Places,
                       streak : 0..MaxBlocks]
         /\ seen'.frame = p.frame /\ seen'.size = p.size
         /\ \/ seen'.streak = 0
            \/ p.num = 0 /\ seen'.streak = 1
            \/ /\ p.num # 0 /\ seen'.streak = p.num + 1
               /\ as.on /\ as.etag = p.frame /\ as.total = 0 /\ as.got = 0..(p.num - 1)
<1> USE StreamConstants
<1>1. /\ p.frame \in Frames /\ p.num \in Places /\ p.size \in 1..MaxBlocks
      /\ p.num \in 0..(p.size - 1)
  BY PacketIs
<1>2. seen \in [frame : 0..MaxFrames, size : 0..MaxBlocks, nums : SUBSET Places,
                streak : 0..MaxBlocks]
  BY DEF StreamInv, TypeOK
<1>3. PICK nums, streak :
        /\ nums = (IF seen.frame = p.frame THEN seen.nums ELSE {}) \cup {p.num}
        /\ streak = (IF p.num = 0 THEN 1
                     ELSE IF seen.frame = p.frame /\ seen.streak = p.num THEN p.num + 1
                     ELSE 0)
  OBVIOUS
<1>4. seen' = [frame |-> p.frame, size |-> p.size, nums |-> nums, streak |-> streak]
  BY <1>3, Zenon DEF Note
<1>5. nums \subseteq Places
  BY <1>1, <1>2, <1>3
<1>6. streak \in 0..MaxBlocks
  <2>1. p.num + 1 \in 1..MaxBlocks
    BY <1>1
  <2>2. QED BY <1>3, <2>1
<1>7. ASSUME p.num # 0, seen.frame = p.frame, seen.streak = p.num
      PROVE  as.on /\ as.etag = p.frame /\ as.total = 0 /\ as.got = 0..(p.num - 1)
  <2>1. seen.size = p.size
    BY <1>7 DEF SizesBy
  <2>2. seen.streak # seen.size
    BY <1>1, <1>7, <2>1
  <2>3. QED BY <1>7, <2>2 DEF StreamInv, Streaks
<1>8. /\ seen'.frame = p.frame /\ seen'.size = p.size /\ seen'.streak = streak
  BY <1>4
<1>9. seen' \in [frame : 0..MaxFrames, size : 0..MaxBlocks, nums : SUBSET Places,
                 streak : 0..MaxBlocks]
  BY <1>1, <1>4, <1>5, <1>6 DEF Frames
<1>10. CASE p.num = 0
  BY <1>3, <1>8, <1>9, <1>10
<1>11. CASE p.num # 0 /\ seen.frame = p.frame /\ seen.streak = p.num
  BY <1>3, <1>7, <1>8, <1>9, <1>11
<1>12. CASE p.num # 0 /\ ~(seen.frame = p.frame /\ seen.streak = p.num)
  BY <1>3, <1>8, <1>9, <1>12
<1>13. QED BY <1>10, <1>11, <1>12

\* What the receiver has after a packet, whether it was taken or not.
Received(F) ==
  /\ as' \in Assemblies /\ Counted(as') /\ Collected(as', data') /\ as'.etag <= buffer
  /\ as'.on => as'.size = F[as'.etag]
  /\ data' \in [Places -> Blocks]
  /\ \A i \in Places : data'[i].frame \notin torn => data'[i].picture = data'[i].frame
  /\ shown' \in Seq(Blocks)
  /\ shown' # <<>> =>
       \A i \in DOMAIN shown' :
         /\ shown'[i].frame # 0 /\ shown'[i].frame = shown'[1].frame
         /\ shown'[i].frame \notin torn => shown'[i].picture = shown'[i].frame
  /\ Streaks'

LEMMA NotTaken ==
  ASSUME NoWrap, StreamInv, NEW p \in net, NEW F, SizesBy(F), AddBlock(p), Note(p), ~Fits(p)
  PROVE  Received(F)
<1>1. as' = Current(p) /\ data' = data /\ shown' = shown
  BY DEF AddBlock
<1>2. PICK a : a = Current(p)
  OBVIOUS
<1>3. /\ a \in Assemblies /\ Counted(a) /\ Collected(a, data) /\ a.etag <= buffer
      /\ a.on => a.size = F[a.etag]
      /\ p.num = 0 => a.on /\ a.etag = p.frame /\ a.got = {}
      /\ p.num # 0 /\ as.on /\ as.etag = p.frame => a = as
  BY <1>2, CurrentIs
<1>4. /\ Etag(p) = p.frame /\ p.num \in Nat
  BY PacketIs DEF Places
<1>5. ~(a.on /\ a.etag = p.frame /\ p.num \notin a.got)
  BY <1>2, <1>4 DEF Fits
<1>6. seen'.streak = 0
  <2>1. p.num # 0
    BY <1>3, <1>5
  <2>2. ~(as.on /\ as.etag = p.frame /\ as.got = 0..(p.num - 1))
    <3>1. ASSUME as.on, as.etag = p.frame, as.got = 0..(p.num - 1) PROVE FALSE
      <4>1. a = as
        BY <1>3, <2>1, <3>1
      <4>2. p.num \in 0..(p.num - 1)
        BY <1>5, <3>1, <4>1
      <4>3. QED BY <1>4, <4>2
    <3>2. QED BY <3>1
  <2>3. QED BY <2>1, <2>2, NoteIs
<1>7. Streaks'
  BY <1>6 DEF Streaks
<1>8. /\ data \in [Places -> Blocks] /\ shown \in Seq(Blocks) /\ DataTrue /\ WholeFrames
  BY DEF StreamInv, TypeOK, Blocks
<1>9. QED BY <1>1, <1>2, <1>3, <1>7, <1>8 DEF Received, DataTrue, WholeFrames

\* Once all places are filled, they hold the frame of the last packet.
LEMMA Taken ==
  ASSUME NoWrap, StreamInv, NEW p \in net, NEW F, SizesBy(F), AddBlock(p), Note(p), Fits(p)
  PROVE  Received(F)
<1> USE StreamConstants
<1>1. /\ p.frame \in Frames /\ p.picture \in Frames /\ p.num \in Places
      /\ p.size \in 1..MaxBlocks /\ p.num \in 0..(p.size - 1) /\ p.frame <= buffer
      /\ Etag(p) = p.frame /\ p.size = F[p.frame]
  BY PacketIs DEF SizesBy
<1>2. PICK a : a = Current(p)
  OBVIOUS
<1>3. /\ a \in Assemblies /\ Counted(a) /\ Collected(a, data)
      /\ p.num = 0 => a.got = {} /\ a.total = 0
      /\ p.num # 0 /\ as.on /\ as.etag = p.frame => a = as
  BY <1>2, CurrentIs
<1>4. a.on /\ a.etag = p.frame
  BY <1>1, <1>2, PacketIs DEF Fits
<1>5. PICK b : b = Stored(p)
  OBVIOUS
<1>6. /\ b \in Assemblies /\ b.on /\ b.etag = p.frame /\ b.size = p.size
      /\ b.got = a.got \cup {p.num} /\ b.count = a.count + 1
      /\ b.total = (IF p.num < p.size - 1 THEN a.total ELSE p.size)
      /\ Counted(b)
  BY <1>2, <1>5, StoredIs
<1>7. PICK on \in BOOLEAN : on = (~IsWhole(b))
  <2>1. CASE IsWhole(b)
    <3>1. FALSE = (~IsWhole(b))
      BY <2>1
    <3>2. QED BY <3>1, Zenon
  <2>2. CASE ~IsWhole(b)
    <3>1. TRUE = (~IsWhole(b))
      BY <2>2
    <3>2. QED BY <3>1, Zenon
  <2>3. QED BY <2>1, <2>2
<1>8. as' = [b EXCEPT !.on = on]
  BY <1>5, <1>7, Zenon DEF AddBlock
<1>9. /\ data' = [data EXCEPT ![p.num] = [frame |-> p.frame, picture |-> p.picture]]
      /\ shown' = IF IsWhole(b) THEN [i \in 1..as'.size |-> data'[i - 1]] ELSE shown
  BY <1>5, Zenon DEF AddBlock
<1>10. /\ as' \in Assemblies /\ as'.on = on /\ as'.etag = p.frame /\ as'.size = p.size
       /\ as'.got = b.got /\ as'.count = b.count /\ as'.total = b.total
  BY <1>6, <1>8 DEF Assemblies
<1>11. Counted(as')
  BY <1>6, <1>10 DEF Counted
<1>12. data \in [Places -> Blocks] /\ DataTrue
  BY DEF StreamInv, TypeOK, Blocks
<1>13. data' \in [Places -> Blocks]
  BY <1>1, <1>9, <1>12 DEF Blocks, Frames
<1>14. /\ data'[p.num].frame = p.frame /\ data'[p.num].picture = p.picture
       /\ \A i \in Places : i # p.num => data'[i] = data[i]
  BY <1>1, <1>9, <1>12
<1>15. \A i \in b.got : data'[i].frame = p.frame
  <2>1. a.got \subseteq Places
    BY <1>3 DEF Assemblies
  <2>2. \A i \in a.got : data[i].frame = p.frame
    BY <1>3, <1>4 DEF Collected
  <2>3. QED BY <1>6, <1>14, <2>1, <2>2
<1>16. Collected(as', data')
  BY <1>1, <1>10, <1>15 DEF Collected
<1>17. \A i \in Places : data'[i].frame \notin torn => data'[i].picture = data'[i].frame
  <2>1. p.frame \notin torn => p.picture = p.frame
    BY DEF StreamInv, Travelling
  <2>2. QED BY <1>12, <1>14, <2>1 DEF DataTrue
<1>18. ASSUME IsWhole(b)
       PROVE  /\ shown' \in Seq(Blocks) /\ Len(shown') = p.size /\ shown' # <<>>
              /\ \A i \in 1..p.size : /\ shown'[i].frame = p.frame
                                       /\ i - 1 \in Places /\ shown'[i] = data'[i - 1]
  <2>1. /\ b.total = p.size /\ b.count >= p.size /\ b.count = Cardinality(b.got)
        /\ \A i \in b.got : i < p.size
    BY <1>6, <1>18 DEF IsWhole, Counted
  <2>2. b.got \subseteq Places
    BY <1>6 DEF Assemblies
  <2>3. b.got \in SUBSET (0..(p.size - 1)) /\ p.size \in Nat
    BY <1>1, <2>1, <2>2 DEF Places
  <2>4. b.got = 0..(p.size - 1)
    BY <2>1, <2>3, AllPlaces
  <2>5. shown' = [i \in 1..p.size |-> data'[i - 1]]
    BY <1>9, <1>10, <1>18
  <2>6. ASSUME NEW i \in 1..p.size
        PROVE  /\ shown'[i].frame = p.frame /\ i - 1 \in Places
               /\ shown'[i] = data'[i - 1] /\ shown'[i] \in Blocks
    <3>1. i - 1 \in 0..(p.size - 1) /\ i - 1 \in Places
      BY <1>1 DEF Places
    <3>2. shown'[i] = data'[i - 1]
      BY <2>5
    <3>3. QED BY <1>13, <1>15, <2>4, <3>1, <3>2
  <2>7. shown' \in Seq(Blocks) /\ Len(shown') = p.size
    <3>1. PICK r, n : r = shown' /\ n = p.size
      OBVIOUS
    <3>2. n \in Nat
      BY <1>1, <3>1
    <3>3. r = [i \in 1..n |-> r[i]]
      BY <2>5, <3>1
    <3>4. \A i \in 1..n : r[i] \in Blocks
      BY <2>6, <3>1
    <3>5. r \in Seq(Blocks) /\ Len(r) = n
      BY <3>2, <3>3, <3>4, ListIs
    <3>6. QED BY <3>1, <3>5
  <2>8. shown' # <<>>
    BY <1>1, <2>7
  <2>9. QED BY <2>6, <2>7, <2>8
<1>19. shown' \in Seq(Blocks)
  <2>1. shown \in Seq(Blocks)
    BY DEF StreamInv, TypeOK, Blocks
  <2>2. QED BY <1>9, <1>18, <2>1
<1>20. shown' # <<>> =>
         \A i \in DOMAIN shown' :
           /\ shown'[i].frame # 0 /\ shown'[i].frame = shown'[1].frame
           /\ shown'[i].frame \notin torn => shown'[i].picture = shown'[i].frame
  <2>1. CASE IsWhole(b)
    <3>1. DOMAIN shown' = 1..p.size /\ 1 \in 1..p.size
      BY <1>1, <1>18, <2>1
    <3>2. p.frame # 0
      BY <1>1 DEF Frames
    <3>3. QED BY <1>17, <1>18, <2>1, <3>1, <3>2
  <2>2. CASE ~IsWhole(b)
    <3>1. shown' = shown
      BY <1>9, <2>2
    <3>2. QED BY <3>1 DEF StreamInv, WholeFrames
  <2>3. QED BY <2>1, <2>2
<1>21. Streaks'
  <2>1. CASE seen'.streak = 0
    BY <2>1 DEF Streaks
  <2>2. CASE seen'.streak # 0
    <3>1. /\ seen'.streak = p.num + 1 /\ seen'.size = p.size /\ seen'.frame = p.frame
          /\ a.got = 0..(p.num - 1) /\ a.total = 0
      <4>1. CASE p.num = 0
        <5>1. seen'.streak = 1 /\ seen'.size = p.size /\ seen'.frame = p.frame
          BY <2>2, <4>1, NoteIs
        <5>2. a.got = {} /\ a.total = 0
          BY <1>3, <4>1
        <5>3. QED BY <4>1, <5>1, <5>2
      <4>2. CASE p.num # 0
        <5>1. /\ seen'.streak = p.num + 1 /\ seen'.size = p.size /\ seen'.frame = p.frame
              /\ as.on /\ as.etag = p.frame /\ as.total = 0 /\ as.got = 0..(p.num - 1)
          BY <2>2, <4>2, NoteIs
        <5>2. a = as
          BY <1>3, <4>2, <5>1
        <5>3. QED BY <5>1, <5>2
      <4>3. QED BY <4>1, <4>2
    <3>2. b.got = 0..p.num
      BY <1>1, <1>6, <3>1
    <3>3. b.count = p.num + 1
      <4>1. Cardinality(0..p.num) = p.num + 1
        <5>1. PICK n : n = p.num
          OBVIOUS
        <5>2. n \in Nat /\ 0 \in Int /\ n \in Int
          BY <1>1, <5>1
        <5>3. Cardinality(0..n) = IF 0 > n THEN 0 ELSE n - 0 + 1
          BY <5>2, FS_Interval
        <5>4. QED BY <5>1, <5>2, <5>3
      <4>2. QED BY <1>6, <3>2, <4>1 DEF Counted
    <3>4. CASE p.num = p.size - 1
      <4>1. b.total = p.size /\ b.count = p.size /\ seen'.streak = p.size
        BY <1>1, <1>6, <3>1, <3>3, <3>4
      <4>2. IsWhole(b)
        BY <1>1, <4>1 DEF IsWhole
      <4>3. shown' # <<>> /\ shown'[1].frame = p.frame
        BY <1>1, <1>18, <4>2
      <4>4. QED BY <3>1, <4>1, <4>3 DEF Streaks
    <3>5. CASE p.num # p.size - 1
      <4>1. b.total = 0 /\ seen'.streak # p.size /\ b.got = 0..(seen'.streak - 1)
        BY <1>1, <1>6, <3>1, <3>2, <3>5
      <4>2. ~IsWhole(b)
        BY <4>1 DEF IsWhole
      <4>3. as'.on /\ as'.etag = p.frame /\ as'.total = 0 /\ as'.got = 0..(seen'.streak - 1)
        BY <1>7, <1>10, <4>1, <4>2
      <4>4. QED BY <3>1, <4>1, <4>3 DEF Streaks
    <3>6. QED BY <3>4, <3>5
  <2>3. QED BY <2>1, <2>2
<1>22. QED BY <1>1, <1>10, <1>11, <1>13, <1>16, <1>17, <1>19, <1>20, <1>21 DEF Received

LEMMA ReceiveInv == ASSUME NoWrap, StreamInv, Receive PROVE StreamInv'
<1> USE StreamConstants
<1>1. PICK p \in net : /\ AddBlock(p) /\ Note(p)
                       /\ net' \in {net, net \ {p}}
                       /\ UNCHANGED <<server, heard>>
  BY DEF Receive
<1>2. /\ buffer' = buffer /\ active' = active /\ tx' = tx /\ torn' = torn
      /\ heard' = heard /\ net' \subseteq net
  BY <1>1 DEF server
<1>3. PICK F \in [Frames -> 1..MaxBlocks] : SizesBy(F)
  BY DEF StreamInv, Sizes
<1>4. Received(F)
  BY <1>1, <1>3, NotTaken, Taken
<1>5. /\ seen' \in [frame : 0..MaxFrames, size : 0..MaxBlocks, nums : SUBSET Places,
                    streak : 0..MaxBlocks]
      /\ seen'.frame = p.frame /\ seen'.size = p.size
  BY <1>1, <1>3, NoteIs
<1>6. TypeOK'
  BY <1>2, <1>4, <1>5 DEF StreamInv, TypeOK, Received, Assemblies, Blocks
<1>7. (Sending /\ BufferKept)'
  BY <1>2 DEF StreamInv, Sending, BufferKept, InProgress
<1>8. Travelling'
  BY <1>2 DEF StreamInv, Travelling
<1>9. Sizes'
  <2>1. seen'.size = F[seen'.frame]
    BY <1>3, <1>5 DEF SizesBy
  <2>2. as'.on => as'.size = F[as'.etag]
    BY <1>4 DEF Received
  <2>3. SizesBy(F)'
    BY <1>2, <1>3, <2>1, <2>2 DEF SizesBy
  <2>4. QED BY <2>3 DEF Sizes
<1>10. Noted'
  <2>1. p.frame \in Frames /\ p.frame <= buffer
    BY PacketIs
  <2>2. buffer \in 0..MaxFrames
    BY DEF StreamInv, TypeOK
  <2>3. p.frame \in 1..buffer
    BY <2>1, <2>2 DEF Frames
  <2>4. QED BY <1>2, <1>5, <2>3 DEF Noted
<1>11. (Counted(as) /\ Collected(as, data) /\ as.etag <= buffer)'
  BY <1>2, <1>4 DEF Received, Counted, Collected
<1>12. (DataTrue /\ WholeFrames /\ Streaks)'
  BY <1>2, <1>4 DEF Received, DataTrue, WholeFrames
<1>13. QED BY <1>6, <1>7, <1>8, <1>9, <1>10, <1>11, <1>12 DEF StreamInv

-----------------------------------------------------------------------------
LEMMA StreamNextInv == ASSUME NoWrap PROVE StreamInv /\ [Next]_vars => StreamInv'
<1> SUFFICES ASSUME StreamInv, [Next]_vars PROVE StreamInv'
  OBVIOUS
<1>1. ASSUME NEW due \in SUBSET active, NEW ready \in SUBSET active,
             NEW size \in 1..MaxBlocks, Tick(due, ready, size)
      PROVE  StreamInv'
  BY <1>1, TickInv
<1>2. ASSUME NEW c \in Clients, Subscribe(c) PROVE StreamInv'
  BY <1>2, SubscribeInv
<1>3. ASSUME NEW gone \in SUBSET active, Unsubscribe(gone) PROVE StreamInv'
  BY <1>3, UnsubscribeInv
<1>4. CASE FrameRequest
  BY <1>4, FrameRequestInv
<1>5. CASE Receive
  BY <1>5, ReceiveInv
<1>6. CASE Lose
  BY <1>6, LoseInv
<1>7. CASE Timeout \/ Reconnect
  BY <1>7, ResetInv
<1>8. CASE UNCHANGED vars
  <2>1. /\ UNCHANGED server /\ net' \subseteq net /\ heard' = heard
        /\ as' = as /\ data' = data /\ shown' = shown /\ seen' = seen
        /\ buffer' = buffer /\ active' = active /\ tx' = tx /\ torn' = torn
    BY <1>8 DEF vars, server
  <2>2. TypeOK'
    BY <2>1 DEF StreamInv, TypeOK
  <2>3. /\ (Counted(as) /\ Collected(as, data) /\ as.etag <= buffer)'
        /\ (DataTrue /\ WholeFrames /\ Noted /\ Streaks)'
    BY <2>1 DEF StreamInv, Counted, Collected, DataTrue, WholeFrames, Noted, Streaks
  <2>4. (Sending /\ Travelling /\ Sizes /\ BufferKept)'
    BY <2>1, ServerKept
  <2>5. QED BY <2>2, <2>3, <2>4 DEF StreamInv
<1>9. QED BY <1>1, <1>2, <1>3, <1>4, <1>5, <1>6, <1>7, <1>8 DEF Next

LEMMA StreamInvariant == ASSUME NoWrap PROVE Spec => []StreamInv
<1>1. Init => StreamInv
  BY StreamInitInv
<1>2. StreamInv /\ [Next]_vars => StreamInv'
  BY StreamNextInv
<1>3. QED BY <1>1, <1>2, PTL DEF Spec

\* The count on which the receiver decides that a frame is whole (as->received_count)
\* is that of the places filled, and the size it learns from the last block is true.
THEOREM CountsAreTrue == ASSUME NoWrap PROVE Spec => []AssemblyCounts
<1>1. StreamInv => AssemblyCounts
  BY DEF StreamInv, AssemblyCounts, Counted
<1>2. QED BY <1>1, StreamInvariant, PTL

\* A frame handed over is of one frame's blocks and, unless a /frame request came in
\* between, of one picture, for any number of subscribers, blocks and packets.
THEOREM FramesAreWhole == ASSUME NoWrap PROVE Spec => []WholeFrames
<1>1. StreamInv => WholeFrames
  BY DEF StreamInv
<1>2. QED BY <1>1, StreamInvariant, PTL

\* tickStream takes no new picture while a subscriber is still being sent the old one.
THEOREM PictureIsKept == ASSUME NoWrap PROVE Spec => []BufferKept
<1>1. StreamInv => BufferKept
  BY DEF StreamInv
<1>2. QED BY <1>1, StreamInvariant, PTL

\* Whatever is left in the assembly, a frame whose blocks arrive in order is handed
\* over.
THEOREM ReceiverHeals == ASSUME NoWrap PROVE Spec => []Healing
<1>1. StreamInv => Healing
  BY DEF StreamInv, Healing, Streaks
<1>2. QED BY <1>1, StreamInvariant, PTL

=============================================================================
