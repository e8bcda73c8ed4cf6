-------------------------- MODULE Services_proofs --------------------------
(***************************************************************************)
(* The components behind the web server: what it waits to send and to      *)
(* whom, and the gallery of faces it lists.                                *)
(***************************************************************************)
EXTENDS FaceGallery, WebHub, BasicLemmas

-----------------------------------------------------------------------------
(***************************************************************************)
(* The web server: the frame ring holds the newest frames, and the client  *)
(* list the open connections, for rings and lists of every size.           *)
(***************************************************************************)

LEMMA HubConstants == RingSlots \in Nat \ {0} /\ MaxClients \in Nat \ {0}
BY WebHubAssumption

\* Frames closer together than the ring is long are in different slots.
LEMMA CellsDiffer ==
  ASSUME NEW i \in Nat, NEW j \in Nat, i < j, j - i < RingSlots
  PROVE  Cell(i) # Cell(j)
BY HubConstants, ModDiffers DEF Cell

-----------------------------------------------------------------------------
(* What is waiting. *)

HubTypes ==
  /\ frameRing \in [Cells -> Int]
  /\ readIdx \in Nat /\ writeIdx \in Nat /\ readIdx <= writeIdx
  /\ dropped \subseteq Nat

RingHolds == HubTypes /\ NewestPending

LEMMA CellType == \A i \in Nat : Cell(i) \in Cells
BY HubConstants DEF Cell, Cells

\* With the newest frames in the ring the sender stops at the writer.
LEMMA UptoWriter == RingHolds => Upto = writeIdx
<1> SUFFICES ASSUME RingHolds PROVE Upto = writeIdx
  OBVIOUS
<1> DEFINE Stop(e) ==
      /\ e = writeIdx \/ frameRing[Cell(e)] = -1
      /\ \A i \in readIdx..(e - 1) : frameRing[Cell(i)] # -1
<1>1. writeIdx \in readIdx..writeIdx /\ Stop(writeIdx)
  BY DEF RingHolds, HubTypes, NewestPending
<1>2. ASSUME NEW e \in readIdx..writeIdx, Stop(e) PROVE e = writeIdx
  BY <1>2 DEF RingHolds, HubTypes, NewestPending
<1>3. Upto = CHOOSE e \in readIdx..writeIdx : Stop(e)
  BY DEF Upto
<1> HIDE DEF Stop
<1>4. QED BY <1>1, <1>2, <1>3

LEMMA PushHolds == RingHolds /\ PushFrame => RingHolds'
<1> SUFFICES ASSUME RingHolds, PushFrame PROVE RingHolds'
  OBVIOUS
<1> USE HubConstants
<1>1. /\ readIdx' = IF Overrun THEN readIdx + 1 ELSE readIdx
      /\ dropped' = IF Overrun THEN dropped \cup {readIdx} ELSE dropped
      /\ frameRing' = [frameRing EXCEPT ![Cell(writeIdx)] = writeIdx]
      /\ writeIdx' = writeIdx + 1
  BY DEF PushFrame, Filled
<1>2. readIdx \in Nat /\ writeIdx \in Nat /\ readIdx <= writeIdx
  BY DEF RingHolds, HubTypes
<1>3. /\ readIdx' \in Nat /\ readIdx <= readIdx' /\ readIdx' <= writeIdx'
      /\ writeIdx' - readIdx' <= RingSlots
  BY <1>1, <1>2 DEF RingHolds, NewestPending, Overrun
<1>4. HubTypes'
  BY <1>1, <1>2, <1>3, CellType DEF RingHolds, HubTypes
<1>5. ASSUME NEW i \in readIdx'..(writeIdx' - 1) PROVE frameRing'[Cell(i)] = i
  <2>1. i \in Nat /\ i \in readIdx..writeIdx /\ writeIdx - i < RingSlots
    BY <1>1, <1>2, <1>3
  <2>2. CASE i = writeIdx
    BY <2>2, <1>1, <1>2, CellType DEF RingHolds, HubTypes
  <2>3. CASE i < writeIdx
    <3>1. Cell(i) # Cell(writeIdx) /\ Cell(i) \in Cells
      BY <2>1, <2>3, <1>2, CellsDiffer, CellType
    <3>2. frameRing[Cell(i)] = i
      BY <2>1, <2>3, <1>2 DEF RingHolds, NewestPending
    <3>3. QED BY <3>1, <3>2, <1>1 DEF RingHolds, HubTypes
  <2>4. QED BY <2>1, <2>2, <2>3, <1>2
<1>6. \A i \in dropped' : i < readIdx'
  BY <1>1, <1>2 DEF RingHolds, HubTypes, NewestPending
<1>7. QED BY <1>3, <1>4, <1>5, <1>6 DEF RingHolds, NewestPending

LEMMA BroadcastHolds == RingHolds /\ Broadcasts => RingHolds'
<1> SUFFICES ASSUME RingHolds, Broadcasts PROVE RingHolds'
  OBVIOUS
<1>1. /\ readIdx' = writeIdx /\ writeIdx' = writeIdx /\ dropped' = dropped
      /\ frameRing' = [k \in Cells |->
           IF \E i \in readIdx..(Upto - 1) : Cell(i) = k THEN -1 ELSE frameRing[k]]
  BY UptoWriter DEF Broadcasts, ReadOn
<1>2. HubTypes'
  BY <1>1 DEF RingHolds, HubTypes
<1>3. QED
  BY <1>1, <1>2, HubConstants DEF RingHolds, HubTypes, NewestPending

LEMMA RingHoldsNext == RingHolds /\ [HubNext]_hubVars => RingHolds'
<1> SUFFICES ASSUME RingHolds, [HubNext]_hubVars PROVE RingHolds'
  OBVIOUS
<1>1. ASSUME UNCHANGED <<frameRing, readIdx, writeIdx, dropped>> PROVE RingHolds'
  BY <1>1 DEF RingHolds, HubTypes, NewestPending
<1>2. CASE PushFrame
  BY <1>2, PushHolds
<1>3. CASE Broadcasts
  BY <1>3, BroadcastHolds
<1>4. CASE PushBegin \/ HubStop \/ HubOff
  BY <1>4, <1>1 DEF PushBegin, HubStop, HubOff, ringVars
<1>5. ASSUME NEW c \in Browsers, Closes(c) \/ \E n \in 1..MaxTogether : Upgrade(c, n)
      PROVE  RingHolds'
  BY <1>5, <1>1 DEF Upgrade, Closes, ringVars
<1>6. CASE UNCHANGED hubVars
  BY <1>6, <1>1 DEF hubVars, ringVars
<1>7. QED BY <1>2, <1>3, <1>4, <1>5, <1>6 DEF HubNext

LEMMA RingHoldsInit == HubInit => RingHolds
BY HubConstants DEF HubInit, RingHolds, HubTypes, NewestPending

-----------------------------------------------------------------------------
(* Who is on the list. *)

ListHolds ==
  /\ clients \in Seq(Browsers) /\ upgraded \subseteq Browsers /\ unlisted \subseteq upgraded
  /\ again \subseteq upgraded \cap doubled /\ doubled \subseteq Browsers
  /\ OnlyOpenClients

\* The first entry of the one that leaves goes; the last one moves to its place.
LEMMA LeftTakesOne ==
  ASSUME ListHolds, NEW c \in Browsers
  PROVE  /\ Left(c) \in Seq(Browsers)
         /\ Range(Left(c)) \subseteq Range(clients)
         /\ Range(clients) \ {c} \subseteq Range(Left(c))
         /\ Repeated(Left(c)) \subseteq Repeated(clients)
         /\ c \in Range(Left(c)) => c \in Repeated(clients)
<1> DEFINE n == Len(clients)
           s == Left(c)
<1>1. /\ n \in Nat /\ DOMAIN clients = 1..n /\ clients \in [1..n -> Browsers]
  BY DEF ListHolds
<1>2. CASE c \notin Range(clients)
  <2>1. s = clients
    BY <1>2 DEF Left
  <2>2. QED BY <1>2, <2>1 DEF ListHolds
<1>3. CASE c \in Range(clients)
  <2>1. PICK p \in 1..n : clients[p] = c /\ p = FirstEntry(c)
    <3>1. PICK P : P = {k \in 1..n : clients[k] = c}
      OBVIOUS
    <3>2. P # {} /\ P \in SUBSET (1..n) /\ 1 \in Int /\ n \in Int
      BY <3>1, <1>1, <1>3 DEF Range
    <3>3. P \in SUBSET Int /\ IsFiniteSet(P)
      BY <3>2, PartOfInterval, Zenon
    <3>4. PICK q \in P : \A j \in P : q <= j
      BY <3>2, <3>3, HasLeast, Zenon
    <3>5. q \in 1..n /\ clients[q] = c /\ \A j \in 1..n : j < q => clients[j] # c
      BY <3>1, <3>4
    <3>6. QED BY <3>5, <1>1 DEF FirstEntry
  <2>2. s = [k \in 1..(n - 1) |-> IF k = p THEN clients[n] ELSE clients[k]]
    BY <1>3, <2>1 DEF Left, Last
  <2>3. n >= 1 /\ n - 1 \in Nat
    BY <2>1, <1>1
  <2>4. DOMAIN s = 1..(n - 1) /\ \A k \in 1..(n - 1) :
          s[k] = IF k = p THEN clients[n] ELSE clients[k]
    BY <2>2, <2>3
  <2>5. s \in [1..(n - 1) -> Browsers] /\ s \in Seq(Browsers)
    BY <2>2, <2>3, <1>1
\* Where an entry of the new list was on the old one: never at p.
  <2> DEFINE Old(k) == IF k = p THEN n ELSE k
  <2>6. \A k \in 1..(n - 1) : Old(k) \in 1..n /\ clients[Old(k)] = s[k] /\ Old(k) # p
    BY <2>1, <2>3, <2>4, <1>1
  <2>7. \A j, k \in 1..(n - 1) : j # k => Old(j) # Old(k)
    BY <2>1, <2>3, <1>1
  <2> HIDE DEF Old
  <2>8. Range(s) \subseteq Range(clients)
    BY <2>4, <2>6, <1>1 DEF Range
  <2>9. Repeated(s) \subseteq Repeated(clients)
    <3>1. ASSUME NEW x \in Repeated(s) PROVE x \in Repeated(clients)
      <4>1. PICK j, k \in 1..(n - 1) : j # k /\ s[j] = x /\ s[k] = x
        BY <2>4 DEF Repeated
      <4>2. QED BY <4>1, <2>6, <2>7, <1>1 DEF Repeated
    <3>2. QED BY <3>1
  <2>10. ASSUME c \in Range(s) PROVE c \in Repeated(clients)
    <3>1. PICK k \in 1..(n - 1) : s[k] = c
      BY <2>4, <2>10 DEF Range
    <3>2. QED BY <3>1, <2>1, <2>6, <1>1 DEF Repeated
  <2>11. ASSUME NEW x \in Range(clients) \ {c} PROVE x \in Range(s)
    <3>1. PICK k \in 1..n : clients[k] = x /\ k # p
      BY <1>1, <2>1, <2>11 DEF Range
    <3>2. CASE k < n
      <4>1. k \in 1..(n - 1) /\ s[k] = x
        BY <3>1, <3>2, <2>4, <1>1
      <4>2. QED BY <4>1, <2>4 DEF Range
    <3>3. CASE k = n
      <4>1. p \in 1..(n - 1) /\ s[p] = x
        BY <3>1, <3>3, <2>1, <2>4, <1>1
      <4>2. QED BY <4>1, <2>4 DEF Range
    <3>4. k < n \/ k = n
      <4>1. \A N \in Nat : \A q \in 1..N : q < N \/ q = N
        OBVIOUS
      <4>2. QED BY <4>1, <3>1, <1>1, Zenon
    <3>5. QED BY <3>2, <3>3, <3>4
  <2>12. QED BY <2>5, <2>8, <2>9, <2>10, <2>11
<1>4. QED BY <1>2, <1>3

\* An upgrade adds entries of one connection at the end, if there is room for any.
LEMMA UpgradeAdds ==
  ASSUME clients \in Seq(Browsers), NEW c \in Browsers, NEW n \in 1..MaxTogether,
         Upgrade(c, n), Len(clients) <= MaxClients
  PROVE  /\ clients' \in Seq(Browsers) /\ Len(clients') <= MaxClients
         /\ IF Placed(n) = 0 THEN Range(clients') = Range(clients)
            ELSE Range(clients') = Range(clients) \cup {c}
         /\ Repeated(clients') \subseteq Repeated(clients) \cup {c}
<1>1. PICK m : m = Placed(n)
  OBVIOUS
<1>2. n \in Nat \ {0} /\ Len(clients) \in Nat /\ MaxClients \in Nat
  BY WebHubAssumption
<1>3. m \in Nat /\ Len(clients) + m <= MaxClients
  BY <1>1, <1>2 DEF Placed
<1>4. PICK t : t = [k \in 1..m |-> c]
  OBVIOUS
<1>5. t \in Seq(Browsers) /\ Len(t) = m
  BY <1>3, <1>4
<1>6. clients' = clients \o t
  BY <1>1, <1>4 DEF Upgrade
<1>7. PICK a : a = Len(clients)
  OBVIOUS
<1>8. /\ clients' \in Seq(Browsers) /\ Len(clients') = a + m /\ DOMAIN clients' = 1..(a + m)
      /\ \A k \in 1..(a + m) : clients'[k] = IF k <= a THEN clients[k] ELSE c
  <2>1. clients \o t \in Seq(Browsers) /\ Len(clients \o t) = Len(clients) + Len(t)
        /\ \A k \in 1..(Len(clients) + Len(t)) :
             (clients \o t)[k] = IF k <= Len(clients) THEN clients[k] ELSE t[k - Len(clients)]
    BY <1>5
  <2>2. \A k \in 1..(a + m) : k > a => t[k - a] = c
    BY <1>2, <1>3, <1>4, <1>7
  <2>3. QED BY <2>1, <2>2, <1>5, <1>6, <1>7, <1>2, <1>3
<1>9. a \in Nat /\ DOMAIN clients = 1..a
  BY <1>7, <1>2
<1>10. Range(clients) \subseteq Range(clients')
  <2>1. ASSUME NEW x \in Range(clients) PROVE x \in Range(clients')
    <3>1. PICK k \in 1..a : clients[k] = x
      BY <1>9 DEF Range
    <3>2. k \in 1..(a + m) /\ clients'[k] = x
      BY <3>1, <1>3, <1>8, <1>9
    <3>3. QED BY <3>2, <1>8 DEF Range
  <2>2. QED BY <2>1
<1>11. Range(clients') \subseteq Range(clients) \cup {c}
  <2>1. ASSUME NEW x \in Range(clients') PROVE x \in Range(clients) \cup {c}
    <3>1. PICK k \in 1..(a + m) : clients'[k] = x
      BY <1>8 DEF Range
    <3>2. CASE k <= a
      BY <3>1, <3>2, <1>8, <1>9 DEF Range
    <3>3. CASE ~(k <= a)
      BY <3>1, <3>3, <1>8
    <3>4. QED BY <3>2, <3>3
  <2>2. QED BY <2>1
<1>12. m = 0 => Range(clients') \subseteq Range(clients)
  <2>1. ASSUME m = 0, NEW x \in Range(clients') PROVE x \in Range(clients)
    <3>1. PICK k \in 1..a : clients'[k] = x
      BY <2>1, <1>8, <1>9 DEF Range
    <3>2. QED BY <3>1, <2>1, <1>8, <1>9 DEF Range
  <2>2. QED BY <2>1
<1>13. m # 0 => c \in Range(clients')
  <2>1. ASSUME m # 0 PROVE a + 1 \in 1..(a + m) /\ clients'[a + 1] = c
    BY <2>1, <1>3, <1>8, <1>9
  <2>2. QED BY <2>1, <1>8 DEF Range
<1>14. Repeated(clients') \subseteq Repeated(clients) \cup {c}
  <2>1. ASSUME NEW x \in Repeated(clients'), x # c PROVE x \in Repeated(clients)
    <3>1. PICK j, k \in 1..(a + m) : j # k /\ clients'[j] = x /\ clients'[k] = x
      BY <1>8 DEF Repeated
    <3>2. j <= a /\ k <= a /\ clients[j] = x /\ clients[k] = x
      BY <3>1, <2>1, <1>8
    <3>3. j \in 1..a /\ k \in 1..a /\ x \in Browsers
      BY <3>1, <3>2, <1>9, <1>3, <2>1 DEF Repeated
    <3>4. QED BY <3>1, <3>2, <3>3, <1>9 DEF Repeated
  <2>2. QED BY <2>1
<1>15. clients' \in Seq(Browsers) /\ Len(clients') <= MaxClients
  BY <1>3, <1>7, <1>8
<1>16. IF m = 0 THEN Range(clients') = Range(clients)
      ELSE Range(clients') = Range(clients) \cup {c}
  <2>1. CASE m = 0
    <3>1. Range(clients') = Range(clients)
      BY <2>1, <1>10, <1>12, Zenon
    <3>2. QED BY <2>1, <3>1, Zenon
  <2>2. CASE m # 0
    BY <2>2, <1>10, <1>11, <1>13
  <2>3. QED BY <2>1, <2>2
<1>17. QED BY <1>1, <1>14, <1>15, <1>16, Zenon

LEMMA UpgradeHolds ==
  ASSUME ListHolds, Len(clients) <= MaxClients, NEW c \in Browsers,
         NEW n \in 1..MaxTogether, Upgrade(c, n)
  PROVE  ListHolds'
<1>1. /\ upgraded' = upgraded \cup {c} /\ again' = again
      /\ unlisted' = IF Placed(n) = 0 THEN unlisted \cup {c} ELSE unlisted
      /\ doubled' = doubled \cup Repeated(clients')
  BY DEF Upgrade
<1>2. /\ clients' \in Seq(Browsers)
      /\ IF Placed(n) = 0 THEN Range(clients') = Range(clients)
         ELSE Range(clients') = Range(clients) \cup {c}
  BY UpgradeAdds DEF ListHolds
<1>3. Repeated(clients') \subseteq Browsers
  BY DEF Repeated
<1>4. QED BY <1>1, <1>2, <1>3 DEF ListHolds, OnlyOpenClients

LEMMA ClosesHolds == ASSUME ListHolds, NEW c \in Browsers, Closes(c) PROVE ListHolds'
<1>1. /\ upgraded' = upgraded \ {c} /\ clients' = Left(c)
      /\ again' = again \ {c} /\ unlisted' = unlisted \ {c}
      /\ doubled' = IF c \in Range(clients') THEN doubled ELSE doubled \ {c}
  BY DEF Closes
<1>2. /\ clients' \in Seq(Browsers)
      /\ Range(clients') \subseteq Range(clients)
      /\ Range(clients) \ {c} \subseteq Range(clients')
      /\ Repeated(clients') \subseteq Repeated(clients)
      /\ c \in Range(clients') => c \in Repeated(clients)
  BY <1>1, LeftTakesOne
<1>3. Repeated(clients') \subseteq Range(clients')
  BY DEF Repeated, Range
<1>4. QED BY <1>1, <1>2, <1>3 DEF ListHolds, OnlyOpenClients

LEMMA ListHoldsNext ==
  ListHolds /\ Len(clients) <= MaxClients /\ [HubNext]_hubVars => ListHolds'
<1> SUFFICES ASSUME ListHolds, Len(clients) <= MaxClients, [HubNext]_hubVars
             PROVE  ListHolds'
  OBVIOUS
<1>1. ASSUME UNCHANGED <<listVars, again>> PROVE ListHolds'
  BY <1>1 DEF ListHolds, OnlyOpenClients, listVars, Repeated
<1>2. CASE PushBegin \/ PushFrame \/ HubStop \/ HubOff \/ UNCHANGED hubVars
  BY <1>1, <1>2 DEF PushBegin, PushFrame, HubStop, HubOff, hubVars
<1>3. CASE Broadcasts
  <2>1. UNCHANGED listVars /\ again' = again \cup (Served \cap Repeated(clients))
    BY <1>3 DEF Broadcasts
  <2>2. QED BY <2>1 DEF ListHolds, OnlyOpenClients, listVars, Repeated, Served
<1>4. QED BY <1>2, <1>3, UpgradeHolds, ClosesHolds DEF HubNext

LEMMA ListHoldsInit == HubInit => ListHolds
BY DEF HubInit, ListHolds, OnlyOpenClients, Range, Repeated

-----------------------------------------------------------------------------
(* What each browser was sent. *)

\* s is in order and all of it comes before r, and from its first frame to r only
\* those in d are missing.
InOrder(s, r) ==
  /\ \A k \in 1..(Len(s) - 1) : s[k] < s[k + 1]
  /\ \A k \in 1..Len(s) : s[k] < r

Gapless(s, r, d) == s # <<>> => \A f \in s[1]..(r - 1) : f \in Range(s) \cup d

SentHolds ==
  /\ sent \in [Browsers -> Seq(Nat)]
  /\ \A c \in Browsers :
       /\ InOrder(sent[c], readIdx) /\ Gapless(sent[c], readIdx, dropped)
       /\ c \notin Served => sent[c] = <<>>

LEMMA Concatenation ==
  ASSUME NEW s \in Seq(Nat), NEW t \in Seq(Nat)
  PROVE  /\ s \o t \in Seq(Nat) /\ Len(s \o t) = Len(s) + Len(t)
         /\ \A k \in 1..Len(s) : (s \o t)[k] = s[k]
         /\ \A k \in (Len(s) + 1)..(Len(s) + Len(t)) : (s \o t)[k] = t[k - Len(s)]
<1>1. s \o t \in Seq(Nat) /\ Len(s \o t) = Len(s) + Len(t)
  OBVIOUS
<1>2. \A k \in 1..(Len(s) + Len(t)) :
        (s \o t)[k] = IF k <= Len(s) THEN s[k] ELSE t[k - Len(s)]
  OBVIOUS
<1>3. Len(s) \in Nat /\ Len(t) \in Nat
  OBVIOUS
<1>4. QED BY <1>1, <1>2, <1>3

\* Numbers in order below r, as in s, then those from r up to w.
RunsOn(s, all, n, r, w) ==
  /\ \A k \in 1..n : s[k] \in Nat /\ s[k] < r /\ all[k] = s[k]
  /\ \A k \in 1..(n - 1) : s[k] < s[k + 1]
  /\ \A k \in (n + 1)..(n + (w - r)) : all[k] = r + (k - n) - 1

LEMMA RunOn ==
  ASSUME NEW n \in Nat, NEW r \in Nat, NEW w \in Nat, r < w, NEW s, NEW all,
         RunsOn(s, all, n, r, w)
  PROVE  /\ \A k \in 1..(n + (w - r) - 1) : all[k] < all[k + 1]
         /\ \A k \in 1..(n + (w - r)) : all[k] < w
<1> USE DEF RunsOn
<1>1. ASSUME NEW k \in 1..(n + (w - r) - 1) PROVE all[k] < all[k + 1]
  <2>1. CASE k < n
    <3>1. k \in 1..(n - 1) /\ k \in 1..n /\ k + 1 \in 1..n
      BY <2>1
    <3>2. QED BY <3>1
  <2>2. CASE k = n
    <3>1. k \in 1..n /\ k + 1 \in (n + 1)..(n + (w - r))
      BY <2>2
    <3>2. all[k] \in Nat /\ all[k] < r /\ all[k + 1] = r
      BY <3>1, <2>2
    <3>3. QED BY <3>2
  <2>3. CASE k > n
    <3>1. k \in (n + 1)..(n + (w - r)) /\ k + 1 \in (n + 1)..(n + (w - r))
      BY <2>3
    <3>2. all[k] = r + (k - n) - 1 /\ all[k + 1] = r + ((k + 1) - n) - 1
      BY <3>1
    <3>3. QED BY <3>2
  <2>4. QED BY <2>1, <2>2, <2>3
<1>2. ASSUME NEW k \in 1..(n + (w - r)) PROVE all[k] < w
  <2>1. CASE k \in 1..n
    BY <2>1
  <2>2. CASE k \in (n + 1)..(n + (w - r))
    BY <2>2
  <2>3. QED BY <2>1, <2>2
<1>3. QED BY <1>1, <1>2

\* What is sent on is the frames from r up to w.
LEMMA SentGrows ==
  ASSUME NEW s \in Seq(Nat), NEW r \in Nat, NEW w \in Nat, r < w, NEW d,
         InOrder(s, r), Gapless(s, r, d),
         NEW more \in Seq(Nat), Len(more) = w - r,
         \A k \in 1..(w - r) : more[k] = r + k - 1
  PROVE  s \o more \in Seq(Nat) /\ InOrder(s \o more, w) /\ Gapless(s \o more, w, d)
<1> DEFINE n == Len(s)
<1>1. PICK all : all = s \o more
  OBVIOUS
<1>2. /\ all \in Seq(Nat) /\ Len(all) = n + (w - r) /\ n \in Nat
      /\ \A k \in 1..n : all[k] = s[k]
      /\ \A k \in (n + 1)..(n + (w - r)) : all[k] = more[k - n]
  <2>1. /\ all \in Seq(Nat) /\ Len(all) = Len(s) + Len(more)
        /\ \A k \in 1..Len(s) : all[k] = s[k]
        /\ \A k \in (Len(s) + 1)..(Len(s) + Len(more)) : all[k] = more[k - Len(s)]
    BY <1>1, Concatenation, Zenon
  <2>2. Len(s) \in Nat
    OBVIOUS
  <2>3. QED BY <2>1, <2>2, Zenon
<1>3. \A k \in (n + 1)..(n + (w - r)) : all[k] = r + (k - n) - 1
  <2>1. ASSUME NEW k \in (n + 1)..(n + (w - r)) PROVE all[k] = r + (k - n) - 1
    <3>1. k - n \in 1..(w - r)
      BY <1>2
    <3>2. QED BY <1>2, <3>1
  <2>2. QED BY <2>1
<1>4. /\ \A k \in 1..n : s[k] \in Nat /\ s[k] < r /\ all[k] = s[k]
      /\ \A k \in 1..(n - 1) : s[k] < s[k + 1]
  <2>1. \A k \in 1..Len(s) : s[k] \in Nat
    OBVIOUS
  <2>2. QED BY <2>1, <1>2, Zenon DEF InOrder
<1>5. /\ \A k \in 1..(n + (w - r) - 1) : all[k] < all[k + 1]
      /\ \A k \in 1..(n + (w - r)) : all[k] < w
  <2>1. n \in Nat /\ RunsOn(s, all, n, r, w)
    BY <1>2, <1>3, <1>4, Zenon DEF RunsOn
  <2> HIDE DEF n
  <2>2. \A k \in 1..(n + (w - r) - 1) : all[k] < all[k + 1]
    BY <2>1, RunOn, Zenon
  <2>3. \A k \in 1..(n + (w - r)) : all[k] < w
    BY <2>1, RunOn, Zenon
  <2>4. QED BY <2>2, <2>3
<1>6. InOrder(all, w)
  BY <1>2, <1>5 DEF InOrder
<1>7. DOMAIN all = 1..(n + (w - r))
  BY <1>2
<1>8. Gapless(all, w, d)
  <2>1. ASSUME NEW f \in r..(w - 1) PROVE f \in Range(all)
    <3>1. n \in Nat
      BY <1>2
    <3> HIDE DEF n
    <3>2. /\ (f - r) + 1 + n \in (n + 1)..(n + (w - r))
          /\ (f - r) + 1 + n \in 1..(n + (w - r))
      BY <3>1
    <3>3. all[(f - r) + 1 + n] = r + (((f - r) + 1 + n) - n) - 1
      BY <3>2, <1>3, Zenon
    <3>4. all[(f - r) + 1 + n] = f
      BY <3>1, <3>3
    <3>5. QED BY <3>2, <3>4, <1>7, Zenon DEF Range
  <2>2. CASE n = 0
    <3>1. all[1] = r
      BY <2>2, <1>3
    <3>2. QED BY <3>1, <2>1 DEF Gapless
  <2>3. CASE n > 0
    <3>0. n \in Nat /\ 1 \in 1..n
      BY <2>3, <1>2
    <3>1. all[1] = s[1] /\ s[1] \in Nat /\ s # <<>>
      <4>1. all[1] = s[1] /\ s[1] \in Nat
        BY <3>0, <1>4, Zenon
      <4>2. s # <<>>
        BY <2>3
      <4>3. QED BY <4>1, <4>2
    <3>2. \A f \in s[1]..(r - 1) : f \in Range(s) \cup d
      BY <3>1 DEF Gapless
    <3>3. Range(s) \subseteq Range(all)
      <4>1. ASSUME NEW x \in Range(s) PROVE x \in Range(all)
        <5>0. DOMAIN s = 1..n
          OBVIOUS
        <5>1. PICK k \in 1..n : s[k] = x
          BY <5>0, Zenon DEF Range
        <5>2. n \in Nat /\ n + (w - r) \in Nat /\ n <= n + (w - r) /\ all[k] = s[k]
          BY <1>2
        <5>3. k \in 1..(n + (w - r))
          BY <5>1, <5>2
        <5>4. QED BY <5>1, <5>2, <5>3, <1>7 DEF Range
      <4>2. QED BY <4>1
    <3>4. \A f \in s[1]..(w - 1) : f \in s[1]..(r - 1) \/ f \in r..(w - 1)
      BY <3>1
    <3>5. QED BY <3>1, <3>2, <3>3, <3>4, <2>1 DEF Gapless
  <2>4. QED BY <2>2, <2>3, <1>2
<1>9. QED BY <1>1, <1>2, <1>6, <1>8

LEMMA BroadcastSends ==
  ASSUME RingHolds, ListHolds, SentHolds, Broadcasts PROVE SentHolds'
<1>1. /\ readIdx \in Nat /\ writeIdx \in Nat /\ readIdx < writeIdx
      /\ readIdx' = writeIdx /\ dropped' = dropped /\ Served' = Served
  BY UptoWriter DEF Broadcasts, ReadOn, RingHolds, HubTypes, listVars, Served
<1> DEFINE more == [k \in 1..(writeIdx - readIdx) |-> frameRing[Cell(readIdx + k - 1)]]
<1>2. sent' = [c \in Browsers |->
                 IF c \in Served THEN sent[c] \o more ELSE sent[c]]
  BY UptoWriter DEF Broadcasts
<1>3. \A k \in 1..(writeIdx - readIdx) : more[k] = readIdx + k - 1
  BY <1>1 DEF RingHolds, NewestPending
<1>4. more \in Seq(Nat) /\ Len(more) = writeIdx - readIdx
  <2>1. writeIdx - readIdx \in Nat /\ \A k \in 1..(writeIdx - readIdx) : more[k] \in Nat
    BY <1>1, <1>3
  <2>2. QED BY <2>1
<1> HIDE DEF more
<1>5. ASSUME NEW c \in Browsers
      PROVE  /\ sent'[c] \in Seq(Nat)
             /\ InOrder(sent'[c], readIdx') /\ Gapless(sent'[c], readIdx', dropped')
             /\ c \notin Served' => sent'[c] = <<>>
  <2>1. CASE c \in Served
    <3>1. sent'[c] = sent[c] \o more /\ sent[c] \in Seq(Nat)
      BY <2>1, <1>2 DEF SentHolds
    <3>2. InOrder(sent[c], readIdx) /\ Gapless(sent[c], readIdx, dropped)
      BY DEF SentHolds
    <3>3. QED BY <2>1, <3>1, <3>2, <1>1, <1>3, <1>4, SentGrows
  <2>2. CASE c \notin Served
    <3>1. sent'[c] = <<>> /\ <<>> \in Seq(Nat)
      BY <2>2, <1>2 DEF SentHolds
    <3>2. QED BY <3>1 DEF InOrder, Gapless
  <2>3. QED BY <2>1, <2>2
<1>6. sent' \in [Browsers -> Seq(Nat)]
  BY <1>2, <1>5
<1>7. QED BY <1>5, <1>6 DEF SentHolds

\* A frame that is overrun joins those that may be missing.
LEMMA PushSends ==
  ASSUME RingHolds, SentHolds, PushFrame PROVE SentHolds'
<1>1. /\ readIdx \in Nat /\ sent' = sent /\ Served' = Served
      /\ \/ readIdx' = readIdx /\ dropped' = dropped
         \/ readIdx' = readIdx + 1 /\ dropped' = dropped \cup {readIdx}
  BY DEF PushFrame, RingHolds, HubTypes, listVars, Served
<1>2. ASSUME NEW c \in Browsers
      PROVE  InOrder(sent[c], readIdx') /\ Gapless(sent[c], readIdx', dropped')
  <2>1. /\ InOrder(sent[c], readIdx) /\ Gapless(sent[c], readIdx, dropped)
        /\ sent[c] \in Seq(Nat)
    BY DEF SentHolds
  <2>2. \A k \in 1..Len(sent[c]) : sent[c][k] \in Nat
    BY <2>1
  <2>3. InOrder(sent[c], readIdx')
    BY <1>1, <2>1, <2>2 DEF InOrder
  <2>4. Gapless(sent[c], readIdx', dropped')
    <3>1. SUFFICES ASSUME sent[c] # <<>>, NEW f \in sent[c][1]..(readIdx' - 1)
                   PROVE  f \in Range(sent[c]) \cup dropped'
      BY DEF Gapless
    <3>2. sent[c][1] \in Nat
      BY <2>1, <3>1
    <3>3. f \in sent[c][1]..(readIdx - 1) \/ (f = readIdx /\ readIdx' = readIdx + 1)
      BY <1>1, <3>1, <3>2
    <3>4. QED BY <1>1, <2>1, <3>1, <3>3 DEF Gapless
  <2>5. QED BY <2>3, <2>4
<1>3. QED BY <1>1, <1>2 DEF SentHolds

LEMMA SentHoldsNext ==
  /\ RingHolds /\ ListHolds /\ SentHolds /\ Len(clients) <= MaxClients
  /\ [HubNext]_hubVars
  => SentHolds'
<1> SUFFICES ASSUME RingHolds, ListHolds, SentHolds, Len(clients) <= MaxClients,
                    [HubNext]_hubVars
             PROVE  SentHolds'
  OBVIOUS
<1>1. CASE PushBegin \/ HubStop \/ HubOff \/ UNCHANGED hubVars
  <2>1. sent' = sent /\ readIdx' = readIdx /\ dropped' = dropped /\ Served' = Served
    BY <1>1 DEF PushBegin, HubStop, HubOff, hubVars, ringVars, listVars, Served
  <2>2. QED BY <2>1 DEF SentHolds
<1>2. ASSUME NEW c \in Browsers, NEW n \in 1..MaxTogether, Upgrade(c, n) PROVE SentHolds'
  <2>1. sent' = sent /\ readIdx' = readIdx /\ dropped' = dropped
    BY <1>2 DEF Upgrade, ringVars
  <2>2. Range(clients) \subseteq Range(clients')
    <3>1. clients \in Seq(Browsers)
      BY DEF ListHolds
    <3>2. \/ Range(clients') = Range(clients)
          \/ Range(clients') = Range(clients) \cup {c}
      BY <1>2, <3>1, UpgradeAdds, Zenon
    <3>3. QED BY <3>2
  <2>3. Served \subseteq Served'
    BY <1>2, <2>2 DEF Upgrade, Served
  <2>4. QED BY <2>1, <2>3 DEF SentHolds
<1>3. ASSUME NEW c \in Browsers, Closes(c) PROVE SentHolds'
  <2>1. /\ sent' = [sent EXCEPT ![c] = <<>>] /\ readIdx' = readIdx /\ dropped' = dropped
        /\ Served' = Served \ {c}
    BY <1>3, LeftTakesOne DEF Closes, ringVars, Served
  <2>2. InOrder(<<>>, readIdx) /\ Gapless(<<>>, readIdx, dropped) /\ <<>> \in Seq(Nat)
    BY DEF InOrder, Gapless
  <2>3. QED BY <2>1, <2>2 DEF SentHolds
<1>4. QED BY <1>1, <1>2, <1>3, BroadcastSends, PushSends DEF HubNext

LEMMA SentHoldsInit == HubInit => SentHolds
<1> SUFFICES ASSUME HubInit PROVE SentHolds
  OBVIOUS
<1>1. sent = [c \in Browsers |-> <<>>] /\ <<>> \in Seq(Nat)
  BY DEF HubInit
<1>2. QED BY <1>1 DEF SentHolds, InOrder, Gapless

-----------------------------------------------------------------------------
LEMMA LeftShrinks ==
  ASSUME ListHolds, NEW c \in Browsers
  PROVE  Len(Left(c)) <= Len(clients)
<1>1. Len(clients) \in Nat
  BY DEF ListHolds
<1>2. CASE c \in Range(clients)
  <2>1. Len(clients) # 0
    BY <1>2 DEF ListHolds, Range
  <2>2. Left(c) = [k \in 1..(Len(clients) - 1) |->
                     IF k = FirstEntry(c) THEN Last(clients) ELSE clients[k]]
    BY <1>2 DEF Left
  <2>3. QED BY <1>1, <2>1, <2>2
<1>3. CASE c \notin Range(clients)
  BY <1>1, <1>3 DEF Left
<1>4. QED BY <1>2, <1>3

\* The list never outgrows its array.
LEMMA ListFits ==
  ListHolds /\ Len(clients) <= MaxClients /\ [HubNext]_hubVars
  => Len(clients') <= MaxClients
<1> SUFFICES ASSUME ListHolds, Len(clients) <= MaxClients, [HubNext]_hubVars
             PROVE  Len(clients') <= MaxClients
  OBVIOUS
<1>1. CASE clients' = clients
  BY <1>1
<1>2. ASSUME NEW c \in Browsers, NEW n \in 1..MaxTogether, Upgrade(c, n)
      PROVE  Len(clients') <= MaxClients
  BY <1>2, UpgradeAdds DEF ListHolds
<1>3. ASSUME NEW c \in Browsers, Closes(c) PROVE Len(clients') <= MaxClients
  <2>1. clients' = Left(c) /\ Len(Left(c)) <= Len(clients) /\ Len(Left(c)) \in Nat
    BY <1>3, LeftShrinks, LeftTakesOne DEF Closes
  <2>2. Len(clients) \in Nat /\ MaxClients \in Nat
    BY HubConstants DEF ListHolds
  <2>3. QED BY <2>1, <2>2
<1>4. QED
  BY <1>1, <1>2, <1>3
  DEF HubNext, PushBegin, PushFrame, Broadcasts, HubStop, HubOff, hubVars, listVars

HubInv == RingHolds /\ ListHolds /\ SentHolds /\ Len(clients) <= MaxClients

LEMMA HubInvariant == HubSpec => []HubInv
<1>1. HubInit => HubInv
  <2>1. HubInit => Len(clients) <= MaxClients
    BY WebHubAssumption DEF HubInit
  <2>2. QED BY <2>1, RingHoldsInit, ListHoldsInit, SentHoldsInit DEF HubInv
<1>2. HubInv /\ [HubNext]_hubVars => HubInv'
  BY RingHoldsNext, ListHoldsNext, SentHoldsNext, ListFits DEF HubInv
<1>3. QED BY <1>1, <1>2, PTL DEF HubSpec

\* For rings of every size: what waits is the newest frames, each in its own slot.
THEOREM NewestFramesWait == HubSpec => []NewestPending
BY HubInvariant, PTL DEF HubInv, RingHolds

\* For any number of browsers and places: every open connection is listed, but for
\* those that found the list full; closed ones and second entries are only of
\* connections that were listed twice.
THEOREM ListIsOpen == HubSpec => []OnlyOpenClients
BY HubInvariant, PTL DEF HubInv, ListHolds

\* For any number of browsers and frames: each browser gets the frames in order, and
\* from its first one on misses only those that were overrun; a frame comes twice only
\* to those that are listed twice.
THEOREM FramesOnceInOrder == HubSpec => []EachFrameOnce
<1>1. HubInv => EachFrameOnce
  BY DEF HubInv, ListHolds, SentHolds, InOrder, Gapless, EachFrameOnce
<1>2. QED BY <1>1, HubInvariant, PTL

-----------------------------------------------------------------------------
(* The ring and the list are a queue that drops its oldest. *)

\* Numbers from r on.
From(r, n) == [k \in 1..n |-> r + k - 1]

\* What the reader finds is the frames between its indices.
LEMMA WaitingIs ==
  ASSUME RingHolds
  PROVE  /\ Waiting = From(readIdx, writeIdx - readIdx)
         /\ Waiting \in Seq(Nat) /\ Len(Waiting) = writeIdx - readIdx
<1>1. readIdx \in Nat /\ writeIdx \in Nat /\ readIdx <= writeIdx
  BY DEF RingHolds, HubTypes
<1>2. Waiting = From(readIdx, writeIdx - readIdx)
  <2>1. \A i \in readIdx..(writeIdx - 1) : frameRing[Cell(i)] = i
    BY DEF RingHolds, NewestPending
  <2>2. \A k \in 1..(writeIdx - readIdx) :
          frameRing[Cell(readIdx + k - 1)] = readIdx + k - 1
    BY <1>1, <2>1
  <2>3. QED BY <2>2 DEF Waiting, From
<1>3. From(readIdx, writeIdx - readIdx) \in Seq(Nat)
      /\ Len(From(readIdx, writeIdx - readIdx)) = writeIdx - readIdx
  BY <1>1 DEF From
<1>4. QED BY <1>2, <1>3

LEMMA FromGrows ==
  ASSUME NEW r \in Nat, NEW n \in Nat
  PROVE  /\ Append(From(r, n), r + n) = From(r, n + 1)
         /\ n > 0 => Tail(From(r, n)) = From(r + 1, n - 1)
<1>1. From(r, n) \in Seq(Nat) /\ Len(From(r, n)) = n
  BY DEF From
<1>2. Append(From(r, n), r + n) = From(r, n + 1)
  BY <1>1 DEF From
<1>3. ASSUME n > 0 PROVE Tail(From(r, n)) = From(r + 1, n - 1)
  BY <1>1, <1>3 DEF From
<1>4. QED BY <1>2, <1>3

LEMMA PushQueues == RingHolds /\ RingHolds' /\ PushFrame => Queue!Push
<1> SUFFICES ASSUME RingHolds, RingHolds', PushFrame PROVE Queue!Push
  OBVIOUS
<1> DEFINE n == writeIdx - readIdx
<1>1. /\ readIdx' = IF Overrun THEN readIdx + 1 ELSE readIdx
      /\ writeIdx' = writeIdx + 1 /\ Served' = Served /\ sent' = sent
  BY DEF PushFrame, listVars, Served
<1>2. readIdx \in Nat /\ writeIdx \in Nat /\ n \in Nat /\ n <= RingSlots
      /\ RingSlots \in Nat \ {0}
  BY HubConstants DEF RingHolds, HubTypes, NewestPending
<1>3. Waiting = From(readIdx, n) /\ Len(Waiting) = n
  BY WaitingIs
<1>4. Waiting' = From(readIdx', writeIdx' - readIdx')
  <2>1. readIdx' \in Nat /\ writeIdx' \in Nat /\ readIdx' <= writeIdx'
    BY DEF RingHolds, HubTypes
  <2>2. \A i \in readIdx'..(writeIdx' - 1) : frameRing'[Cell(i)] = i
    BY DEF RingHolds, NewestPending
  <2>3. PICK x, y, g : x = readIdx' /\ y = writeIdx' /\ g = frameRing'
    OBVIOUS
  <2>4. [k \in 1..(y - x) |-> g[Cell(x + k - 1)]] = From(x, y - x)
    <3>1. x \in Nat /\ y \in Nat /\ x <= y
      BY <2>1, <2>3
    <3>2. \A i \in x..(y - 1) : g[Cell(i)] = i
      BY <2>2, <2>3
    <3>3. \A k \in 1..(y - x) : g[Cell(x + k - 1)] = x + k - 1
      BY <3>1, <3>2
    <3>4. QED BY <3>3 DEF From
  <2>5. Waiting' = [k \in 1..(y - x) |-> g[Cell(x + k - 1)]]
    BY <2>3 DEF Waiting
  <2>6. QED BY <2>3, <2>4, <2>5
<1>5. Waiting' = Append(IF Len(Waiting) < RingSlots THEN Waiting ELSE Tail(Waiting), writeIdx)
  <2>1. CASE n < RingSlots
    <3>1. readIdx' = readIdx /\ writeIdx' - readIdx' = n + 1 /\ readIdx + n = writeIdx
      BY <2>1, <1>1, <1>2 DEF Overrun
    <3>2. Append(From(readIdx, n), writeIdx) = From(readIdx, n + 1)
      BY <3>1, <1>2, FromGrows
    <3>3. QED BY <2>1, <3>1, <3>2, <1>3, <1>4
  <2>2. CASE n = RingSlots
    <3>1. /\ readIdx' = readIdx + 1 /\ writeIdx' - readIdx' = (n - 1) + 1
          /\ (readIdx + 1) + (n - 1) = writeIdx /\ n > 0 /\ n - 1 \in Nat /\ readIdx + 1 \in Nat
      BY <2>2, <1>1, <1>2 DEF Overrun
    <3> HIDE DEF n
    <3>2. Tail(From(readIdx, n)) = From(readIdx + 1, n - 1)
      BY <3>1, <1>2, FromGrows
    <3>3. Append(From(readIdx + 1, n - 1), writeIdx) = From(readIdx + 1, (n - 1) + 1)
      BY <3>1, FromGrows
    <3>4. ~(Len(Waiting) < RingSlots)
      BY <2>2, <1>2, <1>3
    <3>5. QED BY <3>1, <3>2, <3>3, <3>4, <1>3, <1>4
  <2>3. QED BY <2>1, <2>2, <1>2
<1>6. QED BY <1>1, <1>5 DEF Queue!Push

LEMMA BroadcastDelivers == RingHolds /\ RingHolds' /\ Broadcasts => Queue!Deliver
<1> SUFFICES ASSUME RingHolds, RingHolds', Broadcasts PROVE Queue!Deliver
  OBVIOUS
<1>1. /\ readIdx' = writeIdx /\ writeIdx' = writeIdx /\ Served' = Served
      /\ readIdx # writeIdx /\ Upto = writeIdx
  BY UptoWriter DEF Broadcasts, ReadOn, listVars, Served
<1>2. sent' = [c \in Browsers |->
                 IF c \in Served THEN sent[c] \o Waiting ELSE sent[c]]
  BY <1>1 DEF Broadcasts, Waiting
<1>3. Waiting # <<>>
  <2>1. readIdx \in Nat /\ writeIdx \in Nat /\ Len(Waiting) = writeIdx - readIdx
    BY WaitingIs DEF RingHolds, HubTypes
  <2>2. Len(Waiting) # 0
    BY <2>1, <1>1
  <2>3. QED BY <2>2
<1>4. Waiting' = <<>>
  <2>1. writeIdx' - readIdx' = 0
    <3>1. writeIdx \in Nat
      BY DEF RingHolds, HubTypes
    <3>2. QED BY <3>1, <1>1
  <2>2. QED BY <2>1 DEF Waiting
<1>5. QED BY <1>1, <1>2, <1>3, <1>4 DEF Queue!Deliver

\* Whoever finds the list full does not listen, and leaves unnoticed.
LEMMA HubStepQueue ==
  HubInv /\ HubInv' /\ [HubNext]_hubVars => [Queue!Next]_Queue!queueVars
<1> SUFFICES ASSUME HubInv, HubInv', [HubNext]_hubVars
             PROVE  Queue!Next \/ UNCHANGED Queue!queueVars
  OBVIOUS
<1>1. ASSUME UNCHANGED <<frameRing, readIdx, writeIdx>>
      PROVE  Waiting' = Waiting
  BY <1>1 DEF Waiting
<1>2. CASE PushFrame
  BY <1>2, PushQueues DEF HubInv, Queue!Next
<1>3. CASE Broadcasts
  BY <1>3, BroadcastDelivers DEF HubInv, Queue!Next
<1>4. CASE PushBegin \/ HubStop \/ HubOff \/ UNCHANGED hubVars
  <2>1. UNCHANGED <<frameRing, readIdx, writeIdx, sent, Served>>
    BY <1>4 DEF PushBegin, HubStop, HubOff, hubVars, ringVars, listVars, Served
  <2>2. QED BY <1>1, <2>1 DEF Queue!queueVars
<1>5. ASSUME NEW c \in Browsers, NEW n \in 1..MaxTogether, Upgrade(c, n)
      PROVE  Queue!Next \/ UNCHANGED Queue!queueVars
  <2>1. /\ UNCHANGED <<frameRing, readIdx, writeIdx>> /\ sent' = sent
        /\ upgraded' = upgraded \cup {c} /\ c \notin upgraded
    BY <1>5 DEF Upgrade, ringVars
  <2>2. IF Placed(n) = 0 THEN Range(clients') = Range(clients)
        ELSE Range(clients') = Range(clients) \cup {c}
    BY <1>5, UpgradeAdds DEF HubInv, ListHolds
  <2>3. c \notin Served /\ Served' \in {Served, Served \cup {c}}
    BY <2>1, <2>2 DEF Served
  <2>4. CASE Served' = Served \cup {c}
    <3>1. Queue!Join(c)
      BY <2>1, <2>3, <2>4, <1>1 DEF Queue!Join
    <3>2. QED BY <3>1 DEF Queue!Next
  <2>5. CASE Served' = Served
    BY <2>1, <2>5, <1>1 DEF Queue!queueVars
  <2>6. QED BY <2>3, <2>4, <2>5
<1>6. ASSUME NEW c \in Browsers, Closes(c) PROVE Queue!Next \/ UNCHANGED Queue!queueVars
  <2>1. /\ UNCHANGED <<frameRing, readIdx, writeIdx>>
        /\ sent' = [sent EXCEPT ![c] = <<>>]
        /\ Served' = Served \ {c}
    BY <1>6, LeftTakesOne DEF Closes, HubInv, ringVars, Served
  <2>2. CASE c \in Served
    <3>1. Queue!Leave(c)
      BY <2>1, <2>2, <1>1 DEF Queue!Leave
    <3>2. QED BY <3>1 DEF Queue!Next
  <2>3. CASE c \notin Served
    <3>1. sent[c] = <<>> /\ sent \in [Browsers -> Seq(Nat)]
      BY <2>3 DEF HubInv, SentHolds
    <3>2. sent' = sent
      BY <3>1, <2>1
    <3>3. QED BY <3>2, <2>1, <2>3, <1>1 DEF Queue!queueVars
  <2>4. QED BY <2>2, <2>3
<1>7. QED BY <1>2, <1>3, <1>4, <1>5, <1>6 DEF HubNext

\* The hub implements the queue, for rings and lists of every size: each push, each
\* broadcast and each client that comes or goes is one step of the queue, or none.
THEOREM HubImplementsQueue == HubSpec => HubKeepsQueue
<1>1. HubInit => Queue!Init
  <2> SUFFICES ASSUME HubInit PROVE Queue!Init
    OBVIOUS
  <2>1. Waiting \in Seq(Nat) /\ Len(Waiting) = 0
    BY RingHoldsInit, WaitingIs DEF HubInit
  <2>2. Waiting = <<>>
    BY <2>1
  <2>3. Served = {}
    BY DEF HubInit, Served
  <2>4. QED BY <2>2, <2>3 DEF HubInit, Queue!Init
<1>2. QED
  BY <1>1, HubStepQueue, HubInvariant, PTL DEF HubSpec, HubKeepsQueue, Queue!Spec

-----------------------------------------------------------------------------
(* Types: the list never outgrows its array, and no frame is one not yet pushed. *)

LEMMA HubTypesNext ==
  HubInv /\ HubInv' /\ HubTypeOK /\ [HubNext]_hubVars => HubTypeOK'
<1> SUFFICES ASSUME HubInv, HubInv', HubTypeOK, [HubNext]_hubVars PROVE HubTypeOK'
  OBVIOUS
<1>1. /\ RingSlots \in Nat \ {0} /\ MaxClients \in Nat \ {0} /\ MaxPushed \in Nat
      /\ RingHolds /\ ListHolds
  BY HubConstants, WebHubAssumption DEF HubInv
\* The list and what is known of it.
<1>0. /\ clients' \in Seq(Browsers) /\ Len(clients') <= MaxClients
      /\ upgraded' \subseteq Browsers /\ unlisted' \subseteq upgraded'
      /\ doubled' \subseteq Browsers /\ again' \subseteq upgraded'
  BY DEF HubInv, ListHolds
<1>2. CASE PushFrame
  <2>0. pushBegun /\ pushBegun' = FALSE
    BY <1>2 DEF PushFrame
  <2>1. /\ writeIdx < MaxPushed /\ writeIdx' = writeIdx + 1
        /\ readIdx' = IF Overrun THEN readIdx + 1 ELSE readIdx
        /\ dropped' = IF Overrun THEN dropped \cup {readIdx} ELSE dropped
        /\ frameRing' = [frameRing EXCEPT ![Cell(writeIdx)] = writeIdx]
        /\ UNCHANGED <<hub, sent>>
    BY <1>2, <2>0 DEF PushFrame, Filled, HubTypeOK
  <2>2. readIdx \in Nat /\ writeIdx \in Nat /\ readIdx <= writeIdx
    BY <1>1 DEF RingHolds, HubTypes
  <2>3. writeIdx \in Pushed /\ readIdx \in Pushed /\ writeIdx' \in 0..MaxPushed
    BY <1>1, <2>1, <2>2 DEF Pushed
  <2>4. readIdx' \in 0..writeIdx'
    BY DEF HubInv, RingHolds, HubTypes
  <2>5. frameRing' \in [Cells -> Pushed \cup {-1}]
    BY <2>1, <2>3 DEF HubTypeOK
  <2>6. dropped' \subseteq Pushed
    BY <2>1, <2>3 DEF HubTypeOK
  <2>7. hub' \in {"on", "leaving", "off"} /\ sent' \in [Browsers -> Seq(Pushed)]
    BY <2>1 DEF HubTypeOK, Pushed
  <2>8. QED BY <1>0, <2>0, <2>3, <2>4, <2>5, <2>6, <2>7 DEF HubTypeOK, Pushed
<1>3. CASE Broadcasts
  <2>1. /\ readIdx' = writeIdx /\ writeIdx' = writeIdx
        /\ UNCHANGED <<hub, dropped, pushBegun>>
        /\ sent' = [c \in Browsers |->
                      IF c \in Served THEN sent[c] \o Waiting ELSE sent[c]]
        /\ frameRing' = [k \in Cells |->
             IF \E i \in readIdx..(Upto - 1) : Cell(i) = k THEN -1 ELSE frameRing[k]]
    BY <1>1, <1>3, UptoWriter DEF Broadcasts, ReadOn, Waiting
  <2>2. readIdx \in Nat /\ writeIdx \in Nat /\ writeIdx \in 0..MaxPushed
    BY DEF HubTypeOK
  <2>3. Waiting \in Seq(Pushed)
    <3>1. Waiting = [k \in 1..(writeIdx - readIdx) |-> readIdx + k - 1]
          /\ writeIdx - readIdx \in Nat
      BY <1>1, WaitingIs DEF From, RingHolds, HubTypes
    <3>2. \A k \in 1..(writeIdx - readIdx) : readIdx + k - 1 \in Pushed
      BY <1>1, <2>2 DEF Pushed
    <3>3. QED BY <3>1, <3>2
  <2>4. sent' \in [Browsers -> Seq(Pushed)]
    <3>1. \A s \in Seq(Pushed) : s \o Waiting \in Seq(Pushed)
      BY <2>3
    <3>2. QED BY <2>1, <3>1 DEF HubTypeOK
  <2>5. frameRing' \in [Cells -> Pushed \cup {-1}]
    BY <2>1 DEF HubTypeOK
  <2>6. readIdx' \in 0..writeIdx' /\ writeIdx' \in 0..MaxPushed
    BY <2>1, <2>2
  <2>7. /\ hub' \in {"on", "leaving", "off"} /\ dropped' \subseteq Pushed
        /\ pushBegun' \in BOOLEAN /\ (pushBegun' => writeIdx' < MaxPushed)
    BY <2>1 DEF HubTypeOK
  <2>8. QED BY <1>0, <2>4, <2>5, <2>6, <2>7 DEF HubTypeOK, Pushed
<1>4. ASSUME UNCHANGED ringVars, sent' \in [Browsers -> Seq(Pushed)],
             hub' \in {"on", "leaving", "off"}
      PROVE  HubTypeOK'
  <2>1. UNCHANGED <<frameRing, readIdx, writeIdx, pushBegun, dropped>>
    BY <1>4 DEF ringVars
  <2>2. QED BY <1>0, <1>4, <2>1 DEF HubTypeOK, Pushed
<1>5. ASSUME NEW c \in Browsers, NEW n \in 1..MaxTogether, Upgrade(c, n) PROVE HubTypeOK'
  BY <1>4, <1>5 DEF Upgrade, HubTypeOK
<1>6. ASSUME NEW c \in Browsers, Closes(c) PROVE HubTypeOK'
  <2>1. sent' = [sent EXCEPT ![c] = <<>>] /\ UNCHANGED <<ringVars, hub>>
    BY <1>6 DEF Closes
  <2>2. sent' \in [Browsers -> Seq(Pushed)]
    <3>1. <<>> \in Seq(Pushed) /\ sent \in [Browsers -> Seq(Pushed)]
      BY DEF HubTypeOK
    <3>2. QED BY <2>1, <3>1
  <2>3. QED BY <1>4, <2>1, <2>2 DEF HubTypeOK
<1>7. CASE HubStop \/ HubOff \/ UNCHANGED hubVars
  <2>1. UNCHANGED ringVars /\ sent' = sent /\ hub' \in {hub, "leaving", "off"}
    BY <1>7 DEF HubStop, HubOff, hubVars
  <2>2. QED BY <1>4, <2>1 DEF HubTypeOK
<1>8. CASE PushBegin
  <2>1. /\ UNCHANGED <<frameRing, readIdx, writeIdx, dropped, hub, sent>>
        /\ pushBegun' = TRUE /\ writeIdx < MaxPushed
    BY <1>8 DEF PushBegin
  <2>2. QED BY <1>0, <2>1 DEF HubTypeOK, Pushed
<1>9. QED BY <1>2, <1>3, <1>5, <1>6, <1>7, <1>8 DEF HubNext

\* For any number of browsers, places and frames: indices stay in order, what is sent
\* are frames that were pushed, and the list stays within ws_clients.
THEOREM HubTypesHold == HubSpec => []HubTypeOK
<1>1. HubInit => HubTypeOK
  <2> SUFFICES ASSUME HubInit PROVE HubTypeOK
    OBVIOUS
  <2>1. MaxPushed \in Nat /\ MaxClients \in Nat
    BY HubConstants, WebHubAssumption
  <2>2. pushBegun = FALSE
    BY DEF HubInit
  <2>3. sent \in [Browsers -> Seq(Pushed)]
    BY DEF HubInit
  <2>4. pushBegun \in BOOLEAN /\ (pushBegun => writeIdx < MaxPushed)
    BY <2>2
  <2>5. QED BY <2>1, <2>3, <2>4 DEF HubInit, HubTypeOK
<1>2. HubInv /\ HubInv' /\ HubTypeOK /\ [HubNext]_hubVars => HubTypeOK'
  BY HubTypesNext
<1>3. QED BY <1>1, <1>2, HubInvariant, PTL DEF HubSpec

-----------------------------------------------------------------------------
(***************************************************************************)
(* The gallery: one entry for each track and each name, and the better     *)
(* face kept, for every size of the gallery, any names and any scores.     *)
(***************************************************************************)

\* Behind the count there are only strays.
CountCovers ==
  \A i \in Places :
    Active(i) => \/ i <= listed
                 \/ gallery[i].track \in strayTracks /\ gallery[i].name \in strayNames

GalleryInv == GalleryTypeOK /\ CountCovers /\ OneEntryPerTrack /\ OneEntryPerName

LEMMA GalleryConstants ==
  /\ GallerySlots \in Nat \ {0} /\ Ttl \in Nat /\ Nobody \notin Names
  /\ Scores \in SUBSET Int /\ IsFiniteSet(Scores) /\ Scores # {}
  /\ Empty \notin Faces
BY GalleryAssumption DEF Faces

LEMMA GalleryInitInv == GalleryInit => GalleryInv
BY GalleryConstants
DEF GalleryInit, GalleryInv, GalleryTypeOK, CountCovers, OneEntryPerTrack,
    OneEntryPerName, Active, Shown

\* A stray stays one while it has an entry, and nobody else becomes one.
LEMMA StraysStay ==
  ASSUME NEW T, NEW N, Strays(T, N)
  PROVE  /\ strayTracks' \subseteq TracksIn(gallery') /\ strayNames' \subseteq NamesIn(gallery')
         /\ strayTracks' \subseteq T /\ strayNames' \subseteq N
         /\ \A i \in Places : Active(i)' =>
              /\ gallery'[i].track \in T => gallery'[i].track \in strayTracks'
              /\ gallery'[i].name \in N => gallery'[i].name \in strayNames'
<1>1. \A i \in Places : Active(i)' => /\ gallery'[i].track \in TracksIn(gallery')
                                      /\ gallery'[i].name \in NamesIn(gallery')
  BY DEF Active, TracksIn, NamesIn
<1>2. strayTracks' = T \cap TracksIn(gallery') /\ strayNames' = N \cap NamesIn(gallery')
  BY DEF Strays
<1>3. QED BY <1>1, <1>2

LEMMA EntryType ==
  ASSUME GalleryTypeOK
  PROVE  /\ \A i \in Places : Active(i) => gallery[i] \in Faces
         /\ \A i \in Places : Active(i) => gallery[i].age \in 0..(Ttl + 1)
         /\ \A i \in Shown : i \in Places /\ i \in 1..listed /\ i <= listed /\ Active(i)
         /\ \A i \in Places : i <= listed /\ Active(i) => i \in Shown
         /\ listed \in 0..GallerySlots
<1>1. \A i \in Places : Active(i) => gallery[i] \in Faces
  BY DEF GalleryTypeOK, Active
<1>2. \A f \in Faces : f.age \in 0..(Ttl + 1)
  BY DEF Faces
<1>3. listed \in 0..GallerySlots
  BY DEF GalleryTypeOK
<1>4. /\ \A i \in Shown : i \in Places /\ i \in 1..listed /\ i <= listed /\ Active(i)
      /\ \A i \in Places : i <= listed /\ Active(i) => i \in Shown
  BY <1>3, GalleryConstants DEF Shown, Places
<1>5. QED BY <1>1, <1>2, <1>3, <1>4

\* With all entries in use, one of them is the oldest.
LEMMA OldestEntry ==
  ASSUME GalleryTypeOK, \A i \in Places : Active(i)
  PROVE  \E i \in Places : \A k \in Places :
           gallery[i].age > gallery[k].age \/ (gallery[i].age = gallery[k].age /\ i <= k)
<1> DEFINE age == [i \in Places |-> gallery[i].age]
<1>1. age \in [1..GallerySlots -> 0..(Ttl + 1)]
  BY EntryType DEF Places
<1>2. Ttl + 1 \in Nat /\ GallerySlots \in Nat \ {0}
  BY GalleryConstants
<1>3. PICK i \in 1..GallerySlots : \A k \in 1..GallerySlots :
        age[i] > age[k] \/ (age[i] = age[k] /\ i <= k)
  <2> HIDE DEF age
  <2>1. QED BY <1>1, <1>2, HasOldest
<1>4. QED BY <1>3 DEF Places

\* A set of places has a first one.
LEMMA FirstPlace ==
  ASSUME NEW S \in SUBSET Places, S # {}
  PROVE  Min(S) \in S /\ \A k \in S : Min(S) <= k
<1>1. 1 \in Int /\ GallerySlots \in Int
  BY GalleryConstants
<1>2. S \in SUBSET Int /\ IsFiniteSet(S)
  BY <1>1, PartOfInterval, Zenon DEF Places
<1>3. QED BY <1>2, MinOf

\* The track's own entry is taken if it has one.
LEMMA PlaceOf ==
  ASSUME GalleryTypeOK, NEW t \in GalleryTracks
  PROVE  /\ Place(t) \in Places
         /\ ShownOf(t) # {} => Place(t) \in ShownOf(t)
         /\ ShownOf(t) = {} => Place(t) \in Room \/ OldestOfAll(Place(t))
<1>1. CASE ShownOf(t) # {}
  <2>1. ShownOf(t) \in SUBSET Places
    BY EntryType DEF ShownOf
  <2>2. Min(ShownOf(t)) \in ShownOf(t)
    BY <1>1, <2>1, FirstPlace
  <2>3. QED BY <1>1, <2>1, <2>2 DEF Place
<1>2. CASE ShownOf(t) = {} /\ Room # {}
  <2>1. Room \in SUBSET Places
    BY DEF Room
  <2>2. Min(Room) \in Room
    BY <1>2, <2>1, FirstPlace
  <2>3. QED BY <1>2, <2>1, <2>2 DEF Place
<1>3. CASE ShownOf(t) = {} /\ Room = {}
  <2>1. \A i \in Places : Active(i)
    BY <1>3 DEF Room
  <2>2. Place(t) = CHOOSE i \in Places : \A k \in Places :
           gallery[i].age > gallery[k].age \/ (gallery[i].age = gallery[k].age /\ i <= k)
    BY <1>3 DEF Place
  <2>3. /\ Place(t) \in Places
        /\ \A k \in Places : \/ gallery[Place(t)].age > gallery[k].age
                             \/ gallery[Place(t)].age = gallery[k].age /\ Place(t) <= k
    BY <2>1, <2>2, OldestEntry
  <2>4. \A k \in Places : Active(k) /\ ~Expired(k) /\ gallery[k].age \in Int
    BY <1>3, <2>1, EntryType DEF Room
  <2>5. \A k \in Places : gallery[k].age <= gallery[Place(t)].age
    <3>1. SUFFICES ASSUME NEW k \in Places PROVE gallery[k].age <= gallery[Place(t)].age
      OBVIOUS
    <3>2. PICK a \in Int : a = gallery[k].age
      BY <2>4
    <3>3. PICK b \in Int : b = gallery[Place(t)].age
      BY <2>3, <2>4
    <3>4. QED BY <2>3, <3>2, <3>3
  <2>6. QED BY <1>3, <2>3, <2>4, <2>5 DEF OldestOfAll
<1>4. QED BY <1>1, <1>2, <1>3

\* What an update does to each entry.
Updated(i, t, n, s, count, rivals, wins) ==
  /\ i \in Places /\ (ShownOf(t) # {} => i \in ShownOf(t))
  /\ count \in 0..GallerySlots /\ listed <= count /\ i <= count
  /\ \A k \in Places : k <= count => k <= listed \/ k <= i
  /\ listed' = count /\ found' = found /\ Strays(strayTracks, strayNames)
  /\ rivals = Rivals(i, n, count) /\ rivals \in SUBSET Places
  /\ rivals # {} => Min(rivals) \in rivals
  /\ wins => rivals = {} \/ gallery[Min(rivals)].score < s
  /\ ~wins => rivals # {}
  /\ DOMAIN gallery' = Places
  /\ gallery' = [k \in Places |-> gallery'[k]]
  /\ gallery'[i] = IF wins THEN [track |-> t, name |-> n, score |-> s, age |-> 0]
                   ELSE Empty
  /\ \A k \in Places \ {i} :
       gallery'[k] = IF wins /\ rivals # {} /\ k = Min(rivals) THEN Empty ELSE gallery[k]

LEMMA UpdateIs ==
  ASSUME GalleryTypeOK, NEW t \in GalleryTracks, NEW n, NEW s, GalleryUpdate(t, n, s)
  PROVE  \E rivals, wins, count : Updated(Place(t), t, n, s, count, rivals, wins)
<1>1. PICK i : i = Place(t)
  OBVIOUS
<1>2. i \in Places /\ (ShownOf(t) # {} => i \in ShownOf(t))
  BY <1>1, PlaceOf
<1>3. PICK count : count = Max({listed, i})
  OBVIOUS
<1>4. /\ count = IF listed < i THEN i ELSE listed
      /\ i \in 1..GallerySlots /\ listed \in 0..GallerySlots /\ GallerySlots \in Nat
  <2>1. i \in Int /\ listed \in Int /\ i \in 1..GallerySlots /\ listed \in 0..GallerySlots
    BY <1>2, EntryType, GalleryConstants DEF Places
  <2>2. QED BY <1>3, <2>1, MaxOfTwo, GalleryConstants
<1>5. PICK rivals, wins : rivals = Rivals(i, n, count) /\ wins = Wins(rivals, s)
  OBVIOUS
<1>6. /\ listed' = count /\ found' = found /\ Strays(strayTracks, strayNames)
      /\ gallery' = [k \in Places |->
           IF k = i THEN (IF wins THEN [track |-> t, name |-> n, score |-> s, age |-> 0]
                          ELSE Empty)
           ELSE IF wins /\ rivals # {} /\ k = Min(rivals) THEN Empty
           ELSE gallery[k]]
  BY <1>1, <1>3, <1>5 DEF GalleryUpdate
<1>7. rivals \in SUBSET Places
  BY <1>4, <1>5 DEF Rivals, Places
<1>8. rivals # {} => Min(rivals) \in rivals
  BY <1>7, FirstPlace
<1>9. count \in 0..GallerySlots /\ listed <= count /\ i <= count
  BY <1>4
<1>10. \A k \in Places : k <= count => k <= listed \/ k <= i
  BY <1>4
<1>11. Updated(i, t, n, s, count, rivals, wins)
  BY <1>2, <1>5, <1>6, <1>7, <1>8, <1>9, <1>10 DEF Updated, Wins
<1>12. QED BY <1>1, <1>11

LEMMA UpdateInv ==
  ASSUME GalleryInv, NEW t \in GalleryTracks, NEW n \in Names \cup {Nobody},
         NEW s \in Scores, GalleryUpdate(t, n, s)
  PROVE  GalleryInv'
<1> USE GalleryConstants
<1>1. PICK i, rivals, wins, count : Updated(i, t, n, s, count, rivals, wins)
  BY UpdateIs DEF GalleryInv
<1> DEFINE new == [track |-> t, name |-> n, score |-> s, age |-> 0]
<1>2. new \in Faces /\ new # Empty
  BY DEF Faces
<1>3. /\ \A k \in Places : Active(k) => gallery[k] \in Faces
      /\ \A k \in Shown : k \in Places /\ k <= listed /\ Active(k)
      /\ \A k \in Places : k <= listed /\ Active(k) => k \in Shown
      /\ listed \in 0..GallerySlots
  BY EntryType DEF GalleryInv
<1>4. GalleryTypeOK'
  <2>1. \A k \in Places : gallery'[k] \in Faces \cup {Empty}
    BY <1>1, <1>2, <1>3 DEF Updated, Active
  <2>2. gallery' \in [Places -> Faces \cup {Empty}]
    BY <2>1, <1>1 DEF Updated
  <2>3. /\ strayTracks' \subseteq TracksIn(gallery') /\ strayNames' \subseteq NamesIn(gallery')
    BY <1>1, StraysStay DEF Updated
  <2>4. QED BY <2>2, <2>3, <1>1 DEF Updated, GalleryInv, GalleryTypeOK
\* Entries that are not the track's are what they were, or gone.
<1>5. ASSUME NEW k \in Places \ {i}, Active(k)'
      PROVE  Active(k) /\ gallery'[k] = gallery[k]
  BY <1>1, <1>5 DEF Updated, Active
\* Whoever is a stray and still there was and is one.
<1>6. \A k \in Places : Active(k)' =>
        /\ gallery'[k].track \in strayTracks => gallery'[k].track \in strayTracks'
        /\ gallery'[k].name \in strayNames => gallery'[k].name \in strayNames'
  BY <1>1, StraysStay DEF Updated
<1>7. CountCovers'
  <2>1. listed' = count /\ count \in 0..GallerySlots /\ listed <= count /\ i <= count
    BY <1>1 DEF Updated
  <2>2. ASSUME NEW k \in Places, Active(k)', ~(k <= count)
        PROVE  gallery'[k].track \in strayTracks' /\ gallery'[k].name \in strayNames'
    <3>1. k # i
      BY <2>1, <2>2
    <3>2. Active(k) /\ gallery'[k] = gallery[k]
      BY <1>5, <2>2, <3>1
    <3>3. ~(k <= listed)
      <4>1. k \in Int /\ listed \in Int /\ count \in Int
        BY <1>3, <2>1 DEF Places
      <4>2. QED BY <2>1, <2>2, <4>1
    <3>4. QED BY <2>2, <3>2, <3>3, <1>6 DEF GalleryInv, CountCovers
  <2>3. QED BY <2>1, <2>2 DEF CountCovers, Places
<1>8. \A k \in Shown' : k \in Places /\ Active(k)' /\ k <= count
  BY <1>4, EntryType, <1>1 DEF Updated, Shown, Places, Active
\* What is shown now and is no stray was shown before.
<1>9. ASSUME NEW k \in Shown', k # i,
             gallery'[k].track \notin strayTracks' \/ gallery'[k].name \notin strayNames'
      PROVE  k \in Shown /\ gallery'[k] = gallery[k]
  <2>1. k \in Places \ {i} /\ Active(k) /\ gallery'[k] = gallery[k]
    BY <1>5, <1>8, <1>9
  <2>2. k <= listed
    BY <2>1, <1>6, <1>8, <1>9 DEF GalleryInv, CountCovers
  <2>3. QED BY <2>1, <2>2, <1>3
<1>10. ASSUME i \in Shown' PROVE wins /\ gallery'[i] = new
  BY <1>1, <1>8, <1>10 DEF Updated, Active
<1>11. OneEntryPerTrack'
  <2>1. ASSUME NEW k \in Shown', k # i, i \in Shown', gallery'[k].track = t,
               t \notin strayTracks'
        PROVE  FALSE
    <3>1. k \in Shown /\ gallery'[k] = gallery[k]
      BY <1>9, <2>1
    <3>2. k \in ShownOf(t)
      BY <3>1, <2>1 DEF ShownOf
    <3>3. i \in ShownOf(t)
      BY <3>2, <1>1 DEF Updated
    <3>4. t \notin strayTracks
      BY <1>6, <1>8, <2>1
    <3>5. QED BY <3>2, <3>3, <3>4, <2>1 DEF ShownOf, GalleryInv, OneEntryPerTrack
  <2>2. ASSUME NEW j \in Shown', NEW k \in Shown', j # k,
               gallery'[j].track = gallery'[k].track, gallery'[j].track \notin strayTracks'
        PROVE  FALSE
    <3>1. CASE j = i
      BY <3>1, <2>1, <2>2, <1>10
    <3>2. CASE k = i
      BY <3>2, <2>1, <2>2, <1>10
    <3>3. CASE j # i /\ k # i
      <4>1. /\ j \in Shown /\ gallery'[j] = gallery[j]
            /\ k \in Shown /\ gallery'[k] = gallery[k]
        BY <3>3, <1>9, <2>2
      <4>2. gallery[j].track \notin strayTracks
        BY <4>1, <1>6, <1>8, <2>2
      <4>3. QED BY <4>1, <4>2, <2>2 DEF GalleryInv, OneEntryPerTrack
    <3>4. QED BY <3>1, <3>2, <3>3
  <2>3. QED BY <2>2 DEF OneEntryPerTrack
<1>12. OneEntryPerName'
  <2>1. ASSUME NEW k \in Shown', k # i, i \in Shown', n # Nobody,
               gallery'[k].name = n, n \notin strayNames'
        PROVE  FALSE
    <3>1. k \in Shown /\ gallery'[k] = gallery[k] /\ k \in Places /\ Active(k)
          /\ gallery[k].name = n
      BY <1>3, <1>9, <2>1
    <3>2. n \notin strayNames
      BY <1>6, <1>8, <2>1
    <3>3. k \in 1..count
      <4>1. k <= count /\ k \in 1..GallerySlots /\ count \in 0..GallerySlots
        BY <3>1, <1>8, <2>1, <1>1 DEF Updated, Places
      <4>2. QED BY <4>1
    <3>4. k \in rivals
      BY <3>1, <3>3, <2>1, <1>1 DEF Updated, Rivals
    <3>5. PICK m : m = Min(rivals) /\ m \in rivals
      BY <3>4, <1>1 DEF Updated
    <3>6. m \in Places /\ m # i /\ Active(m) /\ gallery[m].name = n /\ m \in 1..count
      BY <3>5, <1>1 DEF Updated, Rivals
    <3>7. m \in Shown
      <4>1. m <= listed
        BY <3>2, <3>6 DEF GalleryInv, CountCovers
      <4>2. QED BY <4>1, <3>6, <1>3
    <3>8. m = k
      BY <3>1, <3>2, <3>6, <3>7, <2>1 DEF GalleryInv, OneEntryPerName
    <3>9. gallery'[k] = Empty
      BY <3>1, <3>4, <3>5, <3>8, <2>1, <1>1, <1>10 DEF Updated
    <3>10. QED BY <3>9, <1>8, <2>1 DEF Active
  <2>2. ASSUME NEW j \in Shown', NEW k \in Shown', j # k,
               gallery'[j].name = gallery'[k].name,
               gallery'[j].name \notin strayNames' \cup {Nobody}
        PROVE  FALSE
    <3>1. CASE j = i
      BY <3>1, <2>1, <2>2, <1>10
    <3>2. CASE k = i
      BY <3>2, <2>1, <2>2, <1>10
    <3>3. CASE j # i /\ k # i
      <4>1. /\ j \in Shown /\ gallery'[j] = gallery[j]
            /\ k \in Shown /\ gallery'[k] = gallery[k]
        BY <3>3, <1>9, <2>2
      <4>2. gallery[j].name \notin strayNames
        BY <4>1, <1>6, <1>8, <2>2
      <4>3. QED BY <4>1, <4>2, <2>2 DEF GalleryInv, OneEntryPerName
    <3>4. QED BY <3>1, <3>2, <3>3
  <2>3. QED BY <2>2 DEF OneEntryPerName
<1>13. QED BY <1>4, <1>7, <1>11, <1>12 DEF GalleryInv

\* While the count stays, what is shown was there to be shown before.
LEMMA ShownPlaces ==
  ASSUME GalleryTypeOK, listed' = listed
  PROVE  \A i \in Shown' : i \in Places /\ i \in 1..listed /\ Active(i)'
<1>1. listed \in 0..GallerySlots /\ GallerySlots \in Nat
  BY GalleryConstants DEF GalleryTypeOK
<1>2. \A i \in 1..listed : i \in Places
  BY <1>1 DEF Places
<1>3. \A i \in Shown' : i \in 1..listed /\ Active(i)'
  BY DEF Shown
<1>4. QED BY <1>2, <1>3

\* Entries only go, and those that stay keep their track, name and score.
LEMMA OnlyFewer ==
  ASSUME GalleryInv, listed' = listed, Strays(strayTracks, strayNames),
         found' \in 0..GallerySlots, gallery' \in [Places -> Faces \cup {Empty}],
         \A i \in Places : Active(i)' => Active(i) /\ gallery'[i].track = gallery[i].track
                                                /\ gallery'[i].name = gallery[i].name
  PROVE  GalleryInv'
<1>1. /\ strayTracks' \subseteq TracksIn(gallery') /\ strayNames' \subseteq NamesIn(gallery')
      /\ \A i \in Places : Active(i)' =>
           /\ gallery[i].track \in strayTracks => gallery'[i].track \in strayTracks'
           /\ gallery[i].name \in strayNames => gallery'[i].name \in strayNames'
  BY StraysStay
<1>2. GalleryTypeOK'
  BY <1>1 DEF GalleryInv, GalleryTypeOK
<1>3. CountCovers'
  BY <1>1 DEF GalleryInv, CountCovers
<1>4. \A i \in Shown' : /\ i \in Shown /\ i \in Places /\ Active(i)'
                        /\ gallery'[i].track = gallery[i].track
                        /\ gallery'[i].name = gallery[i].name
  BY ShownPlaces DEF GalleryInv, Shown
<1>5. OneEntryPerTrack'
  BY <1>1, <1>4 DEF GalleryInv, OneEntryPerTrack
<1>6. OneEntryPerName'
  BY <1>1, <1>4 DEF GalleryInv, OneEntryPerName
<1>7. QED BY <1>2, <1>3, <1>5, <1>6 DEF GalleryInv

LEMMA PruneGalleryInv == GalleryInv /\ GalleryPrune => GalleryInv'
<1> SUFFICES ASSUME GalleryInv, GalleryPrune PROVE GalleryInv'
  OBVIOUS
<1>1. /\ gallery' = [i \in Places |->
                       IF i \in Shown /\ Expired(i) THEN Empty ELSE gallery[i]]
      /\ listed' = listed /\ found' = found /\ Strays(strayTracks, strayNames)
  BY DEF GalleryPrune
<1>2. gallery' \in [Places -> Faces \cup {Empty}] /\ found \in 0..GallerySlots
  BY <1>1 DEF GalleryInv, GalleryTypeOK
<1>3. QED BY <1>1, <1>2, OnlyFewer DEF Active

LEMMA AgeGallery ==
  ASSUME GalleryInv, GalleryTick
  PROVE  /\ gallery' \in [Places -> Faces \cup {Empty}]
         /\ \A i \in Places :
              IF Active(i)
                THEN Active(i)' /\ gallery'[i].track = gallery[i].track
                     /\ gallery'[i].name = gallery[i].name
                     /\ gallery'[i].score = gallery[i].score
                ELSE ~Active(i)'
<1>1. gallery' = [i \in Places |->
        IF Active(i) THEN [gallery[i] EXCEPT !.age = Min({gallery[i].age + 1, Ttl + 1})]
        ELSE Empty]
  BY DEF GalleryTick
<1>2. ASSUME NEW i \in Places, Active(i)
      PROVE  /\ gallery'[i] \in Faces /\ gallery'[i].track = gallery[i].track
             /\ gallery'[i].name = gallery[i].name /\ gallery'[i].score = gallery[i].score
  <2>1. gallery[i] \in Faces /\ gallery[i].age \in 0..(Ttl + 1)
    BY <1>2, EntryType DEF GalleryInv
  <2>2. PICK a : a = Min({gallery[i].age + 1, Ttl + 1})
    OBVIOUS
  <2>3. a \in 0..(Ttl + 1)
    <3>1. a = IF gallery[i].age + 1 < Ttl + 1 THEN gallery[i].age + 1 ELSE Ttl + 1
      BY <2>1, <2>2, MinOfTwo, GalleryConstants
    <3>2. QED BY <2>1, <3>1, GalleryConstants
  <2>4. gallery'[i] = [gallery[i] EXCEPT !.age = a]
    BY <1>1, <1>2, <2>2
  <2>5. QED BY <2>1, <2>3, <2>4 DEF Faces
<1>3. \A i \in Places : ~Active(i) => gallery'[i] = Empty
  BY <1>1
<1>4. gallery' \in [Places -> Faces \cup {Empty}]
  BY <1>1, <1>2, <1>3
<1>5. QED BY <1>2, <1>3, <1>4, GalleryConstants DEF Active

LEMMA WriteInv ==
  ASSUME GalleryInv, NEW n \in Names, RegisterWrite(n)
  PROVE  GalleryInv'
<1>1. /\ found # 0 /\ found' = 0 /\ listed' = listed
      /\ gallery' = IF ~Active(found) THEN gallery
                    ELSE [gallery EXCEPT ![found] =
                            [gallery[found] EXCEPT !.name = n, !.score = Max(Scores)]]
  BY DEF RegisterWrite
<1>2. found \in Places
  BY <1>1, GalleryConstants DEF GalleryInv, GalleryTypeOK, Places
<1>3. Max(Scores) \in Scores
  BY MaxOf, GalleryConstants
<1>4. ASSUME Active(found)
      PROVE  LET f == [gallery[found] EXCEPT !.name = n, !.score = Max(Scores)]
             IN f \in Faces /\ f.track = gallery[found].track
  <2>1. gallery[found] \in Faces
    BY <1>2, <1>4, EntryType DEF GalleryInv
  <2>2. PICK m \in Scores : m = Max(Scores)
    BY <1>3
  <2>3. QED BY <2>1, <2>2 DEF Faces
<1>5. PICK N : N = IF Active(found) THEN strayNames \cup {n} ELSE strayNames
  OBVIOUS
<1>6. /\ gallery' \in [Places -> Faces \cup {Empty}]
      /\ \A i \in Places :
           /\ Active(i)' <=> Active(i)
           /\ Active(i) => gallery'[i].track = gallery[i].track
           /\ Active(i) => \/ gallery'[i].name = gallery[i].name
                           \/ gallery'[i].name \in N
           /\ strayNames \subseteq N
  <2>1. CASE ~Active(found)
    BY <1>1, <1>5, <2>1 DEF GalleryInv, GalleryTypeOK, Active
  <2>2. CASE Active(found)
    <3>1. PICK f : f = [gallery[found] EXCEPT !.name = n, !.score = Max(Scores)]
      OBVIOUS
    <3>2. f \in Faces /\ f.track = gallery[found].track /\ f.name = n
      BY <1>2, <1>4, <2>2, <3>1, EntryType DEF GalleryInv, Faces
    <3>3. gallery' = [gallery EXCEPT ![found] = f]
      BY <1>1, <2>2, <3>1
    <3>4. f # Empty /\ n \in N
      BY <3>2, <1>5, <2>2, GalleryConstants
    <3>5. QED
      BY <1>2, <1>5, <2>2, <3>2, <3>3, <3>4 DEF GalleryInv, GalleryTypeOK, Active
  <2>3. QED BY <2>1, <2>2
<1>7. Strays(strayTracks, N)
  BY <1>5 DEF RegisterWrite
<1>8. /\ strayTracks' \subseteq TracksIn(gallery') /\ strayNames' \subseteq NamesIn(gallery')
      /\ \A i \in Places : Active(i)' =>
           /\ gallery[i].track \in strayTracks => gallery'[i].track \in strayTracks'
           /\ gallery[i].name \in strayNames => gallery'[i].name \in strayNames'
           /\ gallery'[i].name # gallery[i].name => gallery'[i].name \in strayNames'
  <2>1. /\ strayTracks' \subseteq TracksIn(gallery') /\ strayNames' \subseteq NamesIn(gallery')
        /\ \A i \in Places : Active(i)' =>
             /\ gallery'[i].track \in strayTracks => gallery'[i].track \in strayTracks'
             /\ gallery'[i].name \in N => gallery'[i].name \in strayNames'
    BY <1>7, StraysStay
  <2>2. ASSUME NEW i \in Places, Active(i)'
        PROVE  /\ gallery[i].track \in strayTracks => gallery'[i].track \in strayTracks'
               /\ gallery[i].name \in strayNames => gallery'[i].name \in strayNames'
               /\ gallery'[i].name # gallery[i].name => gallery'[i].name \in strayNames'
    <3>1. gallery'[i].track = gallery[i].track
      BY <1>6, <2>2
    <3>2. gallery'[i].name = gallery[i].name \/ gallery'[i].name \in N
      BY <1>6, <2>2
    <3>3. strayNames \subseteq N
      BY <1>5
    <3>4. QED BY <2>1, <2>2, <3>1, <3>2, <3>3
  <2>3. \A i \in Places : Active(i)' =>
          /\ gallery[i].track \in strayTracks => gallery'[i].track \in strayTracks'
          /\ gallery[i].name \in strayNames => gallery'[i].name \in strayNames'
          /\ gallery'[i].name # gallery[i].name => gallery'[i].name \in strayNames'
    BY <2>2
  <2>4. QED BY <2>1, <2>3, Zenon
<1>9. GalleryTypeOK'
  <2>1. gallery' \in [Places -> Faces \cup {Empty}]
    BY <1>6, Zenon
  <2>2. listed' \in 0..GallerySlots /\ found' \in 0..GallerySlots
    BY <1>1, GalleryConstants DEF GalleryInv, GalleryTypeOK
  <2>3. QED BY <2>1, <2>2, <1>8, Zenon DEF GalleryTypeOK
<1>10. CountCovers'
  BY <1>1, <1>6, <1>8 DEF GalleryInv, CountCovers
<1>11. \A i \in Shown' : /\ i \in Shown /\ i \in Places /\ Active(i)'
                         /\ gallery'[i].track = gallery[i].track
  BY <1>1, <1>6, ShownPlaces DEF GalleryInv, Shown
<1>12. OneEntryPerTrack'
  BY <1>8, <1>11 DEF GalleryInv, OneEntryPerTrack
<1>13. OneEntryPerName'
  BY <1>8, <1>11 DEF GalleryInv, OneEntryPerName
<1>14. QED BY <1>9, <1>10, <1>12, <1>13 DEF GalleryInv

LEMMA GalleryNextInv == GalleryInv /\ [GalleryNext]_galleryVars => GalleryInv'
<1> SUFFICES ASSUME GalleryInv, [GalleryNext]_galleryVars PROVE GalleryInv'
  OBVIOUS
<1>1. GalleryTypeOK
  BY DEF GalleryInv
<1>2. ASSUME UNCHANGED <<gallery, listed, strayTracks, strayNames>>,
             found' \in 0..GallerySlots
      PROVE  GalleryInv'
  <2>1. Strays(strayTracks, strayNames)
    BY <1>1, <1>2 DEF GalleryTypeOK, Strays
  <2>2. QED BY <1>1, <1>2, <2>1, OnlyFewer DEF GalleryTypeOK, Active
<1>3. CASE GalleryPrune
  BY <1>3, PruneGalleryInv
<1>4. CASE GalleryClear
  <2>1. gallery' = gallery /\ listed' = 0 /\ found' = found
        /\ Strays(TracksIn(gallery), strayNames \cup NamesIn(gallery))
    BY <1>4 DEF GalleryClear
  <2>2. /\ strayTracks' \subseteq TracksIn(gallery') /\ strayNames' \subseteq NamesIn(gallery')
        /\ \A i \in Places : Active(i)' =>
             /\ gallery'[i].track \in TracksIn(gallery) =>
                  gallery'[i].track \in strayTracks'
             /\ gallery'[i].name \in strayNames \cup NamesIn(gallery) =>
                  gallery'[i].name \in strayNames'
    BY <2>1, StraysStay
  <2>3. GalleryTypeOK'
    BY <1>1, <2>1, <2>2, GalleryConstants DEF GalleryTypeOK
  <2>4. CountCovers'
    BY <2>1, <2>2 DEF CountCovers, Active, TracksIn, NamesIn
  <2>5. Shown' = {}
    BY <2>1 DEF Shown
  <2>6. QED BY <2>3, <2>4, <2>5 DEF GalleryInv, OneEntryPerTrack, OneEntryPerName
<1>5. ASSUME NEW t \in GalleryTracks, RegisterFind(t) PROVE GalleryInv'
  <2>1. ShownOf(t) \in SUBSET Places /\ ShownOf(t) # {}
    BY <1>1, <1>5, EntryType DEF ShownOf, RegisterFind
  <2>2. found' \in Places
    BY <1>5, <2>1, FirstPlace DEF RegisterFind
  <2>3. found' \in 0..GallerySlots
    BY <2>2, GalleryConstants DEF Places
  <2>4. QED BY <1>2, <1>5, <2>3 DEF RegisterFind
<1>6. CASE RegisterFails
  BY <1>2, <1>6, GalleryConstants DEF RegisterFails
<1>7. CASE GalleryTick
  <2>1. UNCHANGED <<listed, found>> /\ Strays(strayTracks, strayNames)
    BY <1>7 DEF GalleryTick
  <2>2. QED BY <1>1, <1>7, <2>1, AgeGallery, OnlyFewer DEF GalleryTypeOK
<1>8. CASE UNCHANGED galleryVars
  BY <1>1, <1>2, <1>8 DEF galleryVars, GalleryTypeOK
<1>9. QED
  BY <1>3, <1>4, <1>5, <1>6, <1>7, <1>8, UpdateInv, WriteInv DEF GalleryNext

LEMMA GalleryInvariant == GallerySpec => []GalleryInv
<1>1. GalleryInit => GalleryInv
  BY GalleryInitInv
<1>2. GalleryInv /\ [GalleryNext]_galleryVars => GalleryInv'
  BY GalleryNextInv
<1>3. QED BY <1>1, <1>2, PTL DEF GallerySpec

\* The count stays within the table, and every entry is a face or free.
THEOREM GalleryTypesHold == GallerySpec => []GalleryTypeOK
<1>1. GalleryInv => GalleryTypeOK
  BY DEF GalleryInv
<1>2. QED BY <1>1, GalleryInvariant, PTL

\* A track has one entry, for a gallery of any size, any tracks, names, scores and
\* time to live, whatever else the web thread does; only the tracks that had an entry
\* when the gallery was cleared may have two, as long as they have one.
THEOREM TracksHaveOneEntry == GallerySpec => []OneEntryPerTrack
<1>1. GalleryInv => OneEntryPerTrack
  BY DEF GalleryInv
<1>2. QED BY <1>1, GalleryInvariant, PTL

\* A name is shown once, for a gallery of any size; only a name that had an entry when
\* the gallery was cleared, or that the web thread wrote into one, may be shown twice,
\* as long as it has one.
THEOREM NamesAreShownOnce == GallerySpec => []OneEntryPerName
<1>1. GalleryInv => OneEntryPerName
  BY DEF GalleryInv
<1>2. QED BY <1>1, GalleryInvariant, PTL

-----------------------------------------------------------------------------
\* One that stays as it is, or only gets older.
LEMMA StaysShown ==
  ASSUME GalleryInv, NEW i \in Shown, listed <= listed', listed' \in 0..GallerySlots,
         Active(i)', gallery'[i].name = gallery[i].name,
         gallery'[i].score = gallery[i].score
  PROVE  GivesWay(i)
<1>1. i \in 1..listed /\ gallery[i] \in Faces /\ listed \in 0..GallerySlots
  BY EntryType DEF GalleryInv
<1>2. i \in Shown'
  BY <1>1 DEF Shown
<1>3. gallery[i].score \in Int
  BY <1>1, GalleryConstants DEF Faces
<1>4. gallery'[i].score >= gallery[i].score
  BY <1>3
<1>5. QED BY <1>2, <1>4 DEF GivesWay

LEMMA UpdateKeepsBest ==
  ASSUME GalleryInv, NEW t \in GalleryTracks, NEW n \in Names \cup {Nobody},
         NEW s \in Scores, GalleryUpdate(t, n, s), NEW i \in Shown
  PROVE  GivesWay(i)
<1> USE GalleryConstants
<1>1. PICK p, rivals, wins, count :
        p = Place(t) /\ Updated(p, t, n, s, count, rivals, wins)
  BY UpdateIs DEF GalleryInv
<1>2. i \in Places /\ Active(i) /\ i \in 1..listed /\ gallery[i] \in Faces
  BY EntryType DEF GalleryInv
<1>3. CASE i = p
  <2>1. UpdateOf(t)
    BY DEF UpdateOf
  <2>2. CASE ShownOf(t) # {}
    <3>1. gallery[i].track = t
      BY <1>1, <1>3, <2>2, PlaceOf DEF ShownOf, GalleryInv
    <3>2. QED BY <2>1, <3>1 DEF GivesWay
  <2>3. CASE ShownOf(t) = {}
    <3>1. i \in Room \/ OldestOfAll(i)
      BY <1>1, <1>3, <2>3, PlaceOf DEF GalleryInv
    <3>2. CASE i \in Room
      BY <1>2, <3>2 DEF Room, GivesWay
    <3>3. CASE OldestOfAll(i)
      BY <2>1, <2>3, <3>3 DEF GivesWay
    <3>4. QED BY <3>1, <3>2, <3>3
  <2>4. QED BY <2>2, <2>3
<1>4. CASE i # p /\ gallery'[i] = gallery[i]
  <2>1. Active(i)' /\ listed <= listed' /\ listed' \in 0..GallerySlots
    BY <1>1, <1>2, <1>4 DEF Active, Updated
  <2>2. QED BY <1>4, <2>1, StaysShown
<1>5. CASE i # p /\ gallery'[i] # gallery[i]
  <2>1. wins /\ rivals # {} /\ i = Min(rivals) /\ i \in rivals
    BY <1>1, <1>2, <1>5 DEF Updated
  <2>2. gallery[i].name = n /\ gallery[i].score < s
    BY <1>1, <2>1 DEF Updated, Rivals
  <2>3. gallery'[p] = [track |-> t, name |-> n, score |-> s, age |-> 0] /\ p \in Places
        /\ p <= listed' /\ listed' \in 0..GallerySlots
    BY <1>1, <2>1 DEF Updated
  <2>4. gallery'[p] \in Faces /\ gallery'[p].name = n /\ gallery'[p].score = s
    BY <2>3 DEF Faces
  <2>5. p \in Shown'
    BY <2>3, <2>4 DEF Shown, Active, Places
  <2>6. gallery[i].score \in Int /\ s \in Int
    BY <1>2 DEF Faces
  <2>7. gallery'[p].score >= gallery[i].score
    BY <2>2, <2>4, <2>6
  <2>8. QED BY <2>2, <2>4, <2>5, <2>7 DEF GivesWay
<1>6. QED BY <1>3, <1>4, <1>5

LEMMA StepKeepsBest ==
  GalleryInv /\ [GalleryNext]_galleryVars => \A i \in Shown : GivesWay(i)
<1> SUFFICES ASSUME GalleryInv, [GalleryNext]_galleryVars, NEW i \in Shown
             PROVE  GivesWay(i)
  OBVIOUS
<1>1. i \in Places /\ Active(i) /\ listed \in 0..GallerySlots
  BY EntryType DEF GalleryInv
<1>2. ASSUME gallery' = gallery, listed' = listed PROVE GivesWay(i)
  BY <1>1, <1>2, StaysShown DEF Active
<1>3. CASE GalleryPrune
  <2>1. Expired(i) \/ (gallery'[i] = gallery[i] /\ listed' = listed)
    BY <1>1, <1>3 DEF GalleryPrune
  <2>2. QED BY <1>1, <2>1, StaysShown DEF Active, GivesWay
<1>4. CASE GalleryClear
  BY <1>4 DEF GivesWay
<1>5. ASSUME NEW t \in GalleryTracks, RegisterFind(t) PROVE GivesWay(i)
  BY <1>2, <1>5 DEF RegisterFind
<1>6. ASSUME NEW n \in Names, RegisterWrite(n) PROVE GivesWay(i)
  <2>1. CASE found = i
    BY <1>6, <2>1 DEF GivesWay
  <2>2. CASE found # i
    <3>1. gallery'[i] = gallery[i] /\ listed' = listed
      BY <1>1, <1>6, <2>2 DEF RegisterWrite, GalleryInv, GalleryTypeOK
    <3>2. QED BY <1>1, <3>1, StaysShown DEF Active
  <2>3. QED BY <2>1, <2>2
<1>7. CASE RegisterFails
  BY <1>2, <1>7 DEF RegisterFails
<1>8. CASE GalleryTick
  <2>1. listed' = listed
    BY <1>8 DEF GalleryTick
  <2>2. QED BY <1>1, <1>8, <2>1, AgeGallery, StaysShown
<1>9. CASE UNCHANGED galleryVars
  BY <1>2, <1>9 DEF galleryVars
<1>10. QED
  BY <1>3, <1>4, <1>5, <1>6, <1>7, <1>8, <1>9, UpdateKeepsBest DEF GalleryNext

\* For a gallery of any size, also after it was cleared: a face shown for a name gives
\* way only to one of that name that is as good, to an update of its own track, to its
\* age, to a new track when it is the oldest of a full gallery, or in the step in which
\* the web thread clears the gallery or names it (face_gallery_update and prune).
THEOREM BestFacesAreKept == GallerySpec => BestKept
<1>1. GalleryInv /\ [GalleryNext]_galleryVars => KeepsBest
  BY StepKeepsBest DEF KeepsBest
<1>2. QED BY <1>1, GalleryInvariant, PTL DEF GallerySpec, BestKept

=============================================================================
