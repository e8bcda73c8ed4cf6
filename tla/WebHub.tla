------------------------------- MODULE WebHub -------------------------------
(***************************************************************************)
(* The frame ring and the client list of the web server                    *)
(* (src/src/web_server.c).  The viz thread pushes a frame now and then; a  *)
(* timer of the web thread sends what is waiting to every browser.  Both   *)
(* hold frame_mutex, so that each is one step, but for the test of running *)
(* before a push; the web thread is the only one that changes the list.    *)
(*                                                                         *)
(* A frame is the value of frame_write_idx when it was pushed, a browser   *)
(* its mg_connection, whose memory serves later connections again.  Left   *)
(* out: pages, commands (see PipelineLifecycle and FaceGallery), pictures, *)
(* and the status messages, which change nothing here.                     *)
(***************************************************************************)
EXTENDS Integers, Sequences, FiniteSets, SequencesExt

CONSTANTS Browsers,    \* connections
          MaxClients,  \* WS_MAX_CLIENTS
          RingSlots,   \* WS_RING_SIZE
          MaxPushed,   \* bound: frames
          MaxTogether  \* bound: upgrades a browser asks for in one read

ASSUME WebHubAssumption ==
  /\ {MaxClients, RingSlots, MaxTogether} \subseteq Nat \ {0} /\ MaxPushed \in Nat

VARIABLES frameRing,   \* the frame in each slot, -1 where has_data is false
          readIdx, writeIdx,
          pushBegun,   \* viz has found the server running and has not pushed yet
          clients,     \* ws_clients
          upgraded,    \* the open connections that mark_ws has marked
          hub,         \* "on", "leaving" once running is false, "off"
          sent,        \* history: the frames each open connection was sent
          again,       \* history: the open ones that were sent some frame twice
          dropped,     \* history: frames that were overrun
          unlisted,    \* history: open connections that found the list full
          doubled      \* history: connections listed twice, while any entry is left

ringVars == <<frameRing, readIdx, writeIdx, pushBegun, dropped>>
listVars == <<clients, upgraded, unlisted, doubled>>
hubVars == <<ringVars, listVars, hub, sent, again>>

Cells == 0..(RingSlots - 1)
Cell(i) == i % RingSlots
Pushed == 0..(MaxPushed - 1)

HubInit ==
  /\ frameRing = [k \in Cells |-> -1]
  /\ readIdx = 0 /\ writeIdx = 0 /\ pushBegun = FALSE
  /\ clients = <<>> /\ upgraded = {} /\ hub = "on"
  /\ sent = [c \in Browsers |-> <<>>] /\ again = {}
  /\ dropped = {} /\ unlisted = {} /\ doubled = {}

\* Bug: the reader is not moved off the frame that is overwritten.
MutOverrun == FALSE

\* There is no room for one more.
Overrun == writeIdx + 1 - readIdx > RingSlots

\* Bug: the slot is not marked as holding data.
MutFilled == frameRing

Filled == [frameRing EXCEPT ![Cell(writeIdx)] = writeIdx]

\* web_server_push_frame_jpeg: running is tested before the lock is taken.  A frame
\* that is too long is refused there, and nothing has changed.
PushBegin ==
  /\ hub = "on" /\ ~pushBegun /\ writeIdx < MaxPushed
  /\ pushBegun' = TRUE
  /\ UNCHANGED <<frameRing, readIdx, writeIdx, dropped, listVars, hub, sent, again>>

\* The push under the lock, whatever has become of the server by then.
PushFrame ==
  /\ pushBegun /\ pushBegun' = FALSE
  /\ readIdx' = IF Overrun THEN readIdx + 1 ELSE readIdx
  /\ dropped' = IF Overrun THEN dropped \cup {readIdx} ELSE dropped
  /\ frameRing' = Filled
  /\ writeIdx' = writeIdx + 1
  /\ UNCHANGED <<listVars, hub, sent, again>>

\* Where the sender stops: at the writer, or at a slot without data.
Upto == CHOOSE e \in readIdx..writeIdx :
          /\ e = writeIdx \/ frameRing[Cell(e)] = -1
          /\ \A i \in readIdx..(e - 1) : frameRing[Cell(i)] # -1

\* Bug: frames that nobody listens to stay in the ring.
MutReadOn == IF clients = <<>> THEN readIdx ELSE Upto

ReadOn == Upto

\* Who is on the list in more than one place.
Repeated(list) ==
  {c \in Browsers : \E j, k \in DOMAIN list : j # k /\ list[j] = c /\ list[k] = c}

\* The open connections on the list.
Served == upgraded \cap Range(clients)

\* broadcast_timer_fn: all that waits, to all on the list, as often as they are on it.
\* What goes to a connection that is closed goes to nobody.
Broadcasts ==
  /\ hub # "off" /\ readIdx # writeIdx
  /\ sent' = [c \in Browsers |->
                IF c \in Served
                THEN sent[c] \o [k \in 1..(Upto - readIdx) |-> frameRing[Cell(readIdx + k - 1)]]
                ELSE sent[c]]
  /\ frameRing' = [k \in Cells |->
                     IF \E i \in readIdx..(Upto - 1) : Cell(i) = k THEN -1 ELSE frameRing[k]]
  /\ again' = again \cup (Served \cap Repeated(clients))
  /\ readIdx' = ReadOn
  /\ UNCHANGED <<writeIdx, pushBegun, dropped, listVars, hub>>

\* As many entries as there is room for.
Placed(n) == IF n <= MaxClients - Len(clients) THEN n ELSE MaxClients - Len(clients)

\* A connection asks to be upgraded, n times in the requests of one read (after it,
\* mg_ws_cb has the connection, also where mg_ws_upgrade refused).  Each time it is
\* marked, and listed while there is room.
Upgrade(c, n) ==
  /\ hub # "off" /\ c \notin upgraded
  /\ upgraded' = upgraded \cup {c}
  /\ clients' = clients \o [k \in 1..Placed(n) |-> c]
  /\ unlisted' = IF Placed(n) = 0 THEN unlisted \cup {c} ELSE unlisted
  /\ doubled' = doubled \cup Repeated(clients')
  /\ UNCHANGED <<ringVars, hub, sent, again>>

\* The first place of a connection on the list.
FirstEntry(c) ==
  CHOOSE p \in DOMAIN clients :
    clients[p] = c /\ \A j \in DOMAIN clients : j < p => clients[j] # c

\* Bug: the list is cut short, whoever was last on it.
MutLeft(c) == IF c \in Range(clients) THEN Front(clients) ELSE clients

\* The last client takes the first place of the one that has gone.
Left(c) ==
  IF c \in Range(clients)
    THEN [k \in 1..(Len(clients) - 1) |->
            IF k = FirstEntry(c) THEN Last(clients) ELSE clients[k]]
    ELSE clients

\* MG_EV_CLOSE
Closes(c) ==
  /\ hub # "off" /\ c \in upgraded
  /\ upgraded' = upgraded \ {c} /\ clients' = Left(c)
  /\ sent' = [sent EXCEPT ![c] = <<>>] /\ again' = again \ {c}
  /\ unlisted' = unlisted \ {c}
  /\ doubled' = IF c \in Range(clients') THEN doubled ELSE doubled \ {c}
  /\ UNCHANGED <<ringVars, hub>>

\* web_server_stop: no more pushes begin; the thread is joined and every connection
\* closed.
HubStop ==
  /\ hub = "on" /\ hub' = "leaving"
  /\ UNCHANGED <<ringVars, listVars, sent, again>>

HubOff ==
  /\ hub = "leaving" /\ upgraded = {} /\ hub' = "off"
  /\ UNCHANGED <<ringVars, listVars, sent, again>>

HubNext ==
  \/ PushBegin \/ PushFrame \/ Broadcasts \/ HubStop \/ HubOff
  \/ \E c \in Browsers : Closes(c) \/ \E n \in 1..MaxTogether : Upgrade(c, n)

\* The timer comes again and again while the web thread runs.
HubFairness == WF_hubVars(hub = "on" /\ Broadcasts)

HubSpec == HubInit /\ [][HubNext]_hubVars /\ HubFairness

-----------------------------------------------------------------------------
HubTypeOK ==
  /\ frameRing \in [Cells -> Pushed \cup {-1}]
  /\ writeIdx \in 0..MaxPushed /\ readIdx \in 0..writeIdx
  /\ clients \in Seq(Browsers) /\ Len(clients) <= MaxClients
  /\ upgraded \subseteq Browsers
  /\ hub \in {"on", "leaving", "off"}
  /\ sent \in [Browsers -> Seq(Pushed)]
  /\ dropped \subseteq Pushed
  /\ unlisted \subseteq upgraded /\ doubled \subseteq Browsers /\ again \subseteq upgraded
  /\ pushBegun \in BOOLEAN /\ (pushBegun => writeIdx < MaxPushed)

\* Although the writer moves the reader's index, what is waiting is always the
\* newest frames, as many as fit, each in the slot the reader expects it in, so
\* that no frame is sent under an index that was meant for another.
NewestPending ==
  /\ writeIdx - readIdx <= RingSlots
  /\ \A i \in readIdx..(writeIdx - 1) : frameRing[Cell(i)] = i
  /\ \A i \in dropped : i < readIdx

\* What the reader will find in the ring, and who is on the list.
Waiting == [k \in 1..(writeIdx - readIdx) |-> frameRing[Cell(readIdx + k - 1)]]

Queue == INSTANCE FrameQueue
         WITH Listeners <- Browsers, Room <- RingSlots, waiting <- Waiting,
              pushed <- writeIdx, listening <- Served, received <- sent

\* The ring whose reader is moved by the writer, and the list whose last client moves
\* to the place of the one that leaves, are a queue that drops its oldest frames and
\* goes to everybody who listens: the open connections that found a place.
HubKeepsQueue == Queue!Spec

\* A browser gets the frames in order, none twice unless it is listed twice, and from
\* its first frame on it misses only those that were overrun, whoever else comes and
\* goes.
EachFrameOnce ==
  /\ again \subseteq doubled
  /\ \A c \in Browsers :
       /\ \A k \in 1..(Len(sent[c]) - 1) : sent[c][k] < sent[c][k + 1]
       /\ sent[c] # <<>> =>
            \A f \in sent[c][1]..(readIdx - 1) :
              f \in Range(sent[c]) \cup dropped

\* Every open connection is on the list, unless the list was full when it came; and
\* the broadcasts use only connections that are open, each one once, but for those
\* that were listed twice: of these an entry stays behind when they close.
OnlyOpenClients ==
  /\ upgraded \ unlisted \subseteq Range(clients)
  /\ Range(clients) \ upgraded \subseteq doubled
  /\ Repeated(clients) \subseteq doubled

\* While the server runs, whatever waits is sent out again and again, so that with
\* EachFrameOnce every browser catches up with the newest frame.
FramesReachClients == []<>(readIdx = writeIdx \/ hub # "on")

=============================================================================
