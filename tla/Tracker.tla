------------------------------ MODULE Tracker -------------------------------
(***************************************************************************)
(* object_tracker_update (src/src/tracking_manager.c), which the           *)
(* postprocess thread runs on every frame: the life of the tracks.         *)
(*                                                                         *)
(* A box is its place on a line, three units long, so that overlaps are    *)
(* computed as the code does.  The Kalman filter may put a track anywhere  *)
(* near its last box.  hungarian_solve is taken at what module Hungarian   *)
(* shows of it: a complete matching, the best one when it is square.       *)
(* Left out: re-identification, which no detection can meet (its feature   *)
(* has four key points, fewer than the five that make it valid); poses and *)
(* key points, which a track has only once it is confirmed; positions,     *)
(* kept as the question whether one has jumped.                            *)
(***************************************************************************)
EXTENDS Integers, Sequences, FiniteSets, FiniteSetsExt

CONSTANTS Spots,         \* where boxes are
          Drift,         \* how far a prediction may be from the last box
          MaxTracks,     \* TRACKING_MAX_TRACKS
          ConfirmHits,   \* confirmation_frames
          MaxAge,        \* cascade_max_age
          MaxLost,       \* max_lost
          MaxOccluded,   \* max_occluded
          Patience,      \* frames an unconfirmed track may be lost: 3
          MaxDets,       \* bound: detections in a frame
          MaxIds         \* bound: tracks created

ASSUME TrackerAssumption ==
  /\ Spots \subseteq Int /\ Drift \in Nat
  /\ {MaxTracks, ConfirmHits, MaxAge, MaxLost, MaxOccluded, Patience} \subseteq Nat \ {0}
  /\ MaxDets \in Nat /\ MaxIds \in Nat

VARIABLES tracks,   \* tracker->tracks
          nextId,   \* next_id
          step,     \* the step of the update that is running, "idle" between frames
          turn,     \* the place its loop has reached
          dets,     \* the detections of the frame
          where,    \* predicted_bboxes
          pairs,    \* which detection each track is matched with, 0 for none
          ages      \* history: how long each track had been lost when the matching began

trackerVars == <<tracks, nextId, step, turn, dets, where, pairs, ages>>

Detections == [box : Spots, high : BOOLEAN]
Frames == UNION {[1..n -> Detections] : n \in 0..MaxDets}
Highs(ds) == {d \in DOMAIN ds : ds[d].high}

\* bbox_iou in per cent, and the thresholds.
Iou(a, b) == LET d == IF a > b THEN a - b ELSE b - a
             IN IF d >= 3 THEN 0 ELSE (100 * (3 - d)) \div (3 + d)
IouMatch == 30
IouLow   == 15
IouNew   == 35
IouMerge == 55

Oldest(a, b) == IF a > b THEN a ELSE b

TrackerInit ==
  /\ tracks = <<>> /\ nextId = 0
  /\ step = "idle" /\ turn = 1
  /\ dets = <<>> /\ where = <<>> /\ pairs = <<>> /\ ages = <<>>

\* remove_track: the later ones move up.
Without(s, i) == [k \in 1..(Len(s) - 1) |-> IF k < i THEN s[k] ELSE s[k + 1]]

Sure(tr, hits) == tr.confirmed \/ hits >= ConfirmHits

\* update_track_match.  Hits stop counting where they confirm the track.
Hit(tr, box, jump, part) ==
  LET back == IF jump /\ tr.hits > 1 THEN Oldest(1, tr.hits - 2) ELSE tr.hits
      hits == IF back + 1 > ConfirmHits THEN ConfirmHits ELSE back + 1
  IN [id |-> tr.id, box |-> box, hits |-> hits, lost |-> 0,
      confirmed |-> Sure(tr, back + 1), partial |-> part]

Frame(ds) ==
  /\ step = "idle"
  /\ nextId + Cardinality(Highs(ds)) <= MaxIds
  /\ step' = "predict" /\ turn' = 1 /\ dets' = ds
  /\ UNCHANGED <<tracks, nextId, where, pairs, ages>>

\* A track is moved on, or removed when its box is degenerate.
Predict ==
  /\ step = "predict" /\ turn <= Len(tracks)
  /\ \/ \E b \in Spots :
          /\ b - tracks[turn].box \in (-Drift)..Drift
          /\ where' = Append(where, b)
          /\ turn' = turn + 1 /\ UNCHANGED tracks
     \/ tracks' = Without(tracks, turn) /\ UNCHANGED <<where, turn>>
  /\ UNCHANGED <<nextId, step, dets, pairs, ages>>

\* The tracks of one age, and the detections left to them by the younger ones.
AgeGroup(a) == {i \in DOMAIN tracks : tracks[i].lost + 1 = a}
LeftTo(a, m) ==
  DOMAIN dets \ {m[i] : i \in {k \in DOMAIN tracks : tracks[k].lost + 1 < a}}

Overlap(group, m) == MapThenSumSet(LAMBDA i : Iou(where[i], dets[m[i]].box), group)

\* Bug: the oldest tracks choose first.
MutOldFirst(m) ==
  /\ \A i, k \in DOMAIN tracks : m[i] = m[k] => i = k \/ m[i] = 0
  /\ \A i \in DOMAIN tracks : tracks[i].lost + 1 > MaxAge => m[i] = 0
  /\ \A a \in 1..MaxAge :
       LET left == DOMAIN dets \ {m[i] : i \in {k \in DOMAIN tracks : tracks[k].lost + 1 > a}}
       IN Cardinality({i \in AgeGroup(a) : m[i] # 0})
            = Min({Cardinality(AgeGroup(a)), Cardinality(left)})

\* cascade_matching: age by age, each group matched as far as it goes.  No pair is
\* ever refused: its appearance costs 0.5, which the gate lets pass at any overlap.
Cascaded(m) ==
  /\ \A i, k \in DOMAIN tracks : m[i] = m[k] => i = k \/ m[i] = 0
  /\ \A i \in DOMAIN tracks : tracks[i].lost + 1 > MaxAge => m[i] = 0
  /\ \A a \in 1..MaxAge :
       LET group == AgeGroup(a)
           left  == LeftTo(a, m)
       IN /\ Cardinality({i \in group : m[i] # 0})
               = Min({Cardinality(group), Cardinality(left)})
          /\ Cardinality(group) = Cardinality(left) =>
               \A o \in [group -> left] :
                 (\A i, k \in group : o[i] = o[k] => i = k)
                   => Overlap(group, o) <= Overlap(group, m)

Cascade ==
  /\ step = "predict" /\ turn > Len(tracks)
  /\ \E m \in [DOMAIN tracks -> 0..Len(dets)] :
       /\ IF Highs(dets) = {} THEN \A i \in DOMAIN tracks : m[i] = 0 ELSE Cascaded(m)
       /\ pairs' = m
       /\ \E jumped \in SUBSET {i \in DOMAIN tracks :
                                  m[i] # 0 /\ ~tracks[i].confirmed /\ tracks[i].hits > 1} :
            tracks' = [i \in DOMAIN tracks |->
                         IF m[i] = 0 THEN tracks[i]
                         ELSE Hit(tracks[i], dets[m[i]].box, i \in jumped, FALSE)]
  /\ ages' = [i \in DOMAIN tracks |-> tracks[i].lost]
  /\ step' = "recover" /\ turn' = 1
  /\ UNCHANGED <<nextId, dets, where>>

\* The detection that overlaps the track most: of equals the first, confident ones
\* before the others.
Free == DOMAIN dets \ {pairs[i] : i \in DOMAIN pairs}
Before(d, e) == (dets[d].high /\ ~dets[e].high) \/ (dets[d].high = dets[e].high /\ d <= e)
Best(d) ==
  /\ Iou(where[turn], dets[d].box) > IouLow
  /\ \A e \in Free :
       LET mine == Iou(where[turn], dets[d].box)
           its  == Iou(where[turn], dets[e].box)
       IN mine > its \/ (mine = its /\ Before(d, e))

\* Bug: a confirmed track is not counted as lost.
MutMissed(tr, b) == [tr EXCEPT !.box = b, !.lost = IF tr.confirmed THEN @ ELSE @ + 1]

Missed(tr, b) == [tr EXCEPT !.box = b, !.lost = @ + 1]

\* A loose match with a confident box of usual size counts as part of a body.
Part(d, usual) ==
  usual /\ dets[d].high /\ Iou(where[turn], dets[d].box) < IouMatch

\* Stage B for one track, and what becomes of it if it stays unmatched.
Recover ==
  /\ step = "recover" /\ turn <= Len(tracks)
  /\ \/ /\ pairs[turn] # 0 /\ UNCHANGED <<tracks, pairs>>
     \/ \E d \in Free, jump, usual \in BOOLEAN :
          /\ pairs[turn] = 0 /\ Best(d)
          /\ pairs' = [pairs EXCEPT ![turn] = d]
          /\ tracks' = [tracks EXCEPT ![turn] = Hit(@, dets[d].box, jump, Part(d, usual))]
     \/ /\ pairs[turn] = 0 /\ ~\E d \in Free : Best(d)
        /\ tracks' = [tracks EXCEPT ![turn] = Missed(@, where[turn])]
        /\ UNCHANGED pairs
  /\ turn' = turn + 1
  /\ UNCHANGED <<nextId, step, dets, where, ages>>

SpawnStart ==
  /\ step = "recover" /\ turn > Len(tracks)
  /\ step' = "spawn" /\ turn' = 1
  /\ UNCHANGED <<tracks, nextId, dets, where, pairs, ages>>

\* Bug: the id is the place in the list.
MutNewTrack(d) ==
  [id |-> Len(tracks), box |-> dets[d].box, hits |-> 1, lost |-> 0,
   confirmed |-> FALSE, partial |-> FALSE]

NewTrack(d) ==
  [id |-> nextId, box |-> dets[d].box, hits |-> 1, lost |-> 0,
   confirmed |-> FALSE, partial |-> FALSE]

\* Bug: a detection that some track already has founds a new one.
MutWanted(d) == dets[d].high /\ Len(tracks) < MaxTracks

\* A confident detection nobody took, away from every track: create_track.
Wanted(d) ==
  /\ dets[d].high /\ d \in Free /\ Len(tracks) < MaxTracks
  /\ \A i \in DOMAIN tracks : Iou(dets[d].box, tracks[i].box) <= IouNew

Spawn ==
  /\ step = "spawn" /\ turn <= Len(dets)
  /\ IF Wanted(turn)
       THEN tracks' = Append(tracks, NewTrack(turn)) /\ nextId' = nextId + 1
       ELSE UNCHANGED <<tracks, nextId>>
  /\ turn' = turn + 1
  /\ UNCHANGED <<step, dets, where, pairs, ages>>

RemoveStart ==
  /\ step = "spawn" /\ turn > Len(dets)
  /\ step' = "remove" /\ turn' = Len(tracks)
  /\ UNCHANGED <<tracks, nextId, dets, where, pairs, ages>>

\* How long a track may be lost.
Limit(tr) == IF ~tr.confirmed THEN Patience
             ELSE IF tr.partial THEN MaxOccluded ELSE MaxLost

GivenUp(tr) == tr.lost > Limit(tr)

Remove ==
  /\ step = "remove" /\ turn >= 1
  /\ tracks' = IF GivenUp(tracks[turn]) THEN Without(tracks, turn) ELSE tracks
  /\ turn' = turn - 1
  /\ UNCHANGED <<nextId, step, dets, where, pairs, ages>>

\* Two tracks on one person.
Twins(i, k) ==
  /\ i < k
  /\ \A x \in {i, k} : tracks[x].confirmed /\ tracks[x].lost <= 1
  /\ Iou(tracks[i].box, tracks[k].box) >= IouMerge

FirstTwins(i, k) ==
  /\ Twins(i, k)
  /\ \A x, y \in DOMAIN tracks : Twins(x, y) => i < x \/ (i = x /\ k <= y)

Survivor(i, k) ==
  [tracks[i] EXCEPT !.box = tracks[k].box, !.lost = 0,
                    !.hits = Oldest(@, tracks[k].hits)]

\* The older of the two takes over the box, the younger one goes.
Merged(i, k) == Without([tracks EXCEPT ![i] = Survivor(i, k)], k)

\* At most one pair is merged in a frame; then the frame is over.
Merge ==
  /\ step = "remove" /\ turn = 0
  /\ \/ \E i, k \in DOMAIN tracks : FirstTwins(i, k) /\ tracks' = Merged(i, k)
     \/ ~(\E i, k \in DOMAIN tracks : Twins(i, k)) /\ UNCHANGED tracks
  /\ step' = "idle" /\ turn' = 1
  /\ dets' = <<>> /\ where' = <<>> /\ pairs' = <<>> /\ ages' = <<>>
  /\ UNCHANGED nextId

Working == Predict \/ Cascade \/ Recover \/ SpawnStart \/ Spawn
           \/ RemoveStart \/ Remove \/ Merge

TrackerNext == (\E ds \in Frames : Frame(ds)) \/ Working

\* The function does not wait, and the camera goes on delivering frames.
TrackerSpec == TrackerInit /\ [][TrackerNext]_trackerVars /\ WF_trackerVars(TrackerNext)

-----------------------------------------------------------------------------
Tracks == [id : Nat, box : Spots, hits : 1..ConfirmHits, lost : Nat,
           confirmed : BOOLEAN, partial : BOOLEAN]

TrackerTypeOK ==
  /\ tracks \in Seq(Tracks) /\ Len(tracks) <= MaxTracks
  /\ nextId \in Nat
  /\ step \in {"idle", "predict", "recover", "spawn", "remove"}
  /\ turn \in Nat
  /\ dets \in Seq(Detections) /\ where \in Seq(Spots)
  /\ pairs \in Seq(0..Len(dets))
  /\ ages \in Seq(Nat)

\* An id is given to one track only, though tracks are removed and merged from the
\* middle of the list, and the list is in the order of their creation, on which
\* the merge relies to keep the older one.
UniqueIds ==
  /\ \A i, k \in DOMAIN tracks : i < k => tracks[i].id < tracks[k].id
  /\ \A i \in DOMAIN tracks : tracks[i].id < nextId

\* The heading of cascade_matching: a track long out of sight never takes a
\* detection from one that was seen more recently.  (With a confident detection in
\* the frame: without one there is no cascade, and the older track goes first.)
FreshFirst ==
  step \in {"recover", "spawn"} /\ Highs(dets) # {} =>
    \A i, k \in DOMAIN pairs :
      ages[i] < ages[k] /\ ages[i] < MaxAge /\ pairs[k] # 0 => pairs[i] # 0

\* No identity is made up: a frame brings no more new tracks than it has detections
\* over the tracks there were to take them, whatever was predicted.
NewOnlyIfMore ==
  step = "spawn" =>
    LET known == Cardinality({i \in DOMAIN ages : ages[i] < MaxAge})
        new   == Len(tracks) - Len(ages)
    IN new = 0 \/ new + known <= Len(dets)

\* "Lost tracks: removed": once nobody is seen any more, all tracks go, although a
\* merge of two lost tracks starts the count of the older one anew.
TracksForgotten == <>[](dets = <<>>) => <>[](tracks = <<>>)

\* The comment in cascade_matching: the gate depends on the overlap, so that a pair
\* that hardly overlaps is gated out.
GatedOut ==
  step = "recover" /\ turn = 1 =>
    \A i \in DOMAIN pairs :
      pairs[i] # 0 => Iou(where[i], dets[pairs[i]].box) >= IouLow

=============================================================================
