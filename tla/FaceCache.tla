----------------------------- MODULE FaceCache ------------------------------
(***************************************************************************)
(* The face persistence cache (src/src/system_controller.c).  The face     *)
(* detector runs now and then; in between, the postprocess thread shows    *)
(* each track with the face it was last matched with.                      *)
(*                                                                         *)
(* One action for each face that is matched, in the order of the tracks,   *)
(* and one for the rest of associate_faces_with_objects.  Which face       *)
(* overlaps which track best is left open.                                 *)
(***************************************************************************)
EXTENDS Integers, FiniteSets, FiniteSetsExt

CONSTANTS FaceTracks,   \* track ids
          FaceNames,    \* faces
          CacheSlots,   \* FACE_CACHE_MAX
          ShowFor,      \* FACE_CACHE_TIMEOUT
          Vacant        \* a slot that is not active

ASSUME FaceCacheAssumption ==
  /\ FaceTracks \subseteq Nat /\ IsFiniteSet(FaceTracks)
  /\ {CacheSlots, ShowFor} \subseteq Nat \ {0}
  /\ Vacant \notin [track : FaceTracks, face : FaceNames, age : 0..(2 * ShowFor)]

VARIABLES cache,      \* g_face_cache
          matched,    \* the tracks matched with a fresh face in this frame
          onTrack,    \* the face each track is shown with: a set of one, or of none
          lastFace,   \* history: the face each track was last matched with, likewise
          sinceFace,  \* history: frames with tracks since then, up to ShowFor
          crowdedOut  \* history: tracks whose slot another has taken since then

faceVars == <<cache, matched, onTrack, lastFace, sinceFace, crowdedOut>>

CacheSeats == 1..CacheSlots
Cached == [track : FaceTracks, face : FaceNames, age : 0..(2 * ShowFor)]
Used(i) == cache[i] # Vacant
SlotsOf(t) == {i \in CacheSeats : Used(i) /\ cache[i].track = t}
Unused == {i \in CacheSeats : ~Used(i)}

FaceInit ==
  /\ cache = [i \in CacheSeats |-> Vacant]
  /\ matched = {}
  /\ onTrack = [t \in FaceTracks |-> {}] /\ lastFace = [t \in FaceTracks |-> {}]
  /\ sinceFace = [t \in FaceTracks |-> ShowFor] /\ crowdedOut = {}

\* The first of those that have waited longest.
OldestSlot(i) ==
  \A k \in CacheSeats : cache[i].age > cache[k].age \/ (cache[i].age = cache[k].age /\ i <= k)

\* Bug: a slot is looked for without asking whether the track has one.
MutFor(t, i) == IF Unused # {} THEN i = Min(Unused) ELSE OldestSlot(i)

\* The slot for a track: its own, the first that is not active, or the oldest.
For(t, i) ==
  IF SlotsOf(t) # {} THEN i = Min(SlotsOf(t))
  ELSE IF Unused # {} THEN i = Min(Unused)
  ELSE OldestSlot(i)

\* A fresh face for a track: face_cache_update.
MatchFace(t, f) ==
  /\ \A x \in matched : x < t
  /\ matched' = matched \cup {t}
  /\ \E i \in CacheSeats :
       /\ For(t, i)
       /\ cache' = [cache EXCEPT ![i] = [track |-> t, face |-> f, age |-> 0]]
       /\ crowdedOut' = (crowdedOut \ {t})
                          \cup (IF Used(i) THEN {cache[i].track} \ {t} ELSE {})
  /\ lastFace' = [lastFace EXCEPT ![t] = {f}]
  /\ sinceFace' = [sinceFace EXCEPT ![t] = 0]
  /\ onTrack' = [onTrack EXCEPT ![t] = {f}]

\* face_cache_lookup
FoundFor(t) == {cache[i].face : i \in {k \in SlotsOf(t) : cache[k].age < ShowFor}}

\* face_cache_tick
Aged(i) ==
  IF ~Used(i) \/ cache[i].age + 1 > 2 * ShowFor THEN Vacant
  ELSE [cache[i] EXCEPT !.age = @ + 1]

\* The tracks without a fresh face get the cached one, then all slots age.
CarryFaces(present) ==
  /\ matched \subseteq present /\ present # {}
  /\ onTrack' = [t \in FaceTracks |->
                   IF t \in matched THEN onTrack[t]
                   ELSE IF t \in present THEN FoundFor(t) ELSE {}]
  /\ cache' = [i \in CacheSeats |-> Aged(i)]
  /\ sinceFace' = [t \in FaceTracks |-> Min({sinceFace[t] + 1, ShowFor})]
  /\ matched' = {}
  /\ UNCHANGED <<lastFace, crowdedOut>>

\* A frame without tracks: associate_faces_with_objects returns at once, nothing ages.
NobodyThere ==
  /\ matched = {}
  /\ onTrack' = [t \in FaceTracks |-> {}]
  /\ UNCHANGED <<cache, matched, lastFace, sinceFace, crowdedOut>>

FaceNext ==
  \/ \E t \in FaceTracks, f \in FaceNames : MatchFace(t, f)
  \/ NobodyThere
  \/ \E present \in SUBSET FaceTracks : CarryFaces(present)

FaceSpec == FaceInit /\ [][FaceNext]_faceVars

-----------------------------------------------------------------------------
FaceTypeOK ==
  /\ cache \in [CacheSeats -> Cached \cup {Vacant}]
  /\ matched \subseteq FaceTracks
  /\ onTrack \in [FaceTracks -> SUBSET FaceNames]
  /\ lastFace \in [FaceTracks -> SUBSET FaceNames]
  /\ sinceFace \in [FaceTracks -> 0..ShowFor]
  /\ crowdedOut \subseteq FaceTracks

\* A track has one slot at most, however slots expire, are evicted and taken again.
OneSlotPerTrack ==
  \A i, k \in CacheSeats :
    Used(i) /\ Used(k) /\ cache[i].track = cache[k].track => i = k

\* "Enough to survive 2 missed detection cycles without showing stale faces too
\* long": a track that is shown with a face has that of its last match, and has it
\* for ShowFor frames (with any track in them) from then without a gap and no longer,
\* unless so many others were matched that its slot was taken.
FaceCarried ==
  \A t \in FaceTracks :
    /\ onTrack[t] \subseteq lastFace[t]
    /\ FoundFor(t) = IF sinceFace[t] < ShowFor /\ t \notin crowdedOut
                       THEN lastFace[t] ELSE {}

=============================================================================
