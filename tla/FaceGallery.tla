---------------------------- MODULE FaceGallery -----------------------------
(***************************************************************************)
(* The face gallery (src/src/face_gallery.c): the faces of the tracks, as  *)
(* the viz thread updates and prunes them with every frame and the web     *)
(* thread lists, clears and names them.  Each call holds the mutex, but    *)
(* the entry found by the web thread is written after another lock.        *)
(*                                                                         *)
(* An entry is Empty when it is not active: all of it is rewritten before  *)
(* it is read again.  An age stops growing once it is over the limit.      *)
(***************************************************************************)
EXTENDS Integers, FiniteSets, FiniteSetsExt

CONSTANTS GalleryTracks,  \* track ids
          Names,          \* identities in the face database
          Nobody,         \* the identity "unknown", or none
          Scores,         \* similarities; the greatest is the 1.0 of a registration
          GallerySlots,   \* FACE_GALLERY_MAX
          Ttl,            \* ttl_sec
          Empty           \* an entry that is not active

ASSUME GalleryAssumption ==
  /\ GallerySlots \in Nat \ {0} /\ Ttl \in Nat
  /\ Scores \subseteq Nat /\ IsFiniteSet(Scores) /\ Scores # {}
  /\ Nobody \notin Names
  /\ Empty \notin [track : GalleryTracks, name : Names \cup {Nobody}, score : Scores,
                    age : 0..(Ttl + 1)]

VARIABLES gallery,   \* entries
          listed,    \* num_entries
          found,     \* the entry face_gallery_find gave the web thread, 0 for none
          strayTracks,  \* history: tracks with an entry that was active at a clear,
                        \* as long as they have any entry
          strayNames    \* history: names of such entries, and names given in place

galleryVars == <<gallery, listed, found, strayTracks, strayNames>>

Places == 1..GallerySlots
Faces == [track : GalleryTracks, name : Names \cup {Nobody}, score : Scores,
          age : 0..(Ttl + 1)]
Active(i) == gallery[i] # Empty

GalleryInit ==
  /\ gallery = [i \in Places |-> Empty]
  /\ listed = 0 /\ found = 0
  /\ strayTracks = {} /\ strayNames = {}

TracksIn(g) == {g[i].track : i \in {k \in Places : g[k] # Empty}}
NamesIn(g) == {g[i].name : i \in {k \in Places : g[k] # Empty}}

\* A track or name without an entry is no stray any more.
Strays(tracks, names) ==
  /\ strayTracks' = tracks \cap TracksIn(gallery')
  /\ strayNames' = names \cap NamesIn(gallery')

\* What face_gallery_build_json lists, and face_gallery_find looks through.
Shown == {i \in 1..listed : Active(i)}
ShownOf(t) == {i \in Shown : gallery[i].track = t}

\* Bug: the age at which a face expires is never reached.
MutNeverExpires(i) == gallery[i].age > Ttl + 1

Expired(i) == gallery[i].age > Ttl

Room == {i \in Places : ~Active(i) \/ Expired(i)}

\* Bug: a free entry is taken without looking for the track's own.
MutAlwaysFresh(t) ==
  IF Room # {} THEN Min(Room)
  ELSE CHOOSE i \in Places : \A k \in Places :
         gallery[i].age > gallery[k].age \/ (gallery[i].age = gallery[k].age /\ i <= k)

\* Bug: when there is no room the newest entry is evicted.
MutNewestGoes(t) ==
  IF ShownOf(t) # {} THEN Min(ShownOf(t))
  ELSE IF Room # {} THEN Min(Room)
  ELSE CHOOSE i \in Places : \A k \in Places :
         gallery[i].age < gallery[k].age \/ (gallery[i].age = gallery[k].age /\ i <= k)

\* The entry for a track: its own, the first free one, or the oldest of all.
Place(t) ==
  IF ShownOf(t) # {} THEN Min(ShownOf(t))
  ELSE IF Room # {} THEN Min(Room)
  ELSE CHOOSE i \in Places : \A k \in Places :
         gallery[i].age > gallery[k].age \/ (gallery[i].age = gallery[k].age /\ i <= k)

\* Bug: the entry with the lower similarity wins.
MutWorseWins(rivals, s) == \A k \in rivals : gallery[k].score >= s

\* The new face is better than the first other of its name.
Wins(rivals, s) == rivals = {} \/ gallery[Min(rivals)].score < s

\* Bug: the same name on two tracks is left as it is.
MutNoRivals(i, n, count) == {}

Rivals(i, n, count) ==
  {k \in (1..count) \ {i} : n # Nobody /\ Active(k) /\ gallery[k].name = n}

\* face_gallery_update: fill in the track's entry; of two entries with one name
\* the better one stays.
GalleryUpdate(t, n, s) ==
  \E i \in {Place(t)} :
    LET count == Max({listed, i})
        rivals == Rivals(i, n, count)
        wins == Wins(rivals, s)
        face == [track |-> t, name |-> n, score |-> s, age |-> 0]
    IN /\ listed' = count
       /\ gallery' = [k \in Places |->
            IF k = i THEN (IF wins THEN face ELSE Empty)
            ELSE IF wins /\ rivals # {} /\ k = Min(rivals) THEN Empty
            ELSE gallery[k]]
       /\ Strays(strayTracks, strayNames)
       /\ UNCHANGED found

\* face_gallery_prune, at the end of each frame.
GalleryPrune ==
  /\ gallery' = [i \in Places |->
                   IF i \in Shown /\ Expired(i) THEN Empty ELSE gallery[i]]
  /\ Strays(strayTracks, strayNames)
  /\ UNCHANGED <<listed, found>>

\* clear_gallery of the web interface: the entries stay active behind the count.
GalleryClear ==
  /\ listed' = 0
  /\ UNCHANGED <<gallery, found>>
  /\ Strays(TracksIn(gallery), strayNames \cup NamesIn(gallery))

\* register_face of the web interface finds the entry ...
RegisterFind(t) ==
  /\ found = 0 /\ ShownOf(t) # {}
  /\ found' = Min(ShownOf(t))
  /\ UNCHANGED <<gallery, listed, strayTracks, strayNames>>

\* ... and names it under a second lock, whatever has become of it; unless the
\* recognizer does not take the face.
RegisterWrite(n) ==
  /\ found # 0
  /\ gallery' = IF ~Active(found) THEN gallery
                ELSE [gallery EXCEPT ![found].name = n, ![found].score = Max(Scores)]
  /\ Strays(strayTracks, IF Active(found) THEN strayNames \cup {n} ELSE strayNames)
  /\ found' = 0
  /\ UNCHANGED listed

RegisterFails ==
  /\ found # 0 /\ found' = 0
  /\ UNCHANGED <<gallery, listed, strayTracks, strayNames>>

\* Time passes.
GalleryTick ==
  /\ gallery' = [i \in Places |->
       IF Active(i) THEN [gallery[i] EXCEPT !.age = Min({@ + 1, Ttl + 1})] ELSE Empty]
  /\ Strays(strayTracks, strayNames)
  /\ UNCHANGED <<listed, found>>

GalleryNext ==
  \/ \E t \in GalleryTracks, n \in Names \cup {Nobody}, s \in Scores :
       GalleryUpdate(t, n, s)
  \/ GalleryPrune \/ GalleryClear
  \/ \E t \in GalleryTracks : RegisterFind(t)
  \/ \E n \in Names : RegisterWrite(n)
  \/ RegisterFails \/ GalleryTick

\* Time passes, and while frames come each one ends with a prune.
GalleryFairness == WF_galleryVars(GalleryTick) /\ WF_galleryVars(GalleryPrune)

GallerySpec == GalleryInit /\ [][GalleryNext]_galleryVars /\ GalleryFairness

-----------------------------------------------------------------------------
GalleryTypeOK ==
  /\ gallery \in [Places -> Faces \cup {Empty}]
  /\ listed \in 0..GallerySlots /\ found \in 0..GallerySlots
  /\ strayTracks \subseteq TracksIn(gallery) /\ strayNames \subseteq NamesIn(gallery)

\* The heading of face_gallery_update: the track is the primary key, however
\* entries expire, are evicted, lose against a better one and are taken again.
\* clear_gallery leaves entries active behind the count, which come back when the
\* count grows beside a second entry of their track; a clear does no harm to others.
OneEntryPerTrack ==
  \A i, k \in Shown :
    gallery[i].track = gallery[k].track => i = k \/ gallery[i].track \in strayTracks

\* A known person is shown once, though tracks change their identity from frame
\* to frame.  Only a name that a clear left behind the count, or that the web thread
\* wrote into an entry past this rule, may be shown twice, and not once its entries
\* have gone.
OneEntryPerName ==
  \A i, k \in Shown :
    gallery[i].name = gallery[k].name =>
      i = k \/ gallery[i].name \in strayNames \cup {Nobody}

\* There is no place without an unexpired face, and none of the faces is older.
OldestOfAll(i) ==
  \A k \in Places : Active(k) /\ ~Expired(k) /\ gallery[k].age <= gallery[i].age

UpdateOf(t) == \E n \in Names \cup {Nobody}, s \in Scores : GalleryUpdate(t, n, s)

\* What may become of one face that is shown.
GivesWay(i) ==
  \/ gallery[i].name = Nobody \/ Expired(i)
  \/ \E k \in Shown' : /\ gallery'[k].name = gallery[i].name
                       /\ gallery'[k].score >= gallery[i].score
  \/ GalleryClear \/ (found = i /\ \E n \in Names : RegisterWrite(n))
  \/ OldestOfAll(i) /\ \E t \in GalleryTracks : ShownOf(t) = {} /\ UpdateOf(t)
  \/ UpdateOf(gallery[i].track)

KeepsBest == \A i \in Shown : GivesWay(i)

\* A face shown for a name gives way only to one of that name that is as good; or
\* when its own track is updated, when it has expired, when a new track comes while
\* every place has an unexpired face and none of them is older; or in the very step
\* in which the web thread clears the gallery or names it.
BestKept == [][KeepsBest]_galleryVars

\* Somebody who is not seen any more leaves the gallery, even if he is named, the
\* gallery is cleared, or the count reaches his entry again.
GalleryForgets ==
  \A t \in GalleryTracks :
    []<>(\E i \in Places : Active(i) /\ gallery[i].track = t /\ gallery[i].age = 0)
    \/ []<>(ShownOf(t) = {})

=============================================================================
