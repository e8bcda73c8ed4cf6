-------------------------- MODULE FrameRing_proofs --------------------------
(***************************************************************************)
(* Proofs about the frame ring for every ring size, every frame limit and  *)
(* every number of frames.                                                 *)
(***************************************************************************)
EXTENDS FrameRing, FiniteSetTheorems, TLAPS

\* The wrapped indices of the ring stay in the ring.
LEMMA IndexWraps ==
  ASSUME NEW i \in Slots
  PROVE  (i + 1) % RingSize \in Slots /\ (i - 1) % RingSize \in Slots
BY RingSizeAssumption DEF Slots

\* Every step keeps the type invariant, given that threads hold real slots.
LEMMA TypeStep ==
  ASSUME TypeOK, HoldersAtStage, [Next]_vars
  PROVE  TypeOK'
<1> USE DEF TypeOK, Stages, Threads, Goto, flagVars, idxVars,
            HoldersAtStage, Inside
<1>0. CASE CaptureStart
  BY <1>0 DEF CaptureStart
<1>1. CASE CaptureAcquire
  BY <1>1, IndexWraps DEF CaptureAcquire
<1>2. CASE CaptureWait
  BY <1>2 DEF CaptureWait, Sleep
<1>3. CASE CaptureNoFrame
  BY <1>3, IndexWraps DEF CaptureNoFrame, Unacquire, Overwrite, LetGo
<1>4. CASE CaptureTimeout
  BY <1>4, IndexWraps DEF CaptureTimeout, Unacquire, Overwrite, LetGo, Broadcast
<1>5. CASE CaptureDone
  BY <1>5 DEF CaptureDone, Overwrite, LetGo
<1>6. CASE CaptureSignal
  BY <1>6 DEF CaptureSignal, Signal, Wake
<1>7. CASE Leave("capture")
  BY <1>7 DEF Leave
<1>8. CASE InferenceTake
  BY <1>8 DEF InferenceTake, IsFirst, ToInfer
<1>9. CASE InferenceWait
  BY <1>9 DEF InferenceWait, Sleep
<1>10. CASE InferenceDone
  BY <1>10 DEF InferenceDone, LetGo
<1>11. CASE InferenceSignal
  BY <1>11 DEF InferenceSignal, Signal, Wake
<1>12. CASE Leave("inference")
  BY <1>12 DEF Leave
<1>13. CASE PostprocessTake
  BY <1>13 DEF PostprocessTake, PostTake, IsFirst, ToTrack
<1>14. CASE PostprocessWait
  BY <1>14 DEF PostprocessWait, PostWait, Sleep, ToTrack
<1>15. CASE PostprocessTrack
  <2>1. shutdown' \in BOOLEAN /\ waiting' \subseteq Threads
    BY <1>15 DEF PostprocessTrack, Broadcast
  <2>2. pc' \in [Threads -> Stages]
    BY <1>15 DEF PostprocessTrack
  <2> QED
    BY <1>15, <2>1, <2>2 DEF PostprocessTrack
<1>16. CASE PostprocessDone
  BY <1>16 DEF PostprocessDone, LetGo
<1>17. CASE PostprocessSignal
  BY <1>17 DEF PostprocessSignal, Signal, Wake
<1>18. CASE Leave("postprocess")
  BY <1>18 DEF Leave
<1>19. CASE VizTake
  BY <1>19 DEF VizTake, PostTake, IsFirst
<1>20. CASE VizWait
  BY <1>20 DEF VizWait, PostWait, Sleep
<1>21. CASE VizClear
  BY <1>21 DEF VizClear, LetGo
<1>22. CASE VizRelease
  BY <1>22 DEF VizRelease, Wake
<1>23. CASE Leave("viz")
  BY <1>23 DEF Leave
<1>24. CASE MonitorShutdown
  BY <1>24 DEF MonitorShutdown, Broadcast
<1>25. CASE MonitorJoin
  BY <1>25 DEF MonitorJoin
<1>26. CASE UNCHANGED vars
  BY <1>26 DEF vars
<1> QED
  BY <1>0, <1>1, <1>2, <1>3, <1>4, <1>5, <1>6, <1>7, <1>8, <1>9, <1>10, <1>11, <1>12, <1>13, <1>14, <1>15, <1>16, <1>17, <1>18, <1>19, <1>20, <1>21, <1>22, <1>23, <1>24, <1>25, <1>26
  DEF Next, Capture, Inference, Postprocess, Viz

\* Every step keeps the flags nested and the holders at their stage: the flags
\* are a baton that only the stage they point at moves on.
LEMMA StageStep ==
  ASSUME TypeOK, FlagsNest, HoldersAtStage, [Next]_vars
  PROVE  FlagsNest' /\ HoldersAtStage'
<1> USE DEF TypeOK, Stages, Threads, Goto, flagVars, idxVars,
            FlagsNest, HoldersAtStage, Inside
<1>0. CASE CaptureStart
  BY <1>0 DEF CaptureStart
<1>1. CASE CaptureAcquire
  BY <1>1 DEF CaptureAcquire
<1>2. CASE CaptureWait
  BY <1>2 DEF CaptureWait, Sleep
<1>3. CASE CaptureNoFrame
  BY <1>3 DEF CaptureNoFrame, Unacquire, Overwrite, LetGo
<1>4. CASE CaptureTimeout
  BY <1>4 DEF CaptureTimeout, Unacquire, Overwrite, LetGo, Broadcast
<1>5. CASE CaptureDone
  BY <1>5 DEF CaptureDone, Overwrite, LetGo
<1>6. CASE CaptureSignal
  BY <1>6 DEF CaptureSignal, Signal, Wake
<1>7. CASE Leave("capture")
  BY <1>7 DEF Leave
<1>8. CASE InferenceTake
  BY <1>8 DEF InferenceTake, IsFirst, ToInfer
<1>9. CASE InferenceWait
  BY <1>9 DEF InferenceWait, Sleep
<1>10. CASE InferenceDone
  BY <1>10 DEF InferenceDone, LetGo
<1>11. CASE InferenceSignal
  BY <1>11 DEF InferenceSignal, Signal, Wake
<1>12. CASE Leave("inference")
  BY <1>12 DEF Leave
<1>13. CASE PostprocessTake
  BY <1>13 DEF PostprocessTake, PostTake, IsFirst, ToTrack
<1>14. CASE PostprocessWait
  BY <1>14 DEF PostprocessWait, PostWait, Sleep, ToTrack
<1>15. CASE PostprocessTrack
  BY <1>15 DEF PostprocessTrack, Broadcast
<1>16. CASE PostprocessDone
  BY <1>16 DEF PostprocessDone, LetGo
<1>17. CASE PostprocessSignal
  BY <1>17 DEF PostprocessSignal, Signal, Wake
<1>18. CASE Leave("postprocess")
  BY <1>18 DEF Leave
<1>19. CASE VizTake
  BY <1>19 DEF VizTake, PostTake, IsFirst
<1>20. CASE VizWait
  BY <1>20 DEF VizWait, PostWait, Sleep
<1>21. CASE VizClear
  BY <1>21 DEF VizClear, LetGo
<1>22. CASE VizRelease
  BY <1>22 DEF VizRelease, Wake
<1>23. CASE Leave("viz")
  BY <1>23 DEF Leave
<1>24. CASE MonitorShutdown
  BY <1>24 DEF MonitorShutdown, Broadcast
<1>25. CASE MonitorJoin
  BY <1>25 DEF MonitorJoin
<1>26. CASE UNCHANGED vars
  BY <1>26 DEF vars
<1> QED
  BY <1>0, <1>1, <1>2, <1>3, <1>4, <1>5, <1>6, <1>7, <1>8, <1>9, <1>10, <1>11, <1>12, <1>13, <1>14, <1>15, <1>16, <1>17, <1>18, <1>19, <1>20, <1>21, <1>22, <1>23, <1>24, <1>25, <1>26
  DEF Next, Capture, Inference, Postprocess, Viz

\* Every step keeps the shutdown phases.
LEMMA PhaseStep ==
  ASSUME TypeOK, ShutdownPhases, [Next]_vars
  PROVE  ShutdownPhases'
<1> USE DEF TypeOK, Stages, Threads, Goto, flagVars, idxVars,
            ShutdownPhases
<1>0. CASE CaptureStart
  BY <1>0 DEF CaptureStart
<1>1. CASE CaptureAcquire
  BY <1>1 DEF CaptureAcquire
<1>2. CASE CaptureWait
  BY <1>2 DEF CaptureWait, Sleep
<1>3. CASE CaptureNoFrame
  BY <1>3 DEF CaptureNoFrame, Unacquire, Overwrite, LetGo
<1>4. CASE CaptureTimeout
  BY <1>4 DEF CaptureTimeout, Unacquire, Overwrite, LetGo, Broadcast
<1>5. CASE CaptureDone
  BY <1>5 DEF CaptureDone, Overwrite, LetGo
<1>6. CASE CaptureSignal
  BY <1>6 DEF CaptureSignal, Signal, Wake
<1>7. CASE Leave("capture")
  BY <1>7 DEF Leave
<1>8. CASE InferenceTake
  BY <1>8 DEF InferenceTake, IsFirst, ToInfer
<1>9. CASE InferenceWait
  BY <1>9 DEF InferenceWait, Sleep
<1>10. CASE InferenceDone
  BY <1>10 DEF InferenceDone, LetGo
<1>11. CASE InferenceSignal
  BY <1>11 DEF InferenceSignal, Signal, Wake
<1>12. CASE Leave("inference")
  BY <1>12 DEF Leave
<1>13. CASE PostprocessTake
  BY <1>13 DEF PostprocessTake, PostTake, IsFirst, ToTrack
<1>14. CASE PostprocessWait
  BY <1>14 DEF PostprocessWait, PostWait, Sleep, ToTrack
<1>15. CASE PostprocessTrack
  <2>1. monitor # "freed" /\ monitor' = monitor
    BY <1>15 DEF PostprocessTrack
  <2>2. /\ shutdown' => waiting' = {}
        /\ shutdown => shutdown'
    <3>1. Broadcast \/ UNCHANGED <<shutdown, waiting>>
      BY <1>15 DEF PostprocessTrack
    <3>2. CASE Broadcast
      BY <3>2 DEF Broadcast
    <3>3. CASE UNCHANGED <<shutdown, waiting>>
      BY <3>3
    <3> QED
      BY <3>1, <3>2, <3>3
  <2> QED
    BY <2>1, <2>2
<1>16. CASE PostprocessDone
  BY <1>16 DEF PostprocessDone, LetGo
<1>17. CASE PostprocessSignal
  BY <1>17 DEF PostprocessSignal, Signal, Wake
<1>18. CASE Leave("postprocess")
  BY <1>18 DEF Leave
<1>19. CASE VizTake
  BY <1>19 DEF VizTake, PostTake, IsFirst
<1>20. CASE VizWait
  BY <1>20 DEF VizWait, PostWait, Sleep
<1>21. CASE VizClear
  BY <1>21 DEF VizClear, LetGo
<1>22. CASE VizRelease
  BY <1>22 DEF VizRelease, Wake
<1>23. CASE Leave("viz")
  BY <1>23 DEF Leave
<1>24. CASE MonitorShutdown
  BY <1>24 DEF MonitorShutdown, Broadcast
<1>25. CASE MonitorJoin
  BY <1>25 DEF MonitorJoin
<1>26. CASE UNCHANGED vars
  BY <1>26 DEF vars
<1> QED
  BY <1>0, <1>1, <1>2, <1>3, <1>4, <1>5, <1>6, <1>7, <1>8, <1>9, <1>10, <1>11, <1>12, <1>13, <1>14, <1>15, <1>16, <1>17, <1>18, <1>19, <1>20, <1>21, <1>22, <1>23, <1>24, <1>25, <1>26
  DEF Next, Capture, Inference, Postprocess, Viz

\* The slots with a frame are finitely many.
LEMMA CapturedFinite ==
  ASSUME TypeOK
  PROVE  IsFiniteSet(captured) /\ Cardinality(captured) \in Nat
<1>1. IsFiniteSet(Slots)
  BY FS_Interval, RingSizeAssumption DEF Slots
<1> QED
  BY <1>1, FS_Subset, FS_CardinalityType DEF TypeOK

\* Every step keeps the account: capture pays for a slot before it fills it,
\* and viz takes a frame out before it gives the slot back.  Capture loses a slot
\* only by filling one that has a frame, and that one is still there.
LEMMA AccountStep ==
  ASSUME TypeOK, FlagsNest, HoldersAtStage, SlotsAccounted, SlotsRemain,
         [Next]_vars
  PROVE  SlotsAccounted' /\ SlotsRemain'
<1> USE CapturedFinite, RingSizeAssumption DEF TypeOK, Stages, Threads, Goto, flagVars, idxVars,
          SlotsAccounted, SlotsRemain, LostSlots, Inside, One
<1>0. CASE CaptureStart
  BY <1>0 DEF CaptureStart
<1>1. CASE CaptureAcquire
  BY <1>1 DEF CaptureAcquire
<1>2. CASE CaptureWait
  BY <1>2 DEF CaptureWait, Sleep
<1>3. CASE CaptureNoFrame
  BY <1>3 DEF CaptureNoFrame, Unacquire, Overwrite, LetGo
<1>4. CASE CaptureTimeout
  BY <1>4 DEF CaptureTimeout, Unacquire, Overwrite, LetGo, Broadcast
<1>5. CASE CaptureDone
  <2> DEFINE k == held["capture"]
  <2>1. captured' = captured \cup {k}
    BY <1>5 DEF CaptureDone
  <2>2. CASE k \in captured
    <3>1. captured' = captured
      BY <2>1, <2>2
    <3>2. Cardinality(captured) # 0
      BY <2>2, FS_EmptySet
    <3>3. Inside("capture") /\ ~Inside("capture")' /\ active' = active
      BY <1>5 DEF CaptureDone
    <3>4. pc'["viz"] = pc["viz"]
      BY <1>5 DEF CaptureDone
    <3>5. Cardinality(captured') = Cardinality(captured)
      BY <3>1
    <3> HIDE DEF k, Inside
    <3> QED
      BY <3>2, <3>3, <3>4, <3>5
  <2>3. CASE ~(k \in captured)
    <3>1. Cardinality(captured \cup {k}) = Cardinality(captured) + 1
      BY <2>3, FS_AddElement
    <3>2. Cardinality(captured') = Cardinality(captured) + 1
      BY <2>1, <3>1
    <3> HIDE DEF k
    <3> QED
      BY <1>5, <3>2 DEF CaptureDone
  <2> QED
    BY <2>2, <2>3
<1>6. CASE CaptureSignal
  BY <1>6 DEF CaptureSignal, Signal, Wake
<1>7. CASE Leave("capture")
  BY <1>7 DEF Leave
<1>8. CASE InferenceTake
  BY <1>8 DEF InferenceTake, IsFirst, ToInfer
<1>9. CASE InferenceWait
  BY <1>9 DEF InferenceWait, Sleep
<1>10. CASE InferenceDone
  BY <1>10 DEF InferenceDone, LetGo
<1>11. CASE InferenceSignal
  BY <1>11 DEF InferenceSignal, Signal, Wake
<1>12. CASE Leave("inference")
  BY <1>12 DEF Leave
<1>13. CASE PostprocessTake
  BY <1>13 DEF PostprocessTake, PostTake, IsFirst, ToTrack
<1>14. CASE PostprocessWait
  BY <1>14 DEF PostprocessWait, PostWait, Sleep, ToTrack
<1>15. CASE PostprocessTrack
  BY <1>15 DEF PostprocessTrack, Broadcast
<1>16. CASE PostprocessDone
  BY <1>16 DEF PostprocessDone, LetGo
<1>17. CASE PostprocessSignal
  BY <1>17 DEF PostprocessSignal, Signal, Wake
<1>18. CASE Leave("postprocess")
  BY <1>18 DEF Leave
<1>19. CASE VizTake
  BY <1>19 DEF VizTake, PostTake, IsFirst
<1>20. CASE VizWait
  BY <1>20 DEF VizWait, PostWait, Sleep
<1>21. CASE VizClear
  <2>1. held["viz"] \in captured
    BY <1>21 DEF VizClear, FlagsNest, HoldersAtStage
  <2>2. Cardinality(captured') = Cardinality(captured) - 1
    BY <1>21, <2>1, FS_RemoveElement DEF VizClear
  <2> QED
    BY <1>21, <2>2 DEF VizClear
<1>22. CASE VizRelease
  BY <1>22 DEF VizRelease, Wake
<1>23. CASE Leave("viz")
  BY <1>23 DEF Leave
<1>24. CASE MonitorShutdown
  BY <1>24 DEF MonitorShutdown, Broadcast
<1>25. CASE MonitorJoin
  BY <1>25 DEF MonitorJoin
<1>26. CASE UNCHANGED vars
  BY <1>26 DEF vars
<1> QED
  BY <1>0, <1>1, <1>2, <1>3, <1>4, <1>5, <1>6, <1>7, <1>8, <1>9, <1>10, <1>11, <1>12, <1>13, <1>14, <1>15, <1>16, <1>17, <1>18, <1>19, <1>20, <1>21, <1>22, <1>23, <1>24, <1>25, <1>26
  DEF Next, Capture, Inference, Postprocess, Viz

\* RingInv is inductive.
LEMMA RingInvStep == RingInv /\ [Next]_vars => RingInv'
<1> SUFFICES ASSUME RingInv, [Next]_vars PROVE RingInv'
  OBVIOUS
<1> QED
  BY TypeStep, StageStep, PhaseStep, AccountStep DEF RingInv

\* The ring as k1_pipeline_ring_init leaves it satisfies RingInv.
LEMMA RingInvInit == Init => RingInv
<1> SUFFICES ASSUME Init PROVE RingInv
  OBVIOUS
<1>1. TypeOK
  <2>1. 0 \in Slots
    BY RingSizeAssumption DEF Slots
  <2>2. pc \in [Threads -> Stages]
    BY DEF Init, Stages
  <2>3. held \in [Threads -> Slots \cup {-1}]
    BY DEF Init
  <2>4. result \in [Slots -> {"reset", "same", "other"}]
    BY DEF Init
  <2>5. /\ captured \subseteq Slots /\ inferred \subseteq Slots
        /\ tracked \subseteq Slots /\ waiting \subseteq Threads
    BY DEF Init
  <2>6. shutdown \in BOOLEAN /\ monitor \in {"watch", "join", "freed"}
    BY DEF Init
  <2>7. captureIdx \in Slots /\ inferIdx \in Slots /\ postIdx \in Slots
    BY <2>1 DEF Init
  <2>8. active \in Int
    BY DEF Init
  <2> QED
    BY <2>2, <2>3, <2>4, <2>5, <2>6, <2>7, <2>8 DEF TypeOK
<1>2. FlagsNest /\ HoldersAtStage /\ ShutdownPhases
  BY DEF Init, FlagsNest, HoldersAtStage, ShutdownPhases, Inside, Threads
<1>3. SlotsAccounted /\ SlotsRemain
  <2>1. Cardinality(captured) = 0
    BY FS_EmptySet DEF Init
  <2>2. ~Inside("capture") /\ pc["viz"] # "signal"
    BY DEF Init, Inside, Threads
  <2> QED
    BY <2>1, <2>2, RingSizeAssumption DEF Init, SlotsAccounted, SlotsRemain, LostSlots, One
<1> QED
  BY <1>1, <1>2, <1>3 DEF RingInv

\* RingInv holds in every state of the ring, for every ring size.
THEOREM RingInvariant == Spec => []RingInv
BY RingInvInit, RingInvStep, PTL DEF Spec

\* The ring is well typed, whatever the sizes and the schedule.
THEOREM TypeCorrect == Spec => []TypeOK
<1>1. RingInv => TypeOK
  BY DEF RingInv
<1> QED
  BY <1>1, RingInvariant, PTL

\* Inference, postprocess and viz never work in the same slot, although two of
\* them move one shared index: the slot a thread holds is at that thread's stage.
THEOREM ConsumersNeverShare == Spec => []ConsumersExclusive
<1>1. RingInv => ConsumersExclusive
  BY DEF RingInv, FlagsNest, HoldersAtStage, ConsumersExclusive, Inside
<1> QED
  BY <1>1, RingInvariant, PTL

\* active_slots covers every slot in use and never exceeds the ring, in
\* whatever order the slots are released.
THEOREM AccountNeverUndercounts == Spec => []SlotsAccounted
<1>1. RingInv => SlotsAccounted
  BY DEF RingInv
<1> QED
  BY <1>1, RingInvariant, PTL

\* Capture never waits for nothing: a ring whose count is full has a frame in it
\* or a slot in hand, although slots that were filled twice stay counted.
THEOREM FullRingHasWork == Spec => []FullMeansWork
<1>1. RingInv => FullMeansWork
  <2> SUFFICES ASSUME RingInv, active = RingSize, captured = {},
                      ~Inside("capture"), pc["viz"] # "signal"
               PROVE  FALSE
    BY DEF FullMeansWork
  <2>1. Cardinality(captured) = 0
    BY FS_EmptySet
  <2> QED
    BY <2>1, RingSizeAssumption DEF RingInv, SlotsRemain, LostSlots, One
<1> QED
  BY <1>1, RingInvariant, PTL

\* A step that touches no flag leaves every slot at its stage.
LEMMA StagesStutter ==
  UNCHANGED flagVars => UNCHANGED [s \in Slots |-> StageOf(s)]
BY DEF flagVars, StageOf

\* Every step that moves a flag advances one slot by one stage.
LEMMA LifecycleStep ==
  ASSUME RingInv, [Next]_vars
  PROVE  [Lifecycle!Next]_([s \in Slots |-> StageOf(s)])
<1> USE DEF RingInv, TypeOK, FlagsNest, HoldersAtStage, Inside
<1> DEFINE st == [s \in Slots |-> StageOf(s)]
<1>1. CASE CaptureDone
  <2> DEFINE k == held["capture"]
  <2>1. k \in Slots /\ captured' = captured \cup {k}
        /\ UNCHANGED <<inferred, tracked>>
    BY <1>1 DEF CaptureDone
  <2>2. CASE k \in captured
    BY <2>1, <2>2, StagesStutter DEF flagVars
  <2>3. CASE ~(k \in captured)
    <3>1. st[k] = "empty" /\ st' = [st EXCEPT ![k] = "captured"]
      BY <2>1, <2>3 DEF StageOf
    <3> QED
      BY <2>1, <3>1
      DEF Lifecycle!Next, Lifecycle!Advance, Lifecycle!Step
  <2> QED
    BY <2>2, <2>3
<1>2. CASE InferenceDone
  <2> DEFINE k == held["inference"]
  <2>1. k \in captured \ inferred /\ inferred' = inferred \cup {k}
        /\ UNCHANGED <<captured, tracked>>
    BY <1>2 DEF InferenceDone
  <2>2. st[k] = "captured" /\ st' = [st EXCEPT ![k] = "inferred"]
    BY <2>1 DEF StageOf
  <2> QED
    BY <2>1, <2>2 DEF Lifecycle!Next, Lifecycle!Advance, Lifecycle!Step
<1>3. CASE PostprocessDone
  <2> DEFINE k == held["postprocess"]
  <2>1. k \in inferred \ tracked /\ tracked' = tracked \cup {k}
        /\ UNCHANGED <<captured, inferred>>
    BY <1>3 DEF PostprocessDone
  <2>2. st[k] = "inferred" /\ st' = [st EXCEPT ![k] = "tracked"]
    BY <2>1 DEF StageOf
  <2> QED
    BY <2>1, <2>2 DEF Lifecycle!Next, Lifecycle!Advance, Lifecycle!Step
<1>4. CASE VizClear
  <2> DEFINE k == held["viz"]
  <2>1. k \in tracked /\ captured' = captured \ {k}
        /\ inferred' = inferred \ {k} /\ tracked' = tracked \ {k}
    BY <1>4 DEF VizClear
  <2>2. st[k] = "tracked" /\ st' = [st EXCEPT ![k] = "empty"]
    BY <2>1 DEF StageOf
  <2> QED
    BY <2>1, <2>2 DEF Lifecycle!Next, Lifecycle!Advance, Lifecycle!Step
<1>5. CASE UNCHANGED flagVars
  BY <1>5, StagesStutter
<1>6. CaptureDone \/ InferenceDone \/ PostprocessDone \/ VizClear
      \/ UNCHANGED flagVars
  <2> USE DEF flagVars
  <2>0. CASE CaptureStart
    BY <2>0 DEF CaptureStart
  <2>1. CASE CaptureAcquire
    BY <2>1 DEF CaptureAcquire
  <2>2. CASE CaptureWait
    BY <2>2 DEF CaptureWait, Sleep
  <2>3. CASE CaptureNoFrame
    BY <2>3 DEF CaptureNoFrame, Unacquire, Overwrite, LetGo
  <2>4. CASE CaptureTimeout
    BY <2>4 DEF CaptureTimeout, Unacquire, Overwrite, LetGo, Broadcast
  <2>5. CASE CaptureSignal
    BY <2>5 DEF CaptureSignal, Signal, Wake
  <2>6. CASE Leave("capture")
    BY <2>6 DEF Leave
  <2>7. CASE InferenceTake
    BY <2>7 DEF InferenceTake, IsFirst, ToInfer
  <2>8. CASE InferenceWait
    BY <2>8 DEF InferenceWait, Sleep
  <2>9. CASE InferenceSignal
    BY <2>9 DEF InferenceSignal, Signal, Wake
  <2>10. CASE Leave("inference")
    BY <2>10 DEF Leave
  <2>11. CASE PostprocessTake
    BY <2>11 DEF PostprocessTake, PostTake, IsFirst, ToTrack
  <2>12. CASE PostprocessWait
    BY <2>12 DEF PostprocessWait, PostWait, Sleep, ToTrack
  <2>13. CASE PostprocessTrack
    BY <2>13 DEF PostprocessTrack, Broadcast
  <2>14. CASE PostprocessSignal
    BY <2>14 DEF PostprocessSignal, Signal, Wake
  <2>15. CASE Leave("postprocess")
    BY <2>15 DEF Leave
  <2>16. CASE VizTake
    BY <2>16 DEF VizTake, PostTake, IsFirst
  <2>17. CASE VizWait
    BY <2>17 DEF VizWait, PostWait, Sleep
  <2>18. CASE VizRelease
    BY <2>18 DEF VizRelease, Wake
  <2>19. CASE Leave("viz")
    BY <2>19 DEF Leave
  <2>20. CASE MonitorShutdown
    BY <2>20 DEF MonitorShutdown, Broadcast
  <2>21. CASE MonitorJoin
    BY <2>21 DEF MonitorJoin
  <2>22. CASE UNCHANGED vars
    BY <2>22 DEF vars
  <2> QED
    BY <2>0, <2>1, <2>2, <2>3, <2>4, <2>5, <2>6, <2>7, <2>8, <2>9, <2>10, <2>11, <2>12, <2>13, <2>14, <2>15, <2>16, <2>17, <2>18, <2>19, <2>20, <2>21, <2>22
    DEF Next, Capture, Inference, Postprocess, Viz
<1> QED
  BY <1>1, <1>2, <1>3, <1>4, <1>5, <1>6

\* The ring implements the life cycle of its slots.
THEOREM RingImplementsLifecycle == Spec => SlotsKeepLifecycle
<1>1. Init => Lifecycle!Init
  BY DEF Init, Lifecycle!Init, StageOf
<1> QED
  BY <1>1, LifecycleStep, RingInvariant, PTL
  DEF Spec, SlotsKeepLifecycle, Lifecycle!Spec

=============================================================================
