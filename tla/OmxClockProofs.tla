---------------------------- MODULE OmxClockProofs ----------------------------
(***************************************************************************)
(* Theorems about OmxClock, for every window, bound and failure.  The      *)
(* inductive invariant adds to CacheCoherent that a reading about to be    *)
(* extrapolated is not too old, which a step of the keyboard thread cannot *)
(* change, and what is true of the last report.                            *)
(***************************************************************************)
EXTENDS OmxClock, TLAPS

\* The reading getMediaTime decided to use has not expired since.
ReadingCurrent == reading => age <= Window

ClockInv == TypeOK /\ BeliefsTrue /\ CacheCoherent /\ ReadingCurrent /\ ReportNear

LEMMA InitInv == Init => ClockInv
<1>1. Init => FlagTypes
    BY DEF Init, FlagTypes
<1>2. Init => DataTypes
    BY WindowAssumption, MaxMediaAssumption DEF Init, DataTypes, ReportKinds
<1>3. Init => BeliefsTrue
    BY DEF Init, BeliefsTrue
<1>4. Init => CacheCoherent /\ ReadingCurrent /\ ReportNear
    BY DEF Init, CacheCoherent, ReadingCurrent, ReportNear
<1>5. QED
    BY <1>1, <1>2, <1>3, <1>4 DEF ClockInv, TypeOK

\* The parts of the invariant a step that forgets the reading leaves alone.
LEMMA InvalidateInv ==
    ASSUME ClockInv, Invalidate, UNCHANGED report, UNCHANGED reading
    PROVE  CacheCoherent' /\ ReadingCurrent' /\ ReportNear'
BY DEF ClockInv, Invalidate, CacheCoherent, ReadingCurrent, ReportNear

LEMMA StepFlags == ClockInv /\ [Next]_vars => FlagTypes'
BY DEF ClockInv, TypeOK, FlagTypes, Next, ReadComponent, ReadFails, ReadCacheCheck, ReadCacheUse,
       StateIdle, StateExecute, Stop, CallFails, ResetFailsReference, ResetFailsState, Reset,
       SetMediaTime, SetPause, ForgetReading, Invalidate, Step, ClockStarts, Tick, vars, cacheVars,
       componentVars

LEMMA StepData == ClockInv /\ [Next]_vars => DataTypes'
<1> SUFFICES ASSUME ClockInv, [Next]_vars PROVE DataTypes'
    OBVIOUS
<1> USE WindowAssumption, MaxMediaAssumption DEF DataTypes, TypeOK, ClockInv
<1>1. CASE ReadComponent
    BY <1>1 DEF ReadComponent, Report, componentVars, ReportKinds
<1>2. CASE ReadFails
    BY <1>2 DEF ReadFails, Report, cacheVars, componentVars, ReportKinds
<1>3. CASE ReadCacheCheck
    BY <1>3 DEF ReadCacheCheck, cacheVars, componentVars
<1>4. CASE ReadCacheUse
    <2>1. Extrapolated \in Nat
        BY DEF Extrapolated, Speed
    <2>2. QED
        BY <1>4, <2>1 DEF ReadCacheUse, Report, cacheVars, componentVars, ReportKinds
<1>5. CASE StateIdle \/ StateExecute \/ Stop \/ CallFails
    BY <1>5 DEF StateIdle, StateExecute, Stop, CallFails, Invalidate, componentVars
<1>6. CASE ResetFailsReference \/ ResetFailsState \/ Reset
    BY <1>6 DEF ResetFailsReference, ResetFailsState, StateAfterFailure, Reset, RefClock,
                Invalidate, componentVars
<1>7. CASE SetMediaTime \/ Step
    BY <1>7 DEF SetMediaTime, Step, Invalidate
<1>8. CASE SetPause(TRUE) \/ SetPause(FALSE)
    <2>1. scale' \in {0, 1}
        BY <1>8 DEF SetPause
    <2>2. /\ mLastMediaTime' = 0
          /\ UNCHANGED <<age, mState, mClock, clockState, refClock, media, report>>
        BY <1>8 DEF SetPause, ForgetReading, Invalidate
    <2>3. QED
        BY <2>1, <2>2
<1>9. CASE ClockStarts
    BY <1>9 DEF ClockStarts
<1>10. CASE Tick
    <2>1. media' \in 0..MaxMedia
        BY <1>10 DEF Tick
    <2>2. age' \in 0..(Window + 1)
        BY <1>10 DEF Tick
    <2>3. QED
        BY <1>10, <2>1, <2>2 DEF Tick
<1>11. CASE UNCHANGED vars
    BY <1>11 DEF vars, cacheVars, componentVars
<1>12. QED
    BY <1>1, <1>2, <1>3, <1>4, <1>5, <1>6, <1>7, <1>8, <1>9, <1>10, <1>11 DEF Next

LEMMA StepBeliefs == ClockInv /\ [Next]_vars => BeliefsTrue'
<1> SUFFICES ASSUME ClockInv, [Next]_vars PROVE BeliefsTrue'
    OBVIOUS
<1> USE DEF BeliefsTrue, ClockInv
<1>1. CASE ReadComponent \/ ReadFails \/ ReadCacheCheck \/ ReadCacheUse
    BY <1>1 DEF ReadComponent, ReadFails, ReadCacheCheck, ReadCacheUse, componentVars
<1>2. CASE StateIdle \/ StateExecute \/ Stop \/ CallFails \/ SetMediaTime \/ Step
    BY <1>2 DEF StateIdle, StateExecute, Stop, CallFails, SetMediaTime, Step, componentVars
<1>3. CASE ResetFailsReference \/ ResetFailsState \/ Reset
    BY <1>3 DEF ResetFailsReference, ResetFailsState, StateAfterFailure, Reset, componentVars
<1>4. CASE SetPause(TRUE) \/ SetPause(FALSE)
    <2>1. CASE SetPause(TRUE)
        <3>1. mPause' = TRUE /\ scale' = 0
            BY <2>1 DEF SetPause
        <3>2. QED
            BY <2>1, <3>1 DEF SetPause
    <2>2. CASE SetPause(FALSE)
        <3>1. mPause' = FALSE /\ scale' = 1
            BY <2>2 DEF SetPause
        <3>2. QED
            BY <2>2, <3>1 DEF SetPause
    <2>3. QED
        BY <1>4, <2>1, <2>2
<1>5. CASE ClockStarts \/ Tick
    BY <1>5 DEF ClockStarts, Tick
<1>6. CASE UNCHANGED vars
    BY <1>6 DEF vars, componentVars
<1>7. QED
    BY <1>1, <1>2, <1>3, <1>4, <1>5, <1>6 DEF Next

LEMMA StepCache ==
    ClockInv /\ [Next]_vars => CacheCoherent' /\ ReadingCurrent' /\ ReportNear'
<1> SUFFICES ASSUME ClockInv, [Next]_vars
             PROVE  CacheCoherent' /\ ReadingCurrent' /\ ReportNear'
    OBVIOUS
<1> USE WindowAssumption, MaxMediaAssumption
<1>1. CASE ReadComponent
    BY <1>1 DEF ReadComponent, Report, componentVars, ClockInv, TypeOK, DataTypes, CacheCoherent,
                Extrapolated, Speed, ReadingCurrent, ReportNear
<1>2. CASE ReadFails
    BY <1>2 DEF ReadFails, Report, cacheVars, componentVars, ClockInv, TypeOK, DataTypes, CacheCoherent,
                Extrapolated, Speed, ReadingCurrent, ReportNear
<1>3. CASE ReadCacheCheck
    BY <1>3 DEF ReadCacheCheck, Stale, cacheVars, componentVars, ClockInv, TypeOK, DataTypes,
                CacheCoherent, Extrapolated, Speed, ReadingCurrent, ReportNear
<1>4. CASE ReadCacheUse
    <2>1. CacheCoherent' /\ ReadingCurrent'
        BY <1>4 DEF ReadCacheUse, cacheVars, componentVars, ClockInv, CacheCoherent,
                    Extrapolated, Speed, ReadingCurrent
    <2>2. age <= Window /\ age \in Nat /\ media \in Nat /\ mLastMediaTime \in Nat
        BY <1>4 DEF ReadCacheUse, ClockInv, ReadingCurrent, TypeOK, DataTypes
    <2>3. CASE mLastMediaTime = 0
        <3>1. Extrapolated <= Window
            BY <2>2, <2>3 DEF Extrapolated, Speed
        <3>2. report' = [kind |-> "raced", value |-> Extrapolated, truth |-> media]
            BY <1>4, <2>3 DEF ReadCacheUse, Report
        <3>3. QED
            BY <2>1, <3>1, <3>2 DEF ReportNear
    <2>4. CASE mLastMediaTime # 0 /\ jumped
        BY <1>4, <2>1, <2>4 DEF ReadCacheUse, Report, ReportNear
    <2>5. CASE mLastMediaTime # 0 /\ ~jumped
        <3>1. media <= Extrapolated /\ Extrapolated <= media + age
            BY <2>2, <2>5 DEF ClockInv, CacheCoherent
        <3>2. Extrapolated \in Int
            BY <2>2 DEF Extrapolated, Speed
        <3>3. report' = [kind |-> "cached", value |-> Extrapolated, truth |-> media]
            BY <1>4, <2>5 DEF ReadCacheUse, Report
        <3>4. QED
            BY <2>1, <2>2, <3>1, <3>2, <3>3 DEF ReportNear
    <2>6. QED
        BY <2>3, <2>4, <2>5
<1>5. CASE StateIdle \/ StateExecute \/ Stop \/ CallFails
    BY <1>5, InvalidateInv DEF StateIdle, StateExecute, Stop, CallFails
<1>6. CASE ResetFailsReference \/ ResetFailsState \/ Reset
    BY <1>6, InvalidateInv DEF ResetFailsReference, ResetFailsState, Reset
<1>7. CASE SetMediaTime
    BY <1>7, InvalidateInv DEF SetMediaTime
<1>8. CASE SetPause(TRUE) \/ SetPause(FALSE)
    BY <1>8, InvalidateInv DEF SetPause, ForgetReading
<1>9. CASE Step
    BY <1>9, InvalidateInv DEF Step
<1>10. CASE ClockStarts
    BY <1>10 DEF ClockStarts, ClockInv, CacheCoherent, ReadingCurrent, ReportNear
<1>11. CASE Tick
    BY <1>11 DEF Tick, Runs, ClockInv, TypeOK, DataTypes, BeliefsTrue, CacheCoherent, Extrapolated, Speed,
                 ReadingCurrent, ReportNear
<1>12. CASE UNCHANGED vars
    BY <1>12 DEF vars, cacheVars, componentVars, ClockInv, CacheCoherent, Extrapolated, Speed,
                 ReadingCurrent, ReportNear
<1>13. QED
    BY <1>1, <1>2, <1>3, <1>4, <1>5, <1>6, <1>7, <1>8, <1>9, <1>10, <1>11, <1>12 DEF Next

\* The invariant of the clock object and its component.
THEOREM ClockInvariant == Spec => []ClockInv
<1>1. ClockInv /\ [Next]_vars => ClockInv'
    BY StepFlags, StepData, StepBeliefs, StepCache DEF ClockInv, TypeOK
<1>2. QED
    BY InitInv, <1>1, PTL DEF Spec

\* Whatever calls fail, the object's pause flag and clock state are the component's.
THEOREM BeliefsStayTrue == Spec => []BeliefsTrue
BY ClockInvariant, PTL DEF ClockInv

\* The cached reading, as long as it may be extrapolated, agrees with the component's time, and
\* every media time reported is near it, or one of the named exceptions.
THEOREM TimesStayNear == Spec => []TimesNear
BY ClockInvariant, PTL DEF ClockInv, TimesNear
===============================================================================
