------------------------------- MODULE OmxClock -------------------------------
(***************************************************************************)
(* cOmxClock (cOmxClock.cpp) and the clock component it configures.        *)
(* getMediaTime extrapolates for a while from the last time it asked the   *)
(* component, so every operation after which the component's time may      *)
(* differ must forget that reading.  The play thread makes all calls but   *)
(* step, which the keyboard thread makes; getMediaTime tests and uses the  *)
(* reading without the mutex the other operations hold, so step can come   *)
(* between.  Any call of the component may fail.                           *)
(*                                                                         *)
(* A time is a number of ticks and 0 stands for "none", as in the code; a  *)
(* call takes less than a tick.  mSpeed is 1: nothing sets it.             *)
(***************************************************************************)
EXTENDS Integers

CONSTANTS
    Window,   \* ticks for which a reading is extrapolated (kPtsScale / 10)
    MaxMedia, \* bound on the media time
    HasVideo, HasAudio, \* the players reset is told of
    MayFail   \* calls of the component may fail

ASSUME WindowAssumption == Window \in Nat
ASSUME MaxMediaAssumption == MaxMedia \in Nat
ASSUME FlagsAssumption == HasVideo \in BOOLEAN /\ HasAudio \in BOOLEAN /\ MayFail \in BOOLEAN

VARIABLES
    mPause, mState, mClock,          \* as in cOmxClock
    mLastMediaTime, age,             \* the reading; ticks since mLastMediaTimeRead
    executing, clockState, scale, refClock, media, \* the component
    reading,  \* getMediaTime has decided to extrapolate and has not yet done so
    jumped,   \* history: the clock started by itself since the reading was made
    report    \* history: what getMediaTime last returned, and the component's time then

cacheVars == <<mLastMediaTime, age, jumped>>
componentVars == <<executing, clockState, scale, refClock, media>>
vars == <<mPause, mState, mClock, cacheVars, componentVars, reading, report>>

Init ==
    /\ mPause = FALSE /\ mState = "stopped" /\ mClock = "none"
    /\ mLastMediaTime = 0 /\ age = 0 /\ jumped = FALSE
    /\ executing = FALSE /\ clockState = "stopped" /\ scale = 1 /\ refClock = "none" /\ media = 0
    /\ reading = FALSE
    /\ report = [kind |-> "none", value |-> 0, truth |-> 0]

Invalidate == mLastMediaTime' = 0 /\ jumped' = FALSE /\ UNCHANGED age

-------------------------------------------------------------------------------
(* getMediaTime *)

Speed == IF mPause THEN 0 ELSE 1
Stale == age > Window \/ mLastMediaTime = 0

Report(kind, value) == report' = [kind |-> kind, value |-> value, truth |-> media]

\* A reading of 0 is no reading: the next call asks again.
ReadComponent ==
    /\ ~reading /\ Stale
    /\ mLastMediaTime' = media /\ age' = 0 /\ jumped' = FALSE
    /\ Report("fresh", media)
    /\ UNCHANGED <<mPause, mState, mClock, componentVars, reading>>

ReadFails ==
    /\ MayFail /\ ~reading /\ Stale
    /\ Report("failed", 0)
    /\ UNCHANGED <<mPause, mState, mClock, cacheVars, componentVars, reading>>

ReadCacheCheck ==
    /\ ~reading /\ ~Stale
    /\ reading' = TRUE
    /\ UNCHANGED <<mPause, mState, mClock, cacheVars, componentVars, report>>

Extrapolated == mLastMediaTime + age * Speed
ReadCacheUse ==
    /\ reading
    /\ reading' = FALSE
    /\ Report(IF mLastMediaTime = 0 THEN "raced" ELSE IF jumped THEN "jumped" ELSE "cached", Extrapolated)
    /\ UNCHANGED <<mPause, mState, mClock, cacheVars, componentVars>>

-------------------------------------------------------------------------------
(* The other calls of the play thread *)

StateIdle ==
    /\ ~reading
    /\ executing' = FALSE
    /\ Invalidate
    /\ UNCHANGED <<mPause, mState, mClock, clockState, scale, refClock, media, reading, report>>

StateExecute ==
    /\ ~reading
    /\ executing' = TRUE
    /\ Invalidate
    /\ UNCHANGED <<mPause, mState, mClock, clockState, scale, refClock, media, reading, report>>

Stop ==
    /\ ~reading
    /\ mState' = "stopped" /\ clockState' = "stopped"
    /\ Invalidate
    /\ UNCHANGED <<mPause, mClock, executing, scale, refClock, media, reading, report>>

\* A failed setReferenceClock has changed mClock, and is not repeated.
RefClock == IF HasAudio THEN "audio" ELSE "video"
ResetFailsReference ==
    /\ MayFail /\ ~reading /\ RefClock # mClock
    /\ mClock' = RefClock
    /\ Invalidate
    /\ UNCHANGED <<mPause, mState, componentVars, reading, report>>

BelievedAnyway == "waiting"
StateAfterFailure == mState
ResetFailsState ==
    /\ MayFail /\ ~reading /\ mState = "stopped" /\ (HasVideo \/ HasAudio)
    /\ mClock' = RefClock
    /\ refClock' = IF RefClock # mClock THEN RefClock ELSE refClock
    /\ mState' = StateAfterFailure
    /\ Invalidate
    /\ UNCHANGED <<mPause, executing, clockState, scale, media, reading, report>>

Restarts == mState = "stopped" /\ (HasVideo \/ HasAudio)
Reset ==
    /\ ~reading
    /\ mClock' = RefClock
    /\ refClock' = IF RefClock # mClock THEN RefClock ELSE refClock
    /\ IF Restarts THEN mState' = "waiting" /\ clockState' = "waiting"
                   ELSE UNCHANGED <<mState, clockState>>
    /\ Invalidate
    /\ UNCHANGED <<mPause, executing, scale, media, reading, report>>

SetMediaTime ==
    /\ ~reading
    /\ media' \in 0..MaxMedia
    /\ Invalidate
    /\ UNCHANGED <<mPause, mState, mClock, executing, clockState, scale, refClock, reading, report>>

KeepReading == UNCHANGED cacheVars
ForgetReading == Invalidate
SetPause(paused) ==
    /\ ~reading /\ mPause # paused
    /\ mPause' = paused
    /\ scale' = IF paused THEN 0 ELSE 1
    /\ ForgetReading
    /\ UNCHANGED <<mState, mClock, executing, clockState, refClock, media, reading, report>>

\* A pause, resume or change of state that fails changes nothing, but the reading is
\* forgotten; a failed stop, step or setMediaTime does not even do that.
CallFails ==
    /\ MayFail /\ ~reading
    /\ Invalidate
    /\ UNCHANGED <<mPause, mState, mClock, componentVars, reading, report>>

-------------------------------------------------------------------------------
(* The keyboard thread, the component and time *)

Step ==
    /\ media' \in media..MaxMedia
    /\ Invalidate
    /\ UNCHANGED <<mPause, mState, mClock, executing, clockState, scale, refClock, reading, report>>

\* Every port of the wait mask has a start time, the earliest of which is the new time.
ClockStarts ==
    /\ executing /\ clockState = "waiting"
    /\ clockState' = "running"
    /\ media' \in 0..MaxMedia
    /\ jumped' = (mLastMediaTime # 0)
    /\ UNCHANGED <<mPause, mState, mClock, mLastMediaTime, age, executing, scale, refClock, reading, report>>

Runs == executing /\ clockState = "running" /\ scale = 1
Tick ==
    /\ ~reading
    /\ Runs => media < MaxMedia
    /\ media' = IF Runs THEN media + 1 ELSE media
    /\ age' = IF age > Window THEN age ELSE age + 1
    /\ UNCHANGED <<mPause, mState, mClock, mLastMediaTime, jumped, executing, clockState,
                   scale, refClock, reading, report>>

Next ==
    \/ ReadComponent \/ ReadFails \/ ReadCacheCheck \/ ReadCacheUse
    \/ StateIdle \/ StateExecute \/ Stop
    \/ ResetFailsReference \/ ResetFailsState \/ Reset
    \/ SetMediaTime \/ SetPause(TRUE) \/ SetPause(FALSE) \/ CallFails
    \/ Step \/ ClockStarts \/ Tick

Spec == Init /\ [][Next]_vars

-------------------------------------------------------------------------------
(* Properties *)

ReportKinds == {"none", "fresh", "cached", "jumped", "raced", "failed"}
FlagTypes ==
    /\ mPause \in BOOLEAN /\ executing \in BOOLEAN
    /\ reading \in BOOLEAN /\ jumped \in BOOLEAN
DataTypes ==
    /\ mState \in {"stopped", "waiting"} /\ clockState \in {"stopped", "waiting", "running"}
    /\ mClock \in {"none", "audio", "video"} /\ refClock \in {"none", "audio", "video"}
    /\ mLastMediaTime \in 0..MaxMedia /\ age \in 0..(Window + 1)
    /\ scale \in {0, 1} /\ media \in 0..MaxMedia
    /\ report \in [kind : ReportKinds, value : Nat, truth : 0..MaxMedia]
TypeOK == FlagTypes /\ DataTypes

\* What the object believes of the component stays true when calls fail: it is
\* paused and stopped exactly when the component is.
BeliefsTrue ==
    /\ mPause <=> scale = 0
    /\ (mState = "stopped") <=> (clockState = "stopped")

\* A reading that may still be extrapolated is never behind the component, and
\* ahead of it by at most its age (the clock may not have run since), unless the
\* clock has started by itself meanwhile.
CacheCoherent ==
    mLastMediaTime # 0 /\ age <= Window /\ ~jumped =>
        media <= Extrapolated /\ Extrapolated <= media + age

\* So getMediaTime is right to a tenth of a second, except just after the clock
\* started by itself, and when step forgot the reading between its test and its use:
\* then it returns a time at the beginning of the file.
ReportNear ==
    /\ report.kind \in {"fresh", "cached"} =>
           report.truth <= report.value /\ report.value <= report.truth + Window
    /\ report.kind \in {"raced", "failed"} => report.value <= Window

\* What is remembered of the time and what is reported of it are near the component's.
TimesNear == CacheCoherent /\ ReportNear
===============================================================================
