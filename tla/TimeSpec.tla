------------------------------- MODULE TimeSpec -------------------------------
(***************************************************************************)
(* addTimeSpec (cOmxCore.cpp), which turns the timeout of every wait of    *)
(* cOmxCore into the absolute deadline handed to pthread_cond_timedwait:   *)
(* the loop that carries nanoseconds into seconds, one iteration a step.   *)
(* No width matters here: nSec is a long long.                             *)
(***************************************************************************)
EXTENDS Integers

CONSTANTS Second,     \* nanoseconds in a second, 1000000000 in the code
          MilliSecond,\* nanoseconds in a millisecond, 1000000 in the code
          MaxSecs,    \* bound: seconds on the clock when the wait begins
          MaxTimeout  \* bound: timeouts asked for, in milliseconds

ASSUME UnitsAssumption ==
    Second \in Nat \ {0} /\ MilliSecond \in Nat \ {0}
ASSUME ClockAssumption == MaxSecs \in Nat /\ MaxTimeout \in Nat

VARIABLES tv_sec, tv_nsec, \* the caller's timespec, updated in place
          nSec,            \* the local variable
          now,             \* the time clock_gettime returned, in nanoseconds
          mSecs,           \* the timeout asked for
          done

timeVars == <<tv_sec, tv_nsec, nSec, now, mSecs, done>>

AddInit ==
    /\ tv_sec \in 0 .. MaxSecs /\ tv_nsec \in 0 .. Second - 1
    /\ mSecs \in 0 .. MaxTimeout
    /\ nSec = tv_nsec + mSecs * MilliSecond
    /\ now = tv_sec * Second + tv_nsec
    /\ done = FALSE

Exceeds == nSec > Second

CarryTwo == tv_sec' = tv_sec + 2
CarryOne == tv_sec' = tv_sec + 1

Carry ==
    /\ ~done /\ Exceeds
    /\ CarryOne
    /\ nSec' = nSec - Second
    /\ UNCHANGED <<tv_nsec, now, mSecs, done>>

Store ==
    /\ ~done /\ ~Exceeds
    /\ tv_nsec' = nSec
    /\ done' = TRUE
    /\ UNCHANGED <<tv_sec, nSec, now, mSecs>>

Stored == done /\ UNCHANGED timeVars

AddNext == Carry \/ Store \/ Stored

AddTimeSpec == AddInit /\ [][AddNext]_timeVars

-------------------------------------------------------------------------------
\* The deadline is the requested number of milliseconds away, however many seconds
\* are carried.
DeadlineExact ==
    done => tv_sec * Second + tv_nsec = now + mSecs * MilliSecond

\* The nanoseconds stay within one second of what a timespec may hold.
DeadlineCarried == done => tv_nsec <= Second
===============================================================================
