---------------------------- MODULE TimeConversions ----------------------------
(***************************************************************************)
(* The arithmetic of times: Time.inl, Time.cpp, the deadlines of           *)
(* POSIX_Synchronization.cpp and the time-outs of                          *)
(* Windows_Synchronization.h.  A Uint64 is a number up to MaxUint64; the   *)
(* units and the limits are constants, so that a small instance has them   *)
(* all meet.                                                               *)
(***************************************************************************)
EXTENDS Integers

CONSTANTS
  MaxUint64,
  NanosecondsPerSecond,
  NanosecondsPerMillisecond,
  MaxTimeT,            \* the largest time_t
  MaxWaitMilliseconds  \* the largest time-out that is not INFINITE

Least(a, b) == IF a < b THEN a ELSE b

-----------------------------------------------------------------------------
(* Time.inl.                                                               *)

\* Mutation of SaturatingAddUint64: the sum wraps.
WrappingAdd(left, right) == (left + right) % (MaxUint64 + 1)

SaturatingAddUint64(left, right) ==
  IF MaxUint64 - left < right THEN MaxUint64 ELSE left + right

SaturatingMultiplyUint64(left, right) ==
  IF left = 0 \/ right = 0 THEN 0
  ELSE IF left > MaxUint64 \div right THEN MaxUint64 ELSE left * right

MakeTimeDuration(count, unit) == SaturatingMultiplyUint64(count, unit)

\* GetElapsedTime, and the differences of two points and of two durations.
GetElapsedTime(begin, end) == IF end <= begin THEN 0 ELSE end - begin
Minus(left, right) == IF left <= right THEN 0 ELSE left - right

-----------------------------------------------------------------------------
(* The clocks.                                                             *)

\* GetPerformanceCounter on POSIX, of a timespec.
GetPerformanceCounter(seconds, nanoseconds) ==
  SaturatingAddUint64(SaturatingMultiplyUint64(seconds, NanosecondsPerSecond), nanoseconds)

\* On Windows, of a counter and a frequency; the long double is taken as exact.
ConvertPerformanceCounterToNanoseconds(counter, frequency) ==
  IF frequency = 0 THEN 0
  ELSE Least(MaxUint64, (counter * NanosecondsPerSecond) \div frequency)

\* MakeAbsoluteTimeoutFromNow: a timespec.
MakeAbsoluteTimeoutFromNow(timeout, now) ==
  LET seconds == SaturatingAddUint64(now.seconds, timeout \div NanosecondsPerSecond)
      nanoseconds == now.nanoseconds + (timeout % NanosecondsPerSecond)
      final == SaturatingAddUint64(seconds, nanoseconds \div NanosecondsPerSecond)
  IN  [seconds |-> IF final > MaxTimeT THEN MaxTimeT ELSE final,
       nanoseconds |-> nanoseconds % NanosecondsPerSecond]

\* ToTimeoutMilliseconds.
ToTimeoutMilliseconds(timeout) ==
  IF timeout = 0 THEN 0
  ELSE LET rounded == SaturatingAddUint64(timeout, NanosecondsPerMillisecond - 1)
       IN  Least(MaxWaitMilliseconds, rounded \div NanosecondsPerMillisecond)

-----------------------------------------------------------------------------
(* Properties.                                                             *)

\* A timed wait ends neither before its time nor more than a unit after it, for
\* every time-out and every clock: the deadline is the sum, or has the last second
\* a time_t can hold; the Windows time-out is the time rounded up, or the longest
\* there is.  What saturates in between does not come out short.
WaitsLongEnough(timeout, now) ==
  /\ LET deadline == MakeAbsoluteTimeoutFromNow(timeout, now)
         exact == now.seconds * NanosecondsPerSecond + now.nanoseconds + timeout
     IN  \/ deadline.seconds * NanosecondsPerSecond + deadline.nanoseconds = exact
         \/ deadline.seconds = MaxTimeT /\ exact >= MaxTimeT * NanosecondsPerSecond
  /\ LET milliseconds == ToTimeoutMilliseconds(timeout)
     IN  \/ milliseconds * NanosecondsPerMillisecond \in timeout..(timeout + NanosecondsPerMillisecond - 1)
         \/ milliseconds = MaxWaitMilliseconds /\ timeout > milliseconds * NanosecondsPerMillisecond

\* Time does not run backwards: a later clock reads later, the elapsed time of
\* two readings leads from one to the other, and nothing wraps.
ClocksMonotone(a, b) ==
  /\ a <= b =>
       /\ GetPerformanceCounter(a, 0) <= GetPerformanceCounter(b, 0)
       /\ \A frequency \in 0..MaxTimeT :
            ConvertPerformanceCounterToNanoseconds(a, frequency)
              <= ConvertPerformanceCounterToNanoseconds(b, frequency)
       /\ SaturatingAddUint64(a, GetElapsedTime(a, b)) = b
  /\ Minus(SaturatingAddUint64(a, b), b) <= a
  /\ MakeTimeDuration(a, NanosecondsPerMillisecond) \in a..MaxUint64
=============================================================================
