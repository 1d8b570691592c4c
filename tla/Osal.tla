--------------------------------- MODULE Osal --------------------------------
(***************************************************************************)
(* Time in osal/win32/osal.c: a counter of microseconds is taken apart     *)
(* into a timeval, timers add a timeout to one and compare it with later   *)
(* ones.  Seconds and microseconds are "long", which has 32 bits; the      *)
(* product of seconds and 1000000 passes them after 36 minutes.            *)
(***************************************************************************)
EXTENDS Integers

CONSTANT LONG           \* values of a long: 2^32

ASSUME OsalAssumption == LONG \in Nat /\ LONG % 2 = 0 /\ LONG > 2000000

USECS_PER_SEC == 1000000

\* What the low bits of x are as a long; an overflow wraps around.
Long(x) == LET u == x % LONG IN IF u < LONG \div 2 THEN u ELSE u - LONG

Time(sec, usec) == [sec |-> sec, usec |-> usec]

\* osal_getrelativetime and osal_gettimeofday, from the microseconds of the
\* performance counter, or of the system's time since 1970.
timeval(usecs) ==
    LET sec == Long(usecs \div USECS_PER_SEC)
    IN  Time(sec, Long(usecs - Long(sec * USECS_PER_SEC)))

timeradd(a, b) ==
    IF a.usec + b.usec >= USECS_PER_SEC
    THEN Time(a.sec + b.sec + 1, a.usec + b.usec - USECS_PER_SEC)
    ELSE Time(a.sec + b.sec, a.usec + b.usec)

Earlier(a, b) == IF a.sec = b.sec THEN a.usec < b.usec ELSE a.sec < b.sec

time_diff(start, end) ==
    IF end.usec < start.usec
    THEN Time(end.sec - start.sec - 1, end.usec + USECS_PER_SEC - start.usec)
    ELSE Time(end.sec - start.sec, end.usec - start.usec)

\* The timer is its stop time.
timer_start(usecs, timeout) ==
    timeradd(timeval(usecs), Time(timeout \div USECS_PER_SEC, timeout % USECS_PER_SEC))
timer_is_expired(timer, usecs) == ~Earlier(timeval(usecs), timer)

\* osal_usleep that began at usecs is not over before its timer has expired,
\* however early SleepEx wakes up.
usleep_over(usecs, usec, now) == timer_is_expired(timer_start(usecs, usec), now)

-----------------------------------------------------------------------------
\* Times whose seconds are a long: for 68 years.
InRange(usecs) == usecs \in Nat /\ usecs \div USECS_PER_SEC < LONG \div 2

Parts(usecs) == Time(usecs \div USECS_PER_SEC, usecs % USECS_PER_SEC)

\* The overflow in the product does no harm: the timeval is the counter's.
ClockIsTrue(usecs) == InRange(usecs) => timeval(usecs) = Parts(usecs)

\* A timer expires when its timeout is over, no earlier and no later.
ExpiresInTime(usecs, timeout, now) ==
    InRange(usecs) /\ InRange(now) /\ InRange(usecs + timeout) =>
        (timer_is_expired(timer_start(usecs, timeout), now) <=> now >= usecs + timeout)

\* The difference of two times is the time between them.
DiffIsTrue(usecs, timeout) ==
    InRange(usecs) /\ InRange(usecs + timeout) =>
        time_diff(timeval(usecs), timeval(usecs + timeout)) = Parts(timeout)
=============================================================================
