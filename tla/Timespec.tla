------------------------------ MODULE Timespec ------------------------------
(***************************************************************************)
(* FreeRTOS_POSIX_utils.c: the times of the POSIX layer under FreeRTOS. A    *)
(* function with a status gives [status, val]. time_t and long are taken as  *)
(* wide enough for the sums below; the ticks are narrower.                  *)
(***************************************************************************)
EXTENDS Integers

CONSTANTS NANOSECONDS_PER_SECOND, NANOSECONDS_PER_TICK, configTICK_RATE_HZ,
          UINT_MAX  \* the largest TickType_t

ASSUME TimeAssumption ==
    /\ configTICK_RATE_HZ \in Nat \ {0}
    /\ NANOSECONDS_PER_TICK \in Nat \ {0, 1}
    /\ NANOSECONDS_PER_SECOND = configTICK_RATE_HZ * NANOSECONDS_PER_TICK
    /\ UINT_MAX \in Nat

With(status, val) == [status |-> status, val |-> val]
Zero == [tv_sec |-> 0, tv_nsec |-> 0]

UTILS_ValidateTimespec(x) == 0 <= x.tv_nsec /\ x.tv_nsec < NANOSECONDS_PER_SECOND

UTILS_TimespecCompare(x, y) ==
    CASE x.tv_sec > y.tv_sec -> 1
      [] x.tv_sec < y.tv_sec -> -1
      [] OTHER -> CASE x.tv_nsec > y.tv_nsec -> 1
                    [] x.tv_nsec < y.tv_nsec -> -1
                    [] OTHER -> 0

UTILS_TimespecSubtract(x, y) ==
    LET borrow == IF x.tv_nsec < y.tv_nsec THEN 1 ELSE 0
        d      == [tv_sec  |-> x.tv_sec - y.tv_sec - borrow,
                   tv_nsec |-> x.tv_nsec - y.tv_nsec + borrow * NANOSECONDS_PER_SECOND]
    IN  CASE UTILS_TimespecCompare(x, y) = -1 -> With("past", Zero)
          [] UTILS_TimespecCompare(x, y) = 0  -> With("ok", Zero)
          [] OTHER -> With(IF d.tv_nsec < 0 THEN "error" ELSE "ok", d)

(* Fault: a part of a tick is dropped. *)
RoundedDown(x) ==
    LET ticks == configTICK_RATE_HZ * x.tv_sec + x.tv_nsec \div NANOSECONDS_PER_TICK
    IN  IF ~UTILS_ValidateTimespec(x) \/ ticks < 0 \/ ticks > UINT_MAX
        THEN With("EINVAL", 0) ELSE With("ok", ticks)

UTILS_TimespecToTicks(x) ==
    LET whole == x.tv_nsec \div NANOSECONDS_PER_TICK
        part  == IF x.tv_nsec % NANOSECONDS_PER_TICK # 0 THEN 1 ELSE 0
        ticks == configTICK_RATE_HZ * x.tv_sec + whole + part
    IN  IF ~UTILS_ValidateTimespec(x) \/ ticks < 0 \/ ticks > UINT_MAX
        THEN With("EINVAL", 0) ELSE With("ok", ticks)

UTILS_AbsoluteTimespecToDeltaTicks(abs, now) ==
    LET d == UTILS_TimespecSubtract(abs, now)
    IN  CASE d.status = "past"  -> With("ETIMEDOUT", 0)
          [] d.status = "error" -> With("EINVAL", 0)
          [] OTHER -> UTILS_TimespecToTicks(d.val)

(* FreeRTOS_POSIX_clock.c: how many ticks a sleep asks vTaskDelay for. One    *)
(* that cannot be converted, or ends in the past, does not sleep, and it is  *)
(* said to have been slept.                                                 *)
Slept(ticks) == IF ticks.status = "ok" THEN ticks ELSE With("ok", 0)

nanosleep(rqtp) ==
    IF ~UTILS_ValidateTimespec(rqtp) THEN With("EINVAL", 0)
    ELSE Slept(UTILS_TimespecToTicks(rqtp))

clock_nanosleep(absolute, rqtp, now) ==
    IF ~UTILS_ValidateTimespec(rqtp) THEN With("EINVAL", 0)
    ELSE Slept(IF absolute THEN UTILS_AbsoluteTimespecToDeltaTicks(rqtp, now)
                           ELSE UTILS_TimespecToTicks(rqtp))
=============================================================================
