---------------------------- MODULE MqueueProofs ----------------------------
(***************************************************************************)
(* What holds of FreeRTOS_POSIX_mqueue.c for every set of threads, names,    *)
(* attributes, lengths and times.                                          *)
(***************************************************************************)
EXTENDS Mqueue, FiniteSetTheorems, SequenceTheorems, TLAPS
-----------------------------------------------------------------------------
(* Time limits. *)
Times == [tv_sec : Int, tv_nsec : Int]

(* Arithmetic the provers are told once. *)
LEMMA Products ==
    /\ \A a, b \in Int : a * b \in Int
    /\ \A a, b, c \in Int : (a + b) * c = a * c + b * c
    /\ \A a, b, c \in Int : (a - b) * c = a * c - b * c
    /\ \A a, b, c \in Int : (a * b) * c = a * (b * c)
    /\ \A a, b \in Int : a * b = b * a
<1>1. \A a, b \in Int : a * b \in Int
  OBVIOUS
<1>2. \A a, b, c \in Int : (a + b) * c = a * c + b * c
  OBVIOUS
<1>3. \A a, b, c \in Int : (a - b) * c = a * c - b * c
  OBVIOUS
<1>4. \A a, b, c \in Int : (a * b) * c = a * (b * c)
  OBVIOUS
<1>5. \A a, b \in Int : a * b = b * a
  OBVIOUS
<1> QED BY <1>1, <1>2, <1>3, <1>4, <1>5

(* More ticks are more time. *)
LEMMA Monotonic ==
    ASSUME NEW a \in Int, NEW b \in Int, NEW c \in Nat, a <= b
    PROVE  a * c <= b * c
<1>1. \A m, n \in Nat : m * n \in Nat
  OBVIOUS
<1>2. (b - a) * c \in Nat
  BY <1>1
<1>3. (b - a) * c = b * c - a * c /\ a * c \in Int /\ b * c \in Int
  BY Products
<1> DEFINE x == a * c
           y == b * c
           z == (b - a) * c
<1> HIDE DEF x, y, z
<1>4. x <= y
  <2>1. z \in Nat /\ z = y - x /\ x \in Int /\ y \in Int
    BY <1>2, <1>3 DEF x, y, z
  <2> QED BY <2>1
<1> QED BY <1>4 DEF x, y

(* A division and what is left of it. *)
LEMMA Division ==
    ASSUME NEW n \in Int, NEW d \in Nat \ {0}
    PROVE  /\ n \div d \in Int /\ (n % d) \in Int
           /\ n = (n \div d) * d + (n % d)
           /\ 0 <= (n % d) /\ (n % d) < d
<1>1. n \div d \in Int /\ (n % d) \in Int /\ 0 <= (n % d) /\ (n % d) < d
  OBVIOUS
<1>2. n = d * (n \div d) + (n % d)
  OBVIOUS
<1> QED BY <1>1, <1>2, Products

(* A second is a whole number of ticks, TimeAssumption says. *)
LEMMA Tick == /\ configTICK_RATE_HZ \in Nat /\ NANOSECONDS_PER_TICK \in Nat \ {0}
              /\ NANOSECONDS_PER_SECOND \in Nat
<1>1. \A m, n \in Nat : m * n \in Nat
  OBVIOUS
<1> QED BY <1>1, TimeAssumption

(* The ticks of a time cover it, and one less would not. *)
Ticks(x) == configTICK_RATE_HZ * x.tv_sec + x.tv_nsec \div NANOSECONDS_PER_TICK
              + IF x.tv_nsec % NANOSECONDS_PER_TICK # 0 THEN 1 ELSE 0

LEMMA TicksCover ==
    ASSUME NEW x \in Times
    PROVE  /\ Ticks(x) \in Int /\ Nanoseconds(x) \in Int
           /\ Covers(Ticks(x), Nanoseconds(x))
           /\ ~Covers(Ticks(x) - 1, Nanoseconds(x))
<1> DEFINE d == NANOSECONDS_PER_TICK
           a == configTICK_RATE_HZ * x.tv_sec
           q == x.tv_nsec \div d
           r == x.tv_nsec % d
           e == IF r # 0 THEN 1 ELSE 0
<1>1. d \in Nat \ {0} /\ x.tv_sec \in Int /\ x.tv_nsec \in Int /\ configTICK_RATE_HZ \in Int
  BY Tick DEF Times
<1>2. a \in Int
  BY <1>1, Products
<1>3. x.tv_sec * NANOSECONDS_PER_SECOND = a * d
  BY <1>1, TimeAssumption, Products
<1>4. /\ q \in Int /\ r \in Int /\ 0 <= r /\ r < d
      /\ x.tv_nsec = q * d + r
  BY <1>1, Division
<1>5. e \in {0, 1} /\ (e = 0 <=> r = 0)
  OBVIOUS
<1>6. Ticks(x) = a + q + e
  BY DEF Ticks
<1>7. Nanoseconds(x) = a * d + (q * d + r)
  BY <1>3, <1>4 DEF Nanoseconds
<1> HIDE DEF d, a, q, r, e
<1>8. /\ (a + q + e) * d = a * d + q * d + e * d
      /\ a * d \in Int /\ q * d \in Int /\ e * d \in Int /\ e * d = IF r = 0 THEN 0 ELSE d
  <2>1. e \in Int /\ d \in Int /\ a + q \in Int
    BY <1>1, <1>2, <1>4, <1>5
  <2>2. (a + q + e) * d = (a + q) * d + e * d /\ (a + q) * d = a * d + q * d
    BY <1>2, <1>4, <2>1, Products
  <2>3. a * d \in Int /\ q * d \in Int /\ e * d \in Int
    BY <1>2, <1>4, <2>1, Products
  <2>4. 0 * d = 0 /\ 1 * d = d
    BY <2>1
  <2>5. e * d = IF r = 0 THEN 0 ELSE d
    BY <1>5, <2>4
  <2> QED BY <2>2, <2>3, <2>5
<1> DEFINE ad == a * d
           qd == q * d
           ed == e * d
           T == a + q + e
<1>9. T \in Int /\ T * d = ad + qd + ed /\ (T - 1) * d = T * d - d
  <2>1. T \in Int /\ d \in Int /\ 1 \in Int
    BY <1>1, <1>2, <1>4, <1>5
  <2>2. 1 * d = d
    BY <2>1
  <2>3. (T - 1) * d = T * d - 1 * d
    BY <2>1, Products
  <2> QED BY <1>8, <2>1, <2>2, <2>3
<1> DEFINE Td == T * d
           Ud == (T - 1) * d
           N == ad + (qd + r)
<1>10. Td \in Int /\ Td = ad + qd + ed /\ Ud = Td - d
  BY <1>8, <1>9
<1>11. ad \in Int /\ qd \in Int /\ ed = (IF r = 0 THEN 0 ELSE d) /\ ed \in Int
  BY <1>8
<1>12. Nanoseconds(x) = N /\ Ticks(x) = T
  BY <1>6, <1>7
<1> HIDE DEF ad, qd, ed, T
<1>13. Covers(Ticks(x), Nanoseconds(x)) <=> Td >= N
  BY <1>12 DEF Covers, d
<1>14. Covers(Ticks(x) - 1, Nanoseconds(x)) <=> Ud >= N
  BY <1>12 DEF Covers, d
<1> HIDE DEF Td, Ud
<1>15. N \in Int /\ Td >= N /\ ~(Ud >= N)
  BY <1>1, <1>4, <1>10, <1>11
<1> QED BY <1>9, <1>12, <1>13, <1>14, <1>15

(* A time that was converted is covered; one that was not is over, or too     *)
(* long for the largest tick.                                               *)
LEMMA Converted ==
    ASSUME NEW x \in Times, UTILS_ValidateTimespec(x)
    PROVE  LET ticks == UTILS_TimespecToTicks(x)
           IN  IF ticks.status = "ok" THEN Covers(ticks.val, Nanoseconds(x))
               ELSE Covers(0, Nanoseconds(x)) \/ ~Covers(UINT_MAX, Nanoseconds(x))
<1> DEFINE n == Nanoseconds(x)
           T == Ticks(x)
           d == NANOSECONDS_PER_TICK
<1>1. UTILS_TimespecToTicks(x) = IF T < 0 \/ T > UINT_MAX THEN With("EINVAL", 0) ELSE With("ok", T)
  BY DEF UTILS_TimespecToTicks, Ticks
<1>2. T \in Int /\ n \in Int /\ Covers(T, n) /\ ~Covers(T - 1, n)
  BY TicksCover
<1>3. d \in Nat /\ d \in Int /\ UINT_MAX \in Int
  BY Tick, TimeAssumption
<1> HIDE DEF n, T
<1>4. \A a, b \in Int : a <= b /\ Covers(a, n) => Covers(b, n)
  <2>1. SUFFICES ASSUME NEW a \in Int, NEW b \in Int, a <= b, Covers(a, n)
                 PROVE  Covers(b, n)
    OBVIOUS
  <2> DEFINE ad == a * d
             bd == b * d
  <2>2. ad <= bd /\ ad \in Int /\ bd \in Int /\ ad >= n
    BY <1>3, <2>1, Monotonic, Products DEF Covers
  <2> HIDE DEF ad, bd
  <2>3. bd >= n
    BY <1>2, <2>2
  <2> QED BY <2>3 DEF Covers, bd
<1>5. CASE T < 0
  BY <1>1, <1>2, <1>4, <1>5 DEF With, n
<1>6. CASE T > UINT_MAX
  <2>1. UINT_MAX <= T - 1 /\ T - 1 \in Int
    BY <1>2, <1>3, <1>6
  <2>2. ~Covers(UINT_MAX, n)
    BY <1>2, <1>3, <1>4, <2>1
  <2> QED BY <1>1, <1>6, <2>2 DEF With, n
<1>7. CASE ~(T < 0) /\ ~(T > UINT_MAX)
  BY <1>1, <1>2, <1>7 DEF With, n
<1> QED BY <1>5, <1>6, <1>7

(* The difference of two times, also over the borrow of a second. *)
LEMMA Subtracted ==
    ASSUME NEW x \in Times, NEW y \in Times,
           UTILS_ValidateTimespec(x), UTILS_ValidateTimespec(y)
    PROVE  LET diff == UTILS_TimespecSubtract(x, y)
           IN  /\ diff.status \in {"ok", "past"}
               /\ diff.status = "past" => Covers(0, Nanoseconds(x) - Nanoseconds(y))
               /\ diff.status = "ok" => /\ diff.val \in Times
                                        /\ UTILS_ValidateTimespec(diff.val)
                                        /\ Nanoseconds(diff.val) = Nanoseconds(x) - Nanoseconds(y)
<1> DEFINE S == NANOSECONDS_PER_SECOND
           borrow == IF x.tv_nsec < y.tv_nsec THEN 1 ELSE 0
           sec == x.tv_sec - y.tv_sec - borrow
           nsec == x.tv_nsec - y.tv_nsec + borrow * S
           val == [tv_sec |-> sec, tv_nsec |-> nsec]
           xs == x.tv_sec * S
           ys == y.tv_sec * S
<1>1. /\ x.tv_sec \in Int /\ x.tv_nsec \in Int /\ y.tv_sec \in Int /\ y.tv_nsec \in Int
      /\ S \in Nat /\ S \in Int
      /\ 0 <= x.tv_nsec /\ x.tv_nsec < S /\ 0 <= y.tv_nsec /\ y.tv_nsec < S
  BY Tick DEF Times, UTILS_ValidateTimespec
<1>2. xs \in Int /\ ys \in Int
  BY <1>1, Products
<1>3. Nanoseconds(x) = xs + x.tv_nsec /\ Nanoseconds(y) = ys + y.tv_nsec
  BY DEF Nanoseconds
<1>4. 0 * NANOSECONDS_PER_TICK = 0 /\ 0 * S = 0 /\ 1 * S = S
  BY <1>1, Tick
<1>5. CASE UTILS_TimespecCompare(x, y) = -1
  <2>1. UTILS_TimespecSubtract(x, y) = With("past", Zero)
    BY <1>5 DEF UTILS_TimespecSubtract
  <2>2. x.tv_sec + 1 <= y.tv_sec \/ (x.tv_sec = y.tv_sec /\ x.tv_nsec < y.tv_nsec)
    BY <1>1, <1>5 DEF UTILS_TimespecCompare
  <2>3. CASE x.tv_sec + 1 <= y.tv_sec
    <3>1. (x.tv_sec + 1) * S <= ys
      BY <1>1, <2>3, Monotonic
    <3>2. (x.tv_sec + 1) * S = xs + 1 * S
      BY <1>1, Products
    <3> HIDE DEF xs, ys
    <3>3. xs + S <= ys
      BY <1>4, <3>1, <3>2
    <3>4. xs + x.tv_nsec - (ys + y.tv_nsec) <= 0
      BY <1>1, <1>2, <3>3
    <3> QED BY <1>1, <1>2, <1>3, <1>4, <2>1, <3>4 DEF With, Covers
  <2>4. CASE x.tv_sec = y.tv_sec /\ x.tv_nsec < y.tv_nsec
    <3>1. xs = ys
      BY <2>4
    <3> HIDE DEF xs, ys
    <3>2. xs + x.tv_nsec - (ys + y.tv_nsec) <= 0
      BY <1>1, <1>2, <2>4, <3>1
    <3> QED BY <1>1, <1>2, <1>3, <1>4, <2>1, <3>2 DEF With, Covers
  <2> QED BY <2>2, <2>3, <2>4
<1>6. CASE UTILS_TimespecCompare(x, y) = 0
  <2>1. UTILS_TimespecSubtract(x, y) = With("ok", Zero)
    BY <1>6 DEF UTILS_TimespecSubtract
  <2>2. x.tv_sec = y.tv_sec /\ x.tv_nsec = y.tv_nsec
    BY <1>1, <1>6 DEF UTILS_TimespecCompare
  <2>3. Nanoseconds(x) - Nanoseconds(y) = 0
    <3>1. xs = ys
      BY <2>2
    <3> HIDE DEF xs, ys
    <3> QED BY <1>1, <1>2, <1>3, <2>2, <3>1
  <2>4. Zero \in Times /\ UTILS_ValidateTimespec(Zero) /\ Nanoseconds(Zero) = 0
    <3>1. S > 0
      BY <1>1
    <3> QED BY <1>4, <3>1 DEF Zero, Times, UTILS_ValidateTimespec, Nanoseconds
  <2> QED BY <2>1, <2>3, <2>4 DEF With
<1>7. CASE UTILS_TimespecCompare(x, y) \notin {-1, 0}
  <2>1. borrow \in {0, 1} /\ borrow * S = (IF x.tv_nsec < y.tv_nsec THEN S ELSE 0) /\ borrow * S \in Int
    BY <1>1, <1>4
  <2>2. sec \in Int /\ nsec \in Int /\ 0 <= nsec /\ nsec < S
    BY <1>1, <2>1
  <2>3. UTILS_TimespecSubtract(x, y) = With("ok", val)
    BY <1>7, <2>2 DEF UTILS_TimespecSubtract
  <2>4. val \in Times /\ UTILS_ValidateTimespec(val)
    BY <2>2 DEF Times, UTILS_ValidateTimespec
  <2>5. Nanoseconds(val) = sec * S + nsec
    BY DEF Nanoseconds
  <2>6. sec * S = xs - ys - borrow * S
    <3>1. borrow \in Int /\ x.tv_sec - y.tv_sec \in Int
      BY <1>1, <2>1
    <3>2. (x.tv_sec - y.tv_sec) * S = xs - ys
      BY <1>1, Products
    <3> HIDE DEF borrow
    <3>3. sec * S = (x.tv_sec - y.tv_sec) * S - borrow * S
      BY <1>1, <3>1, Products
    <3> QED BY <3>2, <3>3
  <2> DEFINE b == borrow * S
  <2>7. b \in Int /\ sec * S = xs - ys - b /\ nsec = x.tv_nsec - y.tv_nsec + b
    BY <2>1, <2>6
  <2> HIDE DEF b, xs, ys, val, sec, nsec
  <2>8. Nanoseconds(val) = Nanoseconds(x) - Nanoseconds(y)
    BY <1>1, <1>2, <1>3, <2>5, <2>7
  <2> QED BY <2>3, <2>4, <2>8 DEF With
<1> QED BY <1>5, <1>6, <1>7

(* The same of a deadline, as seen from the clock. *)
LEMMA DeadlineConverted ==
    ASSUME NEW x \in Times, NEW now \in Times,
           UTILS_ValidateTimespec(x), UTILS_ValidateTimespec(now)
    PROVE  LET ticks == UTILS_AbsoluteTimespecToDeltaTicks(x, now)
               left  == Nanoseconds(x) - Nanoseconds(now)
           IN  IF ticks.status = "ok" THEN Covers(ticks.val, left)
               ELSE Covers(0, left) \/ ~Covers(UINT_MAX, left)
<1> DEFINE diff == UTILS_TimespecSubtract(x, now)
           left == Nanoseconds(x) - Nanoseconds(now)
<1>1. /\ diff.status \in {"ok", "past"}
      /\ diff.status = "past" => Covers(0, left)
      /\ diff.status = "ok" => /\ diff.val \in Times /\ UTILS_ValidateTimespec(diff.val)
                               /\ Nanoseconds(diff.val) = left
  BY Subtracted
<1>2. CASE diff.status = "past"
  <2>1. UTILS_AbsoluteTimespecToDeltaTicks(x, now) = With("ETIMEDOUT", 0)
    BY <1>2 DEF UTILS_AbsoluteTimespecToDeltaTicks
  <2> HIDE DEF left, diff
  <2> QED BY <1>1, <1>2, <2>1 DEF With, left
<1>3. CASE diff.status = "ok"
  <2>1. UTILS_AbsoluteTimespecToDeltaTicks(x, now) = UTILS_TimespecToTicks(diff.val)
    BY <1>3 DEF UTILS_AbsoluteTimespecToDeltaTicks
  <2> DEFINE ticks == UTILS_TimespecToTicks(diff.val)
  <2>2. IF ticks.status = "ok" THEN Covers(ticks.val, Nanoseconds(diff.val))
        ELSE Covers(0, Nanoseconds(diff.val)) \/ ~Covers(UINT_MAX, Nanoseconds(diff.val))
    BY <1>1, <1>3, Converted
  <2> QED BY <1>1, <1>3, <2>1, <2>2
<1> QED BY <1>1, <1>2, <1>3

(* A time limit covers what was left of the caller's time. *)
LEMMA LimitCovers ==
    ASSUME NEW flags, NEW abs \in Deadlines \cup {NULL}, NEW now \in Clock
    PROVE  LET limit == prvCalculateTickTimeout(flags, abs, now)
               waits == abs # NULL /\ "O_NONBLOCK" \notin flags
               left  == IF waits THEN Nanoseconds(abs) - Nanoseconds(now) ELSE 0
           IN  limit.status = "ok" /\ limit.val # Forever => Covers(limit.val, left)
<1> DEFINE limit == prvCalculateTickTimeout(flags, abs, now)
           delta == UTILS_AbsoluteTimespecToDeltaTicks(abs, now)
<1>1. CASE "O_NONBLOCK" \in flags
  <2>1. limit = With("ok", 0)
    BY <1>1 DEF prvCalculateTickTimeout
  <2>2. Covers(0, 0)
    BY Tick DEF Covers
  <2> QED BY <1>1, <2>1, <2>2 DEF With
<1>2. CASE "O_NONBLOCK" \notin flags /\ abs = NULL
  <2>1. limit = With("ok", Forever)
    BY <1>2 DEF prvCalculateTickTimeout
  <2> QED BY <2>1 DEF With
<1>3. CASE "O_NONBLOCK" \notin flags /\ abs # NULL
  <2>1. abs \in Times /\ now \in Times /\ UTILS_ValidateTimespec(now)
    BY <1>3, MqueueAssumption DEF Times
  <2>2. limit.status = "ok" => UTILS_ValidateTimespec(abs) /\ delta.status = "ok" /\ limit = delta
    BY <1>3 DEF prvCalculateTickTimeout, With
  <2>3. UTILS_ValidateTimespec(abs) /\ delta.status = "ok"
          => Covers(delta.val, Nanoseconds(abs) - Nanoseconds(now))
    BY <2>1, DeadlineConverted
  <2> QED BY <1>3, <2>2, <2>3
<1> QED BY <1>1, <1>2, <1>3

(* Nor does a sleep end too early. *)
LEMMA SleptCovers ==
    ASSUME NEW ticks, NEW time,
           IF ticks.status = "ok" THEN Covers(ticks.val, time)
           ELSE Covers(0, time) \/ ~Covers(UINT_MAX, time)
    PROVE  SleepCovers(Slept(ticks), time)
BY DEF Slept, With, SleepCovers

(* nanosleep, and clock_nanosleep with a time and with a deadline. *)
LEMMA SleepsCover ==
    ASSUME NEW x \in Deadlines, NEW now \in Clock
    PROVE  /\ SleepCovers(nanosleep(x), Nanoseconds(x))
           /\ SleepCovers(clock_nanosleep(FALSE, x, now), Nanoseconds(x))
           /\ SleepCovers(clock_nanosleep(TRUE, x, now), Nanoseconds(x) - Nanoseconds(now))
<1>1. x \in Times /\ now \in Times /\ UTILS_ValidateTimespec(now)
  BY MqueueAssumption DEF Times
<1>2. CASE ~UTILS_ValidateTimespec(x)
  BY <1>2 DEF nanosleep, clock_nanosleep, SleepCovers, With
<1>3. CASE UTILS_ValidateTimespec(x)
  <2>1. SleepCovers(Slept(UTILS_TimespecToTicks(x)), Nanoseconds(x))
    <3> DEFINE ticks == UTILS_TimespecToTicks(x)
    <3>1. IF ticks.status = "ok" THEN Covers(ticks.val, Nanoseconds(x))
          ELSE Covers(0, Nanoseconds(x)) \/ ~Covers(UINT_MAX, Nanoseconds(x))
      BY <1>1, <1>3, Converted
    <3> HIDE DEF ticks
    <3>2. SleepCovers(Slept(ticks), Nanoseconds(x))
      BY <3>1, SleptCovers
    <3> QED BY <3>2 DEF ticks
  <2>2. SleepCovers(Slept(UTILS_AbsoluteTimespecToDeltaTicks(x, now)),
                    Nanoseconds(x) - Nanoseconds(now))
    <3> DEFINE ticks == UTILS_AbsoluteTimespecToDeltaTicks(x, now)
               left  == Nanoseconds(x) - Nanoseconds(now)
    <3>1. IF ticks.status = "ok" THEN Covers(ticks.val, left)
          ELSE Covers(0, left) \/ ~Covers(UINT_MAX, left)
      BY <1>1, <1>3, DeadlineConverted
    <3> HIDE DEF ticks, left
    <3>2. SleepCovers(Slept(ticks), left)
      BY <3>1, SleptCovers
    <3> QED BY <3>2 DEF ticks, left
  <2> QED BY <1>3, <2>1, <2>2 DEF nanosleep, clock_nanosleep
<1> QED BY <1>2, <1>3
-----------------------------------------------------------------------------
(* The effects of a step, without the conditions that choose among them. A   *)
(* call that fails changes nothing but pc;                                  *)
Fails(t) ==
    /\ pc[t] \in {"idle", "alloc"}
    /\ \E errno \in Errors : Fail(t, errno)

(* one that finds its queue keeps the arguments, and a limit that is late    *)
(* enough;                                                                  *)
Begins(t) == \E d \in held[t] \cap list, len \in Lengths, next \in {"receive", "alloc"},
                ticks \in Int \cup {Forever}, left \in Int :
    /\ pc[t] = "idle"
    /\ ticks # Forever => Covers(ticks, left)
    /\ IF next = "receive" THEN len >= el[d].attr.msgsize ELSE len <= el[d].attr.msgsize
    /\ Goto(t, next)
    /\ arg' = [arg EXCEPT ![t] = [d |-> d, len |-> len, size |-> 0, ticks |-> ticks,
                                  left |-> left]]
    /\ UNCHANGED <<list, heap, el, data, held>>

(* and a queue is opened by a thread that has not got it open, or made.      *)
Opens(t) == pc[t] = "idle" /\ \E a \in list \ held[t] : OpenExisting(t, a)
Creates(t) == pc[t] = "idle" /\ \E a \in Addrs \ heap, name \in Names,
                                   attr \in Attrs \cup {NULL}, oflag \in OFlags :
    prvCreateNewMessageQueue(t, a, name, attr, oflag)

(* The time limit is a number of ticks, or none. *)
LEMMA TicksType ==
    ASSUME NEW flags, NEW abs \in Deadlines \cup {NULL}, NEW now \in Clock
    PROVE  /\ prvCalculateTickTimeout(flags, abs, now).val \in Int \cup {Forever}
           /\ abs # NULL => Nanoseconds(abs) - Nanoseconds(now) \in Int
<1>1. now \in [tv_sec : Int, tv_nsec : Int]
  BY MqueueAssumption
<1>2. NANOSECONDS_PER_SECOND \in Int /\ NANOSECONDS_PER_TICK \in Nat \ {0, 1}
      /\ configTICK_RATE_HZ \in Int
  <2>1. \A m, n \in Nat : m * n \in Nat
    OBVIOUS
  <2>2. QED
    BY <2>1, TimeAssumption
<1>3. \A m, n \in Int : m * n \in Int
  OBVIOUS
<1>4. CASE abs = NULL
  BY <1>4 DEF prvCalculateTickTimeout, With
<1>5. CASE abs # NULL
  <2>1. abs \in [tv_sec : Int, tv_nsec : Int]
    BY <1>5, MqueueAssumption
  <2>2. Nanoseconds(abs) - Nanoseconds(now) \in Int
    <3>1. abs.tv_sec * NANOSECONDS_PER_SECOND \in Int /\ now.tv_sec * NANOSECONDS_PER_SECOND \in Int
      BY <1>1, <1>2, <1>3, <2>1
    <3>2. QED
      BY <1>1, <2>1, <3>1 DEF Nanoseconds
  <2>3. ASSUME NEW x \in [tv_sec : Int, tv_nsec : Int]
        PROVE  UTILS_TimespecToTicks(x).val \in Int
    <3> DEFINE whole == x.tv_nsec \div NANOSECONDS_PER_TICK
               part  == IF x.tv_nsec % NANOSECONDS_PER_TICK # 0 THEN 1 ELSE 0
    <3>1. whole \in Int /\ part \in Int
      BY <1>2
    <3>2. configTICK_RATE_HZ * x.tv_sec \in Int
      BY <1>2, <1>3
    <3> HIDE DEF whole, part
    <3>3. configTICK_RATE_HZ * x.tv_sec + whole + part \in Int
      BY <3>1, <3>2
    <3>4. QED
      BY <3>3 DEF UTILS_TimespecToTicks, With, whole, part
  <2>4. UTILS_TimespecSubtract(abs, now).val \in [tv_sec : Int, tv_nsec : Int]
    <3> DEFINE borrow == IF abs.tv_nsec < now.tv_nsec THEN 1 ELSE 0
    <3>1. borrow * NANOSECONDS_PER_SECOND \in Int
      BY <1>2
    <3>2. abs.tv_sec - now.tv_sec - borrow \in Int
          /\ abs.tv_nsec - now.tv_nsec + borrow * NANOSECONDS_PER_SECOND \in Int
      BY <1>1, <2>1, <3>1
    <3>3. QED
      BY <3>2 DEF UTILS_TimespecSubtract, With, Zero
  <2>5. UTILS_AbsoluteTimespecToDeltaTicks(abs, now).val \in Int
    BY <2>3, <2>4 DEF UTILS_AbsoluteTimespecToDeltaTicks, With
  <2>6. QED
    BY <1>5, <2>2, <2>5 DEF prvCalculateTickTimeout, With
<1>6. QED
  BY <1>4, <1>5
-----------------------------------------------------------------------------
(* mq_timedreceive and mq_timedsend fail or begin. *)
LEMMA LookupCases ==
    ASSUME TypeOK, NEW t \in Threads, TimedCalls(t)
    PROVE  Fails(t) \/ Begins(t)
<1>1. PICK d \in Addrs, len \in Lengths, abs \in Deadlines \cup {NULL}, now \in Clock :
        mq_timedreceive(t, d, len, abs, now) \/ mq_timedsend(t, d, len, abs, now)
  BY DEF TimedCalls
<1> DEFINE limit == prvCalculateTickTimeout(el[d].flags, abs, now)
           waits == abs # NULL /\ "O_NONBLOCK" \notin el[d].flags
           left  == IF waits THEN Nanoseconds(abs) - Nanoseconds(now) ELSE 0
<1>2. limit.val \in Int \cup {Forever} /\ left \in Int
  BY TicksType
<1>l. limit.status = "ok" /\ limit.val # Forever => Covers(limit.val, left)
  BY LimitCovers
<1>3. limit.status \in {"ok"} \cup Errors
  BY DEF prvCalculateTickTimeout, UTILS_AbsoluteTimespecToDeltaTicks, UTILS_TimespecToTicks,
         UTILS_TimespecSubtract, With, Errors
<1> HIDE DEF limit, left
<1>4. CASE mq_timedreceive(t, d, len, abs, now)
  <2>1. CASE pc[t] = "idle" /\ d \in list /\ len >= el[d].attr.msgsize /\ limit.status = "ok"
    <3> DEFINE a == [d |-> d, len |-> len, size |-> 0, ticks |-> limit.val, left |-> left]
    <3>1. d \in held[t] \cap list /\ Goto(t, "receive")
          /\ arg' = [arg EXCEPT ![t] = a] /\ UNCHANGED <<list, heap, el, data, held>>
      BY <1>4, <2>1 DEF mq_timedreceive, Lookup, limit, left
    <3>2. QED
      BY <1>2, <1>l, <2>1, <3>1 DEF Begins
  <2>2. QED
    BY <1>3, <1>4, <2>1 DEF mq_timedreceive, Lookup, Fails, Errors, limit
<1>5. CASE mq_timedsend(t, d, len, abs, now)
  <2>1. CASE pc[t] = "idle" /\ d \in list /\ len <= el[d].attr.msgsize /\ limit.status = "ok"
    <3> DEFINE a == [d |-> d, len |-> len, size |-> 0, ticks |-> limit.val, left |-> left]
    <3>1. d \in held[t] \cap list /\ Goto(t, "alloc")
          /\ arg' = [arg EXCEPT ![t] = a] /\ UNCHANGED <<list, heap, el, data, held>>
      BY <1>5, <2>1 DEF mq_timedsend, Lookup, limit, left
    <3>2. QED
      BY <1>2, <1>l, <2>1, <3>1 DEF Begins
  <2>2. QED
    BY <1>3, <1>5, <2>1 DEF mq_timedsend, Lookup, Fails, Errors, limit
<1>6. QED
  BY <1>1, <1>4, <1>5

(* mq_open fails, opens or creates. *)
LEMMA OpenCases ==
    ASSUME NEW t \in Threads, NEW name \in Names, NEW oflag \in OFlags,
           NEW attr \in Attrs \cup {NULL}, mq_open(t, name, oflag, attr)
    PROVE  Fails(t) \/ Opens(t) \/ Creates(t)
<1>1. pc[t] = "idle" /\ ~\E a \in held[t] : el[a].name = name
  BY DEF mq_open
<1>2. CASE \E errno \in Errors : Fail(t, errno)
  BY <1>1, <1>2 DEF Fails
<1>3. CASE \E a \in prvFindQueueInList(name) : OpenFound(t, a, oflag)
  BY <1>1, <1>3 DEF OpenFound, prvFindQueueInList, Opens, Fails, Errors
<1>4. CASE OpenNew(t, name, attr, oflag)
  BY <1>1, <1>4 DEF OpenNew, Creates, Fails, Errors
<1>5. QED
  BY <1>2, <1>3, <1>4 DEF mq_open, Errors

(* The other calls, where they do not fail. *)
Closes(t)  == \E d \in Addrs : mq_close(t, d) /\ d \in list
Unlinks(t) == pc[t] = "idle" /\ \E a \in list :
    /\ IF el[a].open = 0 THEN Remove(t, a) /\ UNCHANGED el
       ELSE el' = [el EXCEPT ![a].pending = TRUE] /\ UNCHANGED <<list, arg, pc>>
    /\ UNCHANGED <<heap, data, held>>
Getattr(t) == \E d \in Addrs :
    /\ el' = [el EXCEPT ![d].curmsgs = Len(el[d].q)]
    /\ UNCHANGED <<list, heap, data, held, pc, arg>>
Allocs(t)  == /\ pc[t] = "alloc" /\ data' = data + 1 /\ Goto(t, "send")
              /\ UNCHANGED <<list, heap, el, held, arg>>
Gives(t)   == /\ pc[t] \in {"send", "receive"} /\ WaitEnds(t)
              /\ data' = IF pc[t] = "send" THEN data - 1 ELSE data
              /\ UNCHANGED <<list, heap, el, held, arg>>

LEMMA StepCases ==
    ASSUME TypeOK, NEW t \in Threads, Step(t)
    PROVE  \/ Fails(t) \/ Return(t) \/ Begins(t) \/ Opens(t) \/ Creates(t)
           \/ Closes(t) \/ Unlinks(t) \/ Getattr(t) \/ Allocs(t) \/ Gives(t)
           \/ xQueueSend(t) \/ xQueueReceive(t) \/ ReceiveCopy(t) \/ prvDeleteMessageQueue(t)
<1>1. CASE TimedCalls(t)
  BY <1>1, LookupCases
<1>2. CASE SendAlloc(t)
  BY <1>2 DEF SendAlloc, Allocs, Fails, Errors
<1>3. CASE SendTimeout(t) \/ ReceiveTimeout(t)
  BY <1>3 DEF SendTimeout, ReceiveTimeout, Gives
<1>4. CASE \E d \in Addrs : mq_close(t, d) \/ mq_getattr(t, d)
  BY <1>4 DEF mq_close, mq_getattr, Closes, Getattr, Fails, Errors
<1>5. ASSUME NEW name \in Names, mq_unlink(t, name)
      PROVE  Fails(t) \/ Unlinks(t)
  BY <1>5 DEF mq_unlink, prvFindQueueInList, Unlinks, Fails, Errors
<1>6. ASSUME NEW name \in Names,
             \E oflag \in OFlags, attr \in Attrs \cup {NULL} : mq_open(t, name, oflag, attr)
      PROVE  Fails(t) \/ Opens(t) \/ Creates(t)
  BY <1>6, OpenCases
<1>7. QED
  BY <1>1, <1>2, <1>3, <1>4, <1>5, <1>6 DEF Step
-----------------------------------------------------------------------------
(* The invariant. A queue is in the list or is deleted by one thread;        *)
Linked ==
    /\ heap = list \cup {arg[t].d : t \in Deleting}
    /\ \A t \in Deleting : arg[t].d \notin list
    /\ \A s, t \in Deleting : arg[s].d = arg[t].d => s = t

(* it counts the threads that have it open,                                  *)
Holders(a) == {t \in Threads : a \in held[t]}
Counted == \A a \in list : el[a].open = Cardinality(Holders(a))

(* which keeps it in the list: a thread in a call holds the queue it uses;   *)
Users ==
    /\ \A t \in Threads : held[t] \subseteq list
    /\ \A t \in InQueue : arg[t].d \in held[t]

(* and no message is longer than its queue's messages may be.                *)
Sizes == \A a \in Addrs : \A i \in 1..Len(el[a].q) : el[a].q[i] <= el[a].attr.msgsize
Requests == \A t \in Threads :
    /\ pc[t] = "receive" => arg[t].len >= Mine(t).attr.msgsize
    /\ pc[t] \in {"alloc", "send"} => arg[t].len <= Mine(t).attr.msgsize
    /\ pc[t] = "copy" => arg[t].size <= arg[t].len

QueueInv == TypeOK /\ Linked /\ Counted /\ Users /\ Sizes /\ Requests
-----------------------------------------------------------------------------
LEMMA InitInv == Init => QueueInv
<1> SUFFICES ASSUME Init PROVE QueueInv
  OBVIOUS
<1>1. Blank \in Elements /\ Blank.q = <<>>
  BY MqueueAssumption DEF Blank, Elements
<1>2. NoArg \in Arguments
  <2>1. NoArg.ticks \in Int \cup {Forever} /\ NoArg.left \in Int
    BY DEF NoArg
  <2>2. QED
    BY DEF NoArg, Arguments
<1>3. TypeOK
  BY <1>1, <1>2 DEF Init, TypeOK, Labels
<1>4. Linked /\ Counted /\ Users
  BY DEF Init, Linked, Counted, Users, Deleting, InQueue
<1>5. Sizes /\ Requests
  BY <1>1 DEF Init, Sizes, Requests
<1>6. QED
  BY <1>3, <1>4, <1>5 DEF QueueInv

(* A field of a queue changes; a new queue, and one that is no more. *)
LEMMA BlankType == Blank \in Elements /\ Blank.q = <<>>
  BY MqueueAssumption DEF Blank, Elements
LEMMA ElementFields ==
    ASSUME NEW e \in Elements
    PROVE  /\ \A v \in Nat : /\ [e EXCEPT !.open = v] \in Elements
                             /\ [e EXCEPT !.curmsgs = v] \in Elements
           /\ \A v \in BOOLEAN : [e EXCEPT !.pending = v] \in Elements
           /\ \A v \in Seq(Nat) : [e EXCEPT !.q = v] \in Elements
           /\ \A v \in Names : [e EXCEPT !.name = v] \in Elements
           /\ \A v \in OFlags : [e EXCEPT !.flags = v] \in Elements
           /\ \A v \in [maxmsg : Nat, msgsize : Nat] : [e EXCEPT !.attr = v] \in Elements
  BY DEF Elements

LEMMA NewElement ==
    ASSUME NEW name \in Names, NEW attr \in Attrs \cup {NULL}, NEW oflag \in OFlags
    PROVE  LET new == NewQueue(name, attr, oflag)
           IN  new \in Elements /\ new.q = <<>> /\ new.open = 1
<1> DEFINE given == IF attr = NULL THEN DefaultAttr ELSE attr
           a == [Blank EXCEPT !.name = name]
           b == [a EXCEPT !.open = 1]
           c == [b EXCEPT !.flags = oflag]
           d == [c EXCEPT !.attr = given]
<1>1. given \in [maxmsg : Nat, msgsize : Nat]
  BY MqueueAssumption
<1> HIDE DEF given
<1>2. a \in Elements /\ a.q = <<>>
  <2>1. a \in Elements
    BY BlankType, ElementFields
  <2>2. a.q = Blank.q
    BY BlankType DEF Elements
  <2>3. QED
    BY <2>1, <2>2, BlankType
<1> HIDE DEF a
<1>3. b \in Elements /\ b.q = <<>> /\ b.open = 1
  <2>1. b \in Elements
    BY <1>2, ElementFields
  <2>2. QED
    BY <2>1, <1>2 DEF Elements
<1> HIDE DEF b
<1>4. c \in Elements /\ c.q = <<>> /\ c.open = 1
  <2>1. c \in Elements
    BY <1>3, ElementFields
  <2>2. QED
    BY <2>1, <1>3 DEF Elements
<1> HIDE DEF c
<1>5. d \in Elements /\ d.q = <<>> /\ d.open = 1
  <2>1. d \in Elements
    BY <1>1, <1>4, ElementFields
  <2>2. QED
    BY <2>1, <1>4 DEF Elements
<1>6. NewQueue(name, attr, oflag) = d
  BY DEF NewQueue, a, b, c, given
<1> HIDE DEF d
<1>7. QED
  BY <1>5, <1>6

LEMMA NoArgType == NoArg \in Arguments
<1>1. 0 \in Int \cup {Forever} /\ 0 \in Nat
  OBVIOUS
<1>2. QED
  BY <1>1 DEF NoArg, Arguments

LEMMA TypeStep ==
    ASSUME QueueInv, NEW t \in Threads, Step(t)
    PROVE  TypeOK'
<1> USE DEF QueueInv, TypeOK, Goto
<1>1. Labels = {"EINVAL", "EEXIST", "ENOSPC", "ENOENT", "EBADF", "EMSGSIZE", "EAGAIN",
                "ETIMEDOUT", "idle", "delete", "alloc", "send", "receive", "copy"}
  BY DEF Labels, Errors
<1>2. CASE Fails(t)
  BY <1>2, <1>1 DEF Fails, Fail, Errors
<1>3. CASE Return(t)
  BY <1>3, <1>1, NoArgType DEF Return, Errors
<1>4. CASE Begins(t)
  <2>1. PICK d \in held[t] \cap list, len \in Lengths, next \in {"receive", "alloc"},
             ticks \in Int \cup {Forever}, left \in Int :
          /\ pc[t] = "idle"
          /\ ticks # Forever => Covers(ticks, left)
          /\ IF next = "receive" THEN len >= el[d].attr.msgsize ELSE len <= el[d].attr.msgsize
          /\ Goto(t, next)
          /\ arg' = [arg EXCEPT ![t] = [d |-> d, len |-> len, size |-> 0,
                                        ticks |-> ticks, left |-> left]]
          /\ UNCHANGED <<list, heap, el, data, held>>
    BY ONLY <1>4, Zenon DEF Begins
  <2>2. [d |-> d, len |-> len, size |-> 0, ticks |-> ticks, left |-> left] \in Arguments
        /\ d \in Addrs
    BY MqueueAssumption DEF Arguments
  <2>3. QED
    BY <1>1, <2>1, <2>2
<1>5. CASE Opens(t)
  <2>1. PICK a \in list : OpenExisting(t, a)
    BY <1>5 DEF Opens
  <2>2. el[a].open + 1 \in Nat
    BY DEF Elements
  <2>3. el' \in [Addrs -> Elements]
    BY <2>1, <2>2, ElementFields DEF OpenExisting
  <2>4. QED
    BY <2>1, <2>3 DEF OpenExisting
<1>6. CASE Creates(t)
  <2>1. PICK a \in Addrs \ heap, name \in Names, attr \in Attrs \cup {NULL}, oflag \in OFlags :
          prvCreateNewMessageQueue(t, a, name, attr, oflag)
    BY <1>6 DEF Creates
  <2>3. el' \in [Addrs -> Elements]
    BY <2>1, NewElement DEF prvCreateNewMessageQueue
  <2>4. QED
    BY <2>1, <2>3 DEF prvCreateNewMessageQueue
<1>7. CASE Closes(t)
  <2>1. PICK d \in Addrs : mq_close(t, d) /\ d \in list
    BY <1>7 DEF Closes
  <2> DEFINE open == IF el[d].open > 0 THEN el[d].open - 1 ELSE 0
             e == [el[d] EXCEPT !.open = open]
  <2>a. open \in Nat /\ (el[d].pending \/ open = 0) \in BOOLEAN
    BY DEF Elements
  <2>b. e \in Elements /\ [e EXCEPT !.pending = el[d].pending \/ open = 0] \in Elements
    BY <2>a, ElementFields
  <2>2. el' \in [Addrs -> Elements] /\ held' \in [Threads -> SUBSET Addrs]
        /\ heap' \subseteq Addrs /\ data' \in Int
    BY <2>1, <2>b DEF mq_close
  <2>3. CASE Remove(t, d)
    BY <1>1, <2>1, <2>2, <2>3 DEF Remove, Arguments
  <2>4. CASE UNCHANGED <<list, arg, pc>>
    BY <2>2, <2>4
  <2>5. QED
    BY <2>1, <2>3, <2>4 DEF mq_close
<1>8. CASE Unlinks(t)
  <2>1. PICK a \in list :
          /\ IF el[a].open = 0 THEN Remove(t, a) /\ UNCHANGED el
             ELSE el' = [el EXCEPT ![a].pending = TRUE] /\ UNCHANGED <<list, arg, pc>>
          /\ UNCHANGED <<heap, data, held>>
    BY <1>8 DEF Unlinks
  <2>2. CASE el[a].open = 0
    BY <1>1, <2>1, <2>2 DEF Remove, Arguments
  <2>3. CASE el[a].open # 0
    <3>1. [el[a] EXCEPT !.pending = TRUE] \in Elements
      BY ElementFields
    <3>2. el' \in [Addrs -> Elements] /\ UNCHANGED <<list, arg, pc, heap, data, held>>
      BY <2>1, <2>3, <3>1
    <3>3. QED
      BY <3>2
  <2>4. QED
    BY <2>2, <2>3
<1>9. CASE Getattr(t)
  <2>1. PICK d \in Addrs : el' = [el EXCEPT ![d].curmsgs = Len(el[d].q)]
    BY <1>9 DEF Getattr
  <2>2. Len(el[d].q) \in Nat
    BY DEF Elements
  <2>3. el' \in [Addrs -> Elements]
    BY <2>1, <2>2, ElementFields
  <2>4. QED
    BY <1>9, <2>3 DEF Getattr
<1>10. CASE Allocs(t)
  BY <1>10, <1>1 DEF Allocs
<1>11. CASE Gives(t)
  <2>1. data' \in Int
    BY <1>11 DEF Gives
  <2>2. QED
    BY <1>11, <1>1, <2>1 DEF Gives, WaitEnds
<1>12. CASE xQueueSend(t)
  <2>1. arg[t].d \in Addrs /\ arg[t].len \in Nat
    BY <1>12 DEF xQueueSend, Arguments
  <2>2. Append(el[arg[t].d].q, arg[t].len) \in Seq(Nat)
    BY <2>1 DEF Elements
  <2>3. el' \in [Addrs -> Elements]
    BY <1>12, <2>1, <2>2, ElementFields DEF xQueueSend
  <2>4. QED
    BY <1>12, <1>1, <2>3, NoArgType DEF xQueueSend
<1>13. CASE xQueueReceive(t)
  <2>1. arg[t].d \in Addrs
    BY <1>13 DEF xQueueReceive
  <2>2. el[arg[t].d].q \in Seq(Nat) /\ el[arg[t].d].q # <<>>
    BY <1>13, <2>1 DEF xQueueReceive, Elements, Mine
  <2>3. Head(el[arg[t].d].q) \in Nat /\ Tail(el[arg[t].d].q) \in Seq(Nat)
    BY <2>2
  <2>4. el' \in [Addrs -> Elements]
    BY <1>13, <2>1, <2>3, ElementFields DEF xQueueReceive, Mine
  <2>5. arg' \in [Threads -> Arguments]
    BY <1>13, <2>3 DEF xQueueReceive, Mine, Arguments
  <2>6. QED
    BY <1>13, <1>1, <2>4, <2>5 DEF xQueueReceive
<1>14. CASE ReceiveCopy(t)
  <2>1. data' \in Int
    BY <1>14 DEF ReceiveCopy
  <2>2. QED
    BY <1>14, <1>1, <2>1, NoArgType DEF ReceiveCopy
<1>15. CASE prvDeleteMessageQueue(t)
  <2>1. arg[t].d \in Addrs
    BY <1>15 DEF prvDeleteMessageQueue
  <2>2. Len(Mine(t).q) \in Nat
    BY <2>1 DEF Elements, Mine
  <2>3. data' \in Int
    BY <1>15, <2>2 DEF prvDeleteMessageQueue
  <2>4. Blank \in Elements
    BY MqueueAssumption DEF Blank, Elements
  <2>5. QED
    BY <1>15, <1>1, <2>3, <2>4, NoArgType DEF prvDeleteMessageQueue
<1>16. QED
  BY StepCases, <1>2, <1>3, <1>4, <1>5, <1>6, <1>7, <1>8, <1>9, <1>10, <1>11, <1>12, <1>13,
     <1>14, <1>15
-----------------------------------------------------------------------------
(* A thread that neither removes nor deletes a queue keeps them all linked. *)
LEMMA LinkedKept ==
    ASSUME TypeOK, TypeOK', Linked, NEW t \in Threads, pc[t] # "delete", pc'[t] # "delete",
           \A s \in Threads \ {t} : pc'[s] = pc[s] /\ arg'[s] = arg[s],
           UNCHANGED <<list, heap>>
    PROVE  Linked'
<1>1. Deleting' = Deleting /\ \A s \in Deleting : arg'[s] = arg[s]
  BY DEF Deleting
<1>2. QED
  BY <1>1 DEF Linked

(* One that removes a queue will delete it. *)
LEMMA LinkedRemove ==
    ASSUME TypeOK, Linked, NEW t \in Threads, NEW a \in list, pc[t] = "idle", Remove(t, a),
           UNCHANGED heap
    PROVE  Linked'
<1>1. a \in Addrs /\ a \in heap
  BY DEF TypeOK, Linked
<1>2. Deleting' = Deleting \cup {t} /\ t \notin Deleting
  BY DEF Deleting, Remove, Goto, TypeOK
<1>3. arg'[t].d = a /\ \A s \in Deleting : arg'[s] = arg[s]
  BY <1>2 DEF Remove, TypeOK, Arguments, Deleting
<1>4. \A s \in Deleting : arg[s].d # a
  BY DEF Linked
<1>5. heap' = list' \cup {arg'[s].d : s \in Deleting'}
  BY <1>1, <1>2, <1>3 DEF Linked, Remove
<1>6. \A s \in Deleting' : arg'[s].d \notin list'
  BY <1>2, <1>3 DEF Linked, Remove
<1>7. QED
  BY <1>2, <1>3, <1>4, <1>5, <1>6 DEF Linked

LEMMA LinkedStep ==
    ASSUME QueueInv, TypeOK', NEW t \in Threads, Step(t)
    PROVE  Linked'
<1> USE DEF QueueInv
<1>1. CASE Fails(t)
  BY <1>1, LinkedKept DEF Fails, Fail, Goto, Errors, TypeOK
<1>2. CASE Return(t)
  BY <1>2, LinkedKept DEF Return, Goto, Errors, TypeOK
<1>3. CASE Begins(t)
  <2>1. pc'[t] # "delete" /\ pc[t] # "delete"
    BY <1>3 DEF Begins, Goto, TypeOK
  <2>2. QED
    BY <1>3, <2>1, LinkedKept DEF Begins, Goto, TypeOK
<1>4. CASE Opens(t)
  BY <1>4, LinkedKept DEF Opens, OpenExisting, TypeOK
<1>5. CASE Creates(t)
  <2>1. PICK a \in Addrs \ heap : list' = list \cup {a} /\ heap' = heap \cup {a}
                                 /\ UNCHANGED <<pc, arg>>
    BY <1>5 DEF Creates, prvCreateNewMessageQueue
  <2>2. Deleting' = Deleting
    BY <2>1 DEF Deleting
  <2>3. QED
    BY <2>1, <2>2 DEF Linked
<1>6. CASE Closes(t)
  <2>1. PICK d \in list : mq_close(t, d)
    BY <1>6 DEF Closes
  <2>2. CASE Remove(t, d)
    BY <2>1, <2>2, LinkedRemove DEF mq_close
  <2>3. CASE UNCHANGED <<list, arg, pc>>
    BY <2>1, <2>3, LinkedKept DEF mq_close, TypeOK
  <2>4. QED
    BY <2>1, <2>2, <2>3 DEF mq_close
<1>7. CASE Unlinks(t)
  <2>1. PICK a \in list : (Remove(t, a) \/ UNCHANGED <<list, arg, pc>>) /\ UNCHANGED heap
    BY <1>7 DEF Unlinks
  <2>2. QED
    BY <1>7, <2>1, LinkedRemove, LinkedKept DEF Unlinks, TypeOK
<1>8. CASE Getattr(t)
  BY <1>8 DEF Getattr, Linked, Deleting
<1>9. CASE Allocs(t)
  BY <1>9, LinkedKept DEF Allocs, Goto, TypeOK
<1>10. CASE Gives(t)
  BY <1>10, LinkedKept DEF Gives, WaitEnds, Goto, TypeOK
<1>11. CASE xQueueSend(t)
  BY <1>11, LinkedKept DEF xQueueSend, Goto, TypeOK
<1>12. CASE xQueueReceive(t)
  BY <1>12, LinkedKept DEF xQueueReceive, Goto, TypeOK
<1>13. CASE ReceiveCopy(t)
  BY <1>13, LinkedKept DEF ReceiveCopy, Goto, TypeOK
<1>14. CASE prvDeleteMessageQueue(t)
  <2>1. t \in Deleting /\ Deleting' = Deleting \ {t}
        /\ \A s \in Deleting' : arg'[s] = arg[s]
    BY <1>14 DEF prvDeleteMessageQueue, Deleting, Goto, TypeOK
  <2>2. \A s \in Deleting' : arg[s].d # arg[t].d
    BY <2>1 DEF Linked
  <2>3. arg[t].d \notin list
    BY <2>1 DEF Linked
  <2>4. heap' = heap \ {arg[t].d} /\ list' = list
    BY <1>14 DEF prvDeleteMessageQueue
  <2>5. QED
    BY <2>1, <2>2, <2>3, <2>4 DEF Linked
<1>15. QED
  BY StepCases, <1>1, <1>2, <1>3, <1>4, <1>5, <1>6, <1>7, <1>8, <1>9, <1>10, <1>11, <1>12,
     <1>13, <1>14
-----------------------------------------------------------------------------
LEMMA HoldersCount ==
    ASSUME NEW a
    PROVE  /\ IsFiniteSet(Holders(a)) /\ Cardinality(Holders(a)) \in Nat
           /\ Cardinality(Holders(a)) = 0 => Holders(a) = {}
           /\ \A t \in Holders(a) : /\ Cardinality(Holders(a)) > 0
                                   /\ Cardinality(Holders(a) \ {t}) = Cardinality(Holders(a)) - 1
           /\ \A t \in Threads \ Holders(a) :
                Cardinality(Holders(a) \cup {t}) = Cardinality(Holders(a)) + 1
<1>1. IsFiniteSet(Holders(a)) /\ Cardinality(Holders(a)) \in Nat
  BY MqueueAssumption, FS_Subset, FS_CardinalityType DEF Holders
<1>2. Cardinality(Holders(a)) = 0 => Holders(a) = {}
  BY <1>1, FS_EmptySet
<1>3. QED
  BY <1>1, <1>2, FS_RemoveElement, FS_AddElement

(* mq_close takes one descriptor off, and removes a queue nobody has open. *)
LEMMA CloseCounts ==
    ASSUME QueueInv, NEW t \in Threads, NEW d \in list, mq_close(t, d)
    PROVE  /\ d \in held[t] /\ held' = [held EXCEPT ![t] = @ \ {d}]
           /\ \A a \in list \ {d} : el'[a].open = el[a].open
           /\ el'[d].open = Cardinality(Holders(d) \ {t})
           /\ list' \in {list, list \ {d}}
           /\ list' # list => Holders(d) = {t}
<1> USE DEF QueueInv
<1> DEFINE open == IF el[d].open > 0 THEN el[d].open - 1 ELSE 0
<1>1. d \in held[t] /\ held' = [held EXCEPT ![t] = @ \ {d}]
  BY DEF mq_close
<1>2. t \in Holders(d)
  BY <1>1 DEF Holders
<1>3. el[d].open = Cardinality(Holders(d)) /\ Cardinality(Holders(d)) \in Nat
      /\ Cardinality(Holders(d)) > 0
      /\ Cardinality(Holders(d) \ {t}) = Cardinality(Holders(d)) - 1
  BY <1>2, HoldersCount DEF Counted
<1>4. open = Cardinality(Holders(d) \ {t})
  BY <1>3
<1>5. d \in Addrs /\ el' = [el EXCEPT ![d].open = open, ![d].pending = @ \/ open = 0]
  BY DEF mq_close, TypeOK
<1>6. \A a \in list \ {d} : el'[a] = el[a]
  BY <1>5 DEF TypeOK
<1>7. el'[d].open = open
  BY <1>5 DEF TypeOK, Elements
<1>8. list' = list \/ (list' = list \ {d} /\ open = 0)
  <2>1. el[d].pending \in BOOLEAN
    BY <1>5 DEF TypeOK, Elements
  <2>2. IF open = 0 /\ el[d].pending THEN Remove(t, d) ELSE UNCHANGED <<list, arg, pc>>
    BY DEF mq_close
  <2>3. CASE open = 0 /\ el[d].pending
    BY <2>2, <2>3 DEF Remove
  <2>4. CASE ~(open = 0 /\ el[d].pending)
    BY <2>2, <2>4
  <2>5. QED
    BY <2>3, <2>4
<1>9. open = 0 => Holders(d) = {t}
  <2>1. IsFiniteSet(Holders(d) \ {t})
    BY HoldersCount, FS_Subset
  <2>2. open = 0 => Holders(d) \ {t} = {}
    BY <1>4, <2>1, FS_EmptySet
  <2>3. QED
    BY <1>2, <2>2
<1>10. QED
  BY <1>1, <1>4, <1>6, <1>7, <1>8, <1>9

(* mq_unlink takes no descriptor off, and removes a queue nobody has open. *)
LEMMA UnlinkCounts ==
    ASSUME QueueInv, NEW t \in Threads, Unlinks(t)
    PROVE  /\ held' = held
           /\ \A b \in list : el'[b].open = el[b].open
           /\ list' \subseteq list
           /\ \A b \in list \ list' : Holders(b) = {}
<1> USE DEF QueueInv
<1>1. PICK a \in list :
          /\ IF el[a].open = 0 THEN Remove(t, a) /\ UNCHANGED el
             ELSE el' = [el EXCEPT ![a].pending = TRUE] /\ UNCHANGED <<list, arg, pc>>
          /\ UNCHANGED <<heap, data, held>>
  BY DEF Unlinks
<1>2. CASE el[a].open = 0
  <2>1. Holders(a) = {}
    BY <1>2, HoldersCount DEF Counted
  <2>2. QED
    BY <1>1, <1>2, <2>1 DEF Remove
<1>3. CASE el[a].open # 0
  <2>1. a \in Addrs /\ el' = [el EXCEPT ![a] = [el[a] EXCEPT !.pending = TRUE]]
    BY <1>1, <1>3 DEF TypeOK
  <2>2. [el[a] EXCEPT !.pending = TRUE].open = el[a].open
    BY <2>1 DEF TypeOK, Elements
  <2>a. \A b \in list : el'[b].open = el[b].open
    BY <2>1, <2>2 DEF TypeOK
  <2>3. QED
    BY <1>1, <1>3, <2>a
<1>4. QED
  BY <1>2, <1>3

(* Any other step but mq_open leaves the descriptors and their count alone. *)
LEMMA OthersKeepHeld ==
    ASSUME QueueInv, NEW t \in Threads,
           \/ Fails(t) \/ Return(t) \/ Begins(t) \/ Getattr(t) \/ Allocs(t) \/ Gives(t)
           \/ xQueueSend(t) \/ xQueueReceive(t) \/ ReceiveCopy(t) \/ prvDeleteMessageQueue(t)
    PROVE  held' = held /\ list' = list /\ \A a \in list : el'[a].open = el[a].open
<1> USE DEF QueueInv
<1>1. CASE Fails(t) \/ Return(t) \/ Begins(t) \/ Allocs(t) \/ Gives(t) \/ ReceiveCopy(t)
  BY <1>1 DEF Fails, Fail, Return, Begins, Allocs, Gives, ReceiveCopy
<1>2. CASE Getattr(t)
  BY <1>2 DEF Getattr, TypeOK, Elements
<1>3. CASE xQueueSend(t) \/ xQueueReceive(t)
  <2>1. PICK q : el' = [el EXCEPT ![arg[t].d] = [el[arg[t].d] EXCEPT !.q = q]]
                 /\ UNCHANGED <<held, list>>
    BY <1>3 DEF xQueueSend, xQueueReceive
  <2>2. \A a \in Addrs : [el[a] EXCEPT !.q = q].open = el[a].open
    BY DEF TypeOK, Elements
  <2>3. QED
    BY <2>1, <2>2 DEF TypeOK
<1>4. CASE prvDeleteMessageQueue(t)
  <2>1. arg[t].d \notin list
    BY <1>4 DEF prvDeleteMessageQueue, Linked, Deleting
  <2>2. QED
    BY <1>4, <2>1 DEF prvDeleteMessageQueue, TypeOK
<1>5. QED
  BY <1>1, <1>2, <1>3, <1>4

LEMMA CountedStep ==
    ASSUME QueueInv, TypeOK', NEW t \in Threads, Step(t)
    PROVE  Counted'
<1> USE DEF QueueInv
<1>1. CASE Opens(t)
  <2>1. PICK a \in list \ held[t] : OpenExisting(t, a)
    BY <1>1 DEF Opens
  <2>2. Holders(a)' = Holders(a) \cup {t} /\ t \notin Holders(a)
    BY <2>1 DEF OpenExisting, Holders, TypeOK
  <2>3. \A b \in list \ {a} : Holders(b)' = Holders(b)
    BY <2>1 DEF OpenExisting, Holders, TypeOK
  <2>4. list' = list /\ el'[a].open = el[a].open + 1 /\ \A b \in list \ {a} : el'[b] = el[b]
    BY <2>1 DEF OpenExisting, TypeOK, Elements
  <2>5. Cardinality(Holders(a)') = Cardinality(Holders(a)) + 1
    BY <2>2, HoldersCount
  <2>6. QED
    BY <2>1, <2>3, <2>4, <2>5 DEF Counted
<1>2. CASE Creates(t)
  <2>1. PICK a \in Addrs \ heap, name \in Names, attr \in Attrs \cup {NULL}, oflag \in OFlags :
          prvCreateNewMessageQueue(t, a, name, attr, oflag)
    BY <1>2 DEF Creates
  <2>3. el'[a].open = 1
    BY <2>1, NewElement DEF prvCreateNewMessageQueue, TypeOK
  <2>a. \A b \in list : b # a /\ el'[b] = el[b]
    BY <2>1 DEF prvCreateNewMessageQueue, TypeOK, Linked
  <2>4. Holders(a)' = {t} /\ \A b \in list : Holders(b)' = Holders(b)
    BY <2>1, <2>a DEF prvCreateNewMessageQueue, Holders, Users, Linked, TypeOK
  <2>5. Cardinality(Holders(a)') = 1
    BY <2>4, FS_Singleton
  <2>6. list' = list \cup {a}
    BY <2>1 DEF prvCreateNewMessageQueue
  <2>7. QED
    BY <2>3, <2>a, <2>4, <2>5, <2>6 DEF Counted
<1>3. CASE Closes(t)
  <2>1. PICK d \in list : mq_close(t, d)
    BY <1>3 DEF Closes
  <2>a. /\ held' = [held EXCEPT ![t] = @ \ {d}]
        /\ \A a \in list \ {d} : el'[a].open = el[a].open
        /\ el'[d].open = Cardinality(Holders(d) \ {t})
        /\ list' \subseteq list
    BY <2>1, CloseCounts
  <2>2. Holders(d)' = Holders(d) \ {t} /\ \A a \in list \ {d} : Holders(a)' = Holders(a)
    BY <2>a DEF Holders, TypeOK
  <2>3. \A a \in list' : el'[a].open = Cardinality(Holders(a)')
    BY <2>a, <2>2 DEF Counted
  <2>4. QED
    BY <2>3 DEF Counted
<1>4. CASE Unlinks(t)
  <2>1. held' = held /\ list' \subseteq list /\ \A b \in list : el'[b].open = el[b].open
    BY <1>4, UnlinkCounts
  <2>2. QED
    BY <2>1 DEF Counted, Holders
<1>5. CASE held' = held /\ list' = list /\ \A a \in list : el'[a].open = el[a].open
  BY <1>5 DEF Counted, Holders
<1>6. QED
  BY StepCases, OthersKeepHeld, <1>1, <1>2, <1>3, <1>4, <1>5
-----------------------------------------------------------------------------
LEMMA UsersStep ==
    ASSUME QueueInv, TypeOK', NEW t \in Threads, Step(t)
    PROVE  Users'
<1> USE DEF QueueInv
<1>1. CASE Opens(t) \/ Creates(t)
  <2>1. pc' = pc /\ arg' = arg /\ list \subseteq list'
        /\ \E a \in list' : held' = [held EXCEPT ![t] = @ \cup {a}]
    BY <1>1 DEF Opens, OpenExisting, Creates, prvCreateNewMessageQueue
  <2>2. QED
    BY <2>1 DEF Users, InQueue, TypeOK
<1>2. CASE Closes(t)
  <2>1. PICK d \in list : mq_close(t, d)
    BY <1>2 DEF Closes
  <2>2. /\ held' = [held EXCEPT ![t] = @ \ {d}]
        /\ list' \in {list, list \ {d}}
        /\ list' # list => Holders(d) = {t}
    BY <2>1, CloseCounts
  <2>3. \A s \in Threads : held'[s] \subseteq list'
    BY <2>2 DEF Users, Holders, TypeOK
  <2>4. pc[t] = "idle" /\ (UNCHANGED <<pc, arg>> \/ Remove(t, d))
    BY <2>1 DEF mq_close
  <2>5. InQueue' = InQueue /\ t \notin InQueue /\ \A s \in InQueue : arg'[s] = arg[s]
    BY <2>4 DEF InQueue, Remove, Goto, TypeOK
  <2>6. QED
    BY <2>2, <2>3, <2>5 DEF Users, InQueue, TypeOK
<1>3. CASE Unlinks(t)
  <2>1. held' = held /\ \A s \in Threads : held'[s] \subseteq list'
    BY <1>3, UnlinkCounts DEF Users, Holders
  <2>2. pc[t] = "idle" /\ (UNCHANGED <<pc, arg>> \/ \E a \in list : Remove(t, a))
    BY <1>3 DEF Unlinks
  <2>3. InQueue' = InQueue /\ t \notin InQueue /\ \A s \in InQueue : arg'[s] = arg[s]
    BY <2>2 DEF InQueue, Remove, Goto, TypeOK
  <2>4. QED
    BY <2>1, <2>3 DEF Users, InQueue
<1>4. CASE Begins(t)
  <2>1. \E d \in held[t] : arg'[t].d = d
    BY <1>4 DEF Begins, TypeOK, Arguments
  <2>2. held' = held /\ list' = list /\ \A s \in Threads \ {t} : pc'[s] = pc[s] /\ arg'[s] = arg[s]
    BY <1>4 DEF Begins, Goto, TypeOK
  <2>3. QED
    BY <2>1, <2>2 DEF Users, InQueue
<1>5. CASE \/ Fails(t) \/ Return(t) \/ Getattr(t) \/ Allocs(t) \/ Gives(t) \/ xQueueSend(t)
           \/ xQueueReceive(t) \/ ReceiveCopy(t) \/ prvDeleteMessageQueue(t)
  <2>1. held' = held /\ list' = list
    BY <1>5, OthersKeepHeld
  <2>2. \A s \in InQueue' : s \in InQueue /\ arg'[s] = arg[s]
    <3>1. CASE Fails(t)
      BY <3>1 DEF Fails, Fail, Goto, Errors, InQueue, TypeOK
    <3>2. CASE Return(t) \/ ReceiveCopy(t) \/ prvDeleteMessageQueue(t) \/ xQueueSend(t)
      BY <3>2 DEF Return, ReceiveCopy, prvDeleteMessageQueue, xQueueSend, Goto, InQueue, TypeOK
    <3>3. CASE Getattr(t)
      BY <3>3 DEF Getattr, InQueue
    <3>4. CASE Allocs(t) \/ Gives(t)
      BY <3>4 DEF Allocs, Gives, WaitEnds, Goto, InQueue, TypeOK
    <3>5. CASE xQueueReceive(t)
      BY <3>5 DEF xQueueReceive, Goto, InQueue, TypeOK
    <3>6. QED
      BY <1>5, <3>1, <3>2, <3>3, <3>4, <3>5
  <2>3. QED
    BY <2>1, <2>2 DEF Users, InQueue
<1>6. QED
  BY StepCases, <1>1, <1>2, <1>3, <1>4, <1>5
-----------------------------------------------------------------------------
(* What a queue holds and its attributes are changed by the calls that send,  *)
(* receive, create and delete.                                              *)
LEMMA ContentKept ==
    ASSUME QueueInv, NEW t \in Threads,
           \/ Fails(t) \/ Return(t) \/ Begins(t) \/ Opens(t) \/ Closes(t) \/ Unlinks(t)
           \/ Getattr(t) \/ Allocs(t) \/ Gives(t) \/ ReceiveCopy(t)
    PROVE  \A a \in Addrs : el'[a].q = el[a].q /\ el'[a].attr = el[a].attr
<1> USE DEF QueueInv
<1>1. CASE \/ Fails(t) \/ Return(t) \/ Begins(t) \/ Allocs(t) \/ Gives(t) \/ ReceiveCopy(t)
  BY <1>1 DEF Fails, Fail, Return, Begins, Allocs, Gives, ReceiveCopy
<1>2. ASSUME NEW a \in Addrs, NEW n
      PROVE  /\ [el[a] EXCEPT !.open = n].q = el[a].q /\ [el[a] EXCEPT !.open = n].attr = el[a].attr
             /\ [el[a] EXCEPT !.curmsgs = n].q = el[a].q
             /\ [el[a] EXCEPT !.curmsgs = n].attr = el[a].attr
             /\ [el[a] EXCEPT !.pending = n].q = el[a].q
             /\ [el[a] EXCEPT !.pending = n].attr = el[a].attr
  BY DEF TypeOK, Elements
<1>3. CASE Opens(t)
  BY <1>3, <1>2 DEF Opens, OpenExisting, TypeOK
<1>4. CASE Getattr(t)
  BY <1>4, <1>2 DEF Getattr, TypeOK
<1>5. CASE Unlinks(t)
  <2>1. PICK b \in Addrs :
          /\ IF el[b].open = 0 THEN Remove(t, b) /\ UNCHANGED el
             ELSE el' = [el EXCEPT ![b].pending = TRUE] /\ UNCHANGED <<list, arg, pc>>
    BY <1>5 DEF Unlinks, TypeOK
  <2>2. CASE el[b].open = 0
    BY <2>1, <2>2
  <2>3. CASE el[b].open # 0
    <3>1. el' = [el EXCEPT ![b] = [el[b] EXCEPT !.pending = TRUE]]
      BY <2>1, <2>3
    <3>2. QED
      BY <3>1, <1>2 DEF TypeOK
  <2>4. QED
    BY <2>2, <2>3
<1>6. CASE Closes(t)
  <2>1. PICK d \in Addrs : mq_close(t, d) /\ d \in list
    BY <1>6 DEF Closes
  <2> DEFINE open == IF el[d].open > 0 THEN el[d].open - 1 ELSE 0
             e    == [el[d] EXCEPT !.open = open]
             f    == [e EXCEPT !.pending = el[d].pending \/ open = 0]
  <2>2. e.q = el[d].q /\ e.attr = el[d].attr
    BY <1>2
  <2>3. open \in Nat
    BY DEF TypeOK, Elements
  <2>4. e \in Elements
    BY <2>3, ElementFields DEF TypeOK
  <2>5. el'[d] = f /\ \A a \in Addrs \ {d} : el'[a] = el[a]
    BY <2>1 DEF mq_close, TypeOK
  <2> HIDE DEF e, open
  <2>6. f.q = e.q /\ f.attr = e.attr
    BY <2>4 DEF Elements
  <2>7. QED
    BY <2>2, <2>5, <2>6
<1>7. QED
  BY <1>1, <1>3, <1>4, <1>5, <1>6

LEMMA QueueField ==
    ASSUME NEW e \in Elements, NEW v
    PROVE  [e EXCEPT !.q = v].q = v /\ [e EXCEPT !.q = v].attr = e.attr
  BY DEF Elements

LEMMA SizesStep ==
    ASSUME QueueInv, TypeOK', NEW t \in Threads, Step(t)
    PROVE  Sizes'
<1> USE DEF QueueInv
<1>1. CASE \A a \in Addrs : el'[a].q = el[a].q /\ el'[a].attr = el[a].attr
  BY <1>1 DEF Sizes
<1>2. CASE Creates(t)
  <2>1. PICK a \in Addrs : el'[a].q = <<>> /\ \A b \in Addrs \ {a} : el'[b] = el[b]
    BY <1>2, NewElement DEF Creates, prvCreateNewMessageQueue, TypeOK
  <2>2. QED
    BY <2>1 DEF Sizes
<1>3. CASE prvDeleteMessageQueue(t)
  BY <1>3, BlankType DEF prvDeleteMessageQueue, Sizes, TypeOK
<1>4. CASE xQueueSend(t)
  <2> DEFINE d == arg[t].d
             n == arg[t].len
             q == el[d].q
  <2>1. d \in Addrs /\ n \in Nat /\ q \in Seq(Nat) /\ n <= el[d].attr.msgsize
    BY <1>4 DEF xQueueSend, TypeOK, Arguments, Elements, Requests, Mine
  <2>2. el' = [el EXCEPT ![d] = [el[d] EXCEPT !.q = Append(q, n)]]
    BY <1>4 DEF xQueueSend
  <2>3. el'[d].q = Append(q, n) /\ el'[d].attr = el[d].attr
        /\ \A a \in Addrs \ {d} : el'[a] = el[a]
    BY <2>1, <2>2, QueueField DEF TypeOK
  <2>4. \A i \in 1..Len(Append(q, n)) : Append(q, n)[i] <= el[d].attr.msgsize
    BY <2>1 DEF Sizes
  <2>5. QED
    BY <2>3, <2>4 DEF Sizes
<1>5. CASE xQueueReceive(t)
  <2> DEFINE d == arg[t].d
             q == el[d].q
  <2>1. d \in Addrs /\ q \in Seq(Nat) /\ q # <<>>
    BY <1>5 DEF xQueueReceive, TypeOK, Elements, Mine
  <2>2. el' = [el EXCEPT ![d] = [el[d] EXCEPT !.q = Tail(q)]]
    BY <1>5 DEF xQueueReceive
  <2>3. el'[d].q = Tail(q) /\ el'[d].attr = el[d].attr
        /\ \A a \in Addrs \ {d} : el'[a] = el[a]
    BY <2>1, <2>2, QueueField DEF TypeOK
  <2>4. \A i \in 1..Len(Tail(q)) : Tail(q)[i] <= el[d].attr.msgsize
    BY <2>1 DEF Sizes
  <2>5. QED
    BY <2>3, <2>4 DEF Sizes
<1>6. QED
  BY StepCases, ContentKept, <1>1, <1>2, <1>3, <1>4, <1>5
-----------------------------------------------------------------------------
(* No step changes the attributes of a queue of the list, *)
LEMMA AttrKept ==
    ASSUME QueueInv, NEW t \in Threads, Step(t)
    PROVE  \A a \in list : el'[a].attr = el[a].attr
<1> USE DEF QueueInv
<1>1. CASE Creates(t)
  BY <1>1 DEF Creates, prvCreateNewMessageQueue, Linked, TypeOK
<1>2. CASE xQueueSend(t) \/ xQueueReceive(t)
  <2>1. PICK q : el' = [el EXCEPT ![arg[t].d] = [el[arg[t].d] EXCEPT !.q = q]]
    BY <1>2 DEF xQueueSend, xQueueReceive
  <2>2. \A a \in Addrs : [el[a] EXCEPT !.q = q].attr = el[a].attr
    BY DEF TypeOK, Elements
  <2>3. QED
    BY <2>1, <2>2 DEF TypeOK
<1>3. CASE prvDeleteMessageQueue(t)
  <2>1. arg[t].d \notin list
    BY <1>3 DEF prvDeleteMessageQueue, Linked, Deleting
  <2>2. QED
    BY <1>3, <2>1 DEF prvDeleteMessageQueue, TypeOK
<1>4. CASE \A a \in Addrs : el'[a].q = el[a].q /\ el'[a].attr = el[a].attr
  BY <1>4 DEF TypeOK
<1>5. QED
  BY StepCases, ContentKept, <1>1, <1>2, <1>3, <1>4

(* nor what another thread is doing. *)
LEMMA OthersStay ==
    ASSUME QueueInv, NEW t \in Threads, Step(t), NEW s \in Threads, s # t
    PROVE  pc'[s] = pc[s] /\ arg'[s] = arg[s]
<1> USE DEF QueueInv, TypeOK, Goto
<1>1. CASE Fails(t) \/ Return(t) \/ Begins(t)
  BY <1>1 DEF Fails, Fail, Return, Begins
<1>2. CASE Opens(t) \/ Creates(t) \/ Getattr(t)
  BY <1>2 DEF Opens, OpenExisting, Creates, prvCreateNewMessageQueue, Getattr
<1>3. CASE Closes(t)
  BY <1>3 DEF Closes, mq_close, Remove
<1>4. CASE Unlinks(t)
  BY <1>4 DEF Unlinks, Remove
<1>5. CASE Allocs(t) \/ Gives(t) \/ ReceiveCopy(t)
  BY <1>5 DEF Allocs, Gives, WaitEnds, ReceiveCopy
<1>6. CASE xQueueSend(t) \/ xQueueReceive(t) \/ prvDeleteMessageQueue(t)
  BY <1>6 DEF xQueueSend, xQueueReceive, prvDeleteMessageQueue
<1>7. QED
  BY StepCases, <1>1, <1>2, <1>3, <1>4, <1>5, <1>6

LEMMA RequestsStep ==
    ASSUME QueueInv, TypeOK', NEW t \in Threads, Step(t)
    PROVE  Requests'
<1> USE DEF QueueInv
<1> DEFINE Fits(s) == /\ pc[s] = "receive" => arg[s].len >= Mine(s).attr.msgsize
                      /\ pc[s] \in {"alloc", "send"} => arg[s].len <= Mine(s).attr.msgsize
                      /\ pc[s] = "copy" => arg[s].size <= arg[s].len
<1>1. \A s \in Threads : Fits(s)
  BY DEF Requests
<1>2. ASSUME NEW s \in Threads, pc'[s] = pc[s], arg'[s] = arg[s]
      PROVE  Fits(s)'
  <2>1. s \in InQueue => arg[s].d \in list
    BY DEF Users
  <2>2. s \in InQueue => Mine(s).attr' = Mine(s).attr
    BY <1>2, <2>1, AttrKept DEF Mine
  <2>3. QED
    BY <1>1, <1>2, <2>2 DEF InQueue
<1>3. Fits(t)'
  <2>1. CASE pc'[t] \in Errors \cup {"idle", "delete"}
    BY <2>1 DEF Errors
  <2>2. CASE pc'[t] = pc[t] /\ arg'[t] = arg[t]
    BY <2>2, <1>2
  <2>3. CASE Begins(t)
    <3>1. PICK d \in held[t] \cap list, len \in Lengths, next \in {"receive", "alloc"} :
            /\ IF next = "receive" THEN len >= el[d].attr.msgsize ELSE len <= el[d].attr.msgsize
            /\ pc'[t] = next /\ arg'[t].d = d /\ arg'[t].len = len /\ el' = el
      BY <2>3 DEF Begins, Goto, TypeOK
    <3>2. QED
      BY <3>1 DEF Mine
  <2>4. CASE Allocs(t)
    <3>1. pc[t] = "alloc" /\ pc'[t] = "send" /\ arg' = arg /\ el' = el
      BY <2>4 DEF Allocs, Goto, TypeOK
    <3>2. QED
      BY <1>1, <3>1 DEF Mine
  <2>5. CASE xQueueReceive(t)
    <3>1. pc[t] = "receive" /\ pc'[t] = "copy" /\ Mine(t).q # <<>>
          /\ arg'[t] = [arg[t] EXCEPT !.size = Head(Mine(t).q)]
      BY <2>5 DEF xQueueReceive, Goto, TypeOK
    <3>2. arg'[t].size = Head(Mine(t).q) /\ arg'[t].len = arg[t].len
      BY <3>1 DEF TypeOK, Arguments
    <3>3. arg[t].d \in Addrs /\ Mine(t).q \in Seq(Nat) /\ Mine(t).attr.msgsize \in Nat
          /\ arg[t].len \in Nat
      BY <3>1 DEF Mine, TypeOK, Elements, Arguments
    <3>4. Head(Mine(t).q) \in Nat /\ Head(Mine(t).q) <= Mine(t).attr.msgsize
      BY <3>1, <3>3 DEF Sizes, Mine
    <3>5. arg[t].len >= Mine(t).attr.msgsize
      BY <1>1, <3>1
    <3>6. QED
      BY <3>1, <3>2, <3>3, <3>4, <3>5
  <2>6. CASE Fails(t) \/ Return(t) \/ Gives(t) \/ xQueueSend(t) \/ ReceiveCopy(t)
             \/ prvDeleteMessageQueue(t)
    <3>1. pc'[t] \in Errors \cup {"idle", "delete"}
      BY <2>6 DEF Fails, Fail, Return, Gives, WaitEnds, xQueueSend, ReceiveCopy,
                  prvDeleteMessageQueue, Goto, Errors, TypeOK
    <3>2. QED
      BY <2>1, <3>1
  <2>7. CASE Opens(t) \/ Creates(t) \/ Getattr(t)
    BY <2>2, <2>7 DEF Opens, OpenExisting, Creates, prvCreateNewMessageQueue, Getattr
  <2>8. CASE Closes(t) \/ Unlinks(t)
    <3>1. pc'[t] = "delete" \/ (pc'[t] = pc[t] /\ arg'[t] = arg[t])
      BY <2>8 DEF Closes, mq_close, Unlinks, Remove, Goto, TypeOK
    <3>2. QED
      BY <2>1, <2>2, <3>1
  <2>9. QED
    BY StepCases, <2>3, <2>4, <2>5, <2>6, <2>7, <2>8
<1>4. QED
  BY <1>2, <1>3, OthersStay DEF Requests

LEMMA InvStep == QueueInv /\ [Next]_vars => QueueInv'
<1> SUFFICES ASSUME QueueInv, [Next]_vars PROVE QueueInv'
  OBVIOUS
<1>1. CASE UNCHANGED vars
  BY <1>1 DEF QueueInv, vars, TypeOK, Linked, Counted, Users, Sizes, Requests, Deleting,
              InQueue, Holders, Mine
<1>2. ASSUME NEW t \in Threads, Step(t) PROVE QueueInv'
  <2>1. TypeOK'
    BY <1>2, TypeStep
  <2>2. Linked' /\ Counted' /\ Users'
    BY <1>2, <2>1, LinkedStep, CountedStep, UsersStep
  <2>3. Sizes' /\ Requests'
    BY <1>2, <2>1, SizesStep, RequestsStep
  <2>4. QED
    BY <2>1, <2>2, <2>3 DEF QueueInv
<1>3. QED
  BY <1>1, <1>2 DEF Next
-----------------------------------------------------------------------------
(* The invariant of FreeRTOS_POSIX_mqueue.c: what xQueueListMutex protects   *)
(* and what the calls rely on after they released it.                       *)
THEOREM MqueueInvariant == Spec => []QueueInv
<1>1. QED
  BY InitInv, InvStep, PTL DEF Spec

(* Types; a thread in mq_timedsend or mq_timedreceive works on a queue. *)
THEOREM MqueueTypeCorrect == Spec => []TypeOK
<1>1. QueueInv => TypeOK
  BY DEF QueueInv
<1>2. QED
  BY <1>1, MqueueInvariant, PTL

(* mq_timedsend and mq_timedreceive use a queue only while it is allocated:  *)
(* mq_close and mq_unlink delete none that a thread has open.               *)
THEOREM NoQueueDeletedInUse == Spec => []NoUseAfterDelete
<1>1. QueueInv => NoUseAfterDelete
  BY DEF QueueInv, NoUseAfterDelete, Users, Linked, InQueue
<1>2. QED
  BY <1>1, MqueueInvariant, PTL

(* xOpenDescriptors is exact, and a queue that mq_close or mq_unlink took    *)
(* from the list is deleted once (prvDeleteMessageQueue).                   *)
THEOREM DescriptorsCounted == Spec => []QueuesAccounted
<1>1. QueueInv => QueuesAccounted
  BY DEF QueueInv, QueuesAccounted, Counted, Linked, Holders
<1>2. QED
  BY <1>1, MqueueInvariant, PTL

(* The memcpy of mq_timedreceive never passes the end of the buffer. *)
THEOREM CopiesFit == Spec => []MessageFits
<1>1. QueueInv => MessageFits
  BY DEF QueueInv, Requests, MessageFits
<1>2. QED
  BY <1>1, MqueueInvariant, PTL
-----------------------------------------------------------------------------
(* The buffers of messages. *)
Finite == IsFiniteSet(Queued)
Buffers == Finite /\ DataAccounted

LEMMA ReceiveTypes ==
    ASSUME NEW q \in Seq(Nat)
    PROVE  /\ Len(q) \in Nat /\ DOMAIN q = 1 .. Len(q) /\ (q # <<>> => Len(q) > 0)
           /\ \A n \in Nat : /\ Append(q, n) \in Seq(Nat)
                             /\ DOMAIN Append(q, n) = (1 .. Len(q)) \cup {Len(q) + 1}
           /\ q # <<>> => DOMAIN Tail(q) = (1 .. Len(q)) \ {Len(q)}
<1>1. Len(q) \in Nat /\ DOMAIN q = 1 .. Len(q)
  BY LenProperties
<1>2. q # <<>> => Len(q) > 0
  BY EmptySeq, <1>1
<1>3. ASSUME NEW n \in Nat
      PROVE  Append(q, n) \in Seq(Nat) /\ DOMAIN Append(q, n) = (1 .. Len(q)) \cup {Len(q) + 1}
  <2>1. Append(q, n) \in Seq(Nat) /\ Len(Append(q, n)) = Len(q) + 1
    BY AppendProperties
  <2>2. DOMAIN Append(q, n) = 1 .. Len(q) + 1
    BY <2>1, LenProperties
  <2> QED BY <1>1, <2>1, <2>2
<1>4. ASSUME q # <<>> PROVE DOMAIN Tail(q) = (1 .. Len(q)) \ {Len(q)}
  <2>1. Tail(q) \in Seq(Nat) /\ Len(Tail(q)) = Len(q) - 1
    BY <1>4, HeadTailProperties
  <2>2. DOMAIN Tail(q) = 1 .. Len(q) - 1
    BY <2>1, LenProperties
  <2> QED BY <1>1, <2>2
<1> QED BY <1>1, <1>2, <1>3, <1>4

(* How many threads have a buffer, before and after one of them moves. *)
LEMMA InHandCount ==
    /\ IsFiniteSet(InHand) /\ Cardinality(InHand) \in Nat
    /\ \A t \in Threads : /\ t \in InHand => Cardinality(InHand \ {t}) = Cardinality(InHand) - 1
                          /\ t \notin InHand => Cardinality(InHand \cup {t}) = Cardinality(InHand) + 1
<1>1. IsFiniteSet(InHand) /\ Cardinality(InHand) \in Nat
  BY MqueueAssumption, FS_Subset, FS_CardinalityType DEF InHand
<1> QED BY <1>1, FS_RemoveElement, FS_AddElement

LEMMA InHandStep ==
    ASSUME TypeOK, NEW t \in Threads, NEW label, Goto(t, label)
    PROVE  InHand' = IF label \in {"send", "copy"} THEN InHand \cup {t} ELSE InHand \ {t}
BY DEF TypeOK, Goto, InHand

(* What is queued, one message at a time. *)
LEMMA QueuedIs == \A m : m \in Queued <=> \E a \in heap : \E i \in DOMAIN el[a].q : m = <<a, i>>
BY DEF Queued

LEMMA QueuedSame ==
    ASSUME QueueInv, heap' = heap, \A a \in Addrs : el'[a].q = el[a].q
    PROVE  Queued' = Queued
<1>1. heap \subseteq Addrs
  BY DEF QueueInv, TypeOK
<1> QED BY <1>1 DEF Queued

(* One message more, one less, and a queue with all of its messages less. *)
LEMMA CountChanges ==
    ASSUME Finite
    PROVE  /\ Cardinality(Queued) \in Nat
           /\ \A m : /\ IsFiniteSet(Queued \cup {m}) /\ IsFiniteSet(Queued \ {m})
                     /\ m \notin Queued => Cardinality(Queued \cup {m}) = Cardinality(Queued) + 1
                     /\ m \in Queued => Cardinality(Queued \ {m}) = Cardinality(Queued) - 1
<1>1. Cardinality(Queued) \in Nat
  BY FS_CardinalityType DEF Finite
<1>2. ASSUME NEW m
      PROVE  /\ IsFiniteSet(Queued \cup {m}) /\ IsFiniteSet(Queued \ {m})
             /\ m \notin Queued => Cardinality(Queued \cup {m}) = Cardinality(Queued) + 1
             /\ m \in Queued => Cardinality(Queued \ {m}) = Cardinality(Queued) - 1
  BY FS_AddElement, FS_RemoveElement DEF Finite
<1> QED BY <1>1, <1>2

LEMMA OneQueue ==
    ASSUME NEW d, NEW n \in Nat
    PROVE  IsFiniteSet({d} \X (1 .. n)) /\ Cardinality({d} \X (1 .. n)) = n
<1>1. IsFiniteSet({d}) /\ Cardinality({d}) = 1
  BY FS_Singleton
<1>2. IsFiniteSet(1 .. n) /\ Cardinality(1 .. n) = n
  BY FS_Interval
<1>3. /\ IsFiniteSet({d} \X (1 .. n))
      /\ Cardinality({d} \X (1 .. n)) = Cardinality({d}) * Cardinality(1 .. n)
  BY <1>1, <1>2, FS_Product
<1>4. 1 * n = n
  OBVIOUS
<1> QED BY <1>1, <1>2, <1>3, <1>4

(* A thread changes the queue it works on, and no other. *)
LEMMA QueuedStep ==
    ASSUME QueueInv, NEW d \in heap, NEW q \in Seq(Nat), heap' = heap, el'[d].q = q,
           \A a \in Addrs \ {d} : el'[a] = el[a]
    PROVE  /\ \A n : DOMAIN q = DOMAIN el[d].q \cup {n} => Queued' = Queued \cup {<<d, n>>}
           /\ \A n : DOMAIN q = DOMAIN el[d].q \ {n} => Queued' = Queued \ {<<d, n>>}
<1>1. heap \subseteq Addrs
  BY DEF QueueInv, TypeOK
<1>2. \A m : m \in Queued' <=> \E a \in heap : \E i \in DOMAIN el'[a].q : m = <<a, i>>
  BY DEF Queued
<1>3. ASSUME NEW n, DOMAIN q = DOMAIN el[d].q \cup {n} PROVE Queued' = Queued \cup {<<d, n>>}
  <2>1. ASSUME NEW m \in Queued' PROVE m \in Queued \cup {<<d, n>>}
    BY <1>1, <1>2, <1>3, QueuedIs
  <2>2. ASSUME NEW m \in Queued \cup {<<d, n>>} PROVE m \in Queued'
    BY <1>1, <1>2, <1>3, QueuedIs
  <2> QED BY <2>1, <2>2
<1>4. ASSUME NEW n, DOMAIN q = DOMAIN el[d].q \ {n} PROVE Queued' = Queued \ {<<d, n>>}
  <2>1. ASSUME NEW m \in Queued' PROVE m \in Queued \ {<<d, n>>}
    <3>1. PICK a \in heap : \E i \in DOMAIN el'[a].q : m = <<a, i>>
      BY <1>2
    <3>2. PICK i \in DOMAIN el'[a].q : m = <<a, i>>
      BY <3>1
    <3>3. CASE a = d
      BY <1>4, <3>2, <3>3, QueuedIs
    <3>4. CASE a # d
      BY <1>1, <3>2, <3>4, QueuedIs
    <3> QED BY <3>3, <3>4
  <2>2. ASSUME NEW m \in Queued \ {<<d, n>>} PROVE m \in Queued'
    <3>1. PICK a \in heap : \E i \in DOMAIN el[a].q : m = <<a, i>>
      BY QueuedIs
    <3>2. PICK i \in DOMAIN el[a].q : m = <<a, i>>
      BY <3>1
    <3>3. CASE a = d
      BY <1>2, <1>4, <2>2, <3>2, <3>3
    <3>4. CASE a # d
      BY <1>1, <1>2, <3>2, <3>4
    <3> QED BY <3>3, <3>4
  <2> QED BY <2>1, <2>2
<1> QED BY <1>3, <1>4

(* A buffer comes with mq_timedsend, goes with mq_timedreceive, a send that   *)
(* gives up or a queue that is deleted, and is in the hands of one thread or  *)
(* in a queue meanwhile.                                                    *)
LEMMA BuffersStep ==
    ASSUME QueueInv, Buffers, NEW t \in Threads, Step(t)
    PROVE  Buffers'
<1> USE DEF Buffers
<1>t. TypeOK
  BY DEF QueueInv
<1>n. data \in Int /\ Cardinality(Queued) \in Nat /\ Cardinality(InHand) \in Nat
  BY <1>t, CountChanges, InHandCount DEF TypeOK
<1>1. ASSUME Queued' = Queued, data' = data, InHand' = InHand
      PROVE  Buffers'
  BY <1>1 DEF Finite, DataAccounted
<1>2. CASE Fails(t) \/ Return(t) \/ Begins(t) \/ Closes(t) \/ Unlinks(t)
           \/ Opens(t) \/ Getattr(t)
  <2>1. Queued' = Queued
    <3>1. heap' = heap
      BY <1>2 DEF Fails, Fail, Return, Begins, Closes, mq_close, Unlinks, Opens, OpenExisting, Getattr
    <3> QED BY <1>2, <3>1, ContentKept, QueuedSame
  <2>2. data' = data
    BY <1>2 DEF Fails, Fail, Return, Begins, Closes, mq_close, Unlinks, Opens, OpenExisting, Getattr
  <2>3. pc' = pc \/ (t \notin InHand /\ \E label \in Labels \ {"send", "copy"} : Goto(t, label))
    BY <1>2 DEF Fails, Fail, Return, Begins, Closes, mq_close, Remove, Unlinks, Opens, OpenExisting,
                Getattr, Labels, Errors, InHand
  <2>4. InHand' = InHand
    BY <1>t, <2>3, InHandStep DEF InHand
  <2> QED BY <1>1, <2>1, <2>2, <2>4
<1>3. CASE Creates(t)
  <2>1. PICK a \in Addrs \ heap : /\ heap' = heap \cup {a} /\ el'[a].q = <<>>
                                  /\ \A b \in Addrs \ {a} : el'[b] = el[b]
                                  /\ data' = data /\ pc' = pc
    BY <1>t, <1>3, NewElement DEF Creates, prvCreateNewMessageQueue, TypeOK
  <2>2. DOMAIN el'[a].q = {}
    BY <2>1
  <2>3. Queued' = Queued
    <3>1. heap \subseteq Addrs
      BY <1>t DEF TypeOK
    <3>2. \A m : m \in Queued' <=> \E b \in heap' : \E i \in DOMAIN el'[b].q : m = <<b, i>>
      BY DEF Queued
    <3>3. ASSUME NEW m \in Queued' PROVE m \in Queued
      BY <2>1, <2>2, <3>1, <3>2, QueuedIs
    <3>4. ASSUME NEW m \in Queued PROVE m \in Queued'
      BY <2>1, <2>2, <3>1, <3>2, QueuedIs
    <3> QED BY <3>3, <3>4
  <2> QED BY <1>1, <2>1, <2>3 DEF InHand
<1>4. CASE Allocs(t) \/ Gives(t) \/ ReceiveCopy(t)
  <2>1. Queued' = Queued
    BY <1>4, ContentKept, QueuedSame DEF Allocs, Gives, ReceiveCopy
  <2>2. CASE Allocs(t)
    <3>1. InHand' = InHand \cup {t} /\ t \notin InHand /\ data' = data + 1
      BY <1>t, <2>2, InHandStep DEF Allocs, InHand
    <3> QED BY <1>n, <2>1, <3>1, InHandCount DEF Finite, DataAccounted
  <2>3. CASE Gives(t) /\ pc[t] = "receive"
    <3>1. InHand' = InHand \ {t} /\ t \notin InHand /\ data' = data
      BY <1>t, <2>3, InHandStep DEF Gives, WaitEnds, InHand
    <3> QED BY <1>1, <2>1, <3>1
  <2>4. CASE (Gives(t) /\ pc[t] = "send") \/ ReceiveCopy(t)
    <3>1. InHand' = InHand \ {t} /\ t \in InHand /\ data' = data - 1
      BY <1>t, <2>4, InHandStep DEF Gives, WaitEnds, ReceiveCopy, InHand
    <3> QED BY <1>n, <2>1, <3>1, InHandCount DEF Finite, DataAccounted
  <2> QED BY <1>4, <2>2, <2>3, <2>4 DEF Gives
<1>5. CASE xQueueSend(t) \/ xQueueReceive(t)
  <2> DEFINE d == arg[t].d
             q == el[d].q
  <2>1. d \in heap /\ heap' = heap /\ data' = data
    BY <1>5 DEF xQueueSend, xQueueReceive, QueueInv, Users, InQueue, Linked
  <2>2. d \in Addrs /\ q \in Seq(Nat) /\ arg[t].len \in Nat /\ el[d] \in Elements
    BY <1>t, <1>5 DEF xQueueSend, xQueueReceive, TypeOK, Arguments, Elements
  <2>3. CASE xQueueSend(t)
    <3> DEFINE e == Append(q, arg[t].len)
               m == <<d, Len(q) + 1>>
    <3>1. el' = [el EXCEPT ![d] = [el[d] EXCEPT !.q = e]]
      BY <2>3 DEF xQueueSend
    <3>2. el'[d].q = e /\ \A a \in Addrs \ {d} : el'[a] = el[a]
      BY <1>t, <2>2, <3>1, QueueField DEF TypeOK
    <3>3. e \in Seq(Nat) /\ DOMAIN q = 1 .. Len(q) /\ Len(q) \in Nat
          /\ DOMAIN e = DOMAIN q \cup {Len(q) + 1}
      BY <2>2, ReceiveTypes
    <3>4. Queued' = Queued \cup {m}
      BY <2>1, <2>2, <3>2, <3>3, QueuedStep
    <3>5. m \notin Queued
      BY <3>3, QueuedIs
    <3>6. InHand' = InHand \ {t} /\ t \in InHand
      BY <1>t, <2>3, InHandStep DEF xQueueSend, InHand
    <3> HIDE DEF m, d, q
    <3>7. Finite' /\ Cardinality(Queued)' = Cardinality(Queued) + 1
      <4>1. Finite
        OBVIOUS
      <4>2. IsFiniteSet(Queued \cup {m}) /\ Cardinality(Queued \cup {m}) = Cardinality(Queued) + 1
        BY <3>5, <4>1, CountChanges
      <4> QED BY <3>4, <4>2 DEF Finite
    <3>8. Cardinality(InHand)' = Cardinality(InHand) - 1
      BY <3>6, InHandCount
    <3> QED BY <1>n, <2>1, <3>7, <3>8 DEF DataAccounted
  <2>4. CASE xQueueReceive(t)
    <3> DEFINE e == Tail(q)
               m == <<d, Len(q)>>
    <3>1. el' = [el EXCEPT ![d] = [el[d] EXCEPT !.q = e]] /\ q # <<>>
      BY <2>4 DEF xQueueReceive, Mine
    <3>2. el'[d].q = e /\ \A a \in Addrs \ {d} : el'[a] = el[a]
      BY <1>t, <2>2, <3>1, QueueField DEF TypeOK
    <3>3. e \in Seq(Nat) /\ DOMAIN q = 1 .. Len(q) /\ Len(q) \in Nat /\ Len(q) > 0
          /\ DOMAIN e = DOMAIN q \ {Len(q)}
      BY <2>2, <3>1, ReceiveTypes, HeadTailProperties
    <3>4. Queued' = Queued \ {m}
      BY <2>1, <2>2, <3>2, <3>3, QueuedStep
    <3>5. m \in Queued
      BY <2>1, <3>3, QueuedIs
    <3>6. InHand' = InHand \cup {t} /\ t \notin InHand
      BY <1>t, <2>4, InHandStep DEF xQueueReceive, InHand
    <3> HIDE DEF m, d, q
    <3>7. Finite' /\ Cardinality(Queued)' = Cardinality(Queued) - 1
      <4>1. Finite
        OBVIOUS
      <4>2. IsFiniteSet(Queued \ {m}) /\ Cardinality(Queued \ {m}) = Cardinality(Queued) - 1
        BY <3>5, <4>1, CountChanges
      <4> QED BY <3>4, <4>2 DEF Finite
    <3>8. Cardinality(InHand)' = Cardinality(InHand) + 1
      BY <3>6, InHandCount
    <3> QED BY <1>n, <2>1, <3>7, <3>8 DEF DataAccounted
  <2> QED BY <1>5, <2>3, <2>4
<1>6. CASE prvDeleteMessageQueue(t)
  <2> DEFINE d == arg[t].d
             n == Len(el[d].q)
             all == {d} \X (1 .. n)
  <2>1. d \in heap /\ d \in Addrs
    BY <1>t, <1>6 DEF prvDeleteMessageQueue, QueueInv, Linked, Deleting, TypeOK
  <2>2. el[d].q \in Seq(Nat)
    BY <1>t, <2>1 DEF TypeOK, Elements
  <2>3. n \in Nat /\ DOMAIN el[d].q = 1 .. n
    BY <2>2, LenProperties
  <2>4. /\ heap' = heap \ {d} /\ data' = data - n
        /\ \A a \in Addrs \ {d} : el'[a] = el[a]
    BY <1>t, <1>6 DEF prvDeleteMessageQueue, Mine, TypeOK
  <2>5. Queued' = Queued \ all
    <3>1. heap \subseteq Addrs
      BY <1>t DEF TypeOK
    <3>2. \A m : m \in Queued' <=> \E b \in heap' : \E i \in DOMAIN el'[b].q : m = <<b, i>>
      BY DEF Queued
    <3>3. \A m : m \in all <=> \E i \in 1 .. n : m = <<d, i>>
      OBVIOUS
    <3> HIDE DEF all, n, d
    <3>4. ASSUME NEW m \in Queued' PROVE m \in Queued \ all
      BY <2>4, <3>1, <3>2, <3>3, QueuedIs
    <3>5. ASSUME NEW m \in Queued \ all PROVE m \in Queued'
      <4>1. PICK b \in heap : \E i \in DOMAIN el[b].q : m = <<b, i>>
        BY QueuedIs
      <4>2. b # d
        BY <2>3, <3>3, <3>5, <4>1
      <4> QED BY <2>4, <3>1, <3>2, <4>1, <4>2
    <3> QED BY <3>4, <3>5
  <2>6. Queued \cap all = all
    BY <2>1, <2>3, QueuedIs
  <2>7. InHand' = InHand
    BY <1>t, <1>6, InHandStep DEF prvDeleteMessageQueue, InHand
  <2> HIDE DEF n
  <2>8. IsFiniteSet(all) /\ Cardinality(all) = n
    BY <2>3, OneQueue
  <2> HIDE DEF all
  <2>9. Finite' /\ Cardinality(Queued)' = Cardinality(Queued) - n
    <3>1. IsFiniteSet(Queued \ all)
          /\ Cardinality(Queued \ all) = Cardinality(Queued) - Cardinality(Queued \cap all)
      BY FS_Difference DEF Finite
    <3> QED BY <2>5, <2>6, <2>8, <3>1 DEF Finite
  <2> QED BY <1>n, <2>3, <2>4, <2>7, <2>9 DEF DataAccounted
<1> QED BY <1>t, StepCases, <1>2, <1>3, <1>4, <1>5, <1>6

LEMMA InitBuffers == Init => Buffers
<1> SUFFICES ASSUME Init PROVE Buffers
  OBVIOUS
<1>1. Queued = {} /\ InHand = {}
  BY DEF Init, Queued, InHand
<1> QED BY <1>1, FS_EmptySet DEF Init, Buffers, Finite, DataAccounted

(* pvPortMalloc and vPortFree of messages balance: a buffer is in a queue or *)
(* in the hands of one call.                                                *)
THEOREM BuffersAccounted == Spec => []DataAccounted
<1>1. QueueInv /\ Buffers /\ [Next]_vars => Buffers'
  <2> SUFFICES ASSUME QueueInv, Buffers, [Next]_vars PROVE Buffers'
    OBVIOUS
  <2>1. CASE UNCHANGED vars
    BY <2>1 DEF vars, Buffers, Finite, DataAccounted, Queued, InHand
  <2> QED BY <2>1, BuffersStep DEF Next
<1>2. Buffers => DataAccounted
  BY DEF Buffers
<1> QED BY <1>1, <1>2, MqueueInvariant, InitBuffers, PTL DEF Spec
-----------------------------------------------------------------------------
(* The time limits of the calls that wait, or will. *)
InTime == \A t \in InQueue : arg[t].ticks # Forever => Covers(arg[t].ticks, arg[t].left)

(* What a call was given stays as it is until the call is over. *)
LEMMA CallersKept ==
    ASSUME QueueInv, NEW t \in Threads, Step(t), ~Begins(t)
    PROVE  \A s \in InQueue' : s \in InQueue /\ arg'[s] = arg[s]
<1>1. \A s \in Threads \ {t} : s \in InQueue' => s \in InQueue /\ arg'[s] = arg[s]
  BY OthersStay DEF InQueue
<1>2. ASSUME t \in InQueue' PROVE t \in InQueue /\ arg'[t] = arg[t]
  <2> USE DEF QueueInv, TypeOK, InQueue, Goto
  <2>1. CASE Fails(t) \/ Return(t) \/ Gives(t) \/ ReceiveCopy(t)
    BY <1>2, <2>1 DEF Fails, Fail, Return, Gives, WaitEnds, ReceiveCopy, Errors
  <2>2. CASE Opens(t) \/ Creates(t) \/ Getattr(t) \/ Allocs(t)
    BY <1>2, <2>2 DEF Opens, OpenExisting, Creates, prvCreateNewMessageQueue, Getattr, Allocs
  <2>3. CASE Closes(t) \/ Unlinks(t)
    BY <1>2, <2>3 DEF Closes, mq_close, Unlinks, Remove
  <2>4. CASE xQueueSend(t) \/ xQueueReceive(t) \/ prvDeleteMessageQueue(t)
    BY <1>2, <2>4 DEF xQueueSend, xQueueReceive, prvDeleteMessageQueue
  <2> QED BY StepCases, <2>1, <2>2, <2>3, <2>4 DEF QueueInv
<1> QED BY <1>1, <1>2 DEF InQueue

LEMMA InTimeStep ==
    ASSUME QueueInv, InTime, NEW t \in Threads, Step(t)
    PROVE  InTime'
<1>1. CASE ~Begins(t)
  BY <1>1, CallersKept DEF InTime
<1>2. CASE Begins(t)
  <2>1. arg'[t].ticks # Forever => Covers(arg'[t].ticks, arg'[t].left)
    <3>1. PICK d \in held[t] \cap list, len \in Lengths, ticks \in Int \cup {Forever}, left \in Int :
            /\ ticks # Forever => Covers(ticks, left)
            /\ arg' = [arg EXCEPT ![t] = [d |-> d, len |-> len, size |-> 0, ticks |-> ticks,
                                          left |-> left]]
      BY <1>2 DEF Begins
    <3>2. arg'[t].ticks = ticks /\ arg'[t].left = left
      BY <3>1 DEF QueueInv, TypeOK
    <3> QED BY <3>1, <3>2
  <2>2. \A s \in Threads \ {t} : s \in InQueue' => s \in InQueue /\ arg'[s] = arg[s]
    BY OthersStay DEF InQueue
  <2>3. ASSUME NEW s \in InQueue', s # t, arg'[s].ticks # Forever
        PROVE  Covers(arg'[s].ticks, arg'[s].left)
    BY <2>2, <2>3 DEF InTime, InQueue
  <2> QED BY <2>1, <2>3 DEF InTime, Covers
<1> QED BY <1>1, <1>2

(* A call with a time limit gives up no earlier than the limit, and no sleep  *)
(* is shorter than asked for: UTILS_TimespecToTicks rounds up, also over the *)
(* borrow of a second.                                                      *)
THEOREM NobodyIsEarly == Spec => []NeverEarly
<1>1. Init => InTime
  BY DEF Init, InTime, InQueue
<1>2. QueueInv /\ InTime /\ [Next]_vars => InTime'
  <2> SUFFICES ASSUME QueueInv, InTime, [Next]_vars PROVE InTime'
    OBVIOUS
  <2>1. CASE UNCHANGED vars
    BY <2>1 DEF vars, InTime, InQueue, Covers
  <2> QED BY <2>1, InTimeStep DEF Next
<1>3. InTime => NeverEarly
  BY SleepsCover DEF InTime, NeverEarly
<1> QED BY <1>1, <1>2, <1>3, MqueueInvariant, PTL DEF Spec
=============================================================================
