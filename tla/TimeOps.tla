-------------------------------- MODULE TimeOps --------------------------------
(***************************************************************************)
(* spinoso-time: instants as whole seconds since the epoch and nanoseconds *)
(* within the second. There are two implementations of Time: the one on    *)
(* the crate chrono is the interpreter's, the one on tz-rs is to follow.   *)
(* A release build wraps where an addition is not checked.                 *)
(***************************************************************************)
EXTENDS Integers

CONSTANTS
    MaxInt,         \* i64::MAX, scaled down
    Digits,         \* decimal digits of a fraction of a second: 9
    MicrosInNano,   \* nanoseconds in a microsecond: 1000
    MaxTz           \* the last second of the years that tz-rs has

NanosInSecond == 10 ^ Digits

OutOfRange == [ok |-> FALSE]
Some(sec, nano) == [ok |-> TRUE, sec |-> sec, nano |-> nano]

Fits(n) == n \in (-MaxInt - 1)..MaxInt
Wrapping(n) == ((n + MaxInt + 1) % (2 * MaxInt + 2)) - MaxInt - 1

(* Division in Rust truncates.                                             *)
Quotient(n, d) == IF n < 0 THEN -((-n) \div d) ELSE n \div d
Remainder(n, d) == n - d * Quotient(n, d)

(***************************************************************************)
(* The Time on chrono.                                                     *)
(***************************************************************************)

(* Only a positive remainder is left in its second: the nanoseconds of a   *)
(* whole second are those of the one before it, and full.                  *)
At(seconds, nanos) ==
    LET carried == seconds + Quotient(nanos, NanosInSecond)
        rest == Remainder(nanos, NanosInSecond)
    IN  IF ~Fits(carried) THEN OutOfRange
        ELSE IF rest > 0 THEN Some(carried, rest)
        ELSE IF ~Fits(carried - 1) THEN OutOfRange
        ELSE Some(carried - 1, NanosInSecond + rest)

(* Time.at with microseconds.                                              *)
AtMicros(seconds, micros) ==
    IF Fits(micros * MicrosInNano) THEN At(seconds, micros * MicrosInNano) ELSE OutOfRange

ToInt(t) == t.sec
Microseconds(t) == t.nano \div MicrosInNano

(* second: what chrono says, or one more in a leap second.                 *)
Second(t) == (t.sec % 60) + IF t.nano >= NanosInSecond THEN 1 ELSE 0

Cmp(t, u) ==
    CASE t.sec > u.sec -> 1
      [] t.sec < u.sec -> -1
      [] t.sec = u.sec -> IF t.nano > u.nano THEN 1 ELSE IF t.nano < u.nano THEN -1 ELSE 0

(* Time - Time, as nanoseconds; the code divides, and rounds to an f64.    *)
Difference(t, u) ==
    IF u.nano <= t.nano
    THEN Wrapping(t.sec - u.sec) * NanosInSecond + (t.nano - u.nano)
    ELSE Wrapping(t.sec - u.sec - 1) * NanosInSecond + (NanosInSecond - (u.nano - t.nano))

Succ(t) == Some(Wrapping(t.sec + 1), t.nano)

(***************************************************************************)
(* The Time on tz-rs. A Duration has unsigned seconds.                     *)
(***************************************************************************)

(* DateTime::from_timespec: the year must be an i32.                       *)
FromTimespec(sec, nano) == IF sec \in -MaxTz..MaxTz THEN Some(sec, nano) ELSE OutOfRange

CheckedAdd(t, duration) ==
    LET sec == t.sec + duration.secs
        nano == t.nano + duration.nanos
    IN  IF ~Fits(duration.secs) \/ ~Fits(sec) THEN OutOfRange
        ELSE IF nano > NanosInSecond
        THEN FromTimespec(Wrapping(sec + 1), nano - NanosInSecond)
        ELSE FromTimespec(sec, nano)

(* A mutant of CheckedSub: no second is borrowed for the nanoseconds.      *)
CheckedSubNoBorrow(t, duration) ==
    LET sec == t.sec - duration.secs IN
    IF ~Fits(duration.secs) \/ ~Fits(sec) THEN OutOfRange
    ELSE IF duration.nanos <= t.nano THEN FromTimespec(sec, t.nano - duration.nanos)
    ELSE FromTimespec(sec, t.nano + NanosInSecond - duration.nanos)

CheckedSub(t, duration) ==
    LET sec == t.sec - duration.secs IN
    IF ~Fits(duration.secs) \/ ~Fits(sec) THEN OutOfRange
    ELSE IF duration.nanos <= t.nano THEN FromTimespec(sec, t.nano - duration.nanos)
    ELSE FromTimespec(Wrapping(sec - 1), t.nano + NanosInSecond - duration.nanos)

FromSecs(n) == [secs |-> n, nanos |-> 0]

CheckedAddInt(t, n) ==
    IF n >= 0 THEN CheckedAdd(t, FromSecs(n))
    ELSE IF Fits(-n) THEN CheckedSub(t, FromSecs(-n)) ELSE OutOfRange

CheckedSubInt(t, n) ==
    IF n >= 0 THEN CheckedSub(t, FromSecs(n))
    ELSE IF Fits(-n) THEN CheckedAdd(t, FromSecs(-n)) ELSE OutOfRange

(* A float is the nanoseconds that Duration::from_secs_f64 finds in it.    *)
FromFloat(n) == [secs |-> n \div NanosInSecond, nanos |-> n % NanosInSecond]

CheckedAddFloat(t, n) ==
    IF n >= 0 THEN CheckedAdd(t, FromFloat(n)) ELSE CheckedSub(t, FromFloat(-n))
CheckedSubFloat(t, n) ==
    IF n >= 0 THEN CheckedSub(t, FromFloat(n)) ELSE CheckedAdd(t, FromFloat(-n))

(* To so many digits; a carry past the last second of tz-rs panics.        *)
Round(t, digits) ==
    IF digits >= Digits THEN Some(t.sec, t.nano)
    ELSE LET truncated == t.nano \div 10 ^ (Digits - digits - 1)
             up == IF truncated % 10 >= 5 THEN 1 ELSE 0
             nano == (truncated \div 10 + up) * 10 ^ (Digits - digits)
         IN  IF nano >= NanosInSecond THEN FromTimespec(t.sec + 1, nano - NanosInSecond)
             ELSE FromTimespec(t.sec, nano)

=============================================================================
