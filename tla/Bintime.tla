-------------------------------- MODULE Bintime --------------------------------
(***************************************************************************)
(* The arithmetic of sys/time.h on struct bintime, whole seconds and a     *)
(* fraction of 64 bits in units of 2^-64 seconds, and its conversions to   *)
(* sbintime_t (the upper half of the fraction), timespec and timeval.      *)
(*                                                                         *)
(* Half is 2^32; all that is assumed of it and of the units is what these  *)
(* functions need.  A function that changes its argument is an operator    *)
(* that returns the new value.                                             *)
(***************************************************************************)
EXTENDS Integers

CONSTANTS
  Half,      \* 2^32
  Units,     \* 10^9 and 10^6: the nanoseconds and the microseconds of a second
  Factors,   \* 2^1 .. 2^63: what a shift multiplies or divides by
  MaxSec     \* bound on the seconds of a time

Word == Half * Half

ASSUME BintimeAssumption ==
  /\ Half \in Nat \ {0} /\ MaxSec \in Nat
  /\ \A u \in Units : u \in Nat \ {0} /\ u * u + u * Half <= Word
  /\ \A f \in Factors : f \in Nat \ {0} /\ f * (Word \div f) = Word

VARIABLE bt

Bintime    == [sec : Int, frac : 0 .. Word - 1]
Value(b)   == b.sec * Word + b.frac
Time(s, f) == [sec |-> s, frac |-> f]

-----------------------------------------------------------------------------
\* Mutant: a carry is missed when the sum is what was there before.
AddXLate(b, x) ==
  LET f == (b.frac + x) % Word IN
  Time(IF b.frac > f + 1 THEN b.sec + 1 ELSE b.sec, f)

\* bintime_addx, bintime_add, bintime_sub: unsigned overflow shows in the result.
AddX(b, x) ==
  LET f == (b.frac + x) % Word IN
  Time(IF b.frac > f THEN b.sec + 1 ELSE b.sec, f)

Add(b, b2) ==
  LET f == (b.frac + b2.frac) % Word IN
  Time((IF b.frac > f THEN b.sec + 1 ELSE b.sec) + b2.sec, f)

Sub(b, b2) ==
  LET f == (b.frac - b2.frac) % Word IN
  Time((IF b.frac < f THEN b.sec - 1 ELSE b.sec) - b2.sec, f)

\* Mutant: the lower half of the product is not masked.
MulNoMask(b, x) ==
  LET p1 == ((b.frac % Half) * x) % Word
      p2 == ((b.frac \div Half) * x + (p1 \div Half)) % Word
  IN  Time(b.sec * x + (p2 \div Half), (p2 % Half) * Half + p1)

\* bintime_mul, by 32 bits, in two halves, each of which has 64 bits.
Mul(b, x) ==
  LET p1 == ((b.frac % Half) * x) % Word
      p2 == ((b.frac \div Half) * x + (p1 \div Half)) % Word
  IN  Time(b.sec * x + (p2 \div Half), (p2 % Half) * Half + (p1 % Half))

\* bintime_shift, to the left and to the right, by the exponent of f.
ShiftLeft(b, f) ==
  Time(b.sec * f + b.frac \div (Word \div f), (b.frac * f) % Word)
ShiftRight(b, f) ==
  Time(b.sec \div f, b.frac \div f + (b.sec % f) * (Word \div f))

\* bintime_cmp(a, b, <)
Before(a, b) == IF a.sec = b.sec THEN a.frac < b.frac ELSE a.sec < b.sec

-----------------------------------------------------------------------------
\* bttosbt, sbttobt
ToSbt(b)   == b.sec * Half + b.frac \div Half
FromSbt(s) == Time(s \div Half, (s % Half) * Half)

\* Mutant: rounded to the nearest.
ToUnitsNearest(u, f) == ((u * (f \div Half) + Half \div 2) % Word) \div Half

\* bintime2timespec, bintime2timeval, sbttots and sbttotv, for a fraction
ToUnits(u, f) == ((u * (f \div Half)) % Word) \div Half

\* timespec2bintime, timeval2bintime; tstosbt and tvtosbt take the upper half of it.
FromUnits(u, n) == (n * (Word \div u)) % Word

\* Mutant: a whole second is not carried.
TimerAddLate(u, a, b) ==
  LET s == a.sec + b.sec  n == a.frac + b.frac IN
  IF n > u THEN Time(s + 1, n - u) ELSE Time(s, n)

\* timeradd and timersub, and the comparisons with which they carry
TimerAdd(u, a, b) ==
  LET s == a.sec + b.sec  n == a.frac + b.frac IN
  IF n >= u THEN Time(s + 1, n - u) ELSE Time(s, n)
TimerSub(u, a, b) ==
  LET s == a.sec - b.sec  n == a.frac - b.frac IN
  IF n < 0 THEN Time(s - 1, n + u) ELSE Time(s, n)

-----------------------------------------------------------------------------
\* A time that a program computes step by step.
Seconds == -MaxSec .. MaxSec
Times   == [sec : Seconds, frac : 0 .. Word - 1]

Init == bt = Time(0, 0)

Next ==
  /\ \/ \E x \in 0 .. Word - 1 : bt' = AddX(bt, x)
     \/ \E b \in Times : bt' = Add(bt, b) \/ bt' = Sub(bt, b)
     \/ \E x \in 0 .. Half - 1 : bt' = Mul(bt, x)
     \/ \E f \in Factors : bt' = ShiftLeft(bt, f) \/ bt' = ShiftRight(bt, f)
     \/ \E u \in Units :
          bt' = Time(bt.sec, FromUnits(u, ToUnits(u, bt.frac)))
     \/ bt' = FromSbt(ToSbt(bt))
  /\ bt'.sec \in Seconds

Spec == Init /\ [][Next]_bt

-----------------------------------------------------------------------------
(***************************************************************************)
(* Properties.                                                             *)
(***************************************************************************)
\* The fraction never leaves its 64 bits: no conversion carries into the seconds.
TypeOK == bt \in Times

\* Carries and borrows are right: in units of 2^-64 seconds the functions add, subtract,
\* multiply and shift, and a time is before another one when its value is smaller.
ArithmeticIsExact ==
  /\ \A x \in 0 .. Word - 1 : Value(AddX(bt, x)) = Value(bt) + x
  /\ \A b \in Times : /\ Value(Add(bt, b)) = Value(bt) + Value(b)
                      /\ Value(Sub(bt, b)) = Value(bt) - Value(b)
                      /\ Before(bt, b) <=> Value(bt) < Value(b)
  /\ \A x \in 0 .. Half - 1 : Value(Mul(bt, x)) = Value(bt) * x
  /\ \A f \in Factors : /\ Value(ShiftLeft(bt, f)) = Value(bt) * f
                        /\ Value(ShiftRight(bt, f)) = Value(bt) \div f

\* timeradd and timersub add and subtract, and leave a number of units below one second.
TimersAreExact ==
  \A u \in Units : \A b \in [sec : Seconds, frac : 0 .. u - 1] :
    LET a   == Time(bt.sec, ToUnits(u, bt.frac))
        sum == TimerAdd(u, a, b)
        dif == TimerSub(u, a, b)
    IN  /\ sum.frac \in 0 .. u - 1 /\ dif.frac \in 0 .. u - 1
        /\ sum.sec * u + sum.frac = a.sec * u + a.frac + b.sec * u + b.frac
        /\ dif.sec * u + dif.frac = a.sec * u + a.frac - (b.sec * u + b.frac)

\* A time is rounded down to units, never to a whole second more, and units come back as they
\* were or one less.
UnitsRoundDown ==
  \A u \in Units :
    /\ ToUnits(u, bt.frac) \in 0 .. u - 1
    /\ ToUnits(u, bt.frac) * Word <= u * bt.frac
    /\ \A n \in 0 .. u - 1 :
         /\ FromUnits(u, n) = n * (Word \div u)
         /\ ToUnits(u, FromUnits(u, n)) \in {n - 1, n}
    /\ FromUnits(u, ToUnits(u, bt.frac)) <= bt.frac

\* sbintime_t holds the time to a unit of 2^-32 seconds, and is not changed by a detour.
SbtRoundsDown ==
  /\ Value(FromSbt(ToSbt(bt))) <= Value(bt) /\ Value(bt) < Value(FromSbt(ToSbt(bt))) + Half
  /\ ToSbt(FromSbt(ToSbt(bt))) = ToSbt(bt)

\* "Even at 15:59:59.999999999 it's not four'o'clock" (164-176), whichever of the three
\* representations a time has gone through.
ConversionsRoundDown == UnitsRoundDown /\ SbtRoundsDown
=============================================================================
