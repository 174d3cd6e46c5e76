----------------------------- MODULE HalfFloat -----------------------------
(***************************************************************************)
(* The conversions between f32 and f16 that every block of the chip goes   *)
(* through: f32_to_f16_bits and f16_bits_to_f32 of numerics.py, which      *)
(* repeat src/src/common/f16.h shift by shift, so that the compiler's      *)
(* golden run and the simulator agree to the last bit -- including where   *)
(* both are wrong.  The widths are parameters: a format with SE exponent   *)
(* and SM mantissa bits (f32: 8 and 23) is narrowed to one with TE and TM  *)
(* (f16: 5 and 10).  The constants of the code are written with them: 127  *)
(* and 15 are the two biases, 31 the largest exponent of f16, 13 the       *)
(* mantissa bits that go, 25 the shift after which nothing is left.        *)
(***************************************************************************)
EXTENDS Integers

CONSTANTS SE, SM,   \* exponent and mantissa bits of the wide format
          TE, TM    \* of the half: 1 < TE < SE, 0 < TM < SM

VARIABLES f,   \* the wide number that is stored
          h    \* the half it is stored as, NotYet before that

vars == <<f, h>>

NotYet == [sign |-> 0, exp |-> -1, man |-> 0]

SBias == 2 ^ (SE - 1) - 1
TBias == 2 ^ (TE - 1) - 1
STop  == 2 ^ SE - 1
TTop  == 2 ^ TE - 1

\* Exponents past the first that overflows the half behave like it: they are
\* left out, which keeps every value in the machine's integers.
Largest == SBias + TBias + 2

Wide == [sign : 0 .. 1, exp : (0 .. Largest) \cup {STop}, man : 0 .. 2 ^ SM - 1]
Half == [sign : 0 .. 1, exp : 0 .. TTop, man : 0 .. 2 ^ TM - 1]

\* n without its lowest k bits: up when the first bit dropped is set and a
\* lower one is too, or the number kept is odd.
NearestEven(n, k) ==
    LET kept  == n \div 2 ^ k
        round == (n \div 2 ^ (k - 1)) % 2
    IN  IF round = 1 /\ (n % 2 ^ (k - 1) # 0 \/ kept % 2 = 1) THEN kept + 1
                                                             ELSE kept

Inf(sign) == [sign |-> sign, exp |-> TTop, man |-> 0]

NarrowNormal(x, e) ==
    LET man   == NearestEven(x.man, SM - TM)
        carry == man >= 2 ^ TM
    IN  IF carry /\ e + 1 >= TTop THEN Inf(x.sign)
        ELSE [sign |-> x.sign, exp |-> IF carry THEN e + 1 ELSE e,
              man  |-> IF carry THEN 0 ELSE man]

\* shift is how far the exponent lies below the smallest normal one.
NarrowSubnormal(x, shift) ==
    LET total == (SM - TM) + (shift - 1)
        man   == NearestEven(x.man + 2 ^ SM, total)
    IN  CASE shift >= SM + 2 -> [sign |-> x.sign, exp |-> 0, man |-> 0]
          [] shift < SM + 2 /\ man >= 2 ^ TM -> [sign |-> x.sign, exp |-> 1, man |-> 0]
          [] OTHER -> [sign |-> x.sign, exp |-> 0, man |-> man]

Narrow(x) ==
    LET e == x.exp - SBias + TBias
    IN  CASE x.exp = STop /\ x.man # 0 -> [Inf(x.sign) EXCEPT !.man = 2 ^ (TM - 1)]
          [] x.exp = STop /\ x.man = 0 -> Inf(x.sign)
          [] x.exp # STop /\ e >= TTop -> Inf(x.sign)
          [] e >= 1 /\ e < TTop -> NarrowNormal(x, e)
          [] OTHER -> NarrowSubnormal(x, 1 - e)

\* A subnormal half is shifted up until its leading bit is the hidden one.
Widen(y) ==
    LET e == CHOOSE k \in 0 .. TM : /\ y.man * 2 ^ k >= 2 ^ TM
                                    /\ y.man * 2 ^ k < 2 ^ (TM + 1)
        exp(n) == n - TBias + SBias
    IN  [sign |-> y.sign,
         exp  |-> CASE y.exp = 0 /\ y.man = 0 -> 0
                    [] y.exp = 0 /\ y.man > 0 -> exp(1) - e
                    [] y.exp = TTop -> STop
                    [] OTHER -> exp(y.exp),
         man  |-> (IF y.exp = 0 /\ y.man > 0 THEN y.man * 2 ^ e - 2 ^ TM ELSE y.man)
                  * 2 ^ (SM - TM)]

Init == f \in Wide /\ h = NotYet

Store == /\ h = NotYet
         /\ h' = Narrow(f)
         /\ UNCHANGED f

Spec == Init /\ [][Store]_vars

----------------------------------------------------------------------------
\* The magnitude of a finite wide number, in units of the smallest one.
Value(x) == IF x.exp = 0 THEN x.man ELSE (2 ^ SM + x.man) * 2 ^ (x.exp - 1)

\* What a half stands for; infinity stands where the next exponent would.
HalfValue(y) == IF y.exp = TTop THEN 2 ^ (SM + SBias + TBias)
                                ELSE Value(Widen(y))

Distance(y) == LET d == Value(f) - HalfValue(y) IN IF d < 0 THEN -d ELSE d

(***************************************************************************)
(* What numerics.py:7 and f16.h:6 say of the conversion: a number is       *)
(* stored as the half nearest to it, as the even one of two that are       *)
(* equally near, the halves below the smallest normal one included.        *)
(***************************************************************************)
RoundsToNearest ==
    h # NotYet /\ f.exp # STop =>
        \A g \in {y \in Half : y.sign = f.sign /\ (y.exp = TTop => y.man = 0)} :
            \/ Distance(h) < Distance(g)
            \/ Distance(h) = Distance(g) /\ (g # h => h.man % 2 = 0)
=============================================================================
