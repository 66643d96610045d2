----------------------------- MODULE BigIntegers -----------------------------
(***************************************************************************)
(* The arbitrary-precision Integer of the runtime                          *)
(* (mllc/src/codegen/runtime_integer.lua): a sign and little-endian limbs  *)
(* in one base, native shortcuts for operands of two limbs, schoolbook     *)
(* addition, subtraction and multiplication, and division by Knuth's       *)
(* algorithm D, whose loop is the state machine of this module.            *)
(*                                                                         *)
(* The base is 2^24 in the program so that a limb product is exact in a    *)
(* double; the algorithms do not depend on it, so it is a parameter.       *)
(* Machine arithmetic that the code keeps below 2^53 is exact here too;    *)
(* Int is a machine integer of IntWidth bits that wraps.                   *)
(***************************************************************************)
EXTENDS Integers, Sequences, SequencesExt

CONSTANTS Base,          \* __INT_B
          Radix,         \* the base numbers are shown in (10)
          GroupDigits,   \* digits shown at a time (7: 10^7 < Base)
          FastProduct,   \* products up to this are native (2^52)
          IntWidth,      \* bits of a machine Int
          Dividends, Operands   \* first and second operands in play

Power(b, k) == LET power[i \in 0..k] == IF i = 0 THEN 1 ELSE b * power[i - 1] IN power[k]

GroupRadix == Power(Radix, GroupDigits)      \* D of __int_tostring

BigIntegersAssumption ==
    /\ Base \in Nat /\ Base > 2 /\ Radix \in 2..(Base - 1)
    /\ GroupDigits \in Nat \ {0} /\ GroupRadix < Base
    /\ FastProduct \in Nat
    /\ IntWidth \in Nat \ {0}
    /\ Dividends \subseteq Int /\ Operands \subseteq Int
ASSUME BigIntegersAssumption

Abs(k) == IF k < 0 THEN -k ELSE k
Sign(k) == IF k < 0 THEN -1 ELSE IF k = 0 THEN 0 ELSE 1
Larger(k, l) == IF k < l THEN l ELSE k

(* What the limbs from i on are worth, limb i counting units; the whole.   *)
ValuesFrom(m) ==
    LET from[i \in 1..(Len(m) + 1)] ==
            IF i = Len(m) + 1 THEN 0 ELSE m[i] + Base * from[i + 1]
    IN from
Magnitude(m) == ValuesFrom(m)[1]

(***************************************************************************)
(* Magnitudes (lines 24-93): little-endian limbs without a sign.           *)
(***************************************************************************)
Limb(m, i) == IF i \in DOMAIN m THEN m[i] ELSE 0     \* a[i] or 0

Trim(m) == SubSeq(m, 1, Max({0} \cup {i \in DOMAIN m : m[i] # 0}))

CompareMagnitudes(a, b) ==
    LET differ == {i \in DOMAIN a : a[i] # Limb(b, i)}
    IN IF Len(a) # Len(b) THEN Sign(Len(a) - Len(b))
       ELSE IF differ = {} THEN 0 ELSE Sign(a[Max(differ)] - b[Max(differ)])

(* Every loop below walks the limbs with a carry, a borrow or a remainder: *)
(* first what leaves each limb (what enters the first is at 0), then the   *)
(* limbs written on the way and what leaves the last.                      *)
SumCarries(a, b) ==
    LET carry[i \in 0..Larger(Len(a), Len(b))] ==
            IF i = 0 THEN 0
            ELSE IF Limb(a, i) + Limb(b, i) + carry[i - 1] >= Base THEN 1 ELSE 0
    IN carry

Sum(a, b) ==
    LET length == Larger(Len(a), Len(b))
        carry == SumCarries(a, b)
    IN [limbs |-> [i \in 1..length |-> Limb(a, i) + Limb(b, i) + carry[i - 1] - Base * carry[i]],
        carry |-> carry[length]]

\* Mutant of CarriedOut: the carry out of the top limb is lost.
CarryLost(w) == w.limbs
CarriedOut(w) == IF w.carry > 0 THEN Append(w.limbs, w.carry) ELSE w.limbs

AddMagnitudes(a, b) == CarriedOut(Sum(a, b))

Borrows(a, b) ==
    LET borrow[i \in 0..Len(a)] ==
            IF i = 0 THEN 0
            ELSE IF a[i] - Limb(b, i) - borrow[i - 1] < 0 THEN 1 ELSE 0
    IN borrow

Difference(a, b) ==
    LET borrow == Borrows(a, b)
    IN [limbs |-> [i \in DOMAIN a |-> a[i] - Limb(b, i) - borrow[i - 1] + Base * borrow[i]],
        carry |-> borrow[Len(a)]]

SubMagnitudes(a, b) == Trim(Difference(a, b).limbs)     \* requires |a| >= |b|

(* The limbs times one, with a carry to begin with (85-91, 313-323).       *)
ProductCarries(m, by, first) ==
    LET carry[i \in 0..Len(m)] ==
            IF i = 0 THEN first ELSE (m[i] * by + carry[i - 1]) \div Base
    IN carry

Product(m, by, first) ==
    LET carry == ProductCarries(m, by, first)
    IN [limbs |-> [i \in DOMAIN m |-> (m[i] * by + carry[i - 1]) % Base],
        carry |-> carry[Len(m)]]

MulLimb(a, by) == CarriedOut(Product(a, by, 0))       \* __int_umul1, 0 < by < Base

(* m with the limbs after k replaced, and the one after those by top.      *)
Replaced(m, k, limbs, top) ==
    [i \in DOMAIN m |-> IF i \in (k + 1)..(k + Len(limbs)) THEN limbs[i - k]
                        ELSE IF i = k + Len(limbs) + 1 THEN top ELSE m[i]]

(* Schoolbook product: row i adds a[i] * b to r from limb i on; the carry  *)
(* at its end goes on into limb i + Len(b).                                *)
RowCarries(r, i, by, b) ==
    LET carry[k \in 0..Len(b)] ==
            IF k = 0 THEN 0 ELSE (r[i + k - 1] + by * b[k] + carry[k - 1]) \div Base
    IN carry

Row(r, i, by, b) ==
    LET carry == RowCarries(r, i, by, b)
    IN Replaced(r, i - 1, [k \in DOMAIN b |-> (r[i + k - 1] + by * b[k] + carry[k - 1]) % Base],
                r[i + Len(b)] + carry[Len(b)])

Rows(a, b) ==
    LET r[i \in 0..Len(a)] ==
            IF i = 0 THEN [k \in 1..(Len(a) + Len(b)) |-> 0]
            ELSE IF a[i] = 0 THEN r[i - 1] ELSE Row(r[i - 1], i, a[i], b)
    IN r

MulMagnitudes(a, b) == Trim(Rows(a, b)[Len(a)])

(* Short division by one limb, from the top: quotient limbs and remainder  *)
(* (lines 104-113, and the same loop at 163-169 and 201-207).              *)
Remainders(m, by) ==
    LET rem[i \in 1..(Len(m) + 1)] ==
            IF i = Len(m) + 1 THEN 0 ELSE (rem[i + 1] * Base + m[i]) % by
    IN rem

ShortDiv(m, by) ==
    LET rem == Remainders(m, by)
    IN [quot |-> [i \in DOMAIN m |-> (rem[i + 1] * Base + m[i]) \div by], rem |-> rem[1]]

(***************************************************************************)
(* Integers: a sign and trimmed limbs (lines 173-194, 249-286).            *)
(***************************************************************************)
Zero == [sign |-> 0, limbs |-> <<>>]

Mk(sign, m) == IF Trim(m) = <<>> THEN Zero ELSE [sign |-> sign, limbs |-> Trim(m)]

(* The limbs of a machine number k >= 0, as the loops of __int_box and     *)
(* fromInteger_Integer peel them off.                                      *)
LimbsOf(k) ==
    LET peel[l \in 0..k] == IF l = 0 THEN <<>> ELSE <<l % Base>> \o peel[l \div Base]
    IN peel[k]

Box(k) == IF k = 0 THEN Zero ELSE [sign |-> Sign(k), limbs |-> LimbsOf(Abs(k))]

IsSmall(x) == Len(x.limbs) <= 2
Small(x) == x.sign * (Limb(x.limbs, 1) + Base * Limb(x.limbs, 2))

Cmp(a, b) ==
    IF a.sign # b.sign THEN Sign(a.sign - b.sign)
    ELSE IF a.sign = 0 THEN 0
    ELSE a.sign * CompareMagnitudes(a.limbs, b.limbs)

Negate(x) == [x EXCEPT !.sign = -x.sign]

Add(a, b) ==
    LET c == CompareMagnitudes(a.limbs, b.limbs)
    IN CASE IsSmall(a) /\ IsSmall(b) -> Box(Small(a) + Small(b))
         [] ~(IsSmall(a) /\ IsSmall(b)) /\ a.sign = 0 -> b
         [] ~(IsSmall(a) /\ IsSmall(b)) /\ a.sign # 0 /\ b.sign = 0 -> a
         [] OTHER ->
              CASE a.sign = b.sign -> Mk(a.sign, AddMagnitudes(a.limbs, b.limbs))
                [] a.sign # b.sign /\ c = 0 -> Zero
                [] a.sign # b.sign /\ c > 0 -> Mk(a.sign, SubMagnitudes(a.limbs, b.limbs))
                [] a.sign # b.sign /\ c < 0 -> Mk(b.sign, SubMagnitudes(b.limbs, a.limbs))

Sub(a, b) ==
    IF IsSmall(a) /\ IsSmall(b) THEN Box(Small(a) - Small(b)) ELSE Add(a, Negate(b))

(* The native product is taken only where it stays exact.                  *)
Mul(a, b) ==
    CASE a.sign = 0 \/ b.sign = 0 -> Zero
      [] a.sign # 0 /\ b.sign # 0 /\ IsSmall(a) /\ IsSmall(b)
           /\ Abs(Small(a)) <= FastProduct \div Abs(Small(b)) -> Box(Small(a) * Small(b))
      [] OTHER -> Mk(a.sign * b.sign, MulMagnitudes(a.limbs, b.limbs))

(***************************************************************************)
(* Conversions: machine integers (lines 288-304, 463-480) and decimal      *)
(* strings (195-218, 306-326).                                             *)
(***************************************************************************)
HalfRange == Power(2, IntWidth - 1)
Wrap(k) == ((k + HalfRange) % (2 * HalfRange)) - HalfRange
Ints == (-HalfRange)..(HalfRange - 1)

(* -k of the least Int is itself: that value is spelled out.               *)
FromInt(k) ==
    IF k < 0 /\ Wrap(-k) < 0 THEN Mk(-1, LimbsOf(HalfRange))
    ELSE Mk(Sign(k), LimbsOf(Abs(k)))

(* The machine value of the limbs from i on, from the top.                 *)
Narrowed(m) ==
    LET acc[i \in 1..(Len(m) + 1)] ==
            IF i = Len(m) + 1 THEN 0 ELSE Wrap(acc[i + 1] * Base + m[i])
    IN acc

ToInt(i) == IF i.sign < 0 THEN Wrap(-Narrowed(i.limbs)[1]) ELSE Narrowed(i.limbs)[1]

(* The digits of a group; only the leading group is shown without its      *)
(* zeros (%d against %07d).                                                *)
DigitsLeft(g) ==
    LET left[i \in 0..GroupDigits] == IF i = GroupDigits THEN g ELSE left[i + 1] \div Radix
    IN left
Padded(g) == [i \in 1..GroupDigits |-> DigitsLeft(g)[i] % Radix]
Leading(g) ==
    SubSeq(Padded(g),
           CHOOSE i \in 1..GroupDigits : Padded(g)[i] # 0 /\ \A l \in 1..(i - 1) : Padded(g)[l] = 0,
           GroupDigits)

(* Groups are peeled off by short division, the last one found leads: what *)
(* is left after i of them, how many there are, and the text of the i-th   *)
(* group and all above it.                                                 *)
LeftAfter(m) ==
    LET left[i \in 0..Magnitude(m)] ==
            IF i = 0 THEN m ELSE Trim(ShortDiv(left[i - 1], GroupRadix).quot)
    IN left
Groups(m) ==
    CHOOSE k \in 1..Magnitude(m) :
        LeftAfter(m)[k] = <<>> /\ \A i \in 1..(k - 1) : LeftAfter(m)[i] # <<>>
Texts(m) ==
    LET group == [i \in 1..Groups(m) |-> ShortDiv(LeftAfter(m)[i - 1], GroupRadix).rem]
        text[i \in 1..Groups(m)] ==
            IF i = Groups(m) THEN Leading(group[i]) ELSE text[i + 1] \o Padded(group[i])
    IN text
Shown(m) == Texts(m)[1]

(* __int_from_decimal: every digit multiplies the limbs and adds itself.   *)
TimesRadixPlus(m, digit) ==
    LET product == Product(m, Radix, digit) IN product.limbs \o LimbsOf(product.carry)
ReadSoFar(digits) ==
    LET mag[i \in 0..Len(digits)] == IF i = 0 THEN <<>> ELSE TimesRadixPlus(mag[i - 1], digits[i])
    IN mag
ReadBack(digits) == ReadSoFar(digits)[Len(digits)]

(***************************************************************************)
(* One operation on two integers.  All but a long division are one step.   *)
(***************************************************************************)
VARIABLES
    op, x, y,          \* the operation and its operands' values
    phase,             \* "start", the phases of a long division, "done" or "error"
    u, v, d,           \* dividend and divisor, scaled by d; u is worked on
    j, qhat, rhat,     \* quotient limb at hand, its estimate and remainder
    q,                 \* quotient limbs found so far
    result

intVars == <<op, x, y, phase, u, v, d, j, qhat, rhat, q, result>>
input == <<op, x, y>>
window == <<v, d, j, q>>

Unary == {"show", "narrow", "lift"}
Binary == {"add", "sub", "mul", "compare", "quotRem", "divMod"}

IntInit ==
    /\ \/ op \in Binary /\ x \in Dividends /\ y \in Operands
       \/ op \in Unary /\ x \in (IF op = "lift" THEN Ints ELSE Dividends) /\ y = 0
    /\ phase = "start"
    /\ u = <<>> /\ v = <<>> /\ d = 1 /\ j = 0 /\ qhat = 0 /\ rhat = 0 /\ q = <<>>
    /\ result = <<>>

XBox == Box(x)
YBox == Box(y)

Finish(r) ==
    /\ phase' = "done"
    /\ result' = r
    /\ UNCHANGED <<input, u, window, qhat, rhat>>

Simple ==
    /\ phase = "start"
    /\ \/ op = "add" /\ Finish(<<Add(XBox, YBox)>>)
       \/ op = "sub" /\ Finish(<<Sub(XBox, YBox)>>)
       \/ op = "mul" /\ Finish(<<Mul(XBox, YBox)>>)
       \/ op = "compare" /\ Finish(<<Cmp(XBox, YBox)>>)
       \/ op = "show" /\ Finish(<<IF XBox.sign = 0 THEN <<0>> ELSE Shown(XBox.limbs)>>)
       \/ op = "narrow" /\ Finish(<<ToInt(XBox)>>)
       \/ op = "lift" /\ Finish(<<FromInt(x)>>)

Division == phase = "start" /\ op \in {"quotRem", "divMod"}

DivideByZero ==
    /\ Division /\ y = 0
    /\ phase' = "error"
    /\ UNCHANGED <<input, u, window, qhat, rhat, result>>

(* The truncating pair; divMod moves it to the divisor's sign (419-430).   *)
Quotient(qr) ==
    IF op = "divMod" /\ qr[2].sign # 0 /\ (x < 0) # (y < 0)
    THEN <<Sub(qr[1], Box(1)), Add(qr[2], YBox)>>
    ELSE qr

(* __int_qr_trunc, operands of at most two limbs (380-397).  The floor of  *)
(* the native quotient is exact for them, so its correction never applies. *)
SmallDivision ==
    /\ Division /\ y # 0 /\ IsSmall(XBox) /\ IsSmall(YBox)
    /\ LET m == Abs(Small(XBox)) \div Abs(Small(YBox))
           r == Abs(Small(XBox)) - m * Abs(Small(YBox))
       IN Finish(Quotient(<<Box(XBox.sign * YBox.sign * m), Box(XBox.sign * r)>>))

(* __int_udivmod gave quotient limbs qm and remainder limbs rm (398-399).  *)
Divided(qm, rm) == Finish(Quotient(<<Mk(XBox.sign * YBox.sign, qm), Mk(XBox.sign, rm)>>))

Long == Division /\ y # 0 /\ ~(IsSmall(XBox) /\ IsSmall(YBox))

ShorterDividend ==
    Long /\ CompareMagnitudes(XBox.limbs, YBox.limbs) < 0 /\ Divided(<<>>, XBox.limbs)

OneLimbDivisor ==
    /\ Long /\ CompareMagnitudes(XBox.limbs, YBox.limbs) >= 0 /\ Len(YBox.limbs) = 1
    /\ LET short == ShortDiv(XBox.limbs, YBox.limbs[1])
       IN Divided(Trim(short.quot), IF short.rem = 0 THEN <<>> ELSE <<short.rem>>)

(* D1: scale so that the divisor's top limb is at least Base / 2.          *)
Scale(m) == Base \div (m[Len(m)] + 1)
Scaled == MulLimb(XBox.limbs, Scale(YBox.limbs))

Normalize ==
    /\ Long /\ CompareMagnitudes(XBox.limbs, YBox.limbs) >= 0 /\ Len(YBox.limbs) > 1
    /\ d' = Scale(YBox.limbs)
    /\ u' = IF Len(Scaled) = Len(XBox.limbs) THEN Append(Scaled, 0) ELSE Scaled
    /\ v' = MulLimb(YBox.limbs, Scale(YBox.limbs))
    /\ j' = Len(XBox.limbs) - Len(YBox.limbs)
    /\ phase' = "estimate"
    /\ UNCHANGED <<input, qhat, rhat, q, result>>

(* D3: estimate the limb from the top two limbs of the window, u[j + 1] to *)
(* u[j + n + 1] for a divisor of n limbs ...                               *)
Estimate ==
    /\ phase = "estimate" /\ j >= 0
    /\ LET n == Len(v)
           num == u[j + n + 1] * Base + u[j + n]
           estimate == IF num \div v[n] >= Base THEN Base - 1 ELSE num \div v[n]
       IN qhat' = estimate /\ rhat' = num - estimate * v[n]
    /\ phase' = "correct"
    /\ UNCHANGED <<input, u, window, result>>

(* ... and correct it against the third.                                   *)
TooLarge == rhat < Base /\ qhat * v[Len(v) - 1] > rhat * Base + u[j + Len(v) - 1]

Correct ==
    /\ phase = "correct" /\ TooLarge
    /\ qhat' = qhat - 1
    /\ rhat' = rhat + v[Len(v)]
    /\ UNCHANGED <<input, phase, u, window, result>>

NextLimb(limb) == /\ q' = <<limb>> \o q
                  /\ j' = j - 1
                  /\ phase' = "estimate"

(* D4: subtract qhat * v from the window.                                  *)
MultiplySubtract ==
    /\ phase = "correct" /\ ~TooLarge
    /\ LET product == Product(v, qhat, 0)
           rest == Difference(SubSeq(u, j + 1, j + Len(v)), product.limbs)
           top == u[j + Len(v) + 1] - product.carry - rest.carry
       IN /\ u' = Replaced(u, j, rest.limbs, top)
          /\ IF top < 0 THEN phase' = "addback" /\ UNCHANGED <<q, j>> ELSE NextLimb(qhat)
    /\ UNCHANGED <<input, v, d, qhat, rhat, result>>

(* D6: the estimate was one too large.                                     *)
\* Mutant of Restored: the final carry is not added to the window's top.
RestoredNoCarry(w) == Replaced(u, j, w.limbs, u[j + Len(v) + 1])
Restored(w) == Replaced(u, j, w.limbs, u[j + Len(v) + 1] + w.carry)

AddBack ==
    /\ phase = "addback"
    /\ u' = Restored(Sum(SubSeq(u, j + 1, j + Len(v)), v))
    /\ NextLimb(qhat - 1)
    /\ UNCHANGED <<input, v, d, qhat, rhat, result>>

(* D8: the remainder is what is left, scaled back.                         *)
Denormalize ==
    /\ phase = "estimate" /\ j < 0
    /\ Divided(Trim(q), Trim(ShortDiv(SubSeq(u, 1, Len(v)), d).quot))

Finished == phase \in {"done", "error"} /\ UNCHANGED intVars

IntNext == \/ Simple \/ DivideByZero \/ SmallDivision \/ ShorterDividend \/ OneLimbDivisor
           \/ Normalize \/ Estimate \/ Correct \/ MultiplySubtract \/ AddBack \/ Denormalize
           \/ Finished

IntSpec == IntInit /\ [][IntNext]_intVars

(***************************************************************************)
(* Properties.                                                             *)
(***************************************************************************)
IntegerValue(i) == i.sign * Magnitude(i.limbs)

Limbs(m) == \A k \in DOMAIN m : m[k] \in 0..(Base - 1)
Trimmed(m) == m # <<>> => m[Len(m)] # 0

(* A trimmed magnitude under its sign: the one representation of a value,  *)
(* which comparison limb by limb relies on.                                *)
Canonical(i) ==
    /\ i.sign \in {-1, 0, 1} /\ (i.sign = 0) = (i.limbs = <<>>)
    /\ Limbs(i.limbs) /\ Trimmed(i.limbs)

(* The types of the variables.                                             *)
IntTypeOK ==
    /\ phase \in {"start", "estimate", "correct", "addback", "done", "error"}
    /\ op \in Unary \cup Binary /\ x \in Int /\ y \in Int
    /\ \A k \in DOMAIN u : u[k] \in 0..(Base - 1) \/ (phase = "addback" /\ k = j + Len(v) + 1)
    /\ Limbs(v) /\ Limbs(q)
    /\ d \in 1..(Base - 1) /\ j \in Int /\ qhat \in Nat /\ rhat \in Nat

(* Every result is its operation's value, in canonical form: the limb      *)
(* walks agree with the native shortcuts and with arithmetic (lines        *)
(* 343-430).                                                               *)
ResultsExact ==
    phase = "done" /\ op \in Binary \ {"compare"} =>
        /\ \A k \in DOMAIN result : Canonical(result[k])
        /\ [k \in DOMAIN result |-> IntegerValue(result[k])] =
             LET trunc == Sign(x) * Sign(y) * (Abs(x) \div Abs(y))
                 floor == (Sign(y) * x) \div Abs(y)
             IN CASE op = "add" -> <<x + y>>
                  [] op = "sub" -> <<x - y>>
                  [] op = "mul" -> <<x * y>>
                  [] op = "quotRem" -> <<trunc, x - trunc * y>>
                  [] op = "divMod" -> <<floor, x - floor * y>>

(* Comparison orders values, and the conversions lose nothing they can     *)
(* keep: a machine Int survives the trip, a larger value wraps as a        *)
(* machine Int would, and a shown number is its digits and reads back      *)
(* (lines 188-218, 288-326, 463-480).                                      *)
ConversionsExact ==
    phase = "done" =>
        CASE op = "compare" -> result = <<Sign(x - y)>>
          [] op = "lift" -> Canonical(result[1]) /\ IntegerValue(result[1]) = x
                            /\ ToInt(result[1]) = x
          [] op = "narrow" -> result = <<Wrap(x)>>
          [] op = "show" -> LET digits == result[1]
                            IN /\ Mk(XBox.sign, ReadBack(digits)) = XBox
                               /\ digits[1] = 0 => digits = <<0>>
          [] OTHER -> TRUE

(* The loop of the long division loses nothing: the limbs found and what   *)
(* is left of the dividend make up the scaled dividend from limb j + 1 on, *)
(* and what is left there is below the divisor (lines 122-161).  An        *)
(* estimated limb never falls below the limb it stands for, and once       *)
(* corrected it is at most one above it, which the single add-back repairs *)
(* (115-118, 126-135, 148).                                                *)
DivisionInvariant ==
    /\ phase = "estimate" =>
         /\ Abs(x) * d = Magnitude(Scaled) /\ Abs(y) * d = Magnitude(v)
         /\ ValuesFrom(Append(Scaled, 0))[j + 2] = Magnitude(q) * Magnitude(v) + ValuesFrom(u)[j + 2]
         /\ ValuesFrom(u)[j + 2] < Magnitude(v)
    /\ phase = "correct" =>
         LET limb == ValuesFrom(u)[j + 1] \div Magnitude(v)
         IN qhat >= limb /\ (~TooLarge => qhat <= limb + 1)
    /\ phase = "addback" => u[j + Len(v) + 1] = -1

(* Integer arithmetic, comparison, showing and the trips to machine        *)
(* integers are exact and canonical (lines 188-218, 288-326, 343-430,      *)
(* 463-480); the long division loses nothing on the way, and a corrected   *)
(* estimate is at most one too large (115-161).                            *)
ArithmeticExact == ResultsExact /\ ConversionsExact /\ DivisionInvariant
=============================================================================
