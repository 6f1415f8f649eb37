------------------------------ MODULE VectorUnit ------------------------------
(***************************************************************************)
(* A program that calls the arithmetic of libnux, one function at a time:  *)
(* the scalar fractions (Fractions), the classes of vectors and the        *)
(* functions on them (VectorElements), rows and their conversions          *)
(* (VectorRows). A call is what it is given and what it returns; the       *)
(* properties compare that with the number it should be.                   *)
(*                                                                         *)
(* TLC's numbers have 32 bits: fractions of 16 bits are not shifted left   *)
(* by the scalar type (its words of 32 bits), and the second factor of a   *)
(* product of unsigned words has 15 bits.                                  *)
(***************************************************************************)
EXTENDS Fractions, VectorRows, FiniteSets

CONSTANTS Samples8, Samples16, \* words that calls with two arguments, and with words of
                               \* 16 bits, are given
          RowSteps             \* element i of a row is i times one of these

ASSUME VectorUnitAssumption == /\ Samples8 \subseteq Words(8) /\ Samples16 \subseteq Words(16)
                               /\ RowSteps \subseteq Nat

VARIABLE call \* the function that has been called last, with its arguments and its result

Idle == [function |-> "none"]

CallInit == call = Idle

Called(f) == call' = f

Firsts(w)  == IF w = 8 THEN Words(8) ELSE Samples16
Seconds(w) == IF w = 8 THEN Samples8 ELSE Samples16
RandomNumbers(w) == Firsts(w)

Elements == {[i \in Indices |-> (step * i) % TwoTo[16]] : step \in RowSteps}

\* Operators of frac8_t and frac16_t
Scalar ==
  /\ call = Idle
  /\ \E w \in {8, 16}, op \in {"+", "-", "*"} :
       \E a \in Firsts(w), b \in Seconds(w) :
         LET x == Value(w, a)
             y == Value(w, b)
         IN  Called([function |-> "frac", op |-> op, width |-> w, a |-> x, b |-> y,
                     result |-> CASE op = "+" -> FracPlus(w, x, y)
                                  [] op = "-" -> FracMinus(w, x, y)
                                  [] op = "*" -> FracTimes(w, x, y)])

ScalarShift ==
  /\ call = Idle
  /\ \E w \in {8, 16}, op \in {"<<", ">>"} :
       \E a \in Firsts(w), n \in 0 .. w + 1 :
         LET x == Value(w, a)
         IN  /\ op = "<<" => w = 8
             /\ Called([function |-> "frac", op |-> op, width |-> w, a |-> x, b |-> n,
                        result |-> IF op = "<<" THEN FracLeft(w, x, n) ELSE FracRight(w, x, n)])

\* Operators of the classes of vectors, and pow()
Vector ==
  /\ call = Idle
  /\ \E c \in Classes, op \in {"+", "-", "*"} :
       \E a \in Firsts(c.width), b \in Seconds(c.width) :
         /\ ~c.fractional => b <= MaxValue(c.width)
         /\ Called([function |-> "vector", op |-> op, class |-> c, a |-> a, b |-> b,
                    result |-> Combined(c, op, a, b)])

VectorShift ==
  /\ call = Idle
  /\ \E c \in Classes, op \in {"<<", ">>"} :
       \E a \in Firsts(c.width), n \in -c.width .. c.width :
         Called([function |-> "vector", op |-> op, class |-> c, a |-> a, b |-> n,
                 result |-> IF op = "<<" THEN ShiftedLeft(c, a, n) ELSE ShiftedRight(c, a, n)])

VectorNegation ==
  /\ call = Idle
  /\ \E c \in Classes : \E a \in Firsts(c.width) :
       Called([function |-> "negation", class |-> c, a |-> a, result |-> Negated(c, a)])

Pow ==
  /\ call = Idle
  /\ \E c \in {Mod8, FracSat8}, exponent \in 0 .. 3 : \E a \in Words(8) :
       Called([function |-> "pow", class |-> c, a |-> a, b |-> exponent,
               result |-> Power(c, a, exponent)])

\* vector_round_stochastic(), and what it returns for each number of the generator
Round ==
  /\ call = Idle
  /\ \E c \in Classes : \E a \in Firsts(c.width), lsb \in 0 .. c.width :
       Called([function |-> "round", class |-> c, a |-> a, b |-> lsb,
               result |-> [random \in RandomNumbers(c.width) |-> RoundStochastic(c, a, lsb, random)]])

\* vector_if(), with 1 to select where the condition holds, and 2 where it does not
Select ==
  /\ call = Idle
  /\ \E c \in Classes, condition \in Conditions : \E mask \in Firsts(c.width) :
       Called([function |-> "if", class |-> c, a |-> mask, condition |-> condition,
               result |-> VectorIf(c, mask, condition, 1, 2)])

SaturateWeights ==
  /\ call = Idle
  /\ \E c \in {Mod8, FracSat8} : \E a \in Words(8) :
       Called([function |-> "saturate", class |-> c, a |-> a, result |-> SaturateWeight(a)])

Convert ==
  /\ call = Idle
  /\ \E c \in Classes : \E a \in Firsts(c.width) :
       Called([function |-> "contiguous", class |-> c, a |-> a, result |-> Contiguous(c, a)])

\* Conversions between rows of 8 bits and of 16 bits
Low(elements) == [i \in Indices |-> elements[i] % TwoTo[8]]

ConvertRow ==
  /\ call = Idle
  /\ \E c \in Classes, e \in Elements :
       Called([function |-> "row", class |-> c, elements |-> e,
               result |-> CASE c = Mod8      -> ModWidened(RowOf(Low(e)))
                            [] c = Mod16     -> ModNarrowed(WideRowOf(e))
                            [] c = FracSat8  -> FracWidened(RowOf(Low(e)))
                            [] c = FracSat16 -> FracNarrowed(WideRowOf(e))])

\* Operators on two rows
CombineRows ==
  /\ call = Idle
  /\ \E c \in Classes, op \in {"+", "-"}, e1, e2 \in Elements :
       Called([function |-> "rows", op |-> op, class |-> c, elements |-> e1, others |-> e2,
               result |-> IF c.width = 8 THEN OnRows(c, op, RowOf(Low(e1)), RowOf(Low(e2)))
                          ELSE OnWideRows(c, op, WideRowOf(e1), WideRowOf(e2))])

Return == call # Idle /\ call' = Idle

VectorNext == \/ Scalar \/ ScalarShift
              \/ Vector \/ VectorShift \/ VectorNegation \/ Pow
              \/ Round \/ Select \/ SaturateWeights
              \/ Convert \/ ConvertRow \/ CombineRows
              \/ Return

VectorSpec == CallInit /\ [][VectorNext]_call

-----------------------------------------------------------------------------

IsCall(f) == call.function = f

\* The number that an element of class c stands for
Number(c, a) == IF c.fractional THEN Value(c.width, a) ELSE a

\* The scalar fractions never wrap (frac.h:88, frac.h:142): a sum, a difference, a
\* product and a number shifted right are the exact ones, rounded down, or the
\* nearest number of the type if that is too large or too small. A shift to the
\* left is exact, or saturated, as long as the word of double width holds it.
FractionsAreExact ==
  IsCall("frac") =>
    LET w == call.width
        scale == TwoTo[w-1]
        nearest(v) == \/ MinValue(w) <= v /\ v <= MaxValue(w) /\ call.result = v
                      \/ v > MaxValue(w) /\ call.result = MaxValue(w)
                      \/ v < MinValue(w) /\ call.result = MinValue(w)
    IN  /\ call.op = "+" => nearest(call.a + call.b)
        /\ call.op = "-" => nearest(call.a - call.b)
        /\ call.op = "*" =>
             \/ call.result * scale <= call.a * call.b /\ call.a * call.b < (call.result + 1) * scale
             \/ call.a = -scale /\ call.b = -scale /\ call.result = MaxValue(w)
        /\ call.op = ">>" => nearest(call.a \div TwoTo[call.b])
        /\ call.op = "<<" /\ call.b <= w => nearest(call.a * TwoTo[call.b])

\* A vector computes what the scalar type computes for each of its elements
\* (test_frac.cpp:23-58), and where its shifts are documented to differ, they keep
\* the sign (vector_frac_sat_8.h:112): a vector shifted left does not saturate. By
\* its width or more, everything is shifted out. (Negative fractions become 0 by a
\* shift to the right, too, where vector_frac_sat_8.h:120 speaks of an arithmetic
\* shift; it names no result for such a distance.) Unsigned vectors drop what does
\* not fit into the word.
VectorsAreArithmetic ==
  /\ IsCall("vector") =>
       LET c == call.class
           w == c.width
           x == Number(c, call.a)
           r == Number(c, call.result)
           n == IF call.op = ">>" THEN -call.b ELSE call.b
       IN  /\ call.op \in {"+", "-", "*"} /\ c.fractional =>
                r = CASE call.op = "+" -> FracPlus(w, x, Value(w, call.b))
                      [] call.op = "-" -> FracMinus(w, x, Value(w, call.b))
                      [] call.op = "*" -> FracTimes(w, x, Value(w, call.b))
           /\ call.op \in {"<<", ">>"} =>
                /\ n \notin -(w-1) .. w - 1 => r = 0
                /\ n \in -(w-1) .. 0 => r = x \div TwoTo[-n]
                /\ n \in 1 .. w - 1 /\ ~c.fractional => r = (x % TwoTo[w-n]) * TwoTo[n]
                /\ n \in 1 .. w - 1 /\ c.fractional =>
                     /\ (r < 0) = (x < 0)
                     /\ r % TwoTo[w-1] = (x % TwoTo[w-1-n]) * TwoTo[n]
  /\ IsCall("negation") =>
       LET c == call.class
       IN  IF c.fractional
           THEN Number(c, call.result) = FracMinus(c.width, 0, Number(c, call.a))
           ELSE (call.result + call.a) % TwoTo[c.width] = 0
  /\ IsCall("pow") =>
       LET r == Number(call.class, call.result)
       IN  /\ ~call.class.fractional =>
                r = (CASE call.b = 0 -> 1
                       [] call.b = 1 -> call.a
                       [] call.b = 2 -> call.a * call.a
                       [] call.b = 3 -> call.a * call.a * call.a) % TwoTo[8]
           /\ call.class.fractional => /\ call.b = 1 => r = Value(8, call.a)
                                       /\ call.b = 2 => r >= 0

\* Both, for the run.
ArithmeticIsExact == FractionsAreExact /\ VectorsAreArithmetic

\* Stochastic rounding (vector_round_stochastic.h:12) leaves the lower bits zero and
\* returns one of the two nearest such numbers, also when it saturates, and the
\* share of the generator's numbers that round up is that of the bits it drops.
RoundingIsFair ==
  IsCall("round") =>
    LET c   == call.class
        w   == c.width
        x   == Number(c, call.a)
        low == x - (x % TwoTo[call.b])
        up  == low + TwoTo[call.b]
        fits == up <= (IF c.fractional THEN MaxValue(w) ELSE TwoTo[w] - 1)
        result(random) == Number(c, call.result[random])
        roundedUp == {random \in RandomNumbers(w) : result(random) # low}
    IN  /\ call.b = 0 => \A random \in RandomNumbers(w) : result(random) = x
        /\ call.b = w => \A random \in RandomNumbers(w) : result(random) = 0
        /\ call.b \in 1 .. w - 1 =>
             /\ \A random \in roundedUp :
                  IF fits THEN result(random) = up ELSE ~c.fractional /\ result(random) = 0
             /\ w = 8 => Cardinality(roundedUp) =
                           IF ~fits /\ (c.fractional \/ low = 0) THEN 0
                           ELSE (x % TwoTo[call.b]) * TwoTo[w-call.b]

Fulfils(v, condition) ==
  CASE condition = "greater"       -> v > 0
    [] condition = "lesser"        -> v < 0
    [] condition = "equal"         -> v = 0
    [] condition = "greater_equal" -> v >= 0
    [] condition = "lesser_equal"  -> v <= 0
    [] condition = "unequal"       -> v # 0

NearestWeight(v) == IF v < 0 THEN 0 ELSE IF v > 63 THEN 63 ELSE v

\* vector_if() selects as its documentation says (vector_if.h:22): by the number
\* the mask stands for, and an unsigned number is never below zero. Every weight
\* becomes one of 0 .. 63 (vector_row_math.h:32), and the one nearest to it where
\* its number is below 128, as all numbers of signed weights are. (Unsigned weights of
\* 128 and more become 0, although the code says "set >63 to 63" at lines 47 and 54.)
SelectionFollowsNumbers ==
  /\ IsCall("if") =>
       (call.result = 1) = Fulfils(Number(call.class, call.a), call.condition)
  /\ IsCall("saturate") =>
       LET v == Number(call.class, call.a)
       IN  /\ call.result \in 0 .. 63
           /\ v < 128 => call.result = NearestWeight(v)

\* Element i of a row stays element i: conversions of a row convert each element,
\* operators on two rows combine elements of the same index, and the contiguous
\* conversion moves every number by half the range (vector_row.h:270-316,
\* vector_convert.h:8).
RowsKeepElements ==
  /\ IsCall("row") => \A i \in Indices :
       LET e == call.elements[i]
       IN  CASE call.class = Mod8      -> WideAt(call.result, i) = e % TwoTo[8]
             [] call.class = Mod16     -> At(call.result, i) = e % TwoTo[8]
             [] call.class = FracSat8  -> Value(16, WideAt(call.result, i)) = Value(8, e % TwoTo[8]) * TwoTo[8]
             [] call.class = FracSat16 -> Value(8, At(call.result, i)) = Value(16, e) \div TwoTo[8]
  /\ IsCall("rows") => \A i \in Indices :
       LET c == call.class
           a == call.elements[i] % TwoTo[c.width]
           b == call.others[i] % TwoTo[c.width]
       IN  (IF c.width = 8 THEN At(call.result, i) ELSE WideAt(call.result, i)) =
             Combined(c, call.op, a, b)
  /\ IsCall("contiguous") =>
       LET c == call.class
           half == TwoTo[c.width-1]
       IN  IF c.fractional THEN call.result = Value(c.width, call.a) + half
           ELSE Value(c.width, call.result) = call.a - half
=============================================================================
