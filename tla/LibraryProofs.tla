---------------------------- MODULE LibraryProofs ----------------------------
(***************************************************************************)
(* Proofs about the functions a program calls: those of LibraryCalls, for  *)
(* all words, sizes of memories and lengths of vectors, and get_location(),*)
(* for any weights, any columns and any overlap of the calls on the two    *)
(* PPUs.                                                                   *)
(***************************************************************************)
EXTENDS Location, LibraryCalls, NumberLemmas, FiniteSetTheorems, FunctionTheorems, TLAPS

-----------------------------------------------------------------------------
(* The calls: which function has been called tells what it was called with. *)

\* Which function has been called tells which action has been taken.
LEMMA FunctionOf ==
  /\ Scalar \/ ScalarShift => call'.function = "frac"
  /\ Vector \/ VectorShift => call'.function = "vector"
  /\ VectorNegation => call'.function = "negation"
  /\ Pow => call'.function = "pow"
  /\ Round => call'.function = "round"
  /\ Select => call'.function = "if"
  /\ SaturateWeights => call'.function = "saturate"
  /\ Convert => call'.function = "contiguous"
  /\ ConvertRow => call'.function = "row"
  /\ CombineRows => call'.function = "rows"
  /\ Return => call'.function = "none"
  /\ SendWords => call'.function = "uart"
  /\ SendText => call'.function = "printf"
  /\ Address => call'.function = "address"
  /\ Classify => call'.function = "classify"
  /\ Exponential => call'.function = "exp"
  /\ Draw => call'.function \in {"xorshift", "poisson", "lcg"}
  /\ Help => call'.function \in {"reverse", "diff", "amount", "times"}
  /\ AccessRow => call'.function = "access"
  /\ Correlate => call'.function = "correlation"
<1>1. /\ Scalar \/ ScalarShift => call'.function = "frac"
      /\ Vector \/ VectorShift => call'.function = "vector"
      /\ VectorNegation => call'.function = "negation"
      /\ Pow => call'.function = "pow"
      /\ Round => call'.function = "round"
      /\ Select => call'.function = "if"
      /\ SaturateWeights => call'.function = "saturate"
  BY DEF Scalar, ScalarShift, Vector, VectorShift, VectorNegation, Pow, Round, Select,
         SaturateWeights, Called
<1>2. /\ Convert => call'.function = "contiguous"
      /\ ConvertRow => call'.function = "row"
      /\ CombineRows => call'.function = "rows"
      /\ Return => call'.function = "none"
  BY DEF Convert, ConvertRow, CombineRows, Return, Idle, Called
<1>6. SendWords => call'.function = "uart"
  BY DEF SendWords, Called
<1>7. SendText => call'.function = "printf"
  BY DEF SendText, Called
<1>8. Classify => call'.function = "classify"
  BY DEF Classify, Called
<1>9. Exponential => call'.function = "exp"
  BY DEF Exponential, Called
<1>10. Correlate => call'.function = "correlation"
  BY DEF Correlate, Called
<1>3. /\ Draw => call'.function \in {"xorshift", "poisson", "lcg"}
      /\ Help => call'.function \in {"reverse", "diff", "amount", "times"}
  BY DEF Draw, Help, Called
<1>4. Address => call'.function = "address"
  BY DEF Address, Called
<1>5. AccessRow => call'.function = "access"
  BY DEF AccessRow, Called
<1> QED
  BY <1>1, <1>2, <1>3, <1>4, <1>5, <1>6, <1>7, <1>8, <1>9, <1>10

\* The last call is one of a function only if its action has been taken.
LEMMA WhichAction ==
  ASSUME CallsNext
  PROVE  /\ IsCall("frac")' => Scalar \/ ScalarShift
         /\ IsCall("vector")' => Vector \/ VectorShift
         /\ IsCall("negation")' => VectorNegation
         /\ IsCall("pow")' => Pow
         /\ IsCall("round")' => Round
         /\ IsCall("if")' => Select
         /\ IsCall("saturate")' => SaturateWeights
         /\ IsCall("contiguous")' => Convert
         /\ IsCall("row")' => ConvertRow
         /\ IsCall("rows")' => CombineRows
         /\ IsCall("address")' => Address
         /\ IsCall("classify")' => Classify
         /\ IsCall("access")' => AccessRow
         /\ IsCall("correlation")' => Correlate
         /\ IsCall("xorshift")' \/ IsCall("poisson")' \/ IsCall("lcg")' => Draw
         /\ IsCall("reverse")' \/ IsCall("diff")' \/ IsCall("amount")' \/ IsCall("times")' => Help
  BY FunctionOf DEF CallsNext, VectorNext, IsCall

\* No function has been called before the first call.
LEMMA NothingCalled == CallInit => call.function = "none"
  BY DEF CallInit, Idle


\* The ranges of the two widths of words
LEMMA HalfRange ==
  ASSUME NEW w \in {8, 16}
  PROVE  /\ TwoTo[w - 1] \in {128, 32768}
         /\ TwoTo[w] = 2 * TwoTo[w - 1]
         /\ w = 8 => TwoTo[w - 1] = 128
<1>1. CASE w = 8
  <2>1. w - 1 = 7
    BY <1>1
  <2> QED
    BY <1>1, <2>1, TwoToValues
<1>2. CASE w = 16
  <2>1. w - 1 = 15
    BY <1>2
  <2> QED
    BY <1>2, <2>1, TwoToValues
<1> QED
  BY <1>1, <1>2

\* All classes of vectors have elements of one of these widths.
LEMMA ClassWidth == \A c \in Classes : c.width \in {8, 16}
  BY DEF Classes, Mod8, Mod16, FracSat8, FracSat16

\* What a word is as a signed number
LEMMA ValueOfWord ==
  ASSUME NEW w \in {8, 16}, NEW a \in Words(w)
  PROVE  /\ a \in Nat /\ a < 2 * TwoTo[w - 1]
         /\ Value(w, a) \in MinValue(w) .. MaxValue(w)
         /\ a < TwoTo[w - 1] => Value(w, a) = a
         /\ a >= TwoTo[w - 1] => Value(w, a) = a - 2 * TwoTo[w - 1]
  BY HalfRange DEF Words, Value, MinValue, MaxValue

\* The words that the functions are called with are words.
LEMMA WordsCalled ==
  \A w \in {8, 16} : Firsts(w) \subseteq Words(w) /\ Seconds(w) \subseteq Words(w)
  BY VectorUnitAssumption DEF Firsts, Seconds

-----------------------------------------------------------------------------
(* Selection: vector_if() and saturate_weights(). *)

\* vector_if() of one element takes the first value where the condition is true of it.
LEMMA IfFollows ==
  ASSUME NEW c \in Classes, NEW a \in Words(c.width), NEW condition \in Conditions
  PROVE  (VectorIf(c, a, condition, 1, 2) = 1) = Fulfils(Number(c, a), condition)
<1> DEFINE v == Value(c.width, a)
           h == TwoTo[c.width - 1]
<1>1. /\ h \in {128, 32768} /\ a \in Nat /\ a < 2 * h /\ v \in Int
      /\ (a < h => v = a) /\ (a >= h => v = a - 2 * h)
  BY ClassWidth, HalfRange, ValueOfWord DEF MinValue, MaxValue
<1>2. /\ v = 0 <=> a = 0
      /\ Number(c, a) = IF c.fractional THEN v ELSE a
  BY <1>1 DEF Number
<1>3. /\ \A x, y : fxvsel(c.width, a, x, y, "gt") = IF v > 0 THEN y ELSE x
      /\ \A x, y : fxvsel(c.width, a, x, y, "lt") = IF v < 0 THEN y ELSE x
      /\ \A x, y : fxvsel(c.width, a, x, y, "eq") = IF v = 0 THEN y ELSE x
  BY DEF fxvsel
<1> HIDE DEF v, h
<1>4. CASE condition = "greater"
  BY <1>1, <1>2, <1>3, <1>4 DEF VectorIf, Fulfils
<1>5. CASE condition = "lesser"
  BY <1>1, <1>2, <1>3, <1>5 DEF VectorIf, Fulfils
<1>6. CASE condition = "equal"
  BY <1>1, <1>2, <1>3, <1>6 DEF VectorIf, Fulfils
<1>7. CASE condition = "greater_equal"
  BY <1>1, <1>2, <1>3, <1>7 DEF VectorIf, Fulfils
<1>8. CASE condition = "lesser_equal"
  BY <1>1, <1>2, <1>3, <1>8 DEF VectorIf, Fulfils
<1>9. CASE condition = "unequal"
  BY <1>1, <1>2, <1>3, <1>9 DEF VectorIf, Fulfils
<1> QED
  BY <1>4, <1>5, <1>6, <1>7, <1>8, <1>9 DEF Conditions

\* saturate_weight() takes an element for a signed number.
LEMMA WeightSaturated ==
  ASSUME NEW a \in Words(8)
  PROVE  SaturateWeight(a) = NearestWeight(Value(8, a))
<1> DEFINE v == Value(8, a)
           n == IF v > 0 THEN a ELSE 0
           e == fxvsubm(8, n, 63)
<1>1. /\ TwoTo[7] = 128 /\ TwoTo[8] = 256 /\ a \in 0 .. 255 /\ 8 - 1 = 7
      /\ (a < 128 => v = a) /\ (a >= 128 => v = a - 256)
  BY TwoToValues DEF Words, Value
<1>2. SaturateWeight(a) = IF Value(8, e) > 0 THEN 63 ELSE n
  BY DEF SaturateWeight, fxvsel
<1>3. n \in 0 .. 127 /\ n = (IF v < 0 THEN 0 ELSE v)
  BY <1>1
<1>4. e = (IF n >= 63 THEN n - 63 ELSE n - 63 + 256)
  <2> HIDE DEF n
  <2> QED
    BY <1>1, <1>3 DEF fxvsubm
<1> HIDE DEF e, n
<1>5. Value(8, e) = n - 63
  BY <1>1, <1>3, <1>4 DEF Value
<1> QED
  BY <1>1, <1>2, <1>3, <1>5 DEF NearestWeight

\* Numbers below 128 are the same for both classes of bytes.
LEMMA ByteNumbers ==
  ASSUME NEW c \in {Mod8, FracSat8}, NEW a \in Words(8)
  PROVE  /\ NearestWeight(Value(8, a)) \in 0 .. 63
         /\ Number(c, a) < 128 => Number(c, a) = Value(8, a)
<1>1. /\ TwoTo[8 - 1] = 128 /\ TwoTo[8] = 256 /\ a \in 0 .. 255
      /\ Value(8, a) \in Int /\ (a < 128 => Value(8, a) = a)
  <2>1. 8 - 1 = 7 /\ TwoTo[7] = 128 /\ TwoTo[8] = 256
    BY TwoToValues
  <2> QED
    BY <2>1 DEF Words, Value
<1>2. c.width = 8
  BY DEF Mod8, FracSat8
<1>3. NearestWeight(Value(8, a)) \in 0 .. 63
  BY <1>1 DEF NearestWeight
<1>4. Number(c, a) = IF c.fractional THEN Value(8, a) ELSE a
  BY <1>2 DEF Number
<1> QED
  BY <1>1, <1>3, <1>4

\* Whatever elements they are called with: vector_if() selects by the number that
\* the mask stands for (vector_if.h:22), and saturate_weight() takes every element
\* to a weight of 0 .. 63 (vector_row_math.h:32), to the nearest one where its number
\* is below 128: for all elements of signed rows, but not for all of unsigned ones.
THEOREM SelectionInvariant == CallsSpec => []SelectionFollowsNumbers
<1>1. CallInit => SelectionFollowsNumbers
  BY NothingCalled DEF SelectionFollowsNumbers, IsCall
<1>2. SelectionFollowsNumbers /\ [CallsNext]_call => SelectionFollowsNumbers'
  <2> SUFFICES ASSUME SelectionFollowsNumbers, [CallsNext]_call PROVE SelectionFollowsNumbers'
    OBVIOUS
  <2>1. CASE UNCHANGED call
    BY <2>1 DEF SelectionFollowsNumbers, IsCall
  <2>2. CASE CallsNext
    <3>1. ASSUME IsCall("if")'
          PROVE  (call'.result = 1) = Fulfils(Number(call'.class, call'.a), call'.condition)
      <4>1. Select
        BY <2>2, <3>1, WhichAction
      <4>2. PICK c \in Classes, condition \in Conditions : \E mask \in Firsts(c.width) :
              call' = [function |-> "if", class |-> c, a |-> mask, condition |-> condition,
                       result |-> VectorIf(c, mask, condition, 1, 2)]
        BY <4>1 DEF Select, Called
      <4>3. PICK mask \in Words(c.width) :
              call' = [function |-> "if", class |-> c, a |-> mask, condition |-> condition,
                       result |-> VectorIf(c, mask, condition, 1, 2)]
        BY <4>2, ClassWidth, WordsCalled
      <4> QED
        BY <4>3, IfFollows
    <3>2. ASSUME IsCall("saturate")'
          PROVE  LET v == Number(call'.class, call'.a)
                 IN  /\ call'.result \in 0 .. 63
                     /\ v < 128 => call'.result = NearestWeight(v)
      <4>1. SaturateWeights
        BY <2>2, <3>2, WhichAction
      <4>2. PICK c \in {Mod8, FracSat8}, a \in Words(8) :
              call' = [function |-> "saturate", class |-> c, a |-> a,
                       result |-> SaturateWeight(a)]
        BY <4>1 DEF SaturateWeights, Called
      <4> QED
        BY <4>2, WeightSaturated, ByteNumbers
    <3> QED
      BY <3>1, <3>2 DEF SelectionFollowsNumbers
  <2> QED
    BY <2>1, <2>2
<1> QED
  BY <1>1, <1>2, PTL DEF CallsSpec

-----------------------------------------------------------------------------
(* The memories of the chip, row by row. *)

\* A chip's memory: for every index, a vector of bytes
Contents == [VectorIndices -> [Entries -> Int]]

\* The memory that rows are written to
LEMMA NumberedContents == Numbered \in Contents
<1>1. VectorBytes \in Nat /\ ChipRows \in Nat
  BY ChipMemoryAssumption
<1>2. \A index \in VectorIndices, i \in Entries : 1 + index * VectorBytes + i \in Int
  BY <1>1 DEF VectorIndices, Entries
<1> QED
  BY <1>2 DEF Numbered, Contents

\* The words of the omnibus are those of the vectors.
LEMMA OmnibusAsVector ==
  ASSUME NEW m \in Contents, NEW r \in 0 .. ChipRows - 1
  PROVE  get_row_via_omnibus(m, r) = get_row_via_vector(m, r)
<1> DEFINE W == WordsPerVector
<1>1. VectorBytes \in Nat /\ ChipRows \in Nat /\ W \in Nat /\ VectorBytes = 4 * W /\ r \in Nat
  BY ChipMemoryAssumption DEF WordsPerVector
<1>2. 2 * r \in VectorIndices /\ 2 * r + 1 \in VectorIndices
  BY <1>1 DEF VectorIndices
<1>3. ASSUME NEW c \in Entries, NEW v \in {0, 1}
      PROVE  OmnibusByte(m, v * W + (c \div 4) + r * 2 * W, c % 4) = m[2 * r + v][c]
  <2> DEFINE q == c \div 4
             a == v * W + q + r * 2 * W
  <2>1. q \in Nat /\ c % 4 \in 0 .. 3 /\ c = 4 * q + (c % 4) /\ q < W /\ W > 0
    BY <1>1 DEF Entries
  <2> HIDE DEF q
  <2>2. a = W * (2 * r + v) + q /\ a \in Int
    <3>1. v * W \in Int /\ r * 2 * W \in Int /\ W * (2 * r + v) = v * W + r * 2 * W
      BY <1>1, Z3
    <3> QED
      BY <2>1, <3>1
  <2> HIDE DEF a
  <2>3. 2 * r + v \in Nat /\ q \in 0 .. W - 1
    BY <1>1, <2>1
  <2>4. a % W = q
    BY <1>1, <2>1, <2>2, <2>3, ModIs
  <2>5. a \div W = 2 * r + v
    BY <1>1, <2>1, <2>2, <2>3, <2>4, DivIs
  <2>6. OmnibusByte(m, a, c % 4) = m[2 * r + v][4 * q + (c % 4)]
    BY <2>4, <2>5 DEF OmnibusByte
  <2> QED
    BY <2>1, <2>6 DEF a, q
<1>4. ASSUME NEW c \in Entries
      PROVE  /\ OmnibusByte(m, 0 + (c \div 4) + r * 2 * W, c % 4) = m[2 * r][c]
             /\ OmnibusByte(m, W + (c \div 4) + r * 2 * W, c % 4) = m[2 * r + 1][c]
  <2>1. OmnibusByte(m, 0 * W + (c \div 4) + r * 2 * W, c % 4) = m[2 * r + 0][c]
    BY <1>3
  <2>2. OmnibusByte(m, 1 * W + (c \div 4) + r * 2 * W, c % 4) = m[2 * r + 1][c]
    BY <1>3
  <2>3. 0 * W = 0 /\ 1 * W = W /\ 2 * r + 0 = 2 * r
    BY <1>1
  <2> QED
    BY <2>1, <2>2, <2>3
<1>5. m[2 * r] \in [Entries -> Int] /\ m[2 * r + 1] \in [Entries -> Int]
  BY <1>2 DEF Contents
<1>6. /\ [c \in Entries |-> OmnibusByte(m, 0 + (c \div 4) + r * 2 * W, c % 4)] = m[2 * r]
      /\ [c \in Entries |-> OmnibusByte(m, W + (c \div 4) + r * 2 * W, c % 4)] = m[2 * r + 1]
  BY <1>4, <1>5
<1> QED
  BY <1>6 DEF get_row_via_omnibus, get_row_via_vector

\* The two vectors of a row are not those of another one.
LEMMA RowsApart ==
  ASSUME NEW r \in 0 .. ChipRows - 1, NEW row \in 0 .. ChipRows - 1
  PROVE  /\ 2 * r \in VectorIndices /\ 2 * r + 1 \in VectorIndices
         /\ 2 * r # 2 * row + 1 /\ 2 * r + 1 # 2 * row
         /\ 2 * r = 2 * row <=> r = row
         /\ 2 * r + 1 = 2 * row + 1 <=> r = row
  BY ChipMemoryAssumption DEF VectorIndices

\* What a memory contains after a vector has been written
LEMMA OutWrites ==
  ASSUME NEW m \in Contents, NEW k \in VectorIndices, NEW new \in [Entries -> Int]
  PROVE  /\ Out(m, k, new) \in Contents
         /\ \A l \in VectorIndices : Out(m, k, new)[l] = IF l = k THEN new ELSE m[l]
  BY DEF Out, Contents

\* A masked write changes the chosen columns of one vector, and nothing else.
LEMMA OutMaskedWrites ==
  ASSUME NEW m \in Contents, NEW k \in VectorIndices, NEW new \in [Entries -> Int], NEW mask
  PROVE  /\ OutMasked(m, k, new, mask) \in Contents
         /\ \A l \in VectorIndices \ {k} : OutMasked(m, k, new, mask)[l] = m[l]
         /\ \A i \in Entries : OutMasked(m, k, new, mask)[k][i] =
                                 IF Chosen(mask, i) THEN new[i] ELSE m[k][i]
<1> DEFINE v == [i \in Entries |-> IF Chosen(mask, i) THEN new[i] ELSE m[k][i]]
<1>1. m[k] \in [Entries -> Int]
  BY DEF Contents
<1>2. v \in [Entries -> Int]
  <2>1. \A i \in Entries : (IF Chosen(mask, i) THEN new[i] ELSE m[k][i]) \in Int
    BY <1>1
  <2> QED
    BY <2>1
<1>3. OutMasked(m, k, new, mask) = [m EXCEPT ![k] = v]
  BY DEF OutMasked
<1>4. \A i \in Entries : v[i] = IF Chosen(mask, i) THEN new[i] ELSE m[k][i]
  OBVIOUS
<1> HIDE DEF v
<1> QED
  BY <1>2, <1>3, <1>4 DEF Contents

\* All ways to read a row return its two vectors, the omnibus those that it sees.
LEMMA ReadsAgree ==
  ASSUME NEW m \in Contents, NEW o \in Contents, NEW r \in 0 .. ChipRows - 1
  PROVE  LET got == ReadRow(m, o, r)
         IN  /\ got.vector = [even |-> m[2 * r], odd |-> m[2 * r + 1]]
             /\ got.omnibus = [even |-> o[2 * r], odd |-> o[2 * r + 1]]
             /\ got.weights = <<got.vector.even, got.vector.odd>>
             /\ got.halves = got.weights
<1>1. get_row_via_omnibus(o, r) = get_row_via_vector(o, r)
  BY OmnibusAsVector
<1> QED
  BY <1>1 DEF ReadRow, get_row_via_vector, get_weights, get_vector

\* What the omnibus sees of a memory that is written is old or new.
LEMMA OldOrNew ==
  ASSUME NEW earlier \in Contents, NEW after \in Contents, NEW arrived
  PROVE  LET o == Arriving(earlier, after, arrived)
         IN  /\ o \in Contents
             /\ \A k \in VectorIndices, i \in Entries : o[k][i] \in {earlier[k][i], after[k][i]}
<1> DEFINE seen(k, i) == IF k * WordsPerVector + (i \div 4) \in arrived THEN after[k][i]
                         ELSE earlier[k][i]
<1>1. \A k \in VectorIndices, i \in Entries :
        seen(k, i) \in Int /\ seen(k, i) \in {earlier[k][i], after[k][i]}
  BY DEF Contents
<1>2. Arriving(earlier, after, arrived) = [k \in VectorIndices |-> [i \in Entries |-> seen(k, i)]]
  BY DEF Arriving
<1> HIDE DEF seen
<1> QED
  BY <1>1, <1>2 DEF Contents

\* The words of a row are those of its two vectors.
LEMMA WordsOfRow ==
  ASSUME NEW row \in 0 .. ChipRows - 1, NEW i \in Entries
  PROVE  /\ 2 * row * WordsPerVector + (i \div 4) \in RowWords(row)
         /\ (2 * row + 1) * WordsPerVector + (i \div 4) \in RowWords(row)
<1> DEFINE W == WordsPerVector
           q == i \div 4
           P == row * W
<1>1. VectorBytes \in Nat /\ W \in Nat /\ VectorBytes = 4 * W /\ row \in Nat
  BY ChipMemoryAssumption DEF WordsPerVector
<1>2. q \in 0 .. W - 1
  BY <1>1 DEF Entries
<1>3. RowWords(row) = row * 2 * W .. (row + 1) * 2 * W - 1
  BY DEF RowWords
<1> HIDE DEF q, W
<1>4. P \in Nat
  BY <1>1
<1>5. /\ 2 * row * W = 2 * P /\ row * 2 * W = 2 * P
      /\ (2 * row + 1) * W = 2 * P + W /\ (row + 1) * 2 * W - 1 = 2 * P + 2 * W - 1
  BY <1>1, Z3
<1> HIDE DEF P
<1>6. /\ 2 * P + q \in 2 * P .. 2 * P + 2 * W - 1
      /\ 2 * P + W + q \in 2 * P .. 2 * P + 2 * W - 1
  BY <1>1, <1>2, <1>4
<1>7. /\ 2 * row * W + q \in row * 2 * W .. (row + 1) * 2 * W - 1
      /\ (2 * row + 1) * W + q \in row * 2 * W .. (row + 1) * 2 * W - 1
  <2> DEFINE low  == row * 2 * W
             high == (row + 1) * 2 * W - 1
  <2>0. low = 2 * P /\ high = 2 * P + 2 * W - 1
    BY <1>5, Zenon
  <2> HIDE DEF low, high
  <2>1. 2 * P + q \in low .. high /\ 2 * P + W + q \in low .. high
    BY <1>6, <2>0
  <2> QED
    BY <1>5, <2>1, Zenon DEF low, high
<1>8. /\ 2 * row * W + q \in RowWords(row)
      /\ (2 * row + 1) * W + q \in RowWords(row)
  BY <1>3, <1>7, Zenon
<1> QED
  BY <1>8, Zenon DEF q, W

\* After a sync, the omnibus sees the memory as it is, if only that row was written.
LEMMA AllArrived ==
  ASSUME NEW earlier \in Contents, NEW after \in Contents, NEW row \in 0 .. ChipRows - 1,
         NEW r \in 0 .. ChipRows - 1,
         r # row => after[2 * r] = earlier[2 * r] /\ after[2 * r + 1] = earlier[2 * r + 1]
  PROVE  LET o == Arriving(earlier, after, RowWords(row))
         IN  o[2 * r] = after[2 * r] /\ o[2 * r + 1] = after[2 * r + 1]
<1> DEFINE o == Arriving(earlier, after, RowWords(row))
           W == WordsPerVector
<1>1. 2 * r \in VectorIndices /\ 2 * r + 1 \in VectorIndices
  BY RowsApart
<1>2. ASSUME NEW k \in VectorIndices
      PROVE  o[k] = [i \in Entries |-> IF k * W + (i \div 4) \in RowWords(row)
                                       THEN after[k][i] ELSE earlier[k][i]]
  BY DEF Arriving
<1>3. /\ after[2 * r] \in [Entries -> Int] /\ after[2 * r + 1] \in [Entries -> Int]
  BY <1>1 DEF Contents
<1> HIDE DEF o
<1>4. CASE r = row
  <2>1. \A i \in Entries : /\ 2 * r * W + (i \div 4) \in RowWords(row)
                           /\ (2 * r + 1) * W + (i \div 4) \in RowWords(row)
    BY <1>4, WordsOfRow
  <2> HIDE DEF W
  <2>2. /\ o[2 * r] = [i \in Entries |-> after[2 * r][i]]
        /\ o[2 * r + 1] = [i \in Entries |-> after[2 * r + 1][i]]
    BY <1>1, <1>2, <2>1, Zenon
  <2> QED
    BY <1>3, <2>2 DEF o
<1>5. CASE r # row
  <2> HIDE DEF W
  <2>1. /\ o[2 * r] = [i \in Entries |-> after[2 * r][i]]
        /\ o[2 * r + 1] = [i \in Entries |-> after[2 * r + 1][i]]
    BY <1>1, <1>2, <1>5
  <2> QED
    BY <1>3, <2>1 DEF o
<1> QED
  BY <1>4, <1>5

\* In memory, the vectors of a row have been written, or their chosen columns.
WrittenAs(memory, way, row, even, odd, mask_even, mask_odd) ==
  /\ memory \in Contents
  /\ \A r \in 0 .. ChipRows - 1, i \in Entries :
       /\ memory[2 * r][i] = IF r = row /\ (way = "masked" => Chosen(mask_even, i))
                             THEN even[i] ELSE Numbered[2 * r][i]
       /\ memory[2 * r + 1][i] = IF r = row /\ (way = "masked" => Chosen(mask_odd, i))
                                 THEN odd[i] ELSE Numbered[2 * r + 1][i]

\* Whichever way a row is written, the memory is the numbered one but for that row.
LEMMA RowWritten ==
  ASSUME NEW row \in 0 .. ChipRows - 1, NEW way \in {"row", "masked", "weights", "vectors"},
         NEW even \in ChipVectors, NEW odd \in ChipVectors, NEW mask_even, NEW mask_odd
  PROVE  WrittenAs(Written(way, Numbered, [even |-> even, odd |-> odd],
                           [even |-> mask_even, odd |-> mask_odd], row),
                   way, row, even, odd, mask_even, mask_odd)
<1> DEFINE memory == Written(way, Numbered, [even |-> even, odd |-> odd],
                             [even |-> mask_even, odd |-> mask_odd], row)
<1> SUFFICES WrittenAs(memory, way, row, even, odd, mask_even, mask_odd)
  OBVIOUS
<1>1. /\ even \in [Entries -> Int] /\ odd \in [Entries -> Int] /\ Numbered \in Contents
      /\ 2 * row \in VectorIndices /\ 2 * row + 1 \in VectorIndices /\ 2 * row # 2 * row + 1
  BY CallsAssumption, NumberedContents, RowsApart
<1>2. CASE way # "masked"
  <2> DEFINE first == Out(Numbered, 2 * row, even)
  <2>1. memory = Out(first, 2 * row + 1, odd)
    BY <1>2 DEF Written, set_row_via_vector, set_weights, set_vector
  <2> HIDE DEF memory
  <2>2. /\ first \in Contents
        /\ \A l \in VectorIndices : first[l] = IF l = 2 * row THEN even ELSE Numbered[l]
    BY <1>1, OutWrites
  <2> HIDE DEF first
  <2>3. /\ memory \in Contents
        /\ \A l \in VectorIndices : memory[l] = IF l = 2 * row + 1 THEN odd ELSE first[l]
    <3>1. /\ Out(first, 2 * row + 1, odd) \in Contents
          /\ \A l \in VectorIndices : Out(first, 2 * row + 1, odd)[l] =
                                        IF l = 2 * row + 1 THEN odd ELSE first[l]
      BY <1>1, <2>2, OutWrites
    <3> QED
      BY <2>1, <3>1
  <2>4. ASSUME NEW r \in 0 .. ChipRows - 1
        PROVE  /\ memory[2 * r] = IF r = row THEN even ELSE Numbered[2 * r]
               /\ memory[2 * r + 1] = IF r = row THEN odd ELSE Numbered[2 * r + 1]
    BY <2>2, <2>3, RowsApart
  <2> QED
    BY <1>2, <2>3, <2>4 DEF WrittenAs
<1>3. CASE way = "masked"
  <2> DEFINE first == OutMasked(Numbered, 2 * row, even, mask_even)
  <2>1. memory = OutMasked(first, 2 * row + 1, odd, mask_odd)
    BY <1>3 DEF Written, set_row_via_vector_masked
  <2> HIDE DEF memory
  <2>2. /\ first \in Contents
        /\ \A l \in VectorIndices \ {2 * row} : first[l] = Numbered[l]
        /\ \A i \in Entries : first[2 * row][i] =
                                IF Chosen(mask_even, i) THEN even[i] ELSE Numbered[2 * row][i]
    BY <1>1, OutMaskedWrites
  <2> HIDE DEF first
  <2>3. /\ memory \in Contents
        /\ \A l \in VectorIndices \ {2 * row + 1} : memory[l] = first[l]
        /\ \A i \in Entries : memory[2 * row + 1][i] =
                                IF Chosen(mask_odd, i) THEN odd[i] ELSE first[2 * row + 1][i]
    <3> DEFINE second == OutMasked(first, 2 * row + 1, odd, mask_odd)
    <3>1. /\ second \in Contents
          /\ \A l \in VectorIndices \ {2 * row + 1} : second[l] = first[l]
          /\ \A i \in Entries : second[2 * row + 1][i] =
                                  IF Chosen(mask_odd, i) THEN odd[i] ELSE first[2 * row + 1][i]
      BY <1>1, <2>2, OutMaskedWrites
    <3> QED
      BY <2>1, <3>1
  <2>4. ASSUME NEW r \in 0 .. ChipRows - 1, NEW i \in Entries
        PROVE  /\ memory[2 * r][i] = IF r = row /\ Chosen(mask_even, i)
                                     THEN even[i] ELSE Numbered[2 * r][i]
               /\ memory[2 * r + 1][i] = IF r = row /\ Chosen(mask_odd, i)
                                         THEN odd[i] ELSE Numbered[2 * r + 1][i]
    <3>1. CASE r = row
      BY <1>1, <2>2, <2>3, <3>1
    <3>2. CASE r # row
      <4>1. memory[2 * r] = Numbered[2 * r] /\ memory[2 * r + 1] = Numbered[2 * r + 1]
        BY <2>2, <2>3, <3>2, RowsApart
      <4> QED
        BY <3>2, <4>1
    <3> QED
      BY <3>1, <3>2
  <2> QED
    BY <1>3, <2>3, <2>4 DEF WrittenAs
<1> QED
  BY <1>2, <1>3

\* Writing and reading a row keep the property.
LEMMA AccessAgrees == ASSUME AccessRow PROVE RowAccessesAgree'
<1>1. PICK row \in 0 .. ChipRows - 1, way \in {"row", "masked", "weights", "vectors"},
           even \in ChipVectors, odd \in ChipVectors,
           mask_even \in ChipVectors, mask_odd \in ChipVectors :
        LET values == [even |-> even, odd |-> odd]
            mask   == [even |-> mask_even, odd |-> mask_odd]
            memory == Written(way, Numbered, values, mask, row)
        IN  /\ way # "masked" => mask_even = even /\ mask_odd = odd
            /\ \E arrived \in Arrivals(way # "weights", row) :
                 LET omnibus == Arriving(Numbered, memory, arrived)
                 IN  Called([function |-> "access", row |-> row, way |-> way,
                             values |-> values, mask |-> mask,
                             reset |-> reset_neurons(mask_even, mask_odd),
                             result |-> [r \in 0 .. ChipRows - 1 |->
                                           ReadRow(memory, omnibus, r)]])
  BY Zenon DEF AccessRow
<1> DEFINE values == [even |-> even, odd |-> odd]
           mask   == [even |-> mask_even, odd |-> mask_odd]
           memory == Written(way, Numbered, values, mask, row)
<1>2. WrittenAs(memory, way, row, even, odd, mask_even, mask_odd)
  BY RowWritten
<1>3. PICK arrived \in Arrivals(way # "weights", row) :
        LET omnibus == Arriving(Numbered, memory, arrived)
        IN  Called([function |-> "access", row |-> row, way |-> way,
                    values |-> values, mask |-> mask,
                    reset |-> reset_neurons(mask_even, mask_odd),
                    result |-> [r \in 0 .. ChipRows - 1 |-> ReadRow(memory, omnibus, r)]])
  BY <1>1
<1> DEFINE omnibus == Arriving(Numbered, memory, arrived)
<1> HIDE DEF memory
<1>4. /\ call'.row = row /\ call'.way = way /\ call'.values = values /\ call'.mask = mask
      /\ call'.reset = reset_neurons(mask_even, mask_odd)
      /\ \A r \in 0 .. ChipRows - 1 : call'.result[r] = ReadRow(memory, omnibus, r)
  BY <1>3 DEF Called
<1>5. /\ memory \in Contents /\ Numbered \in Contents /\ omnibus \in Contents
      /\ \A k \in VectorIndices, i \in Entries :
           omnibus[k][i] \in {Numbered[k][i], memory[k][i]}
  <2>1. memory \in Contents /\ Numbered \in Contents
    BY <1>2, NumberedContents DEF WrittenAs
  <2> QED
    BY <2>1, OldOrNew
<1> HIDE DEF omnibus
<1>11. ASSUME NEW i \in Entries, NEW parity \in {"even", "odd"} PROVE mask[parity][i] \in Int
  <2>1. mask[parity] \in ChipVectors
    OBVIOUS
  <2> HIDE DEF mask
  <2>2. mask[parity] \in [Entries -> 0 .. 255]
    BY <2>1, CallsAssumption
  <2> QED
    BY <2>2
<1>6. ASSUME NEW i \in Entries, NEW parity \in {"even", "odd"}
      PROVE  mask[parity][i] < 128 => (<<parity, i>> \in call'.reset <=> mask[parity][i] > 0)
  <2>1. <<parity, i>> \in call'.reset <=> Chosen(mask[parity], i)
    BY <1>4 DEF reset_neurons
  <2>2. mask[parity][i] \in Int
    BY <1>11
  <2> QED
    BY <2>1, <2>2 DEF Chosen
<1>7. ASSUME NEW r \in 0 .. ChipRows - 1
      PROVE  LET got == call'.result[r]
             IN  /\ got.weights = <<got.vector.even, got.vector.odd>>
                 /\ got.halves = got.weights
                 /\ way # "weights" => got.omnibus = got.vector
                 /\ got.vector = [even |-> memory[2 * r], odd |-> memory[2 * r + 1]]
                 /\ got.omnibus = [even |-> omnibus[2 * r], odd |-> omnibus[2 * r + 1]]
  <2>1. /\ call'.result[r].weights = <<call'.result[r].vector.even, call'.result[r].vector.odd>>
        /\ call'.result[r].halves = call'.result[r].weights
        /\ call'.result[r].vector = [even |-> memory[2 * r], odd |-> memory[2 * r + 1]]
        /\ call'.result[r].omnibus = [even |-> omnibus[2 * r], odd |-> omnibus[2 * r + 1]]
    BY <1>4, <1>5, ReadsAgree
  <2>2. ASSUME way # "weights"
        PROVE  omnibus[2 * r] = memory[2 * r] /\ omnibus[2 * r + 1] = memory[2 * r + 1]
    <3>1. arrived = RowWords(row)
      BY <1>3, <2>2 DEF Arrivals
    <3>2. ASSUME r # row
          PROVE  memory[2 * r] = Numbered[2 * r] /\ memory[2 * r + 1] = Numbered[2 * r + 1]
      <4>1. \A i \in Entries : /\ memory[2 * r][i] = Numbered[2 * r][i]
                               /\ memory[2 * r + 1][i] = Numbered[2 * r + 1][i]
        BY <1>2, <3>2 DEF WrittenAs
      <4>2. \A k \in VectorIndices : /\ memory[k] = [i \in Entries |-> memory[k][i]]
                                     /\ Numbered[k] = [i \in Entries |-> Numbered[k][i]]
        BY <1>5 DEF Contents
      <4>3. 2 * r \in VectorIndices /\ 2 * r + 1 \in VectorIndices
        BY RowsApart
      <4> QED
        BY <4>1, <4>2, <4>3
    <3> QED
      BY <1>5, <3>1, <3>2, AllArrived DEF omnibus
  <2> QED
    BY <2>1, <2>2
<1>8. ASSUME NEW r \in 0 .. ChipRows - 1, NEW parity \in {"even", "odd"}, NEW i \in Entries
      PROVE  LET got   == call'.result[r]
                 old   == [even |-> Numbered[2 * r], odd |-> Numbered[2 * r + 1]]
                 value == got.vector[parity][i]
                 m     == mask[parity][i]
                 used  == way = "masked" => m > 0
             IN  /\ got.omnibus[parity][i] \in {value, old[parity][i]}
                 /\ r # row => value = old[parity][i]
                 /\ r = row /\ (way = "masked" => m < 128) =>
                      value = IF used THEN values[parity][i] ELSE old[parity][i]
  <2> DEFINE k == IF parity = "even" THEN 2 * r ELSE 2 * r + 1
             got == call'.result[r]
             old == [even |-> Numbered[2 * r], odd |-> Numbered[2 * r + 1]]
  <2>1. k \in VectorIndices
    BY RowsApart
  <2>2. /\ got.vector[parity] = memory[k] /\ got.omnibus[parity] = omnibus[k]
        /\ old[parity] = Numbered[k]
    <3>1. /\ got.vector = [even |-> memory[2 * r], odd |-> memory[2 * r + 1]]
          /\ got.omnibus = [even |-> omnibus[2 * r], odd |-> omnibus[2 * r + 1]]
      BY <1>7
    <3> HIDE DEF got
    <3>2. CASE parity = "even"
      BY <3>1, <3>2
    <3>3. CASE parity = "odd"
      BY <3>1, <3>3
    <3> QED
      BY <3>2, <3>3
  <2>3. memory[k][i] = IF r = row /\ (way = "masked" => Chosen(mask[parity], i))
                       THEN values[parity][i] ELSE Numbered[k][i]
    BY <1>2 DEF WrittenAs
  <2>4. mask[parity][i] \in Int
    BY <1>11
  <2>5. omnibus[k][i] \in {memory[k][i], Numbered[k][i]}
    BY <1>5, <2>1
  <2> HIDE DEF k, got, old, values, mask
  <2>6. mask[parity][i] < 128 => (Chosen(mask[parity], i) <=> mask[parity][i] > 0)
    BY <2>4 DEF Chosen
  <2> QED
    BY <2>2, <2>3, <2>5, <2>6 DEF got, old
<1> HIDE DEF values, mask, omnibus
<1>9. ASSUME NEW r \in 0 .. ChipRows - 1, NEW parity \in {"even", "odd"}, NEW i \in Entries
      PROVE  LET got   == call'.result[r]
                 old   == [even |-> Numbered[2 * r], odd |-> Numbered[2 * r + 1]]
                 value == got.vector[parity][i]
                 m     == call'.mask[parity][i]
                 used  == call'.way = "masked" => m > 0
             IN  /\ got.omnibus[parity][i] \in {value, old[parity][i]}
                 /\ r # call'.row => value = old[parity][i]
                 /\ r = call'.row /\ (call'.way = "masked" => m < 128) =>
                      value = IF used THEN call'.values[parity][i] ELSE old[parity][i]
                 /\ m < 128 => (<<parity, i>> \in call'.reset <=> m > 0)
  <2>1. /\ call'.row = row /\ call'.way = way
        /\ call'.values[parity][i] = values[parity][i]
        /\ call'.mask[parity][i] = mask[parity][i]
    BY <1>4
  <2>2. mask[parity][i] < 128 => (<<parity, i>> \in call'.reset <=> mask[parity][i] > 0)
    BY <1>6
  <2> DEFINE got == call'.result[r]
             old == [even |-> Numbered[2 * r], odd |-> Numbered[2 * r + 1]]
  <2>3. /\ got.omnibus[parity][i] \in {got.vector[parity][i], old[parity][i]}
        /\ r # row => got.vector[parity][i] = old[parity][i]
        /\ r = row /\ (way = "masked" => mask[parity][i] < 128) =>
             got.vector[parity][i] = IF way = "masked" => mask[parity][i] > 0
                                     THEN values[parity][i] ELSE old[parity][i]
    BY <1>8
  <2> HIDE DEF got, old
  <2>4. /\ got.omnibus[parity][i] \in {got.vector[parity][i], old[parity][i]}
        /\ r # call'.row => got.vector[parity][i] = old[parity][i]
        /\ r = call'.row /\ (call'.way = "masked" => call'.mask[parity][i] < 128) =>
             got.vector[parity][i] = IF call'.way = "masked" => call'.mask[parity][i] > 0
                                     THEN call'.values[parity][i] ELSE old[parity][i]
        /\ call'.mask[parity][i] < 128 =>
             (<<parity, i>> \in call'.reset <=> call'.mask[parity][i] > 0)
    BY <2>1, <2>2, <2>3, Zenon
  <2> QED
    BY <2>4, Zenon DEF got, old
<1>10. ASSUME NEW r \in 0 .. ChipRows - 1
       PROVE  LET got == call'.result[r]
              IN  /\ got.weights = <<got.vector.even, got.vector.odd>>
                  /\ got.halves = got.weights
                  /\ call'.way # "weights" => got.omnibus = got.vector
  BY <1>4, <1>7
<1> QED
  BY <1>9, <1>10, Zenon DEF RowAccessesAgree, ReadAsWritten, IsCall

\* If only the first of some reads samples, all of them return its value.
LEMMA SampledOnce ==
  ASSUME NEW reads, NEW moments, NEW n \in Nat, DOMAIN reads = 1 .. n,
         reads[1] = "sample", \A i \in 2 .. n : reads[i] # "sample"
  PROVE  LET v == Sampled(reads, moments)
         IN  \A half \in DOMAIN v : v[half] = moments[1]
<1> DEFINE Is(v) == v = [i \in DOMAIN reads |->
                           IF reads[i] = "sample" THEN moments[i] ELSE v[i - 1]]
           constant == [i \in DOMAIN reads |-> moments[1]]
           value == CHOOSE v : Is(v)
<1>1. Is(constant)
  <2>1. ASSUME NEW i \in 1 .. n
        PROVE  moments[1] = IF reads[i] = "sample" THEN moments[i] ELSE constant[i - 1]
    <3>1. CASE i = 1
      BY <3>1
    <3>2. CASE i # 1
      <4>1. i \in 2 .. n /\ i - 1 \in 1 .. n
        BY <3>2
      <4> QED
        BY <4>1
    <3> QED
      BY <3>1, <3>2
  <2> QED
    BY <2>1
<1>2. Is(value)
  <2> HIDE DEF Is, constant
  <2> QED
    BY <1>1
<1>3. Sampled(reads, moments) = value
  BY DEF Sampled
<1> HIDE DEF value
<1>4. /\ DOMAIN value = 1 .. n
      /\ \A i \in 1 .. n : value[i] = IF reads[i] = "sample" THEN moments[i] ELSE value[i - 1]
  BY <1>2
<1> DEFINE S == {k \in Nat : k + 1 <= n => value[k + 1] = moments[1]}
<1>5. 0 \in S
  BY <1>4
<1>6. ASSUME NEW k \in Nat, k \in S PROVE k + 1 \in S
  <2> SUFFICES ASSUME (k + 1) + 1 <= n PROVE value[(k + 1) + 1] = moments[1]
    OBVIOUS
  <2>1. (k + 1) + 1 \in 2 .. n /\ (k + 1) + 1 \in 1 .. n /\ ((k + 1) + 1) - 1 = k + 1
    OBVIOUS
  <2>2. value[(k + 1) + 1] = value[k + 1]
    BY <1>4, <2>1
  <2> QED
    BY <1>6, <2>2
<1> HIDE DEF S
<1>7. Nat \subseteq S
  BY <1>5, <1>6, Induction
<1>8. ASSUME NEW i \in 1 .. n PROVE value[i] = moments[1]
  <2>1. i - 1 \in Nat /\ (i - 1) + 1 = i
    OBVIOUS
  <2> QED
    BY <1>7, <2>1 DEF S
<1> QED
  BY <1>3, <1>4, <1>8

\* The rows of all resets are all vectors of the correlation memory.
LEMMA EveryRowReset ==
  /\ reset_all_correlations = VectorIndices
  /\ \A row \in 0 .. ChipRows - 1 : reset_correlation(row) \subseteq VectorIndices
<1>1. ChipRows \in Nat
  BY ChipMemoryAssumption
<1>2. ASSUME NEW row \in 0 .. ChipRows - 1 PROVE reset_correlation(row) \subseteq VectorIndices
  BY <1>1 DEF reset_correlation, VectorIndices
<1>3. ASSUME NEW k \in VectorIndices
      PROVE  \E row \in 0 .. ChipRows - 1 : k \in reset_correlation(row)
  <2>1. k \div 2 \in 0 .. ChipRows - 1 /\ (k = 2 * (k \div 2) \/ k = 2 * (k \div 2) + 1)
    BY <1>1 DEF VectorIndices
  <2> QED
    BY <2>1 DEF reset_correlation
<1>4. VectorIndices \subseteq reset_all_correlations
  BY <1>3 DEF reset_all_correlations
<1>5. reset_all_correlations \subseteq VectorIndices
  BY <1>2 DEF reset_all_correlations
<1> QED
  BY <1>2, <1>4, <1>5

\* Reading and resetting correlations keep the property.
LEMMA CorrelationsAgree == ASSUME Correlate PROVE CorrelationOfOneMoment'
<1>1. PICK moments \in Moments, row \in 0 .. ChipRows - 1 :
        call' = [function |-> "correlation", row |-> row, moments |-> moments,
                 result |-> get_correlation(moments),
                 causal |-> get_causal_correlation(moments),
                 acausal |-> get_acausal_correlation(moments),
                 reset |-> reset_correlation(row), all |-> reset_all_correlations]
  BY Zenon DEF Correlate, Called
<1>2. \A half \in DOMAIN get_correlation(moments) : get_correlation(moments)[half] = moments[1]
  <2> DEFINE reads == <<"sample", "buffer", "buffer", "buffer">>
  <2>1. DOMAIN reads = 1 .. 4 /\ reads[1] = "sample" /\ \A i \in 2 .. 4 : reads[i] # "sample"
    OBVIOUS
  <2> HIDE DEF reads
  <2>2. \A half \in DOMAIN Sampled(reads, moments) : Sampled(reads, moments)[half] = moments[1]
    BY <2>1, SampledOnce
  <2> QED
    BY <2>2 DEF reads, get_correlation
<1>3. \A half \in DOMAIN get_causal_correlation(moments) :
        get_causal_correlation(moments)[half] = moments[1]
  <2> DEFINE reads == <<"sample", "buffer">>
  <2>1. DOMAIN reads = 1 .. 2 /\ reads[1] = "sample" /\ \A i \in 2 .. 2 : reads[i] # "sample"
    OBVIOUS
  <2> HIDE DEF reads
  <2>2. \A half \in DOMAIN Sampled(reads, moments) : Sampled(reads, moments)[half] = moments[1]
    BY <2>1, SampledOnce
  <2> QED
    BY <2>2 DEF reads, get_causal_correlation
<1>4. get_acausal_correlation(moments) = get_causal_correlation(moments)
  BY DEF get_causal_correlation, get_acausal_correlation
<1> QED
  BY <1>1, <1>2, <1>3, <1>4, EveryRowReset DEF CorrelationOfOneMoment

\* Whatever the number of rows and columns and the values: all ways to write a row and to
\* read it agree (vector.h:60, 128), the omnibus after set_weights() but for words that
\* are on their way (syn.h:26), other rows keep what they had, bytes of a mask below 128
\* write and reset exactly where they are above zero (vector.h:80, reset_neurons.h:9),
\* and all vectors of a correlation are from one moment (correlation.h:24).
THEOREM ChipAccessInvariant == CallsSpec => []ChipAccessesAgree
<1>1. CallInit => ChipAccessesAgree
  BY NothingCalled DEF ChipAccessesAgree, RowAccessesAgree, CorrelationOfOneMoment, IsCall
<1>2. ChipAccessesAgree /\ [CallsNext]_call => ChipAccessesAgree'
  <2> SUFFICES ASSUME ChipAccessesAgree, [CallsNext]_call PROVE ChipAccessesAgree'
    OBVIOUS
  <2>1. CASE UNCHANGED call
    <3>1. RowAccessesAgree'
      BY <2>1 DEF ChipAccessesAgree, RowAccessesAgree, IsCall
    <3>2. CorrelationOfOneMoment'
      BY <2>1, Zenon DEF ChipAccessesAgree, CorrelationOfOneMoment, IsCall
    <3> QED
      BY <3>1, <3>2 DEF ChipAccessesAgree
  <2>2. CASE CallsNext
    <3>1. IsCall("access")' => RowAccessesAgree'
      BY <2>2, WhichAction, AccessAgrees
    <3>2. IsCall("correlation")' => CorrelationOfOneMoment'
      BY <2>2, WhichAction, CorrelationsAgree
    <3>3. ~ IsCall("access")' => RowAccessesAgree'
      BY DEF RowAccessesAgree
    <3>4. ~ IsCall("correlation")' => CorrelationOfOneMoment'
      BY DEF CorrelationOfOneMoment
    <3> QED
      BY <3>1, <3>2, <3>3, <3>4 DEF ChipAccessesAgree
  <2> QED
    BY <2>1, <2>2
<1> QED
  BY <1>1, <1>2, PTL DEF CallsSpec

-----------------------------------------------------------------------------
(* Rows of vectors and their conversions, element by element. *)

\* Where an element of a row is
LEMMA Place ==
  ASSUME NEW i \in Indices
  PROVE  /\ i \div 2 \in 0 .. HalfRow - 1 /\ i % 2 \in {0, 1}
         /\ i % 2 = 1 => i = 2 * (i \div 2) + 1
         /\ i % 2 # 1 => i = 2 * (i \div 2)
  BY QuarterAssumption DEF Indices, HalfRow

\* An element of half a row is in its left or its right vector.
LEMMA HalfPlace ==
  ASSUME NEW j \in 0 .. HalfRow - 1
  PROVE  /\ j < Quarter => j \in 0 .. Quarter - 1
         /\ ~ j < Quarter => j - Quarter \in 0 .. Quarter - 1 /\ (j - Quarter) + Quarter = j
  BY QuarterAssumption DEF HalfRow

\* What is put into a row is read from it.
LEMMA RowOfElements ==
  ASSUME NEW e, NEW i \in Indices
  PROVE  At(RowOf(e), i) = e[i]
  BY Place DEF At, RowOf

\* What is put into half a row is read from it.
LEMMA HalfOfElements ==
  ASSUME NEW e, NEW j \in 0 .. HalfRow - 1
  PROVE  HalfAt(HalfOf(e), j) = e[j]
  BY HalfPlace DEF HalfAt, HalfOf

\* What is put into a wide row is read from it.
LEMMA WideRowOfElements ==
  ASSUME NEW e, NEW i \in Indices
  PROVE  WideAt(WideRowOf(e), i) = e[i]
<1> DEFINE even == RowOf(e).even
           odd == RowOf(e).odd
<1>1. WideAt(WideRowOf(e), i) = IF i % 2 = 1 THEN HalfAt(HalfOf(odd), i \div 2)
                                ELSE HalfAt(HalfOf(even), i \div 2)
  BY DEF WideAt, WideRowOf
<1>2. WideAt(WideRowOf(e), i) = IF i % 2 = 1 THEN odd[i \div 2] ELSE even[i \div 2]
  BY <1>1, Place, HalfOfElements
<1> QED
  BY <1>2, RowOfElements DEF At

\* The instructions on one half row
LEMMA Unpacked ==
  ASSUME NEW h \in [0 .. HalfRow - 1 -> Int], NEW j \in 0 .. HalfRow - 1
  PROVE  /\ HalfAt([left |-> fxvupckbl(zero, h), right |-> fxvupckbr(zero, h)], j) = h[j]
         /\ HalfAt([left |-> fxvupckbl(h, zero), right |-> fxvupckbr(h, zero)], j) = h[j] * 256
<1>1. TwoTo[8] = 256
  BY TwoToValues
<1>2. /\ \A k \in 0 .. HalfRow - 1 : zero[k] = 0 /\ h[k] \in Int
      /\ \A k \in 0 .. Quarter - 1 : k \in 0 .. HalfRow - 1 /\ k + Quarter \in 0 .. HalfRow - 1
  BY QuarterAssumption DEF zero, HalfRow
<1>3. \A k \in 0 .. Quarter - 1 :
        /\ fxvupckbl(zero, h)[k] = h[k] /\ fxvupckbl(h, zero)[k] = h[k] * 256
        /\ fxvupckbr(zero, h)[k] = h[k + Quarter] /\ fxvupckbr(h, zero)[k] = h[k + Quarter] * 256
  BY <1>1, <1>2 DEF fxvupckbl, fxvupckbr
<1>4. CASE j < Quarter
  BY <1>3, <1>4, HalfPlace DEF HalfAt
<1>5. CASE ~ j < Quarter
  BY <1>3, <1>5, HalfPlace DEF HalfAt
<1> QED
  BY <1>4, <1>5

\* Packing takes the lower or the upper byte of every element of both vectors.
LEMMA Packed ==
  ASSUME NEW half, NEW j \in 0 .. HalfRow - 1
  PROVE  /\ fxvpckbl(half.left, half.right)[j] = HalfAt(half, j) % 256
         /\ fxvpckbu(half.left, half.right)[j] = HalfAt(half, j) \div 256
  BY TwoToValues DEF fxvpckbl, fxvpckbu, HalfAt

\* The conversions of rows, element by element
LEMMA RowsWidened ==
  ASSUME NEW e \in [Indices -> Int], NEW i \in Indices
  PROVE  /\ WideAt(ModWidened(RowOf(e)), i) = e[i]
         /\ WideAt(FracWidened(RowOf(e)), i) = e[i] * 256
<1> DEFINE row == RowOf(e)
           j == i \div 2
<1>1. row.even \in [0 .. HalfRow - 1 -> Int] /\ row.odd \in [0 .. HalfRow - 1 -> Int]
  BY QuarterAssumption DEF RowOf, Indices, HalfRow
<1>2. j \in 0 .. HalfRow - 1
  BY Place
<1>3. (IF i % 2 = 1 THEN row.odd[j] ELSE row.even[j]) = e[i]
  BY RowOfElements DEF At
<1> HIDE DEF row, j
<1>4. CASE i % 2 = 1
  BY <1>1, <1>2, <1>3, <1>4, Unpacked DEF WideAt, ModWidened, FracWidened, row, j
<1>5. CASE i % 2 # 1
  BY <1>1, <1>2, <1>3, <1>5, Unpacked DEF WideAt, ModWidened, FracWidened, row, j
<1> QED
  BY <1>4, <1>5

\* Back to narrow elements, by the lower byte, or by the upper one for fractions
LEMMA RowsNarrowed ==
  ASSUME NEW e \in [Indices -> Int], NEW i \in Indices
  PROVE  /\ At(ModNarrowed(WideRowOf(e)), i) = e[i] % 256
         /\ At(FracNarrowed(WideRowOf(e)), i) = e[i] \div 256
<1> DEFINE row == WideRowOf(e)
           j == i \div 2
<1>1. j \in 0 .. HalfRow - 1
  BY Place
<1>2. (IF i % 2 = 1 THEN HalfAt(row.odd, j) ELSE HalfAt(row.even, j)) = e[i]
  BY WideRowOfElements DEF WideAt
<1> HIDE DEF row, j
<1>3. CASE i % 2 = 1
  BY <1>1, <1>2, <1>3, Packed DEF At, ModNarrowed, FracNarrowed, row, j
<1>4. CASE i % 2 # 1
  BY <1>1, <1>2, <1>4, Packed DEF At, ModNarrowed, FracNarrowed, row, j
<1> QED
  BY <1>3, <1>4

\* The operators on two rows, element by element
LEMMA RowsCombined ==
  ASSUME NEW c, NEW op, NEW e1, NEW e2, NEW i \in Indices
  PROVE  /\ At(OnRows(c, op, RowOf(e1), RowOf(e2)), i) = Combined(c, op, e1[i], e2[i])
         /\ WideAt(OnWideRows(c, op, WideRowOf(e1), WideRowOf(e2)), i) =
              Combined(c, op, e1[i], e2[i])
<1> DEFINE j == i \div 2
           half == IF i % 2 = 1 THEN "odd" ELSE "even"
<1>1. j \in 0 .. HalfRow - 1 /\ half \in {"even", "odd"}
  BY Place
<1>2. ASSUME NEW e PROVE RowOf(e)[half][j] = e[i]
  BY RowOfElements DEF At
<1>3. ASSUME NEW e PROVE HalfAt(WideRowOf(e)[half], j) = e[i]
  BY WideRowOfElements DEF WideAt
<1>4. /\ \A row : At(row, i) = row[half][j]
      /\ \A row : WideAt(row, i) = HalfAt(row[half], j)
  BY DEF At, WideAt
<1> HIDE DEF half, j
<1>5. OnRows(c, op, RowOf(e1), RowOf(e2))[half][j] = Combined(c, op, e1[i], e2[i])
  BY <1>1, <1>2 DEF OnRows
<1>6. HalfAt(OnWideRows(c, op, WideRowOf(e1), WideRowOf(e2))[half], j) =
        Combined(c, op, e1[i], e2[i])
  <2> DEFINE r1 == WideRowOf(e1)[half]
             r2 == WideRowOf(e2)[half]
             r == OnWideRows(c, op, WideRowOf(e1), WideRowOf(e2))[half]
  <2>1. \A k \in 0 .. Quarter - 1 : /\ r.left[k] = Combined(c, op, r1.left[k], r2.left[k])
                                    /\ r.right[k] = Combined(c, op, r1.right[k], r2.right[k])
    BY <1>1 DEF OnWideRows
  <2>2. HalfAt(r1, j) = e1[i] /\ HalfAt(r2, j) = e2[i]
    BY <1>3
  <2> HIDE DEF r1, r2, r
  <2>3. HalfAt(r, j) = Combined(c, op, HalfAt(r1, j), HalfAt(r2, j))
    BY <1>1, <2>1, HalfPlace DEF HalfAt
  <2> QED
    BY <2>2, <2>3 DEF r
<1> QED
  BY <1>4, <1>5, <1>6

\* The elements of the called rows, and their lower bytes
LEMMA ElementsAreWords ==
  ASSUME NEW e \in Elements
  PROVE  /\ e \in [Indices -> Int] /\ Low(e) \in [Indices -> Int]
         /\ \A i \in Indices : /\ e[i] \in Nat /\ e[i] < 65536
                               /\ Low(e)[i] = e[i] % 256
<1>1. TwoTo[8] = 256 /\ TwoTo[16] = 65536
  BY TwoToValues
<1>2. PICK step \in RowSteps : e = [i \in Indices |-> (step * i) % 65536]
  BY <1>1 DEF Elements
<1>3. step \in Nat /\ \A i \in Indices : i \in Nat
  BY VectorUnitAssumption DEF Indices
<1>4. ASSUME NEW i \in Indices PROVE e[i] \in Nat /\ e[i] < 65536
  <2>1. step * i \in Int
    BY <1>3, Z3
  <2>2. (step * i) % 65536 \in Nat /\ (step * i) % 65536 < 65536
    BY <2>1
  <2> QED
    BY <1>2, <2>2
<1>5. e \in [Indices -> Int]
  BY <1>2, <1>4
<1>6. \A i \in Indices : e[i] % 256 \in Int
  BY <1>4
<1> QED
  BY <1>1, <1>4, <1>5, <1>6 DEF Low

\* Half the words of a class
LEMMA Halves ==
  ASSUME NEW w \in {8, 16}, NEW a \in Words(w)
  PROVE  /\ Value(8, 0) = 0
         /\ fxvaddm(w, a, TwoTo[w - 1]) = Value(w, a) + TwoTo[w - 1]
         /\ Value(w, fxvsubm(w, a, TwoTo[w - 1])) = a - TwoTo[w - 1]
<1> DEFINE h == TwoTo[w - 1]
<1>1. /\ h \in {128, 32768} /\ TwoTo[w] = 2 * h /\ a \in Nat /\ a < 2 * h
      /\ (a < h => Value(w, a) = a) /\ (a >= h => Value(w, a) = a - 2 * h)
  BY HalfRange, ValueOfWord
<1>2. fxvaddm(w, a, h) = IF a + h < 2 * h THEN a + h ELSE a - h
  BY <1>1 DEF fxvaddm
<1>3. fxvsubm(w, a, h) = IF a < h THEN a + h ELSE a - h
  BY <1>1 DEF fxvsubm
<1>4. Value(w, fxvsubm(w, a, h)) = a - h
  BY <1>1, <1>3 DEF Value
<1> QED
  BY <1>1, <1>2, <1>4, TwoToValues DEF Value

\* Converting a row keeps the property.
LEMMA RowConverted == ASSUME ConvertRow PROVE RowsKeepElements'
<1>1. PICK c \in Classes, e \in Elements :
        Called([function |-> "row", class |-> c, elements |-> e,
               result |-> CASE c = Mod8      -> ModWidened(RowOf(Low(e)))
                            [] c = Mod16     -> ModNarrowed(WideRowOf(e))
                            [] c = FracSat8  -> FracWidened(RowOf(Low(e)))
                            [] c = FracSat16 -> FracNarrowed(WideRowOf(e))])
  BY DEF ConvertRow
<1>2. /\ call'.function = "row" /\ call'.class = c /\ call'.elements = e
      /\ call'.result = CASE c = Mod8      -> ModWidened(RowOf(Low(e)))
                          [] c = Mod16     -> ModNarrowed(WideRowOf(e))
                          [] c = FracSat8  -> FracWidened(RowOf(Low(e)))
                          [] c = FracSat16 -> FracNarrowed(WideRowOf(e))
  BY <1>1 DEF Called
<1>3. /\ TwoTo[7] = 128 /\ TwoTo[8] = 256 /\ TwoTo[15] = 32768 /\ TwoTo[16] = 65536
      /\ 8 - 1 = 7 /\ 16 - 1 = 15
  BY TwoToValues
<1>4. c \in {Mod8, Mod16, FracSat8, FracSat16}
  BY DEF Classes
<1>5. Mod8 # Mod16 /\ Mod8 # FracSat8 /\ Mod8 # FracSat16
  <2>1. Mod8.width = 8 /\ Mod16.width = 16 /\ FracSat16.width = 16
    BY DEF Mod8, Mod16, FracSat16
  <2>2. ~ Mod8.fractional /\ FracSat8.fractional
    BY DEF Mod8, FracSat8
  <2>3. 8 # 16
    OBVIOUS
  <2> QED
    BY <2>1, <2>2, <2>3
<1>6. Mod16 # FracSat8 /\ Mod16 # FracSat16 /\ FracSat8 # FracSat16
  <2>1. FracSat8.width = 8 /\ Mod16.width = 16 /\ FracSat16.width = 16
    BY DEF FracSat8, Mod16, FracSat16
  <2>2. ~ Mod16.fractional /\ FracSat16.fractional
    BY DEF Mod16, FracSat16
  <2>3. 8 # 16
    OBVIOUS
  <2> QED
    BY <2>1, <2>2, <2>3
<1>7. ASSUME NEW i \in Indices
      PROVE  LET v == call'.elements[i]
             IN  CASE call'.class = Mod8      -> WideAt(call'.result, i) = v % TwoTo[8]
                   [] call'.class = Mod16     -> At(call'.result, i) = v % TwoTo[8]
                   [] call'.class = FracSat8  ->
                        Value(16, WideAt(call'.result, i)) = Value(8, v % TwoTo[8]) * TwoTo[8]
                   [] call'.class = FracSat16 ->
                        Value(8, At(call'.result, i)) = Value(16, v) \div TwoTo[8]
  <2>1. /\ e \in [Indices -> Int] /\ Low(e) \in [Indices -> Int]
        /\ e[i] \in Nat /\ e[i] < 65536 /\ Low(e)[i] = e[i] % 256
    BY ElementsAreWords
  <2>2. CASE c = Mod8
    <3>1. call'.result = ModWidened(RowOf(Low(e)))
      BY <1>2, <1>5, <1>6, <2>2
    <3>2. WideAt(call'.result, i) = e[i] % 256
      BY <2>1, <3>1, RowsWidened
    <3> QED
      BY <1>2, <1>3, <1>5, <1>6, <2>2, <3>2
  <2>3. CASE c = Mod16
    <3>1. call'.result = ModNarrowed(WideRowOf(e))
      BY <1>2, <1>5, <1>6, <2>3
    <3>2. At(call'.result, i) = e[i] % 256
      BY <2>1, <3>1, RowsNarrowed
    <3> QED
      BY <1>2, <1>3, <1>5, <1>6, <2>3, <3>2
  <2>4. CASE c = FracSat8
    <3>1. call'.result = FracWidened(RowOf(Low(e)))
      BY <1>2, <1>5, <1>6, <2>4
    <3>2. WideAt(call'.result, i) = (e[i] % 256) * 256
      BY <2>1, <3>1, RowsWidened
    <3>3. Value(16, (e[i] % 256) * 256) = Value(8, e[i] % 256) * 256
      BY <1>3, <2>1 DEF Value
    <3>4. Value(8, e[i] % TwoTo[8]) * TwoTo[8] = Value(8, e[i] % 256) * 256
      BY <1>3
    <3>5. Value(16, WideAt(call'.result, i)) = Value(8, e[i] % TwoTo[8]) * TwoTo[8]
      BY <3>2, <3>3, <3>4
    <3> QED
      BY <1>2, <1>5, <1>6, <2>4, <3>5
  <2>5. CASE c = FracSat16
    <3>1. call'.result = FracNarrowed(WideRowOf(e))
      BY <1>2, <1>5, <1>6, <2>5
    <3>2. At(call'.result, i) = e[i] \div 256
      BY <2>1, <3>1, RowsNarrowed
    <3>3. Value(8, e[i] \div 256) = Value(16, e[i]) \div 256
      BY <1>3, <2>1 DEF Value
    <3>4. Value(8, At(call'.result, i)) = Value(16, e[i]) \div TwoTo[8]
      BY <1>3, <3>2, <3>3
    <3> QED
      BY <1>2, <1>5, <1>6, <2>5, <3>4
  <2> QED
    BY <1>4, <2>2, <2>3, <2>4, <2>5
<1> QED
  BY <1>2, <1>7 DEF RowsKeepElements, IsCall

\* So does computing with rows.
LEMMA RowsKept == ASSUME CombineRows PROVE RowsKeepElements'
<1>1. PICK c \in Classes, op \in {"+", "-"}, e1 \in Elements, e2 \in Elements :
        Called([function |-> "rows", op |-> op, class |-> c, elements |-> e1, others |-> e2,
               result |-> IF c.width = 8 THEN OnRows(c, op, RowOf(Low(e1)), RowOf(Low(e2)))
                          ELSE OnWideRows(c, op, WideRowOf(e1), WideRowOf(e2))])
  BY DEF CombineRows
<1>2. /\ call'.function = "rows" /\ call'.class = c /\ call'.op = op
      /\ call'.elements = e1 /\ call'.others = e2
      /\ call'.result = IF c.width = 8 THEN OnRows(c, op, RowOf(Low(e1)), RowOf(Low(e2)))
                        ELSE OnWideRows(c, op, WideRowOf(e1), WideRowOf(e2))
  BY <1>1 DEF Called
<1>3. ASSUME NEW i \in Indices
      PROVE  (IF c.width = 8 THEN At(call'.result, i) ELSE WideAt(call'.result, i)) =
                Combined(c, op, e1[i] % TwoTo[c.width], e2[i] % TwoTo[c.width])
  <2>1. /\ e1[i] \in Nat /\ e1[i] < 65536 /\ e2[i] \in Nat /\ e2[i] < 65536
        /\ Low(e1)[i] = e1[i] % 256 /\ Low(e2)[i] = e2[i] % 256
    BY ElementsAreWords
  <2>2. CASE c.width = 8
    <3>1. At(call'.result, i) = Combined(c, op, Low(e1)[i], Low(e2)[i])
      BY <1>2, <2>2, RowsCombined
    <3> QED
      BY <2>1, <2>2, <3>1, TwoToValues
  <2>3. CASE c.width # 8
    <3>1. WideAt(call'.result, i) = Combined(c, op, e1[i], e2[i])
      BY <1>2, <2>3, RowsCombined
    <3>2. c.width = 16
      BY <2>3, ClassWidth
    <3>3. e1[i] % TwoTo[c.width] = e1[i] /\ e2[i] % TwoTo[c.width] = e2[i]
      BY <2>1, <3>2, TwoToValues
    <3> QED
      BY <2>3, <3>1, <3>3
  <2> QED
    BY <2>2, <2>3
<1> QED
  BY <1>2, <1>3 DEF RowsKeepElements, IsCall

\* So does the contiguous conversion of a word.
LEMMA ContiguousConverted == ASSUME Convert PROVE RowsKeepElements'
<1>1. PICK c \in Classes : \E a \in Firsts(c.width) :
        Called([function |-> "contiguous", class |-> c, a |-> a, result |-> Contiguous(c, a)])
  BY DEF Convert
<1>2. PICK a \in Words(c.width) :
        Called([function |-> "contiguous", class |-> c, a |-> a, result |-> Contiguous(c, a)])
  BY <1>1, ClassWidth, WordsCalled
<1>3. /\ call'.function = "contiguous" /\ call'.class = c /\ call'.a = a
      /\ call'.result = Contiguous(c, a)
  BY <1>2 DEF Called
<1>4. /\ fxvaddm(c.width, a, TwoTo[c.width - 1]) = Value(c.width, a) + TwoTo[c.width - 1]
      /\ Value(c.width, fxvsubm(c.width, a, TwoTo[c.width - 1])) = a - TwoTo[c.width - 1]
  BY ClassWidth, Halves
<1> QED
  BY <1>3, <1>4 DEF RowsKeepElements, IsCall, Contiguous

\* For vectors of any number of elements: conversions of rows and operations on them
\* take element i to element i, and the contiguous conversion moves every number by half
\* the range (vector_row.h:270-316, vector_convert.h:8).
THEOREM RowsInvariant == CallsSpec => []RowsKeepElements
<1>1. CallInit => RowsKeepElements
  BY NothingCalled DEF RowsKeepElements, IsCall
<1>2. RowsKeepElements /\ [CallsNext]_call => RowsKeepElements'
  <2> SUFFICES ASSUME RowsKeepElements, [CallsNext]_call PROVE RowsKeepElements'
    OBVIOUS
  <2>1. CASE UNCHANGED call
    BY <2>1 DEF RowsKeepElements, IsCall
  <2>2. CASE CallsNext
    <3>1. IsCall("row")' \/ IsCall("rows")' \/ IsCall("contiguous")' => RowsKeepElements'
      BY <2>2, WhichAction, RowConverted, RowsKept, ContiguousConverted
    <3>2. ~ (IsCall("row")' \/ IsCall("rows")' \/ IsCall("contiguous")') => RowsKeepElements'
      BY DEF RowsKeepElements
    <3> QED
      BY <3>1, <3>2
  <2> QED
    BY <2>1, <2>2
<1> QED
  BY <1>1, <1>2, PTL DEF CallsSpec

-----------------------------------------------------------------------------
(* Arithmetic: saturating fractions, shifts, negation and powers. *)

\* A number that fits into a word is not changed by becoming one.
LEMMA NarrowKeeps ==
  ASSUME NEW w \in {8, 16}, NEW v \in Int, MinValue(w) <= v, v <= MaxValue(w)
  PROVE  Word(w, v) \in Words(w) /\ Value(w, Word(w, v)) = v
<1> DEFINE h == TwoTo[w - 1]
<1>1. h \in {128, 32768} /\ TwoTo[w] = 2 * h /\ - h <= v /\ v <= h - 1
  BY HalfRange DEF MinValue, MaxValue
<1> HIDE DEF h
<1>2. /\ v % (2 * h) \in 0 .. 2 * h - 1
      /\ v % (2 * h) = IF v >= 0 THEN v ELSE v + 2 * h
  <2>1. 2 * h \in Nat /\ 2 * h > 0
    BY <1>1
  <2>2. CASE v >= 0
    <3>1. v \in 0 .. 2 * h - 1 /\ v = (2 * h) * 0 + v
      BY <1>1, <2>2
    <3> QED
      BY <2>1, <2>2, <3>1, ModIs
  <2>3. CASE v < 0
    <3>1. v + 2 * h \in 0 .. 2 * h - 1 /\ v = (2 * h) * (-1) + (v + 2 * h)
      BY <1>1, <2>3
    <3> QED
      BY <2>1, <2>3, <3>1, ModIs
  <2> QED
    BY <2>2, <2>3
<1>3. Word(w, v) = v % (2 * h)
  BY <1>1 DEF Word
<1>4. Words(w) = 0 .. 2 * h - 1
  BY <1>1 DEF Words
<1>5. Value(w, Word(w, v)) =
       IF v % (2 * h) < h THEN v % (2 * h) ELSE (v % (2 * h)) - 2 * h
  BY <1>1, <1>3 DEF Value, h
<1> QED
  BY <1>1, <1>2, <1>3, <1>4, <1>5

\* The nearest number of the type
Nearest(w, v, r) == \/ MinValue(w) <= v /\ v <= MaxValue(w) /\ r = v
                    \/ v > MaxValue(w) /\ r = MaxValue(w)
                    \/ v < MinValue(w) /\ r = MinValue(w)

\* Saturation takes a number to the nearest one of the type.
LEMMA SaturatedIs ==
  ASSUME NEW w \in {8, 16}, NEW v \in Int
  PROVE  /\ Nearest(w, v, Saturated(w, v))
         /\ Saturated(w, v) \in Int
         /\ MinValue(w) <= Saturated(w, v) /\ Saturated(w, v) <= MaxValue(w)
         /\ MinValue(w) <= v /\ v <= MaxValue(w) => Saturated(w, v) = v
  BY HalfRange DEF Nearest, Saturated, MinValue, MaxValue

\* The product of two signed words, and its quotient
LEMMA Products ==
  ASSUME NEW h \in {128, 32768}, NEW x \in Int, -h <= x, x < h, NEW y \in Int, -h <= y, y < h,
         x # -h \/ y # -h
  PROVE  /\ x * y \in Int
         /\ h - h * h <= x * y /\ x * y <= h * h - h
<1>1. x * y \in Int /\ y * x = x * y
  OBVIOUS
<1>2. CASE y >= 0
  <2>1. y \in Nat /\ y * (-h) <= y * x /\ y * x <= y * (h - 1)
    <3>1. y \in Nat /\ -h \in Int /\ h - 1 \in Int /\ x <= h - 1
      BY <1>2
    <3> QED
      BY <3>1, Grows
  <2>2. CASE h = 128
    BY <1>1, <1>2, <2>1, <2>2
  <2>3. CASE h = 32768
    BY <1>1, <1>2, <2>1, <2>3
  <2> QED
    BY <2>2, <2>3
<1>3. CASE y < 0
  <2>1. /\ -y \in Nat
        /\ (-y) * (-h) <= (-y) * x /\ (-y) * x <= (-y) * (h - 1)
        /\ x # -h => (-y) * (1 - h) <= (-y) * x
    <3>1. -y \in Nat /\ -h \in Int /\ h - 1 \in Int /\ 1 - h \in Int /\ x <= h - 1
          /\ (x # -h => 1 - h <= x)
      BY <1>3
    <3> QED
      BY <3>1, Grows
  <2>2. (-y) * x = -(x * y)
    OBVIOUS
  <2> DEFINE p == x * y
  <2> HIDE DEF p
  <2>3. p \in Int /\ (-y) * x = -p
    BY <1>1, <2>2 DEF p
  <2>4. CASE h = 128
    <3>1. 128 - 128 * 128 <= p /\ p <= 128 * 128 - 128
      BY <1>3, <2>1, <2>3, <2>4
    <3> QED
      BY <3>1, <2>4, <2>3 DEF p
  <2>5. CASE h = 32768
    <3>1. 32768 - 32768 * 32768 <= p /\ p <= 32768 * 32768 - 32768
      BY <1>3, <2>1, <2>3, <2>5
    <3> QED
      BY <3>1, <2>5, <2>3 DEF p
  <2> QED
    BY <2>4, <2>5
<1> QED
  BY <1>2, <1>3

\* So is the quotient in the type: only the smallest number's square is not.
LEMMA ProductScaled ==
  ASSUME NEW h \in {128, 32768}, NEW x \in Int, -h <= x, x < h, NEW y \in Int, -h <= y, y < h,
         x # -h \/ y # -h
  PROVE  LET q == (x * y) \div h
         IN  /\ q \in Int /\ -h <= q /\ q <= h - 1
             /\ q * h <= x * y /\ x * y < (q + 1) * h
<1> DEFINE p == x * y
           q == p \div h
<1>1. p \in Int /\ h - h * h <= p /\ p <= h * h - h
  BY Products
<1> HIDE DEF p
<1> DEFINE r == p % h
<1>2. q \in Int /\ r \in Int /\ 0 <= r /\ r < h /\ p = h * q + r
  BY <1>1, DivMod
<1> HIDE DEF q, r
<1>3. q * h <= p /\ p < (q + 1) * h /\ -h <= q /\ q <= h - 1
  <2>1. CASE h = 128
    BY <1>1, <1>2, <2>1
  <2>2. CASE h = 32768
    BY <1>1, <1>2, <2>2
  <2> QED
    BY <2>1, <2>2
<1> QED
  BY <1>2, <1>3 DEF p, q

\* A word as a signed number is one of the type.
LEMMA SignedWord ==
  ASSUME NEW w \in {8, 16}, NEW a \in Words(w)
  PROVE  /\ TwoTo[w - 1] \in {128, 32768}
         /\ Value(w, a) \in Int
         /\ -TwoTo[w - 1] <= Value(w, a) /\ Value(w, a) < TwoTo[w - 1]
         /\ MinValue(w) <= Value(w, a) /\ Value(w, a) <= MaxValue(w)
  BY HalfRange, ValueOfWord DEF MinValue, MaxValue

\* The product of two fractions is the exact one rounded down, or the largest one.
LEMMA FracTimesExact ==
  ASSUME NEW w \in {8, 16}, NEW x \in Int, MinValue(w) <= x, x <= MaxValue(w),
         NEW y \in Int, MinValue(w) <= y, y <= MaxValue(w)
  PROVE  LET h == TwoTo[w - 1]
             r == FracTimes(w, x, y)
         IN  /\ x # -h \/ y # -h => /\ r * h <= x * y /\ x * y < (r + 1) * h
                                    /\ r = (x * y) \div h /\ r \in Int
                                    /\ MinValue(w) <= r /\ r <= MaxValue(w)
             /\ x = -h /\ y = -h => r = MaxValue(w)
<1> DEFINE h == TwoTo[w - 1]
           q == (x * y) \div h
<1>1. h \in {128, 32768} /\ MinValue(w) = -h /\ MaxValue(w) = h - 1
  BY HalfRange DEF MinValue, MaxValue
<1>2. FracTimes(w, x, y) = IF x = -h /\ y = -h THEN ((-h) * (-h) - 1) \div h ELSE Narrow(w, q)
  BY <1>1 DEF FracTimes
<1> HIDE DEF h
<1>3. ((-h) * (-h) - 1) \div h = h - 1
  <2>1. CASE h = 128
    BY <2>1
  <2>2. CASE h = 32768
    BY <2>2
  <2> QED
    BY <1>1, <2>1, <2>2
<1>4. ASSUME x # -h \/ y # -h
      PROVE  /\ q \in Int /\ MinValue(w) <= q /\ q <= MaxValue(w)
             /\ q * h <= x * y /\ x * y < (q + 1) * h
             /\ Narrow(w, q) = q
  <2>1. -h <= x /\ x < h /\ -h <= y /\ y < h
    BY <1>1
  <2>2. /\ q \in Int /\ -h <= q /\ q <= h - 1
        /\ q * h <= x * y /\ x * y < (q + 1) * h
    BY <1>1, <1>4, <2>1, ProductScaled
  <2> HIDE DEF q
  <2>3. MinValue(w) <= q /\ q <= MaxValue(w)
    BY <1>1, <2>2
  <2>4. Narrow(w, q) = q
    BY <2>2, <2>3, NarrowKeeps DEF Narrow
  <2> QED
    BY <2>2, <2>3, <2>4
<1> HIDE DEF q
<1>5. ASSUME x # -h \/ y # -h
      PROVE  LET r == FracTimes(w, x, y)
             IN /\ r * h <= x * y /\ x * y < (r + 1) * h
                /\ r = q /\ r \in Int
                /\ MinValue(w) <= r /\ r <= MaxValue(w)
  BY <1>2, <1>4, <1>5
<1>6. x = -h /\ y = -h => FracTimes(w, x, y) = MaxValue(w)
  BY <1>1, <1>2, <1>3
<1> QED
  BY <1>5, <1>6 DEF h, q

\* A number that is shifted to the left within the word of double width
LEMMA FracLeftExact ==
  ASSUME NEW x \in Int, MinValue(8) <= x, x <= MaxValue(8), NEW n \in 0 .. 8
  PROVE  Nearest(8, x * TwoTo[n], FracLeft(8, x, n))
<1>1. /\ TwoTo[n] \in {1, 2, 4, 8, 16, 32, 64, 128, 256}
      /\ MinValue(16) = -32768 /\ MaxValue(16) = 32767
      /\ MinValue(8) = -128 /\ MaxValue(8) = 127
  <2>1. n = 0 \/ n = 1 \/ n = 2 \/ n = 3 \/ n = 4 \/ n = 5 \/ n = 6 \/ n = 7 \/ n = 8
    OBVIOUS
  <2>2. TwoTo[n] \in {1, 2, 4, 8, 16, 32, 64, 128, 256}
    BY <2>1, TwoToValues
  <2>3. 16 - 1 = 15 /\ 8 - 1 = 7
    OBVIOUS
  <2> QED
    BY <2>2, <2>3, TwoToValues DEF MinValue, MaxValue
<1> DEFINE v == x * TwoTo[n]
<1>2. v \in Int /\ MinValue(16) <= v /\ v <= MaxValue(16)
  BY <1>1
<1> HIDE DEF v
<1>3. Narrow(2 * 8, v) = v
  <2>1. 2 * 8 = 16 /\ 16 \in {8, 16}
    OBVIOUS
  <2> QED
    BY <1>2, <2>1, NarrowKeeps DEF Narrow
<1>4. Nearest(8, v, Saturated(8, v))
  BY <1>2, SaturatedIs
<1> QED
  BY <1>3, <1>4 DEF FracLeft, v

\* The scalar fractions keep the property.
LEMMA ScalarExact ==
  ASSUME Scalar \/ ScalarShift PROVE FractionsAreExact'
<1>1. CASE Scalar
  <2>1. PICK w \in {8, 16}, op \in {"+", "-", "*"} : \E a \in Firsts(w), b \in Seconds(w) :
          LET x == Value(w, a)
              y == Value(w, b)
          IN  Called([function |-> "frac", op |-> op, width |-> w, a |-> x, b |-> y,
                      result |-> CASE op = "+" -> FracPlus(w, x, y)
                                   [] op = "-" -> FracMinus(w, x, y)
                                   [] op = "*" -> FracTimes(w, x, y)])
    BY <1>1 DEF Scalar
  <2>2. PICK a \in Words(w), b \in Words(w) :
          LET x == Value(w, a)
              y == Value(w, b)
          IN  Called([function |-> "frac", op |-> op, width |-> w, a |-> x, b |-> y,
                      result |-> CASE op = "+" -> FracPlus(w, x, y)
                                   [] op = "-" -> FracMinus(w, x, y)
                                   [] op = "*" -> FracTimes(w, x, y)])
    BY <2>1, WordsCalled
  <2> DEFINE x == Value(w, a)
             y == Value(w, b)
             h == TwoTo[w - 1]
             r == call'.result
  <2>3. /\ call'.op = op /\ call'.width = w /\ call'.a = x /\ call'.b = y
        /\ r = CASE op = "+" -> FracPlus(w, x, y)
                 [] op = "-" -> FracMinus(w, x, y)
                 [] op = "*" -> FracTimes(w, x, y)
    BY <2>2 DEF Called
  <2>4. /\ x \in Int /\ MinValue(w) <= x /\ x <= MaxValue(w)
        /\ y \in Int /\ MinValue(w) <= y /\ y <= MaxValue(w)
    BY SignedWord
  <2> HIDE DEF x, y, r
  <2>5. op = "+" => Nearest(w, x + y, r)
    BY <2>3, <2>4, SaturatedIs DEF FracPlus
  <2>6. op = "-" => Nearest(w, x - y, r)
    BY <2>3, <2>4, SaturatedIs DEF FracMinus
  <2>7. op = "*" => \/ r * h <= x * y /\ x * y < (r + 1) * h
                    \/ x = -h /\ y = -h /\ r = MaxValue(w)
    <3> SUFFICES ASSUME op = "*"
                 PROVE  \/ r * h <= x * y /\ x * y < (r + 1) * h
                        \/ x = -h /\ y = -h /\ r = MaxValue(w)
      OBVIOUS
    <3>1. r = FracTimes(w, x, y)
      BY <2>3
    <3> QED
      BY <2>4, <3>1, FracTimesExact
  <2>8. op # ">>" /\ op # "<<"
    OBVIOUS
  <2> HIDE DEF h
  <2> QED
    BY <2>3, <2>5, <2>6, <2>7, <2>8, Zenon DEF FractionsAreExact, Nearest, h, r
<1>2. CASE ScalarShift
  <2>1. PICK w \in {8, 16}, op \in {"<<", ">>"} : \E a \in Firsts(w), n \in 0 .. w + 1 :
         LET x == Value(w, a)
         IN  /\ op = "<<" => w = 8
             /\ Called([function |-> "frac", op |-> op, width |-> w, a |-> x, b |-> n,
                        result |-> IF op = "<<" THEN FracLeft(w, x, n) ELSE FracRight(w, x, n)])
    BY <1>2, Zenon DEF ScalarShift
  <2>2. PICK a \in Words(w), n \in 0 .. w + 1 :
         LET x == Value(w, a)
         IN  /\ op = "<<" => w = 8
             /\ Called([function |-> "frac", op |-> op, width |-> w, a |-> x, b |-> n,
                        result |-> IF op = "<<" THEN FracLeft(w, x, n) ELSE FracRight(w, x, n)])
    BY <2>1, WordsCalled
  <2> DEFINE x == Value(w, a)
             r == call'.result
  <2>3. /\ call'.op = op /\ call'.width = w /\ call'.a = x /\ call'.b = n
        /\ r = IF op = "<<" THEN FracLeft(w, x, n) ELSE FracRight(w, x, n)
        /\ op = "<<" => w = 8
    BY <2>2 DEF Called
  <2>4. x \in Int /\ MinValue(w) <= x /\ x <= MaxValue(w)
    BY SignedWord
  <2>5. TwoTo[n] \in Nat /\ TwoTo[n] > 0
    BY TwoToPositive
  <2> HIDE DEF x, r
  <2>6. op = ">>" => Nearest(w, x \div TwoTo[n], r)
    <3> SUFFICES ASSUME op = ">>" PROVE Nearest(w, x \div TwoTo[n], r)
      OBVIOUS
    <3>1. x \div TwoTo[n] \in Int
      BY <2>4, <2>5, DivMod
    <3>2. r = Saturated(w, x \div TwoTo[n])
      BY <2>3 DEF FracRight
    <3> QED
      BY <3>1, <3>2, SaturatedIs
  <2>7. op = "<<" /\ n <= w => Nearest(w, x * TwoTo[n], r)
    <3> SUFFICES ASSUME op = "<<", n <= w PROVE Nearest(w, x * TwoTo[n], r)
      OBVIOUS
    <3>1. w = 8 /\ n \in 0 .. 8
      BY <2>3
    <3>2. r = FracLeft(8, x, n)
      BY <2>3, <3>1
    <3> QED
      BY <2>4, <3>1, <3>2, FracLeftExact
  <2>8. op # "+" /\ op # "-" /\ op # "*"
    OBVIOUS
  <2> QED
    BY <2>3, <2>6, <2>7, <2>8, Zenon DEF FractionsAreExact, Nearest, r
<1> QED
  BY <1>1, <1>2

\* Vectors of fractions compute what the scalar fractions do.
LEMMA FractionsCombined ==
  ASSUME NEW c \in Classes, c.fractional, NEW a \in Words(c.width), NEW b \in Words(c.width)
  PROVE  LET w == c.width
             x == Value(w, a)
             y == Value(w, b)
         IN  /\ Value(w, Combined(c, "+", a, b)) = FracPlus(w, x, y)
             /\ Value(w, Combined(c, "-", a, b)) = FracMinus(w, x, y)
             /\ Value(w, Combined(c, "*", a, b)) = FracTimes(w, x, y)
<1> DEFINE w == c.width
           x == Value(w, a)
           y == Value(w, b)
           h == TwoTo[w - 1]
<1>1. w \in {8, 16}
  BY ClassWidth
<1>2. /\ h \in {128, 32768} /\ MinValue(w) = -h /\ MaxValue(w) = h - 1
      /\ x \in Int /\ MinValue(w) <= x /\ x <= MaxValue(w)
      /\ y \in Int /\ MinValue(w) <= y /\ y <= MaxValue(w)
  BY <1>1, SignedWord DEF MinValue, MaxValue
<1>3. /\ Combined(c, "+", a, b) = Word(w, Saturated(w, x + y))
      /\ Combined(c, "-", a, b) = Word(w, Saturated(w, x - y))
      /\ Combined(c, "*", a, b) = Word(w, Saturated(w, (x * y) \div h))
  BY DEF Combined, Plus, Minus, Times, fxvaddfs, fxvsubfs, fxvmulfs
<1> HIDE DEF w, x, y, h
<1>4. ASSUME NEW v \in Int
      PROVE  Value(w, Word(w, Saturated(w, v))) = Saturated(w, v)
  BY <1>1, SaturatedIs, NarrowKeeps
<1>5. /\ Value(w, Combined(c, "+", a, b)) = FracPlus(w, x, y)
      /\ Value(w, Combined(c, "-", a, b)) = FracMinus(w, x, y)
  BY <1>2, <1>3, <1>4 DEF FracPlus, FracMinus
<1>6. Value(w, Combined(c, "*", a, b)) = FracTimes(w, x, y)
  <2>1. CASE x = -h /\ y = -h
    <3>1. (x * y) \div h = h
      <4>1. CASE h = 128
        BY <2>1, <4>1
      <4>2. CASE h = 32768
        BY <2>1, <4>2
      <4> QED
        BY <1>2, <4>1, <4>2
    <3>2. Saturated(w, h) = MaxValue(w)
      BY <1>2 DEF Saturated
    <3>3. FracTimes(w, x, y) = MaxValue(w)
      BY <1>1, <1>2, <2>1, FracTimesExact DEF h
    <3>4. h \in Int
      BY <1>2
    <3> QED
      BY <1>3, <1>4, <3>1, <3>2, <3>3, <3>4
  <2>2. CASE x # -h \/ y # -h
    <3> DEFINE r == FracTimes(w, x, y)
    <3>1. r = (x * y) \div h /\ r \in Int /\ MinValue(w) <= r /\ r <= MaxValue(w)
      BY <1>1, <1>2, <2>2, FracTimesExact DEF h
    <3> HIDE DEF r
    <3>2. Saturated(w, r) = r
      BY <1>1, <3>1, SaturatedIs
    <3> QED
      BY <1>3, <1>4, <3>1, <3>2 DEF r
  <2> QED
    BY <2>1, <2>2
<1> QED
  BY <1>5, <1>6 DEF w, x, y

\* A number times one factor of n, divided by n, is divided by the other factor.
LEMMA DividedByFactor ==
  ASSUME NEW k \in Nat, k > 0, NEW m \in Nat, m > 0, NEW x \in Int
  PROVE  (x * k) \div (k * m) = x \div m
<1> DEFINE q == x \div m
           r == x % m
<1>1. q \in Int /\ r \in 0 .. m - 1 /\ x = m * q + r
  BY DivMod
<1> HIDE DEF q, r
<1>2. /\ k * m \in Nat /\ k * m > 0
      /\ x * k = (k * m) * q + k * r
  BY <1>1, Z3
<1>3. k * r \in 0 .. k * m - 1
  <2>1. 0 <= r /\ r <= m - 1 /\ r \in Int /\ m - 1 \in Int
    BY <1>1
  <2>2. k * 0 <= k * r /\ k * r <= k * (m - 1)
    BY <2>1, Grows
  <2>3. k * (m - 1) = k * m - k
    BY Z3
  <2> QED
    BY <2>1, <2>2, <2>3, <1>2
<1>4. x * k \in Int
  OBVIOUS
<1> DEFINE n == k * m
           v == x * k
           s == k * r
<1>5. n \in Nat /\ n > 0 /\ v \in Int /\ q \in Int /\ s \in 0 .. n - 1 /\ v = n * q + s
  BY <1>1, <1>2, <1>3, <1>4
<1> HIDE DEF n, v, s
<1>6. v \div n = q
  BY <1>5, DivIs
<1> QED
  BY <1>6 DEF v, n, q

\* The quotient of a number of the type is one.
LEMMA QuotientFits ==
  ASSUME NEW h \in Nat, h > 0, NEW x \in Int, -h <= x, x < h, NEW m \in Nat, m > 0
  PROVE  x \div m \in Int /\ -h <= x \div m /\ x \div m < h
<1> DEFINE q == x \div m
<1>1. q \in Int /\ m * q <= x /\ x < m * q + m
  BY DivMod
<1> HIDE DEF q
<1>2. -h <= q
  <2> SUFFICES ASSUME q + 1 <= -h PROVE FALSE
    BY <1>1
  <2>1. m * (q + 1) <= m * (-h)
    BY <1>1, Grows
  <2>2. m * (q + 1) = m * q + m
    BY <1>1, Z3
  <2>3. m * h >= h
    <3>1. h * 1 <= h * m
      BY Grows
    <3> QED
      BY <3>1
  <2>4. m * (-h) = -(m * h)
    BY Z3
  <2> DEFINE mh == m * h
             mq == m * q
  <2>5. mh \in Int /\ mq \in Int
    BY <1>1
  <2> HIDE DEF mh, mq
  <2>6. mq <= x /\ x < mq + m /\ mq + m <= -mh /\ mh >= h
    BY <1>1, <2>1, <2>2, <2>3, <2>4 DEF mh, mq
  <2> QED
    BY <2>5, <2>6
<1>3. q < h
  <2> SUFFICES ASSUME h <= q PROVE FALSE
    BY <1>1
  <2>1. m * h <= m * q
    BY <1>1, Grows
  <2>2. m * h >= h
    <3>1. h * 1 <= h * m
      BY Grows
    <3> QED
      BY <3>1
  <2> QED
    BY <1>1, <2>1, <2>2
<1> QED
  BY <1>1, <1>2, <1>3 DEF q

\* The exponents of a shift by n bits
LEMMA ShiftFactors ==
  ASSUME NEW w \in {8, 16}, NEW n \in Nat, 1 <= n, n < w
  PROVE  LET k == TwoTo[n]
             m == TwoTo[w - 1 - n]
             h == TwoTo[w - 1]
         IN  /\ n \in Nat /\ w - 1 - n \in Nat
             /\ k \in Nat /\ k > 0 /\ m \in Nat /\ m > 0
             /\ h = m * k /\ 2 * m <= h
             /\ TwoTo[n + 1] = 2 * k /\ TwoTo[w - n] = 2 * m
             /\ h \in {128, 32768} /\ TwoTo[w] = 2 * h
<1>1. /\ n \in Nat /\ n >= 1 /\ w - 1 - n \in Nat /\ w - 1 \in Nat
      /\ (w - 1 - n) + n = w - 1 /\ (w - 1 - n) + 1 = w - n
      /\ w - 1 - n < w - 1
  OBVIOUS
<1>2. TwoTo[n] \in Nat /\ TwoTo[n] > 0 /\ TwoTo[w - 1 - n] \in Nat /\ TwoTo[w - 1 - n] > 0
  BY <1>1, TwoToPositive
<1>3. TwoTo[w - 1] = TwoTo[w - 1 - n] * TwoTo[n]
  BY <1>1, TwoToSum
<1>4. TwoTo[n + 1] = 2 * TwoTo[n] /\ TwoTo[w - n] = 2 * TwoTo[w - 1 - n]
  BY <1>1, TwoToDoubles
<1>5. 2 * TwoTo[w - 1 - n] <= TwoTo[w - 1]
  BY <1>1, TwoToGrows
<1> QED
  BY <1>1, <1>2, <1>3, <1>4, <1>5, HalfRange

\* A fraction shifted to the right is divided, rounding down.
LEMMA FracShiftedRight ==
  ASSUME NEW w \in {8, 16}, NEW a \in Words(w), NEW n \in Nat, 1 <= n, n < w
  PROVE  Value(w, FracShift(w, a, -n)) = Value(w, a) \div TwoTo[n]
<1> DEFINE k == TwoTo[n]
           m == TwoTo[w - 1 - n]
           h == TwoTo[w - 1]
           x == Value(w, a)
<1>1. /\ n \in Nat /\ w - 1 - n \in Nat
      /\ k \in Nat /\ k > 0 /\ m \in Nat /\ m > 0 /\ h = m * k /\ 2 * m <= h
      /\ h \in {128, 32768} /\ TwoTo[w] = 2 * h
  BY ShiftFactors, SMTT(30)
<1>2. x \in Int /\ -h <= x /\ x < h /\ MinValue(w) = -h /\ MaxValue(w) = h - 1
  BY SignedWord DEF MinValue, MaxValue
<1>3. w - 1 + (-n) = w - 1 - n /\ -n # 0 /\ -n \notin 1 .. w - 1 /\ -n \in -(w - 1) .. -1
  OBVIOUS
<1>4. Value(w, m) = m
  BY <1>1 DEF Value
<1>5. FracShift(w, a, -n) = Word(w, Saturated(w, (x * m) \div h))
  BY <1>3, <1>4, Zenon DEF FracShift, fxvmulfs
<1> HIDE DEF k, m, h, x
<1>6. (x * m) \div h = x \div k
  BY <1>1, <1>2, DividedByFactor
<1>7. x \div k \in Int /\ -h <= x \div k /\ x \div k < h
  <2>1. h \in Nat /\ h > 0
    BY <1>1
  <2> QED
    BY <2>1, <1>1, <1>2, QuotientFits
<1> DEFINE q == x \div k
<1>8. q \in Int /\ MinValue(w) <= q /\ q <= MaxValue(w)
  BY <1>1, <1>2, <1>7
<1> HIDE DEF q
<1>9. Saturated(w, q) = q /\ Value(w, Word(w, q)) = q
  BY <1>8, SaturatedIs, NarrowKeeps
<1> QED
  BY <1>5, <1>6, <1>9 DEF q, x, k

\* A fraction shifted to the left keeps its sign, and what there is room for below it.
LEMMA FracShiftedLeft ==
  ASSUME NEW w \in {8, 16}, NEW a \in Words(w), NEW n \in Nat, 1 <= n, n < w
  PROVE  LET x == Value(w, a)
             r == Value(w, FracShift(w, a, n))
         IN  /\ (r < 0) = (x < 0)
             /\ r % TwoTo[w - 1] = (x % TwoTo[w - 1 - n]) * TwoTo[n]
<1> DEFINE k == TwoTo[n]
           m == TwoTo[w - 1 - n]
           h == TwoTo[w - 1]
           x == Value(w, a)
           r == Value(w, FracShift(w, a, n))
           e == a % m
           sign == fxvsh(w, fxvsh(w, a, -(w - 1)), w - 1)
           shifted == fxvsh(w, fxvsh(w, a, n + 1), -1)
           staying == e * k
<1>1. /\ n \in Nat /\ w - 1 - n \in Nat
      /\ k \in Nat /\ k > 0 /\ m \in Nat /\ m > 0 /\ h = m * k /\ 2 * m <= h
      /\ TwoTo[n + 1] = 2 * k
      /\ h \in {128, 32768} /\ TwoTo[w] = 2 * h
  BY ShiftFactors, SMTT(30)
<1>2. /\ a \in Nat /\ a < 2 * h
      /\ (a < h => x = a) /\ (a >= h => x = a - 2 * h)
  BY ValueOfWord
<1>3. FracShift(w, a, n) = (shifted + sign) % (2 * h)
  <2>1. n # 0 /\ TwoTo[w] = 2 * h
    BY <1>1
  <2>2. FracShift(w, a, n) = fxvaddm(w, shifted, sign)
    <3>1. n \in 1 .. w - 1
      OBVIOUS
    <3> QED
      BY <2>1, <3>1, Zenon DEF FracShift
  <2>3. fxvaddm(w, shifted, sign) = (shifted + sign) % TwoTo[w]
    BY Zenon DEF fxvaddm
  <2> QED
    BY <2>1, <2>2, <2>3, Zenon
<1>4. sign = IF a >= h THEN h ELSE 0
  <2> DEFINE top == a \div h
  <2>1. fxvsh(w, a, -(w - 1)) = top
    <3>1. ~ -(w - 1) >= w /\ ~ -(w - 1) >= 0 /\ -(-(w - 1)) = w - 1
      OBVIOUS
    <3> QED
      BY <3>1 DEF fxvsh
  <2>2. top = IF a >= h THEN 1 ELSE 0
    <3>1. CASE h = 128
      BY <1>2, <3>1
    <3>2. CASE h = 32768
      BY <1>2, <3>2
    <3> QED
      BY <1>1, <3>1, <3>2
  <2> HIDE DEF top, h
  <2>3. fxvsh(w, top, w - 1) = (top % TwoTo[1]) * h
    <3>1. ~ w - 1 >= w /\ w - 1 >= 0 /\ w - (w - 1) = 1
      OBVIOUS
    <3> QED
      BY <3>1 DEF fxvsh, h
  <2>4. TwoTo[1] = 2
    BY TwoToValues
  <2>5. (top % TwoTo[1]) * h = IF a >= h THEN h ELSE 0
    BY <1>1, <2>2, <2>4
  <2> QED
    BY <2>1, <2>3, <2>5
<1>5. /\ e \in Nat /\ e < m
      /\ staying \in Nat /\ staying < h
  <2>1. e \in 0 .. m - 1
    BY <1>1, <1>2, DivMod
  <2> HIDE DEF e
  <2>2. k * e <= k * (m - 1) /\ k * 0 <= k * e
    BY <1>1, <2>1, Grows
  <2>3. k * (m - 1) = k * m - k /\ k * m = m * k /\ k * e = e * k
    BY <1>1, <2>1, Z3
  <2>4. e * k \in Int
    BY <1>1, <2>1
  <2> DEFINE mk == m * k
             ek == e * k
  <2> HIDE DEF m, k, h
  <2>5. mk = h
    BY <1>1
  <2>6. ek \in Int /\ ek <= mk - k /\ 0 <= ek
    BY <1>1, <2>2, <2>3, <2>4
  <2> HIDE DEF mk, ek
  <2>7. ek \in Nat /\ ek < h
    BY <1>1, <2>5, <2>6
  <2>8. e \in Nat /\ e < m
    BY <1>1, <2>1
  <2> QED
    BY <2>7, <2>8, Zenon DEF ek, m, k, h
<1>6. shifted = staying
  <2>1. TwoTo[1] = 2
    BY TwoToValues
  <2>2. ASSUME NEW v PROVE fxvsh(w, v, -1) = v \div 2
    <3> DEFINE j == -1
    <3>1. j \in Int /\ j + 1 = 0
      OBVIOUS
    <3> HIDE DEF j
    <3>2. ~ j >= w /\ ~ j >= 0 /\ -j = 1
      BY <3>1
    <3> QED
      BY <2>1, <3>2 DEF fxvsh, j
  <2>3. CASE n = w - 1
    <3>1. fxvsh(w, a, n + 1) = 0
      BY <2>3 DEF fxvsh
    <3>2. m = 1
      <4>1. w - 1 - n = 0
        BY <2>3
      <4> QED
        BY <4>1, TwoToValues
    <3>3. e = 0
      BY <1>5, <3>2
    <3>4. staying = 0
      BY <1>1, <3>3
    <3> QED
      BY <2>2, <3>1, <3>4
  <2>4. CASE n < w - 1
    <3>1. ~ n + 1 >= w /\ n + 1 >= 0 /\ w - (n + 1) = w - 1 - n
      BY <2>4
    <3>2. fxvsh(w, a, n + 1) = e * (2 * k)
      BY <1>1, <3>1 DEF fxvsh
    <3> HIDE DEF e, k
    <3>3. e * (2 * k) = 2 * staying
      BY <1>1, <1>5, Z3
    <3> HIDE DEF staying
    <3>4. (2 * staying) \div 2 = staying
      BY <1>5
    <3> QED
      BY <2>2, <3>2, <3>3, <3>4
  <2> QED
    BY <2>3, <2>4
<1> HIDE DEF k, m, h, x, sign, shifted, e
<1>7. x % m = e
  <2>1. CASE a < h
    BY <1>2, <2>1 DEF e
  <2>2. CASE a >= h
    <3>1. x = a + m * (-(2 * k))
      <4>1. m * (-(2 * k)) = -(2 * (m * k))
        BY <1>1, Z3
      <4> QED
        BY <1>1, <1>2, <2>2, <4>1
    <3>2. a \in Int /\ x \in Int /\ -(2 * k) \in Int
      BY <1>1, <1>2, <2>2
    <3> DEFINE j == -(2 * k)
    <3>3. j \in Int /\ x = a + m * j
      BY <3>1, <3>2
    <3> HIDE DEF j
    <3>4. m \in Nat /\ m > 0 /\ a \in Int /\ x \in Int
      BY <1>1, <3>2
    <3>5. x % m = a % m
      BY <3>3, <3>4, SameMod
    <3> QED
      BY <3>5 DEF e
  <2> QED
    BY <1>1, <1>2, <2>1, <2>2
<1> HIDE DEF staying
<1>8. FracShift(w, a, n) = IF a >= h THEN staying + h ELSE staying
  <2>1. CASE h = 128
    BY <1>2, <1>3, <1>4, <1>5, <1>6, <2>1
  <2>2. CASE h = 32768
    BY <1>2, <1>3, <1>4, <1>5, <1>6, <2>2
  <2> QED
    BY <1>1, <2>1, <2>2
<1>9. r = IF a >= h THEN staying - h ELSE staying
  BY <1>1, <1>5, <1>8 DEF Value, h
<1>10. (r < 0) <=> (x < 0)
  BY <1>1, <1>2, <1>5, <1>9
<1>11. r % h = staying
  <2>1. h \in Nat /\ h > 0 /\ staying \in 0 .. h - 1 /\ r \in Int
    BY <1>1, <1>5, <1>9
  <2>2. r = h * (IF a >= h THEN -1 ELSE 0) + staying
    BY <1>1, <1>5, <1>9
  <2> HIDE DEF r
  <2>3. (IF a >= h THEN -1 ELSE 0) \in Int
    OBVIOUS
  <2> QED
    BY <2>1, <2>2, <2>3, ModIs
<1> HIDE DEF r
<1>12. (r < 0) = (x < 0)
  BY <1>10
<1> QED
  BY <1>7, <1>11, <1>12 DEF r, x, h, m, k, staying

\* A shift by n bits to the left, or by -n bits to the right
LEMMA ShiftExact ==
  ASSUME NEW c \in Classes, NEW a \in Words(c.width), NEW n \in Int
  PROVE  LET w == c.width
             x == Number(c, a)
             r == Number(c, ShiftedLeft(c, a, n))
         IN  /\ n \notin -(w-1) .. w - 1 => r = 0
             /\ n \in -(w-1) .. 0 => r = x \div TwoTo[-n]
             /\ n \in 1 .. w - 1 /\ ~c.fractional => r = (x % TwoTo[w-n]) * TwoTo[n]
             /\ n \in 1 .. w - 1 /\ c.fractional =>
                  /\ (r < 0) = (x < 0)
                  /\ r % TwoTo[w-1] = (x % TwoTo[w-1-n]) * TwoTo[n]
<1> DEFINE w == c.width
           x == Number(c, a)
           s == ShiftedLeft(c, a, n)
           r == Number(c, s)
           h == TwoTo[w - 1]
<1>1. w \in {8, 16}
  BY ClassWidth
<1>2. /\ h \in {128, 32768} /\ TwoTo[w] = 2 * h /\ a \in Nat /\ a < 2 * h
      /\ Value(w, a) \in Int /\ Value(w, 0) = 0
  BY <1>1, HalfRange, ValueOfWord, SignedWord DEF Value
<1>3. x \in Int
  BY <1>2 DEF Number
<1> HIDE DEF h
<1>4. /\ s = IF c.fractional THEN FracShift(w, a, n) ELSE ModShift(w, a, n)
      /\ r = IF c.fractional THEN Value(w, s) ELSE s
      /\ x = IF c.fractional THEN Value(w, a) ELSE a
  BY Zenon DEF ShiftedLeft, Number
<1> HIDE DEF w, x, s, r
<1>5. ASSUME n \notin -(w - 1) .. w - 1 PROVE r = 0
  <2>1. n <= -w \/ n >= w
    BY <1>1, <1>5
  <2>2. FracShift(w, a, n) = 0
    <3>1. n # 0 /\ n \notin 1 .. w - 1 /\ n \notin -(w - 1) .. -1
      BY <1>1, <2>1
    <3> QED
      BY <3>1, Zenon DEF FracShift
  <2>3. ModShift(w, a, n) = 0
    <3>1. ~ (n > -w /\ n < w)
      BY <1>1, <2>1
    <3> QED
      BY <3>1, Zenon DEF ModShift
  <2> QED
    BY <1>2, <1>4, <2>2, <2>3
<1>6. ASSUME n = 0 PROVE r = x \div TwoTo[-n]
  <2>1. TwoTo[0] = 1 /\ -n = 0 /\ w - 0 = w
    <3>1. -n = n
      <4>1. n + n = 0
        BY <1>6
      <4> QED
        BY <4>1
    <3>2. w - 0 = w
      BY <1>1
    <3> QED
      BY <1>6, <3>1, <3>2, TwoToValues
  <2>2. x \div 1 = x
    BY <1>3
  <2>3. FracShift(w, a, n) = a
    BY <1>6, Zenon DEF FracShift
  <2>4. ModShift(w, a, n) = fxvsh(w, a, 0)
    <3>1. n > -w /\ n < w
      BY <1>1, <1>6
    <3> QED
      BY <1>6, <3>1 DEF ModShift
  <2>5. fxvsh(w, a, 0) = (a % TwoTo[w]) * 1
    <3>1. ~ 0 >= w /\ 0 >= 0
      BY <1>1
    <3> QED
      BY <2>1, <3>1 DEF fxvsh
  <2>6. a % (2 * h) = a
    <3>1. 2 * h \in Nat /\ 2 * h > 0 /\ a \in 0 .. 2 * h - 1 /\ a = (2 * h) * 0 + a
      BY <1>2
    <3> QED
      BY <3>1, ModIs
  <2>7. s = a
    BY <1>2, <1>4, <2>3, <2>4, <2>5, <2>6
  <2> QED
    BY <1>4, <2>1, <2>2, <2>7
<1>7. ASSUME n \in -(w - 1) .. -1 PROVE r = x \div TwoTo[-n]
  <2> DEFINE m == -n
  <2>1. m \in Nat /\ 1 <= m /\ m < w /\ n = -m
    BY <1>1, <1>7
  <2> HIDE DEF m
  <2>2. Value(w, FracShift(w, a, n)) = Value(w, a) \div TwoTo[m]
    <3>1. a \in Words(w)
      BY DEF w
    <3> QED
      BY <1>1, <2>1, <3>1, FracShiftedRight
  <2>3. ModShift(w, a, n) = a \div TwoTo[m]
    <3>1. n > -w /\ n < w /\ ~ n >= w /\ ~ n >= 0
      BY <1>1, <2>1
    <3> QED
      BY <3>1, Zenon DEF ModShift, fxvsh, m
  <2> QED
    BY <1>4, <2>2, <2>3, Zenon DEF m
<1>8. ASSUME n \in 1 .. w - 1, ~c.fractional PROVE r = (x % TwoTo[w - n]) * TwoTo[n]
  <2>1. n > -w /\ n < w /\ ~ n >= w /\ n >= 0
    BY <1>1, <1>8
  <2>2. ModShift(w, a, n) = (a % TwoTo[w - n]) * TwoTo[n]
    BY <2>1, Zenon DEF ModShift, fxvsh
  <2> QED
    BY <1>4, <1>8, <2>2, Zenon
<1>9. ASSUME n \in 1 .. w - 1, c.fractional
      PROVE  (r < 0) = (x < 0) /\ r % h = (x % TwoTo[w - 1 - n]) * TwoTo[n]
  <2>1. n \in Nat /\ 1 <= n /\ n < w /\ a \in Words(w)
    BY <1>1, <1>9 DEF w
  <2>2. r = Value(w, FracShift(w, a, n)) /\ x = Value(w, a)
    BY <1>4, <1>9, Zenon
  <2>3. /\ (Value(w, FracShift(w, a, n)) < 0) = (Value(w, a) < 0)
        /\ Value(w, FracShift(w, a, n)) % TwoTo[w - 1] =
             (Value(w, a) % TwoTo[w - 1 - n]) * TwoTo[n]
    BY <1>1, <2>1, FracShiftedLeft
  <2> QED
    BY <2>2, <2>3, Zenon DEF h
<1>10. n \in -(w - 1) .. 0 => n = 0 \/ n \in -(w - 1) .. -1
  BY <1>1
<1> QED
  BY <1>5, <1>6, <1>7, <1>8, <1>9, <1>10, Zenon DEF w, x, s, r, h

-----------------------------------------------------------------------------

\* What is subtracted from zero
LEMMA NegationExact ==
  ASSUME NEW c \in Classes, NEW a \in Words(c.width)
  PROVE  IF c.fractional
         THEN Number(c, Negated(c, a)) = FracMinus(c.width, 0, Number(c, a))
         ELSE (Negated(c, a) + a) % TwoTo[c.width] = 0
<1> DEFINE w == c.width
           h == TwoTo[w - 1]
<1>1. w \in {8, 16}
  BY ClassWidth
<1>2. h \in {128, 32768} /\ TwoTo[w] = 2 * h /\ Words(w) = 0 .. 2 * h - 1
  BY <1>1, HalfRange DEF Words
<1>3. Negated(c, a) = Minus(c, 0, a)
  BY DEF Negated
<1>4. CASE c.fractional
  <2>1. 0 \in Words(c.width) /\ Value(w, 0) = 0
    BY <1>2 DEF Value
  <2>2. Value(w, Combined(c, "-", 0, a)) = FracMinus(w, Value(w, 0), Value(w, a))
    BY <1>4, <2>1, FractionsCombined
  <2>3. Combined(c, "-", 0, a) = Minus(c, 0, a)
    BY DEF Combined
  <2> QED
    BY <1>3, <1>4, <2>1, <2>2, <2>3 DEF Number
<1>5. CASE ~c.fractional
  <2>1. Minus(c, 0, a) = (0 - a) % (2 * h)
    BY <1>2, <1>5 DEF Minus, fxvsubm
  <2> DEFINE r == (0 - a) % (2 * h)
  <2> HIDE DEF h
  <2>2. a \in Nat /\ a < 2 * h
    BY <1>2
  <2>3. 2 * h \in Nat /\ 2 * h > 0 /\ 0 - a \in Int
    BY <1>2, <2>2
  <2>4. r = IF a = 0 THEN 0 ELSE 2 * h - a
    <3>1. CASE a = 0
      <4>1. 0 \in 0 .. 2 * h - 1 /\ 0 - a = (2 * h) * 0 + 0
        BY <2>3, <3>1
      <4> QED
        BY <2>3, <3>1, <4>1, ModIs
    <3>2. CASE a # 0
      <4>1. 2 * h - a \in 0 .. 2 * h - 1 /\ 0 - a = (2 * h) * (-1) + (2 * h - a)
        BY <2>2, <2>3, <3>2
      <4> QED
        BY <2>3, <3>2, <4>1, ModIs
    <3> QED
      BY <3>1, <3>2
  <2> HIDE DEF r
  <2>5. r + a = 0 \/ r + a = 2 * h
    BY <2>2, <2>3, <2>4
  <2>6. (r + a) % (2 * h) = 0
    <3>1. 0 \in 0 .. 2 * h - 1 /\ 2 * h = (2 * h) * 1 + 0 /\ 0 = (2 * h) * 0 + 0
      BY <2>3
    <3>2. (2 * h) % (2 * h) = 0 /\ 0 % (2 * h) = 0
      BY <2>3, <3>1, ModIs
    <3> QED
      BY <2>5, <3>2
  <2> QED
    BY <1>2, <1>3, <1>5, <2>1, <2>6 DEF r
<1> QED
  BY <1>4, <1>5

\* The powers that the loop of pow() makes
LEMMA Powers ==
  ASSUME NEW c, NEW b
  PROVE  /\ Power(c, b, 0) = 1
         /\ Power(c, b, 1) = b
         /\ Power(c, b, 2) = Times(c, b, b)
         /\ Power(c, b, 3) = Times(c, Times(c, b, b), b)
<1>1. Power(c, b, 0) = 1
  BY DEF Power
<1>2. ASSUME NEW n \in {1, 2, 3}
      PROVE  Power(c, b, n) = CASE n = 1 -> b [] n = 2 -> Times(c, b, b)
                                [] n = 3 -> Times(c, Times(c, b, b), b)
  <2> DEFINE Made(v, e) == IF e = 1 THEN b ELSE Times(c, v[e - 1], b)
             Is(v) == v = [e \in 1 .. n |-> Made(v, e)]
             value(e) == CASE e = 1 -> b [] e = 2 -> Times(c, b, b)
                           [] e = 3 -> Times(c, Times(c, b, b), b)
             values == [e \in 1 .. n |-> value(e)]
             power == CHOOSE v : Is(v)
  <2>1. Is(values)
    <3>1. ASSUME NEW e \in 1 .. n PROVE value(e) = Made(values, e)
      <4>1. CASE e = 1
        BY <4>1
      <4>2. CASE e = 2
        <5>1. 1 \in 1 .. n /\ e - 1 = 1
          BY <4>2
        <5>2. values[1] = b
          BY <5>1
        <5> HIDE DEF values
        <5> QED
          BY <4>2, <5>1, <5>2
      <4>3. CASE e = 3
        <5>1. 2 \in 1 .. n /\ e - 1 = 2
          BY <4>3
        <5>2. values[2] = Times(c, b, b)
          BY <5>1
        <5> HIDE DEF values
        <5> QED
          BY <4>3, <5>1, <5>2
      <4> QED
        BY <4>1, <4>2, <4>3
    <3> HIDE DEF Made, value
    <3> QED
      BY <3>1
  <2>2. Is(power)
    <3> HIDE DEF Is, values
    <3> QED
      BY <2>1
  <2>3. Power(c, b, n) = power[n]
    BY DEF Power
  <2> HIDE DEF power
  <2>4. power[1] = b
    <3>1. 1 \in 1 .. n
      OBVIOUS
    <3> QED
      BY <2>2, <3>1
  <2>5. n \in {2, 3} => power[2] = Times(c, b, b)
    <3>1. n \in {2, 3} => 2 \in 1 .. n
      OBVIOUS
    <3>2. 2 - 1 = 1 /\ 2 # 1
      OBVIOUS
    <3> QED
      BY <2>2, <2>4, <3>1, <3>2
  <2>6. n = 3 => power[3] = Times(c, Times(c, b, b), b)
    <3>1. n = 3 => 3 \in 1 .. n
      OBVIOUS
    <3>2. 3 - 1 = 2 /\ 3 # 1
      OBVIOUS
    <3> QED
      BY <2>2, <2>5, <3>1, <3>2
  <2> QED
    BY <2>3, <2>4, <2>5, <2>6
<1>3. /\ Power(c, b, 1) = b
      /\ Power(c, b, 2) = Times(c, b, b)
      /\ Power(c, b, 3) = Times(c, Times(c, b, b), b)
  BY <1>2
<1> QED
  BY <1>1, <1>3

\* A product of words may be cut off after each of its factors.
LEMMA ProductCutOff ==
  ASSUME NEW n \in Nat, n > 0, NEW p \in Int, NEW a \in Int
  PROVE  ((p % n) * a) % n = (p * a) % n
<1> DEFINE k == p \div n
           r == p % n
<1>1. k \in Int /\ r \in Int /\ p = n * k + r
  BY DivMod
<1> HIDE DEF k, r
<1> DEFINE x == r * a
           y == p * a
           j == k * a
<1>2. x \in Int /\ y \in Int /\ j \in Int
  BY <1>1
<1>3. y = x + n * j
  BY <1>1, Z3
<1> HIDE DEF x, y, j
<1>4. y % n = x % n
  BY <1>2, <1>3, SameMod
<1> QED
  BY <1>4 DEF x, y, r

\* What pow() makes of one element
LEMMA PowExact ==
  ASSUME NEW c \in {Mod8, FracSat8}, NEW a \in Words(8), NEW n \in 0 .. 3
  PROVE  LET r == Number(c, Power(c, a, n))
         IN  /\ ~c.fractional =>
                  r = (CASE n = 0 -> 1 [] n = 1 -> a [] n = 2 -> a * a
                         [] n = 3 -> a * a * a) % TwoTo[8]
             /\ c.fractional => /\ n = 1 => r = Value(8, a)
                                /\ n = 2 => r >= 0
<1>1. /\ TwoTo[8] = 256 /\ TwoTo[7] = 128 /\ a \in Nat /\ a < 256
      /\ 8 \in {8, 16} /\ 8 - 1 = 7
  BY TwoToValues DEF Words
<1>2. CASE c = Mod8
  <2>1. c.width = 8 /\ ~c.fractional
    BY <1>2 DEF Mod8
  <2>2. \A x, y : Times(c, x, y) = (x * y) % 256
    BY <1>1, <2>1 DEF Times, fxvmulm
  <2>3. Number(c, Power(c, a, n)) = Power(c, a, n)
    BY <2>1 DEF Number
  <2>4. CASE n = 0
    BY <1>1, <2>1, <2>3, <2>4, Powers
  <2>5. CASE n = 1
    BY <1>1, <2>1, <2>3, <2>5, Powers
  <2>6. CASE n = 2
    <3>1. Power(c, a, n) = (a * a) % 256
      BY <2>2, <2>6, Powers
    <3>2. (CASE n = 0 -> 1 [] n = 1 -> a [] n = 2 -> a * a [] n = 3 -> a * a * a) = a * a
      BY <2>6
    <3> QED
      BY <1>1, <2>1, <2>3, <3>1, <3>2, Zenon
  <2>7. CASE n = 3
    <3>1. Power(c, a, n) = (((a * a) % 256) * a) % 256
      BY <2>2, <2>7, Powers
    <3>2. (((a * a) % 256) * a) % 256 = (a * a * a) % 256
      <4> DEFINE p == a * a
      <4>1. p \in Int /\ 256 \in Nat /\ 256 > 0 /\ a \in Int
        BY <1>1
      <4> HIDE DEF p
      <4>2. ((p % 256) * a) % 256 = (p * a) % 256
        BY <4>1, ProductCutOff
      <4> QED
        BY <4>2 DEF p
    <3>3. (CASE n = 0 -> 1 [] n = 1 -> a [] n = 2 -> a * a [] n = 3 -> a * a * a) = a * a * a
      BY <2>7
    <3> QED
      BY <1>1, <2>1, <2>3, <3>1, <3>2, <3>3, Zenon
  <2> QED
    BY <2>4, <2>5, <2>6, <2>7
<1>3. CASE c = FracSat8
  <2>1. c.width = 8 /\ c.fractional /\ c \in Classes
    BY <1>3 DEF FracSat8, Classes
  <2>2. \A v : Number(c, v) = Value(8, v)
    BY <2>1 DEF Number
  <2>3. n = 1 => Number(c, Power(c, a, n)) = Value(8, a)
    BY <2>2, Powers
  <2>4. ASSUME n = 2 PROVE Number(c, Power(c, a, n)) >= 0
    <3> DEFINE x == Value(8, a)
               r == FracTimes(8, x, x)
    <3>1. Power(c, a, n) = Combined(c, "*", a, a)
      BY <2>4, Powers DEF Combined
    <3>2. Value(8, Combined(c, "*", a, a)) = r
      BY <2>1, FractionsCombined
    <3>3. x \in Int /\ MinValue(8) <= x /\ x <= MaxValue(8)
      BY <1>1, SignedWord
    <3>4. MaxValue(8) = 127
      BY <1>1 DEF MaxValue
    <3>5. /\ x # -128 => x * x < (r + 1) * 128 /\ r \in Int
          /\ x = -128 => r = MaxValue(8)
      BY <1>1, <3>3, FracTimesExact
    <3> HIDE DEF x, r
    <3>6. x * x >= 0
      BY <3>3, Z3
    <3>7. r >= 0
      <4> DEFINE y == x * x
      <4>1. y \in Int /\ y >= 0 /\ (x # -128 => y < (r + 1) * 128)
        BY <3>3, <3>5, <3>6
      <4> HIDE DEF y
      <4> QED
        BY <3>4, <3>5, <4>1
    <3> QED
      BY <2>2, <3>1, <3>2, <3>7
  <2> QED
    BY <2>1, <2>3, <2>4
<1> QED
  BY <1>2, <1>3

\* Operations on vectors keep the property.
LEMMA VectorExact == ASSUME Vector \/ VectorShift PROVE VectorsAreArithmetic'
<1>1. call'.function = "vector"
  BY FunctionOf
<1> DEFINE c == call'.class
           w == c.width
           x == Number(c, call'.a)
           r == Number(c, call'.result)
           n == IF call'.op = ">>" THEN -call'.b ELSE call'.b
<1>2. CASE Vector
  <2>1. PICK d \in Classes, op \in {"+", "-", "*"} :
          \E a \in Firsts(d.width), b \in Seconds(d.width) :
            /\ ~d.fractional => b <= MaxValue(d.width)
            /\ Called([function |-> "vector", op |-> op, class |-> d, a |-> a, b |-> b,
                       result |-> Combined(d, op, a, b)])
    BY <1>2, Zenon DEF Vector
  <2>2. PICK a \in Words(d.width), b \in Words(d.width) :
            Called([function |-> "vector", op |-> op, class |-> d, a |-> a, b |-> b,
                    result |-> Combined(d, op, a, b)])
    <3>1. Firsts(d.width) \subseteq Words(d.width) /\ Seconds(d.width) \subseteq Words(d.width)
      BY ClassWidth, WordsCalled
    <3> QED
      BY <2>1, <3>1, Zenon
  <2>3. /\ call'.op = op /\ c = d /\ call'.a = a /\ call'.b = b
        /\ call'.result = Combined(d, op, a, b)
    BY <2>2 DEF Called
  <2>4. op \notin {"<<", ">>"}
    OBVIOUS
  <2>5. c.fractional =>
          r = CASE op = "+" -> FracPlus(w, x, Value(w, b))
                [] op = "-" -> FracMinus(w, x, Value(w, b))
                [] op = "*" -> FracTimes(w, x, Value(w, b))
    <3> SUFFICES ASSUME d.fractional
                 PROVE  r = CASE op = "+" -> FracPlus(w, x, Value(w, b))
                              [] op = "-" -> FracMinus(w, x, Value(w, b))
                              [] op = "*" -> FracTimes(w, x, Value(w, b))
      BY <2>3
    <3>1. x = Value(d.width, a) /\ r = Value(d.width, Combined(d, op, a, b)) /\ w = d.width
      BY <2>3 DEF Number
    <3> HIDE DEF x, r, w, c
    <3>2. /\ Value(d.width, Combined(d, "+", a, b)) =
               FracPlus(d.width, Value(d.width, a), Value(d.width, b))
          /\ Value(d.width, Combined(d, "-", a, b)) =
               FracMinus(d.width, Value(d.width, a), Value(d.width, b))
          /\ Value(d.width, Combined(d, "*", a, b)) =
               FracTimes(d.width, Value(d.width, a), Value(d.width, b))
      BY FractionsCombined
    <3>3. CASE op = "+"
      BY <3>1, <3>2, <3>3
    <3>4. CASE op = "-"
      BY <3>1, <3>2, <3>4
    <3>5. CASE op = "*"
      BY <3>1, <3>2, <3>5
    <3> QED
      BY <3>3, <3>4, <3>5
  <2>6. call'.op \notin {"<<", ">>"} /\ call'.op = op /\ call'.b = b
    BY <2>3, <2>4
  <2> HIDE DEF n
  <2> QED
    BY <1>1, <2>5, <2>6, Zenon DEF VectorsAreArithmetic, IsCall, n
<1>3. CASE VectorShift
  <2>1. PICK d \in Classes, op \in {"<<", ">>"} :
          \E a \in Firsts(d.width), b \in -d.width .. d.width :
            Called([function |-> "vector", op |-> op, class |-> d, a |-> a, b |-> b,
                    result |-> IF op = "<<" THEN ShiftedLeft(d, a, b) ELSE ShiftedRight(d, a, b)])
    BY <1>3, Zenon DEF VectorShift
  <2>2. PICK a \in Words(d.width), b \in Int :
            Called([function |-> "vector", op |-> op, class |-> d, a |-> a, b |-> b,
                    result |-> IF op = "<<" THEN ShiftedLeft(d, a, b) ELSE ShiftedRight(d, a, b)])
    <3>1. Firsts(d.width) \subseteq Words(d.width) /\ -d.width .. d.width \subseteq Int
      BY ClassWidth, WordsCalled
    <3> QED
      BY <2>1, <3>1, Zenon
  <2>3. /\ call'.op = op /\ c = d /\ call'.a = a /\ call'.b = b
        /\ call'.result = IF op = "<<" THEN ShiftedLeft(d, a, b) ELSE ShiftedRight(d, a, b)
    BY <2>2 DEF Called
  <2>4. call'.result = ShiftedLeft(d, a, n) /\ n \in Int
    BY <2>3 DEF ShiftedRight
  <2>5. op \notin {"+", "-", "*"}
    OBVIOUS
  <2>6. x = Number(d, a) /\ r = Number(d, ShiftedLeft(d, a, n)) /\ w = d.width
    BY <2>3, <2>4
  <2> HIDE DEF n
  <2>7. LET z == Number(d, a)
            s == Number(d, ShiftedLeft(d, a, n))
        IN  /\ n \notin -(d.width-1) .. d.width - 1 => s = 0
            /\ n \in -(d.width-1) .. 0 => s = z \div TwoTo[-n]
            /\ n \in 1 .. d.width - 1 /\ ~d.fractional => s = (z % TwoTo[d.width-n]) * TwoTo[n]
            /\ n \in 1 .. d.width - 1 /\ d.fractional =>
                 /\ (s < 0) = (z < 0)
                 /\ s % TwoTo[d.width-1] = (z % TwoTo[d.width-1-n]) * TwoTo[n]
    BY <2>4, ShiftExact, Zenon
  <2>8. /\ n \notin -(w-1) .. w - 1 => r = 0
        /\ n \in -(w-1) .. 0 => r = x \div TwoTo[-n]
        /\ n \in 1 .. w - 1 /\ ~c.fractional => r = (x % TwoTo[w-n]) * TwoTo[n]
        /\ n \in 1 .. w - 1 /\ c.fractional =>
             /\ (r < 0) = (x < 0)
             /\ r % TwoTo[w-1] = (x % TwoTo[w-1-n]) * TwoTo[n]
    <3> HIDE DEF x, r, c
    <3> QED
      BY <2>3, <2>6, <2>7, Zenon
  <2>9. call'.op \notin {"+", "-", "*"}
    BY <2>3, <2>5
  <2> QED
    BY <1>1, <2>8, <2>9, Zenon DEF VectorsAreArithmetic, IsCall, n
<1> QED
  BY <1>2, <1>3

\* So does the negation of a vector.
LEMMA NegationCalled == ASSUME VectorNegation PROVE VectorsAreArithmetic'
<1>1. call'.function = "negation"
  BY FunctionOf
<1>2. PICK c \in Classes : \E a \in Firsts(c.width) :
        Called([function |-> "negation", class |-> c, a |-> a, result |-> Negated(c, a)])
  BY DEF VectorNegation
<1>3. PICK a \in Words(c.width) :
        Called([function |-> "negation", class |-> c, a |-> a, result |-> Negated(c, a)])
  BY <1>2, ClassWidth, WordsCalled
<1>4. call'.class = c /\ call'.a = a /\ call'.result = Negated(c, a)
  BY <1>3 DEF Called
<1>5. IF c.fractional
      THEN Number(c, Negated(c, a)) = FracMinus(c.width, 0, Number(c, a))
      ELSE (Negated(c, a) + a) % TwoTo[c.width] = 0
  BY NegationExact
<1> QED
  BY <1>1, <1>4, <1>5, Zenon DEF VectorsAreArithmetic, IsCall

\* So does pow().
LEMMA PowCalled == ASSUME Pow PROVE VectorsAreArithmetic'
<1>1. call'.function = "pow"
  BY FunctionOf
<1>2. PICK c \in {Mod8, FracSat8}, n \in 0 .. 3, a \in Words(8) :
        Called([function |-> "pow", class |-> c, a |-> a, b |-> n, result |-> Power(c, a, n)])
  BY DEF Pow
<1>3. call'.class = c /\ call'.a = a /\ call'.b = n /\ call'.result = Power(c, a, n)
  BY <1>2 DEF Called
<1>4. LET r == Number(c, Power(c, a, n))
      IN  /\ ~c.fractional =>
               r = (CASE n = 0 -> 1 [] n = 1 -> a [] n = 2 -> a * a
                      [] n = 3 -> a * a * a) % TwoTo[8]
          /\ c.fractional => /\ n = 1 => r = Value(8, a)
                             /\ n = 2 => r >= 0
  BY PowExact, Zenon
<1> QED
  BY <1>1, <1>3, <1>4, Zenon DEF VectorsAreArithmetic, IsCall

\* Whatever words they are called with: the scalar fractions compute the nearest number
\* of their type (frac.h), a vector what the scalar type computes for each of its
\* elements (test_frac.cpp:23-58), vectors shift as documented (vector_frac_sat_8.h:100),
\* and unsigned ones drop what does not fit.
THEOREM ArithmeticInvariant == CallsSpec => []ArithmeticIsExact
<1>1. CallInit => ArithmeticIsExact
  BY NothingCalled DEF ArithmeticIsExact, FractionsAreExact, VectorsAreArithmetic, IsCall
<1>2. ArithmeticIsExact /\ [CallsNext]_call => ArithmeticIsExact'
  <2> SUFFICES ASSUME ArithmeticIsExact, [CallsNext]_call PROVE ArithmeticIsExact'
    OBVIOUS
  <2>1. CASE UNCHANGED call
    <3>1. call' = call
      BY <2>1
    <3>2. FractionsAreExact'
      BY <3>1 DEF ArithmeticIsExact, FractionsAreExact, IsCall
    <3>3. VectorsAreArithmetic'
      BY <3>1 DEF ArithmeticIsExact, VectorsAreArithmetic, IsCall
    <3> QED
      BY <3>2, <3>3 DEF ArithmeticIsExact
  <2>2. CASE CallsNext
    <3>1. FractionsAreExact'
      <4>1. CASE IsCall("frac")'
        BY <2>2, <4>1, WhichAction, ScalarExact
      <4>2. CASE ~ IsCall("frac")'
        BY <4>2, Zenon DEF FractionsAreExact, IsCall
      <4> QED
        BY <4>1, <4>2
    <3>2. VectorsAreArithmetic'
      <4>1. CASE IsCall("vector")'
        BY <2>2, <4>1, WhichAction, VectorExact
      <4>2. CASE IsCall("negation")'
        BY <2>2, <4>2, WhichAction, NegationCalled
      <4>3. CASE IsCall("pow")'
        BY <2>2, <4>3, WhichAction, PowCalled
      <4>4. CASE ~ IsCall("vector")' /\ ~ IsCall("negation")' /\ ~ IsCall("pow")'
        BY <4>4, Zenon DEF VectorsAreArithmetic, IsCall
      <4> QED
        BY <4>1, <4>2, <4>3, <4>4
    <3> QED
      BY <3>1, <3>2 DEF ArithmeticIsExact
  <2> QED
    BY <2>1, <2>2
<1> QED
  BY <1>1, <1>2, PTL DEF CallsSpec

-----------------------------------------------------------------------------
(* Stochastic rounding: which random numbers make a number grow. *)

\* A quotient is below c where the number is below n * c, and its multiple not above.
LEMMA QuotientBelow ==
  ASSUME NEW n \in Nat, n > 0, NEW c \in Nat, NEW s \in Nat, s < n * c
  PROVE  s \div n \in Nat /\ s \div n < c
<1> DEFINE q == s \div n
<1>1. q \in Int /\ s % n \in 0 .. n - 1 /\ s = n * q + (s % n)
  BY DivMod
<1> HIDE DEF q
<1>2. n * q <= s /\ s < n * q + n
  BY <1>1
<1>3. q >= 0
  <2> SUFFICES ASSUME q + 1 <= 0 PROVE FALSE
    BY <1>1
  <2>1. n * (q + 1) <= n * 0
    BY <1>1, Grows
  <2>2. n * (q + 1) = n * q + n
    BY <1>1, Z3
  <2> DEFINE p == n * q
  <2>3. p \in Int /\ s < p + n /\ p + n <= 0
    BY <1>1, <1>2, <2>1, <2>2
  <2> HIDE DEF p
  <2> QED
    BY <2>3
<1>4. q < c
  <2>1. n * q < n * c
    BY <1>1, <1>2
  <2> QED
    BY <1>1, <2>1, GrowsBack
<1> QED
  BY <1>1, <1>3, <1>4 DEF q

\* What is left of a word whose lower bits are shifted out and zeros are shifted in
LEMMA LowerBitsCleared ==
  ASSUME NEW w \in {8, 16}, NEW b \in Nat, 1 <= b, b < w, NEW s \in Words(w)
  PROVE  fxvsh(w, fxvsh(w, s, -b), b) = s - (s % TwoTo[b])
<1> DEFINE k == TwoTo[b]
           c == TwoTo[w - b]
           q == s \div k
<1>1. /\ k \in Nat /\ k > 0 /\ c \in Nat /\ c > 0
      /\ TwoTo[w] = k * c
  <2>1. w - b \in Nat /\ b + (w - b) = w
    OBVIOUS
  <2>2. TwoTo[b + (w - b)] = TwoTo[b] * TwoTo[w - b]
    BY <2>1, TwoToSum
  <2>3. k \in Nat /\ k > 0 /\ c \in Nat /\ c > 0
    BY <2>1, TwoToPositive
  <2> QED
    BY <2>1, <2>2, <2>3
<1>2. s \in Nat /\ s < k * c
  <2> HIDE DEF k, c
  <2>1. k * c \in Nat
    BY <1>1
  <2> DEFINE n == k * c
  <2> HIDE DEF n
  <2>2. Words(w) = 0 .. n - 1 /\ n \in Nat
    BY <1>1, <2>1 DEF Words, n
  <2>3. s \in Nat /\ s < n
    BY <2>2
  <2> QED
    BY <2>3 DEF n
<1>3. fxvsh(w, s, -b) = q
  <2>1. ~ -b >= w /\ ~ -b >= 0 /\ -(-b) = b
    OBVIOUS
  <2> QED
    BY <2>1 DEF fxvsh
<1>4. fxvsh(w, q, b) = (q % c) * k
  <2>1. ~ b >= w /\ b >= 0
    OBVIOUS
  <2> QED
    BY <2>1 DEF fxvsh
<1> HIDE DEF k, c
<1>5. q \in Nat /\ q < c /\ s = k * q + (s % k) /\ s % k \in Int
  <2>1. q \in Nat /\ q < c
    BY <1>1, <1>2, QuotientBelow
  <2>2. s = k * q + (s % k) /\ s % k \in Int
    BY <1>1, <1>2, DivMod
  <2> QED
    BY <2>1, <2>2
<1> HIDE DEF q
<1>6. q % c = q
  <2>1. q \in 0 .. c - 1 /\ q = c * 0 + q
    BY <1>1, <1>5
  <2> QED
    BY <1>1, <1>5, <2>1, ModIs
<1>7. q * k = s - (s % k)
  <2>1. q * k = k * q
    BY <1>1, <1>5, Z3
  <2>2. k * q \in Int
    BY <1>1, <1>5
  <2> QED
    BY <1>2, <1>5, <2>1, <2>2
<1> QED
  BY <1>3, <1>4, <1>6, <1>7 DEF k

\* The same for a word as a signed number: k * j is the multiple of k below it.
LEMMA LowerBitsOfNumber ==
  ASSUME NEW w \in {8, 16}, NEW b \in Nat, 1 <= b, b < w,
         NEW j \in Int, NEW e \in Nat, e < TwoTo[b],
         -TwoTo[w - 1 - b] <= j, j < TwoTo[w - 1 - b]
  PROVE  LET v == TwoTo[b] * j + e
             s == Word(w, v)
         IN  /\ v \in Int /\ MinValue(w) <= v /\ v <= MaxValue(w)
             /\ Value(w, fxvsh(w, fxvsh(w, s, -b), b)) = TwoTo[b] * j
<1> DEFINE k == TwoTo[b]
           m == TwoTo[w - 1 - b]
           h == TwoTo[w - 1]
           l == k * j
           v == l + e
           s == Word(w, v)
<1>1. /\ k \in Nat /\ k > 0 /\ m \in Nat /\ m > 0 /\ h = m * k
      /\ h \in {128, 32768} /\ TwoTo[w] = 2 * h
  BY ShiftFactors
<1>2. MinValue(w) = -h /\ MaxValue(w) = h - 1
  BY DEF MinValue, MaxValue
<1>3. e < k /\ -m <= j /\ j < m
  OBVIOUS
<1>4. fxvsh(w, fxvsh(w, s, -b), b) = s - (s % k) /\ s = v % (2 * h) /\ s \in Words(w)
  <2>1. l \in Int
    BY <1>1
  <2>2. v \in Int
    BY <2>1
  <2>3. s = v % (2 * h)
    BY <1>1 DEF Word
  <2> HIDE DEF v, k, h
  <2>4. 2 * h \in Nat /\ 2 * h > 0
    BY <1>1
  <2>5. v % (2 * h) \in 0 .. 2 * h - 1
    BY <2>2, <2>4, DivMod
  <2>6. s \in Words(w)
    BY <1>1, <2>3, <2>5 DEF Words
  <2> HIDE DEF s
  <2> QED
    BY <2>3, <2>6, LowerBitsCleared DEF k
<1> HIDE DEF k, m, h, s
<1>5. l \in Int /\ -h <= l /\ l <= h - k
  <2>1. k * (-m) <= k * j /\ k * j <= k * (m - 1)
    <3>1. -m \in Int /\ m - 1 \in Int /\ j <= m - 1
      BY <1>1, <1>3
    <3> QED
      BY <1>1, <1>3, <3>1, Grows
  <2>2. k * (-m) = -h /\ k * (m - 1) = h - k
    BY <1>1, Z3
  <2>3. l \in Int
    BY <1>1
  <2> QED
    BY <2>1, <2>2, <2>3
<1>6. v \in Int /\ -h <= v /\ v <= h - 1 /\ l <= v
  <2> HIDE DEF l
  <2> QED
    BY <1>1, <1>3, <1>5
<1>7. s % k = e
  <2>1. s % k = v % k
    <3>1. 2 * h \in Nat /\ 2 * h > 0
      BY <1>1
    <3>2. v \div (2 * h) \in Int /\ v = (2 * h) * (v \div (2 * h)) + s
      BY <1>4, <1>6, <3>1, DivMod
    <3> DEFINE p == v \div (2 * h)
               i == -(2 * m * p)
    <3>3. p \in Int /\ v = (2 * h) * p + s
      BY <3>2
    <3>4. s \in Int
      BY <1>1, <1>4, <1>6, DivMod
    <3> HIDE DEF p, v
    <3>5. i \in Int
      BY <1>1, <3>3
    <3>6. s = v + k * i
      BY <1>1, <3>3, <3>4, <1>6, Z3
    <3> HIDE DEF i
    <3>7. k \in Nat /\ k > 0 /\ v \in Int
      BY <1>1, <1>6
    <3> QED
      BY <3>4, <3>5, <3>6, <3>7, SameMod
  <2>2. v = k * j + e /\ e \in 0 .. k - 1
    BY <1>1, <1>3
  <2>3. v % k = e
    BY <1>1, <1>6, <2>2, ModIs
  <2> QED
    BY <2>1, <2>3
<1> HIDE DEF v
<1>8. s = IF v >= 0 THEN v ELSE v + 2 * h
  <2>1. 2 * h \in Nat /\ 2 * h > 0
    BY <1>1
  <2>2. CASE v >= 0
    <3>1. v \in 0 .. 2 * h - 1 /\ v = (2 * h) * 0 + v
      BY <1>1, <1>6, <2>2
    <3> QED
      BY <1>4, <1>6, <2>1, <2>2, <3>1, ModIs
  <2>3. CASE v < 0
    <3>1. v + 2 * h \in 0 .. 2 * h - 1 /\ v = (2 * h) * (-1) + (v + 2 * h)
      BY <1>1, <1>6, <2>3
    <3>2. v % (2 * h) = v + 2 * h
      BY <1>6, <2>1, <3>1, ModIs
    <3>3. ~ (v >= 0) /\ s = v % (2 * h)
      BY <1>4, <1>6, <2>3
    <3> QED
      BY <3>2, <3>3, Zenon
  <2> QED
    BY <1>6, <2>2, <2>3
<1>9. Value(w, s - (s % k)) = l
  <2>1. s - (s % k) = IF v >= 0 THEN l ELSE l + 2 * h
    <3> HIDE DEF l
    <3>1. v = l + e
      BY DEF v
    <3>2. s - e = IF v >= 0 THEN l ELSE l + 2 * h
      BY <1>1, <1>5, <1>6, <1>8, <3>1
    <3> QED
      BY <1>7, <3>2, Zenon
  <2>2. v >= 0 => l >= 0
    <3> SUFFICES ASSUME v >= 0, l < 0 PROVE FALSE
      BY <1>5
    <3> USE DEF v
    <3>1. j < 0
      <4>1. k * j < k * 0
        BY <1>1 DEF l
      <4> QED
        BY <1>1, <4>1, GrowsBack
    <3>2. k * j <= k * (-1)
      BY <1>1, <3>1, Grows
    <3>3. l <= -k
      BY <1>1, <3>2 DEF l
    <3> QED
      BY <1>1, <1>3, <1>5, <3>3
  <2> HIDE DEF l
  <2> QED
    BY <1>1, <1>5, <1>6, <2>1, <2>2 DEF Value, h
<1> QED
  BY <1>2, <1>4, <1>6, <1>9 DEF s, v, k, l

\* What rounding makes of a number, by the random number's upper bits d and the
\* number's lower bits m
LEMMA RoundedTo ==
  ASSUME NEW c \in Classes, NEW a \in Words(c.width),
         NEW b \in Nat, 1 <= b, b < c.width, NEW random \in Words(c.width)
  PROVE  LET w   == c.width
             k   == TwoTo[b]
             d   == random \div TwoTo[w - b]
             x   == Number(c, a)
             m   == x % k
             low == x - m
             up  == low + k
             fits == up <= (IF c.fractional THEN MaxValue(w) ELSE TwoTo[w] - 1)
             r   == Number(c, RoundStochastic(c, a, b, random))
         IN  /\ x \in Int /\ d \in Nat /\ m \in 0 .. k - 1
             /\ m + d < k => r = low
             /\ m + d >= k => r = IF fits THEN up ELSE IF c.fractional THEN low ELSE 0
             /\ ~fits /\ ~c.fractional => low # 0
<1> DEFINE w   == c.width
           k   == TwoTo[b]
           n   == TwoTo[w - b]
           g   == TwoTo[w - 1 - b]
           h   == TwoTo[w - 1]
           d   == random \div n
           x   == Number(c, a)
           m   == x % k
           low == x - m
           up  == low + k
           j   == x \div k
           sum == Plus(c, d, a)
           r   == Number(c, RoundStochastic(c, a, b, random))
<1>1. w \in {8, 16} /\ b < w
  BY ClassWidth
<1>2. /\ k \in Nat /\ k > 0 /\ g \in Nat /\ g > 0 /\ n = 2 * g
      /\ h = g * k /\ h \in {128, 32768} /\ TwoTo[w] = 2 * h
  <2> HIDE DEF w
  <2> QED
    BY <1>1, ShiftFactors
<1>3. /\ a \in Nat /\ a < 2 * h /\ random \in Nat /\ random < 2 * h
      /\ x \in Int /\ (c.fractional => -h <= x /\ x < h) /\ (~c.fractional => x = a)
      /\ (c.fractional => x = Value(w, a))
      /\ MaxValue(w) = h - 1 /\ MinValue(w) = -h
  BY <1>1, ValueOfWord, SignedWord DEF Number, MaxValue, MinValue
<1>4. RoundStochastic(c, a, b, random) = fxvsh(w, fxvsh(w, sum, -b), b)
  <2>1. b # 0 /\ b < w
    BY <1>1
  <2>2. ~ -(w - b) >= w /\ ~ -(w - b) >= 0 /\ -(-(w - b)) = w - b
    BY <1>1
  <2>3. fxvsh(w, random, -(w - b)) = d
    BY <2>2 DEF fxvsh
  <2> HIDE DEF d, n
  <2> QED
    BY <2>1, <2>3 DEF RoundStochastic
<1> HIDE DEF n, h, k, g
<1>5. d \in Nat /\ d < k
  <2>1. 2 * h = n * k
    <3>1. (2 * g) * k = 2 * (g * k)
      BY <1>2, Z3
    <3> QED
      BY <1>2, <3>1
  <2>2. n \in Nat /\ n > 0
    BY <1>2
  <2> QED
    BY <1>2, <1>3, <2>1, <2>2, QuotientBelow
<1>6. j \in Int /\ m \in Nat /\ m < k /\ x = k * j + m
  <2>1. j \in Int /\ m \in 0 .. k - 1 /\ x = k * j + m
    BY <1>2, <1>3, DivMod
  <2> HIDE DEF m
  <2> QED
    BY <1>2, <2>1
<1>7. low = k * j /\ up = k * (j + 1) /\ low \in Int /\ up \in Int /\ up = low + k
      /\ low <= x /\ x < up
  <2> HIDE DEF x, m, j
  <2>1. k * j \in Int
    BY <1>2, <1>6
  <2>2. k * (j + 1) = k * j + k
    BY <1>2, <1>6, Z3
  <2> QED
    BY <1>2, <1>6, <2>1, <2>2
<1> HIDE DEF d, x, m, low, up, j
<1>8. \A i \in Int : /\ k * i < h <=> i < g
                     /\ k * i < 2 * h <=> i < 2 * g
                     /\ k * i >= 0 <=> i >= 0
                     /\ k * i >= -h <=> i >= -g
                     /\ k * i \in Int
  <2> TAKE i \in Int
  <2>1. /\ h = k * g /\ 2 * h = k * (2 * g) /\ 0 = k * 0 /\ -h = k * (-g)
        /\ 2 * g \in Int /\ -g \in Int /\ k * i \in Int
    BY <1>2, Z3
  <2>2. ASSUME NEW e \in Int PROVE (k * i < k * e <=> i < e) /\ (k * i >= k * e <=> i >= e)
    <3>1. k * i \in Int /\ k * e \in Int
      BY <1>2
    <3>2. k * i < k * e => i < e
      BY <1>2, GrowsBack
    <3>3. e <= i => k * e <= k * i
      BY <1>2, Grows
    <3>4. i < e => k * i < k * e
      <4> SUFFICES ASSUME i < e PROVE k * i < k * e
        OBVIOUS
      <4>1. i + 1 \in Int /\ i + 1 <= e
        OBVIOUS
      <4>2. k * (i + 1) <= k * e
        BY <1>2, <4>1, Grows
      <4>3. k * (i + 1) = k * i + k
        BY <1>2, Z3
      <4> QED
        BY <1>2, <3>1, <4>2, <4>3
    <3> QED
      BY <3>1, <3>2, <3>3, <3>4
  <2>3. k * i < k * g <=> i < g
    BY <1>2, <2>2
  <2>4. k * i < k * (2 * g) <=> i < 2 * g
    BY <2>1, <2>2
  <2>5. k * i >= k * 0 <=> i >= 0
    BY <2>2
  <2>6. k * i >= k * (-g) <=> i >= -g
    BY <2>1, <2>2
  <2> QED
    BY <2>1, <2>3, <2>4, <2>5, <2>6
<1>9. ASSUME c.fractional
      PROVE  /\ m + d < k => r = low
             /\ m + d >= k => r = IF up <= h - 1 THEN up ELSE low
  <2>1. -g <= j /\ j < g
    <3>1. j < g
      <4>1. k * j < h
        BY <1>2, <1>3, <1>7, <1>9
      <4> QED
        BY <1>6, <1>8, <4>1
    <3>2. -g <= j
      <4>1. k * (j + 1) > -h
        BY <1>2, <1>3, <1>7, <1>9
      <4>2. j + 1 \in Int /\ k * (j + 1) >= -h
        BY <1>2, <1>6, <1>7, <4>1
      <4>3. j + 1 >= -g
        BY <1>8, <4>2
      <4>4. j + 1 # -g
        <5>1. k * (-g) = -h
          BY <1>2, Z3
        <5> QED
          BY <1>2, <4>1, <5>1
      <4> QED
        BY <1>2, <1>6, <4>3, <4>4
    <3> QED
      BY <3>1, <3>2
  <2>2. sum = Word(w, Saturated(w, d + x))
    <3>1. Value(w, d) = d
      <4>1. k <= h
        <5>1. k * 1 <= k * g
          BY <1>2, Grows
        <5>2. k * g = g * k
          BY <1>2, Z3
        <5> QED
          BY <1>2, <5>1, <5>2
      <4>2. d < h
        BY <1>2, <1>5, <4>1
      <4> QED
        BY <4>2 DEF Value, h
    <3> QED
      BY <1>3, <1>9, <3>1 DEF Plus, fxvaddfs
  <2>3. r = Value(w, fxvsh(w, fxvsh(w, sum, -b), b))
    BY <1>4, <1>9 DEF Number
  <2>4. ASSUME NEW i \in Int, -g <= i, i < g, NEW e \in Nat, e < k
        PROVE  /\ k * i + e \in Int
               /\ MinValue(w) <= k * i + e /\ k * i + e <= MaxValue(w)
               /\ Value(w, fxvsh(w, fxvsh(w, Word(w, k * i + e), -b), b)) = k * i
    <3> HIDE DEF w
    <3> QED
      BY <1>1, <2>4, LowerBitsOfNumber DEF k, g
  <2> HIDE DEF r, sum, w
  <2>5. ASSUME NEW i \in Int, -g <= i, i < g, NEW e \in Nat, e < k, Saturated(w, d + x) = k * i + e
        PROVE  r = k * i
    BY <2>2, <2>3, <2>4, <2>5
  <2>6. CASE m + d < k
    <3>1. d + x = k * j + (m + d) /\ m + d \in Nat
      BY <1>3, <1>5, <1>6, <1>7
    <3>2. k * j + (m + d) \in Int
          /\ MinValue(w) <= k * j + (m + d) /\ k * j + (m + d) <= MaxValue(w)
      BY <1>6, <2>1, <2>4, <2>6, <3>1
    <3>3. Saturated(w, d + x) = k * j + (m + d)
      BY <1>1, <3>1, <3>2, SaturatedIs
    <3>4. r = k * j
      BY <1>6, <2>1, <2>5, <2>6, <3>1, <3>3
    <3> QED
      BY <1>7, <2>6, <3>4, <1>2, <1>5, <1>6
  <2>7. CASE m + d >= k /\ j + 1 < g
    <3> DEFINE e == m + d - k
    <3>1. e \in Nat /\ e < k /\ d + x = k * (j + 1) + e
      BY <1>2, <1>3, <1>5, <1>6, <1>7, <2>7
    <3>2. j + 1 \in Int /\ -g <= j + 1
      BY <1>2, <1>6, <2>1
    <3> HIDE DEF e
    <3>3. k * (j + 1) + e \in Int
          /\ MinValue(w) <= k * (j + 1) + e /\ k * (j + 1) + e <= MaxValue(w)
      BY <2>4, <2>7, <3>1, <3>2
    <3>4. Saturated(w, d + x) = k * (j + 1) + e
      BY <1>1, <3>1, <3>3, SaturatedIs
    <3>5. r = k * (j + 1)
      BY <2>5, <2>7, <3>1, <3>2, <3>4
    <3>6. up <= h - 1
      <4>1. k * (j + 1) < h
        BY <1>8, <2>7, <3>2
      <4> QED
        BY <1>2, <1>7, <4>1
    <3> QED
      BY <1>2, <1>5, <1>6, <1>7, <2>7, <3>5, <3>6
  <2>8. CASE m + d >= k /\ j + 1 >= g
    <3>1. j = g - 1 /\ j + 1 \in Int /\ j + 1 = g
      BY <1>2, <1>6, <2>1, <2>8
    <3>2. up = h
      <4>1. k * g = h
        BY <1>2, Z3
      <4> QED
        BY <1>7, <3>1, <4>1
    <3>3. d + x >= h /\ d + x \in Int
      BY <1>2, <1>3, <1>5, <1>6, <1>7, <2>8, <3>2
    <3>4. Saturated(w, d + x) = h - 1
      BY <1>2, <1>3, <3>3 DEF Saturated
    <3>5. h - 1 = k * j + (k - 1) /\ k - 1 \in Nat /\ k - 1 < k
      BY <1>2, <1>7, <3>2
    <3>6. r = k * j
      BY <1>6, <2>1, <2>5, <3>4, <3>5
    <3> QED
      BY <1>2, <1>5, <1>6, <1>7, <2>8, <3>2, <3>6
  <2> QED
    BY <1>2, <1>5, <1>6, <2>6, <2>7, <2>8
<1>10. ASSUME ~c.fractional
       PROVE  /\ m + d < k => r = low
              /\ m + d >= k => r = IF up <= 2 * h - 1 THEN up ELSE 0
              /\ ~(up <= 2 * h - 1) => low # 0
  <2>1. 0 <= j /\ j < 2 * g
    <3>1. k * j < 2 * h
      BY <1>2, <1>3, <1>6, <1>7, <1>10
    <3>2. k * (j + 1) > 0
      BY <1>2, <1>3, <1>6, <1>7, <1>10
    <3>3. j + 1 \in Int /\ j + 1 # 0 /\ j + 1 >= 0
      <4>1. j + 1 \in Int /\ k * (j + 1) >= 0
        BY <1>2, <1>6, <1>7, <3>2
      <4>2. j + 1 >= 0
        BY <1>8, <4>1
      <4>3. k * 0 = 0
        BY <1>2
      <4> QED
        BY <3>2, <4>1, <4>2, <4>3
    <3> QED
      BY <1>6, <1>8, <3>1, <3>3
  <2>2. sum = (d + a) % (2 * h)
    <3>1. sum = (d + a) % TwoTo[w]
      BY <1>10, Zenon DEF Plus, fxvaddm
    <3>2. TwoTo[w] = 2 * h
      BY <1>2
    <3> HIDE DEF sum, w
    <3> QED
      BY <3>1, <3>2
  <2>3. 2 * h \in Nat /\ 2 * h > 0 /\ x = a
    BY <1>2, <1>3, <1>10
  <2>4. ASSUME NEW i \in Int, 0 <= i, i < 2 * g, NEW e \in Nat, e < k,
               (d + a) % (2 * h) = k * i + e
        PROVE  r = k * i
    <3>1. k * i + e \in 0 .. 2 * h - 1
      <4>1. k * i >= 0 /\ k * i \in Int
        BY <1>8, <2>4
      <4>2. k * (i + 1) <= k * (2 * g)
        <5>1. i + 1 \in Int /\ 2 * g \in Int /\ i + 1 <= 2 * g
          BY <1>2, <2>4
        <5> QED
          BY <1>2, <5>1, Grows
      <4>3. k * (i + 1) = k * i + k /\ k * (2 * g) = 2 * h
        BY <1>2, Z3
      <4>4. k * i + e < 2 * h
        BY <1>2, <2>4, <4>1, <4>2, <4>3
      <4> QED
        BY <1>2, <2>4, <4>1, <4>4
    <3>2. sum \in Words(w) /\ sum = k * i + e
      BY <1>2, <2>2, <2>4, <3>1 DEF Words
    <3>3. r = sum - (sum % k)
      <4>1. r = fxvsh(w, fxvsh(w, sum, -b), b)
        BY <1>4, <1>10, Zenon DEF Number
      <4> HIDE DEF r, sum, w
      <4>2. fxvsh(w, fxvsh(w, sum, -b), b) = sum - (sum % k)
        BY <1>1, <3>2, LowerBitsCleared DEF k
      <4> QED
        BY <4>1, <4>2
    <3> HIDE DEF r, sum
    <3>4. sum % k = e
      <4>1. e \in 0 .. k - 1 /\ sum \in Int
        BY <1>2, <2>4, <3>1, <3>2
      <4> QED
        BY <1>2, <3>2, <4>1, ModIs
    <3>5. k * i \in Int
      BY <1>8
    <3> QED
      BY <3>2, <3>3, <3>4, <3>5
  <2> HIDE DEF r, sum
  <2>5. CASE m + d < k
    <3>1. d + a = k * j + (m + d) /\ m + d \in Nat
      <4>1. m + d \in Nat /\ x = low + m
        BY <1>5, <1>6, <1>7
      <4>2. d + a = low + (m + d)
        BY <1>5, <1>6, <1>7, <2>3, <4>1
      <4> QED
        BY <1>7, <4>1, <4>2
    <3>2. d + a \in 0 .. 2 * h - 1 /\ d + a = (2 * h) * 0 + (d + a)
      <4>1. k * (j + 1) <= k * (2 * g)
        <5>1. j + 1 \in Int /\ 2 * g \in Int /\ j + 1 <= 2 * g
          BY <1>2, <1>6, <2>1
        <5> QED
          BY <1>2, <5>1, Grows
      <4>2. k * (2 * g) = 2 * h
        BY <1>2, Z3
      <4> QED
        BY <1>2, <1>3, <1>5, <1>7, <2>3, <2>5, <3>1, <4>1, <4>2
    <3>3. (d + a) % (2 * h) = d + a
      BY <2>3, <3>2, ModIs
    <3>4. r = k * j
      BY <1>6, <2>1, <2>4, <2>5, <3>1, <3>3
    <3> QED
      BY <1>2, <1>5, <1>6, <1>7, <2>5, <3>4
  <2>6. CASE m + d >= k /\ j + 1 < 2 * g
    <3> DEFINE e == m + d - k
    <3>1. e \in Nat /\ e < k /\ d + a = k * (j + 1) + e
      BY <1>2, <1>3, <1>5, <1>6, <1>7, <2>3, <2>6
    <3>2. j + 1 \in Int /\ 0 <= j + 1
      BY <1>6, <2>1
    <3> HIDE DEF e
    <3>3. k * (j + 1) < 2 * h
      BY <1>8, <2>6, <3>2
    <3>4. k * (j + 1) + k <= 2 * h
      <4>1. k * (j + 2) <= k * (2 * g)
        <5>1. j + 2 \in Int /\ 2 * g \in Int /\ j + 2 <= 2 * g
          BY <1>2, <1>6, <2>6
        <5> QED
          BY <1>2, <5>1, Grows
      <4>2. k * (2 * g) = 2 * h /\ k * (j + 2) = k * (j + 1) + k
        BY <1>2, <1>6, Z3
      <4> QED
        BY <4>1, <4>2
    <3>5. d + a \in 0 .. 2 * h - 1 /\ d + a = (2 * h) * 0 + (d + a)
      BY <1>2, <1>3, <1>5, <1>7, <2>3, <3>1, <3>4
    <3>6. (d + a) % (2 * h) = d + a
      BY <2>3, <3>5, ModIs
    <3>7. r = k * (j + 1)
      BY <2>4, <2>6, <3>1, <3>2, <3>6
    <3> QED
      BY <1>2, <1>5, <1>6, <1>7, <2>6, <3>3, <3>7
  <2>7. CASE m + d >= k /\ j + 1 >= 2 * g
    <3> DEFINE e == m + d - k
    <3>1. j + 1 = 2 * g
      BY <1>2, <1>6, <2>1, <2>7
    <3>2. up = 2 * h
      <4>1. k * (2 * g) = 2 * h
        BY <1>2, Z3
      <4> QED
        BY <1>7, <3>1, <4>1
    <3>3. e \in Nat /\ e < k /\ d + a = (2 * h) * 1 + e /\ d + a \in Int
      BY <1>2, <1>3, <1>5, <1>6, <1>7, <2>3, <2>7, <3>2
    <3>4. k <= 2 * h
      <4>1. k * 1 <= k * (2 * g)
        <5>1. 2 * g \in Int /\ 1 <= 2 * g
          BY <1>2
        <5> QED
          BY <1>2, <5>1, Grows
      <4>2. k * (2 * g) = 2 * h
        BY <1>2, Z3
      <4> QED
        BY <1>2, <4>1, <4>2
    <3>5. e \in 0 .. 2 * h - 1
      BY <1>2, <3>3, <3>4
    <3> HIDE DEF e
    <3>6. (d + a) % (2 * h) = e
      BY <2>3, <3>3, <3>5, ModIs
    <3>7. k * 0 = 0 /\ 0 < 2 * g
      BY <1>2
    <3>8. (d + a) % (2 * h) = k * 0 + e
      BY <3>3, <3>6, <3>7
    <3>9. r = k * 0
      BY <2>4, <3>3, <3>7, <3>8
    <3> QED
      BY <1>2, <1>5, <1>6, <1>7, <2>7, <3>2, <3>7, <3>9
  <2>8. ~(up <= 2 * h - 1) => low # 0
    <3> SUFFICES ASSUME ~(up <= 2 * h - 1), low = 0 PROVE FALSE
      OBVIOUS
    <3>1. k <= h
      <4>1. k * 1 <= k * g
        BY <1>2, Grows
      <4>2. k * g = g * k
        BY <1>2, Z3
      <4> QED
        BY <1>2, <4>1, <4>2
    <3> QED
      BY <1>2, <1>7, <3>1
  <2> QED
    BY <1>2, <1>5, <1>6, <2>5, <2>6, <2>7, <2>8
<1>11. m \in 0 .. k - 1
  BY <1>2, <1>6
<1> DEFINE top == IF c.fractional THEN h - 1 ELSE 2 * h - 1
<1> HIDE DEF r
<1>12. /\ m + d < k => r = low
       /\ m + d >= k => r = IF up <= top THEN up ELSE IF c.fractional THEN low ELSE 0
       /\ ~(up <= top) /\ ~c.fractional => low # 0
  <2>1. CASE c.fractional
    BY <1>9, <2>1, Zenon
  <2>2. CASE ~c.fractional
    BY <1>10, <2>2, Zenon
  <2> QED
    BY <2>1, <2>2
<1>13. top = IF c.fractional THEN MaxValue(w) ELSE TwoTo[w] - 1
  <2>1. TwoTo[w] - 1 = 2 * h - 1 /\ MaxValue(w) = h - 1
    BY <1>2, <1>3
  <2> HIDE DEF w
  <2> QED
    BY <2>1, Zenon
<1>14. x \in Int
  BY <1>3
<1> HIDE DEF w, top
<1> QED
  BY <1>5, <1>11, <1>12, <1>13, <1>14, Zenon DEF w, k, d, n, x, m, low, up, r

\* How many random words have upper bits that carry into the bits above m
LEMMA CarryingWords ==
  ASSUME NEW b \in Nat, 1 <= b, b < 8, NEW m \in Nat, m < TwoTo[b]
  PROVE  Cardinality({random \in Words(8) : m + (random \div TwoTo[8 - b]) >= TwoTo[b]}) =
           m * TwoTo[8 - b]
<1> DEFINE k == TwoTo[b]
           n == TwoTo[8 - b]
           first == (k - m) * n
           S == {random \in Words(8) : m + (random \div n) >= k}
<1>1. k \in Nat /\ n \in Nat /\ n > 0 /\ k * n = 256 /\ m < k
  <2>1. 8 - b \in Nat /\ b + (8 - b) = 8
    OBVIOUS
  <2>2. TwoTo[b + (8 - b)] = TwoTo[b] * TwoTo[8 - b]
    BY <2>1, TwoToSum
  <2>3. TwoTo[b] \in Nat /\ TwoTo[8 - b] \in Nat /\ TwoTo[8 - b] > 0
    BY <2>1, TwoToPositive
  <2>4. TwoTo[8] = 256
    BY TwoToValues
  <2> QED
    BY <2>1, <2>2, <2>3, <2>4
<1>2. Words(8) = 0 .. 255
  BY TwoToValues DEF Words
<1> HIDE DEF k, n
<1>3. k - m \in Nat /\ first \in Int /\ first >= 0 /\ m * n \in Int /\ m * n >= 0
      /\ first = 256 - m * n
  <2>1. k - m \in Nat
    BY <1>1
  <2>2. first \in Nat /\ m * n \in Nat
    BY <1>1, <2>1
  <2>3. first = k * n - m * n
    BY <1>1, Z3
  <2> HIDE DEF first
  <2> QED
    BY <1>1, <2>1, <2>2, <2>3
<1>4. ASSUME NEW random \in 0 .. 255
      PROVE  m + (random \div n) >= k <=> random >= first
  <2> DEFINE q == random \div n
  <2>1. q \in Int /\ n * q <= random /\ random < n * (q + 1)
    <3>1. q \in Int /\ random % n \in 0 .. n - 1 /\ random = n * q + (random % n)
      BY <1>1, DivMod
    <3> HIDE DEF q
    <3>2. n * (q + 1) = n * q + n
      BY <1>1, <3>1, Z3
    <3> QED
      BY <1>1, <3>1, <3>2
  <2> HIDE DEF q
  <2>2. first = n * (k - m)
    BY <1>1, Z3
  <2>3. q >= k - m => random >= first
    <3> SUFFICES ASSUME q >= k - m PROVE random >= first
      OBVIOUS
    <3>1. n * (k - m) <= n * q
      BY <1>1, <1>3, <2>1, Grows
    <3> HIDE DEF first
    <3> QED
      BY <1>1, <1>3, <2>1, <2>2, <3>1
  <2>4. random >= first => q >= k - m
    <3> SUFFICES ASSUME random >= first PROVE q >= k - m
      OBVIOUS
    <3>1. n * (k - m) < n * (q + 1)
      <4> HIDE DEF first
      <4> QED
        BY <1>1, <1>3, <2>1, <2>2
    <3>2. q + 1 \in Int /\ k - m \in Int
      BY <1>3, <2>1
    <3>3. k - m < q + 1
      BY <1>1, <3>1, <3>2, GrowsBack
    <3> QED
      BY <1>3, <2>1, <3>3
  <2>5. m + q >= k <=> q >= k - m
    BY <1>1, <2>1
  <2> QED
    BY <2>3, <2>4, <2>5 DEF q
<1> HIDE DEF first
<1>5. S = first .. 255
  <2>1. S \subseteq first .. 255
    BY <1>2, <1>3, <1>4
  <2>2. first .. 255 \subseteq S
    BY <1>2, <1>3, <1>4
  <2> QED
    BY <2>1, <2>2
<1>6. Cardinality(first .. 255) = m * n
  <2>1. Cardinality(first .. 255) = IF first > 255 THEN 0 ELSE 255 - first + 1
    <3>1. first \in Int /\ 255 \in Int
      BY <1>3
    <3> QED
      BY <3>1, FS_Interval, Zenon
  <2> DEFINE p == m * n
  <2> HIDE DEF p
  <2>2. p \in Int /\ p >= 0 /\ first = 256 - p
    BY <1>3 DEF p
  <2>3. Cardinality(first .. 255) = p
    BY <2>1, <2>2
  <2> QED
    BY <2>3 DEF p
<1> QED
  BY <1>5, <1>6 DEF k, n

\* Rounding keeps the property.
LEMMA RoundFair == ASSUME Round PROVE RoundingIsFair'
<1>1. call'.function = "round"
  BY FunctionOf
<1> DEFINE c == call'.class
           a == call'.a
           b == call'.b
<1>2. /\ c \in Classes /\ a \in Words(c.width) /\ b \in 0 .. c.width
      /\ \A random \in RandomNumbers(c.width) :
           call'.result[random] = RoundStochastic(c, a, b, random)
  <2>1. PICK d \in Classes : \E e \in Firsts(d.width), lsb \in 0 .. d.width :
          Called([function |-> "round", class |-> d, a |-> e, b |-> lsb,
                  result |-> [random \in RandomNumbers(d.width) |->
                                RoundStochastic(d, e, lsb, random)]])
    BY DEF Round
  <2>2. PICK e \in Words(d.width), lsb \in 0 .. d.width :
          Called([function |-> "round", class |-> d, a |-> e, b |-> lsb,
                  result |-> [random \in RandomNumbers(d.width) |->
                                RoundStochastic(d, e, lsb, random)]])
    BY <2>1, ClassWidth, WordsCalled
  <2>3. /\ c = d /\ a = e /\ b = lsb
        /\ call'.result = [random \in RandomNumbers(d.width) |-> RoundStochastic(d, e, lsb, random)]
    BY <2>2 DEF Called
  <2> HIDE DEF c, a, b
  <2> QED
    BY <2>3
<1> HIDE DEF c, a, b
<1>3. c \in Classes /\ a \in Words(c.width) /\ b \in 0 .. c.width
  BY <1>2
<1> DEFINE w == c.width
           x == Number(c, a)
           low == x - (x % TwoTo[b])
           up == low + TwoTo[b]
           fits == up <= (IF c.fractional THEN MaxValue(w) ELSE TwoTo[w] - 1)
           result(random) == Number(c, call'.result[random])
           roundedUp == {random \in RandomNumbers(w) : result(random) # low}
<1>4. \A random \in RandomNumbers(w) : call'.result[random] = RoundStochastic(c, a, b, random)
  BY <1>2
<1>5. w \in {8, 16} /\ RandomNumbers(w) \subseteq Words(w) /\ b \in Nat
      /\ (w = 8 => RandomNumbers(w) = Words(8))
  BY <1>3, ClassWidth, WordsCalled DEF RandomNumbers, Firsts
<1>6. \A random \in RandomNumbers(w) : result(random) = Number(c, RoundStochastic(c, a, b, random))
  BY <1>4
<1> HIDE DEF result
<1>7. ASSUME b = 0 PROVE \A random \in RandomNumbers(w) : result(random) = x
  <2>1. \A random : RoundStochastic(c, a, b, random) = a
    BY <1>7 DEF RoundStochastic
  <2> QED
    BY <1>6, <2>1
<1>8. ASSUME b = w PROVE \A random \in RandomNumbers(w) : result(random) = 0
  <2>1. b # 0 /\ ~ b < w
    BY <1>5, <1>8
  <2>2. \A random : RoundStochastic(c, a, b, random) = 0
    BY <2>1, Zenon DEF RoundStochastic
  <2>3. Number(c, 0) = 0
    <3>1. TwoTo[w - 1] \in {128, 32768}
      BY <1>5, HalfRange
    <3>2. Value(w, 0) = 0
      BY <3>1 DEF Value
    <3> QED
      BY <3>2 DEF Number
  <2> QED
    BY <1>6, <2>2, <2>3
<1>9. ASSUME b \in 1 .. w - 1
      PROVE  /\ \A random \in roundedUp :
                  IF fits THEN result(random) = up ELSE ~c.fractional /\ result(random) = 0
             /\ w = 8 => Cardinality(roundedUp) =
                           IF ~fits /\ (c.fractional \/ low = 0) THEN 0
                           ELSE (x % TwoTo[b]) * TwoTo[w-b]
  <2> DEFINE k == TwoTo[b]
             m == x % k
             d(random) == random \div TwoTo[w - b]
  <2>1. 1 <= b /\ b < w /\ k \in Nat
    BY <1>5, <1>9, TwoToPositive
  <2>2. ASSUME NEW random \in RandomNumbers(w)
        PROVE  /\ x \in Int /\ d(random) \in Nat /\ m \in 0 .. k - 1
               /\ m + d(random) < k => result(random) = low
               /\ m + d(random) >= k =>
                    result(random) = IF fits THEN up ELSE IF c.fractional THEN low ELSE 0
               /\ ~fits /\ ~c.fractional => low # 0
    <3>1. random \in Words(w)
      BY <1>5
    <3>2. LET z   == Number(c, a)
              l   == z - (z % TwoTo[b])
              u   == l + TwoTo[b]
              f   == u <= (IF c.fractional THEN MaxValue(w) ELSE TwoTo[w] - 1)
              s   == Number(c, RoundStochastic(c, a, b, random))
          IN  /\ z \in Int /\ random \div TwoTo[w - b] \in Nat /\ z % TwoTo[b] \in 0 .. TwoTo[b] - 1
              /\ (z % TwoTo[b]) + random \div TwoTo[w - b] < TwoTo[b] => s = l
              /\ (z % TwoTo[b]) + random \div TwoTo[w - b] >= TwoTo[b] =>
                   s = IF f THEN u ELSE IF c.fractional THEN l ELSE 0
              /\ ~f /\ ~c.fractional => l # 0
      BY <1>3, <1>5, <2>1, <3>1, RoundedTo, Zenon
    <3> QED
      BY <1>6, <3>2, Zenon
  <2> HIDE DEF fits, x, m, d, low
  <2>3. ASSUME NEW random \in RandomNumbers(w)
        PROVE  /\ m + d(random) < k \/ m + d(random) >= k
               /\ ~(m + d(random) < k /\ m + d(random) >= k)
    BY <2>1, <2>2
  <2>4. x \in Int /\ m \in Nat /\ m < k /\ low \in Int /\ up = low + k /\ k > 0
    <3>1. x \in Int
      BY <1>3, <1>5, ValueOfWord, SignedWord DEF Number, x
    <3>2. k > 0
      BY <1>5, TwoToPositive
    <3>3. m \in 0 .. k - 1
      BY <2>1, <3>1, <3>2, DivMod DEF m
    <3>4. low = x - m
      BY DEF low, m
    <3> QED
      BY <2>1, <3>1, <3>2, <3>3, <3>4
  <2> HIDE DEF k, up
  <2>5. up # low
    BY <2>1, <2>4
  <2>6. ASSUME NEW random \in RandomNumbers(w), result(random) # low
        PROVE  IF fits THEN result(random) = up ELSE ~c.fractional /\ result(random) = 0
    <3>1. m + d(random) >= k
      BY <2>2, <2>3, <2>6, Zenon
    <3>2. result(random) = IF fits THEN up ELSE IF c.fractional THEN low ELSE 0
      BY <2>2, <3>1, Zenon
    <3> QED
      BY <2>6, <3>2, Zenon
  <2>7. ASSUME w = 8
        PROVE  Cardinality(roundedUp) = IF ~fits /\ (c.fractional \/ low = 0) THEN 0
                                        ELSE (x % TwoTo[b]) * TwoTo[w-b]
    <3>1. CASE ~fits /\ c.fractional
      <4>1. ASSUME NEW random \in RandomNumbers(w) PROVE result(random) = low
        <5>1. m + d(random) >= k => result(random) = low
          BY <2>2, <3>1, Zenon
        <5> QED
          BY <2>2, <2>3, <5>1, Zenon
      <4>2. roundedUp = {}
        BY <4>1, Zenon
      <4> QED
        BY <3>1, <4>2, FS_EmptySet, Zenon
    <3>2. CASE fits \/ ~c.fractional
      <4>1. ASSUME NEW random \in RandomNumbers(w)
            PROVE  result(random) # low <=> m + d(random) >= k
        <5>1. CASE fits
          BY <2>2, <2>3, <2>5, <5>1, Zenon
        <5>2. CASE ~fits
          <6>1. ~c.fractional /\ low # 0
            BY <2>2, <3>2, <5>2, Zenon
          <6>2. m + d(random) >= k => result(random) = 0
            BY <2>2, <5>2, <6>1, Zenon
          <6> QED
            BY <2>2, <2>3, <6>1, <6>2, Zenon
        <5> QED
          BY <5>1, <5>2, Zenon
      <4>2. roundedUp = {random \in Words(8) : m + d(random) >= k}
        BY <1>5, <2>7, <4>1, Zenon
      <4>3. Cardinality({random \in Words(8) : m + d(random) >= k}) = m * TwoTo[8 - b]
        <5>1. b < 8 /\ b \in Nat /\ 1 <= b
          BY <1>5, <2>1, <2>7
        <5> HIDE DEF w
        <5>3. \A random : d(random) = random \div TwoTo[8 - b]
          BY <2>7, Zenon DEF d
        <5>4. {random \in Words(8) : m + d(random) >= k} =
                {random \in Words(8) : m + (random \div TwoTo[8 - b]) >= TwoTo[b]}
          BY <5>3, Zenon DEF k
        <5>5. m < TwoTo[b] /\ m \in Nat
          BY <2>4 DEF k
        <5>6. Cardinality({random \in Words(8) : m + (random \div TwoTo[8 - b]) >= TwoTo[b]})
                = m * TwoTo[8 - b]
          BY <5>1, <5>5, CarryingWords
        <5> QED
          BY <5>4, <5>6, Zenon
      <4>4. ~(~fits /\ (c.fractional \/ low = 0))
        <5> SUFFICES ASSUME ~fits, low = 0 PROVE FALSE
          BY <3>2, Zenon
        <5>1. 0 \in RandomNumbers(w)
          BY <1>5, <2>7, TwoToValues DEF Words
        <5> QED
          BY <2>2, <3>2, <5>1, Zenon
      <4>5. m = x % TwoTo[b]
        BY Zenon DEF m, k
      <4> QED
        BY <2>7, <4>2, <4>3, <4>4, <4>5, Zenon
    <3> QED
      BY <3>1, <3>2, Zenon
  <2> QED
    BY <2>6, <2>7, Zenon
<1>10. /\ b = 0 => \A random \in RandomNumbers(w) : result(random) = x
       /\ b = w => \A random \in RandomNumbers(w) : result(random) = 0
       /\ b \in 1 .. w - 1 =>
            /\ \A random \in roundedUp :
                 IF fits THEN result(random) = up ELSE ~c.fractional /\ result(random) = 0
            /\ w = 8 => Cardinality(roundedUp) =
                          IF ~fits /\ (c.fractional \/ low = 0) THEN 0
                          ELSE (x % TwoTo[b]) * TwoTo[w-b]
  BY <1>7, <1>8, <1>9, Zenon
<1> QED
  BY <1>1, <1>10, Zenon DEF RoundingIsFair, IsCall, result, c, a, b

\* For every element, number of bits and random vector: stochastic rounding
\* (vector_round_stochastic.h:12) clears the lower bits and returns one of the two
\* nearest such numbers, also at the end of the range, and as many random numbers of 8
\* bits round up as the bits that are dropped say.
THEOREM RoundingInvariant == CallsSpec => []RoundingIsFair
<1>1. CallInit => RoundingIsFair
  BY NothingCalled DEF RoundingIsFair, IsCall
<1>2. RoundingIsFair /\ [CallsNext]_call => RoundingIsFair'
  <2> SUFFICES ASSUME RoundingIsFair, [CallsNext]_call PROVE RoundingIsFair'
    OBVIOUS
  <2>1. CASE UNCHANGED call
    BY <2>1 DEF RoundingIsFair, IsCall
  <2>2. CASE CallsNext
    <3>1. CASE IsCall("round")'
      BY <2>2, <3>1, WhichAction, RoundFair
    <3>2. CASE ~ IsCall("round")'
      BY <3>2, Zenon DEF RoundingIsFair, IsCall
    <3> QED
      BY <3>1, <3>2
  <2> QED
    BY <2>1, <2>2
<1> QED
  BY <1>1, <1>2, PTL DEF CallsSpec

-----------------------------------------------------------------------------
(* Addresses: numbers of bits that do not overlap. *)

\* Bit n of a number is that of the part it is in.
LEMMA BitBelow ==
  ASSUME NEW k \in Nat, NEW q \in Nat, NEW x \in Nat, x < TwoTo[k], NEW n \in Nat, n < k
  PROVE  Bit(TwoTo[k] * q + x, n) = Bit(x, n)
<1> DEFINE T == TwoTo[n]
           t == TwoTo[k - (n + 1)]
           y == x \div T
           r == x % T
<1>1. T \in Nat /\ T > 0 /\ t \in Nat /\ TwoTo[n + 1] = 2 * T /\ TwoTo[k] = (2 * T) * t
  <2>1. k - (n + 1) \in Nat /\ n + 1 \in Nat /\ (n + 1) + (k - (n + 1)) = k
    OBVIOUS
  <2>2. TwoTo[(n + 1) + (k - (n + 1))] = TwoTo[n + 1] * TwoTo[k - (n + 1)]
    BY <2>1, TwoToSum
  <2>3. TwoTo[n + 1] = 2 * TwoTo[n]
    BY TwoToDoubles
  <2>4. T \in Nat /\ T > 0 /\ t \in Nat
    BY <2>1, TwoToPositive
  <2> QED
    BY <2>1, <2>2, <2>3, <2>4
<1>2. y \in Int /\ r \in 0 .. T - 1 /\ x = T * y + r
  BY <1>1, DivMod
<1> HIDE DEF T, t, y, r
<1>3. TwoTo[k] * q + x = T * (2 * (t * q) + y) + r
  <2>1. ((2 * T) * t) * q = T * (2 * (t * q))
    BY <1>1, Z3
  <2>2. T * (2 * (t * q) + y) = T * (2 * (t * q)) + T * y
    BY <1>1, <1>2, Z3
  <2>3. T * (2 * (t * q)) \in Int /\ T * y \in Int
    BY <1>1, <1>2, Z3
  <2> QED
    BY <1>1, <1>2, <2>1, <2>2, <2>3
<1>4. t * q \in Int /\ 2 * (t * q) + y \in Int
  BY <1>1, <1>2, Z3
<1>5. TwoTo[k] * q + x \in Int
  BY <1>1, <1>2, <1>3, <1>4, Z3
<1>6. (TwoTo[k] * q + x) \div T = 2 * (t * q) + y
  BY <1>1, <1>2, <1>3, <1>4, <1>5, DivIs
<1>7. (2 * (t * q) + y) % 2 = y % 2
  BY <1>2, <1>4
<1> QED
  BY <1>6, <1>7 DEF Bit, T, y

\* The bits of a number made of a multiple of a power and a rest: those of the multiple
LEMMA BitAbove ==
  ASSUME NEW k \in Nat, NEW q \in Nat, NEW x \in Nat, x < TwoTo[k], NEW n \in Nat, n >= k
  PROVE  Bit(TwoTo[k] * q + x, n) = Bit(q, n - k)
<1> DEFINE T == TwoTo[k]
           t == TwoTo[n - k]
           y == q \div t
           r == q % t
<1>1. T \in Nat /\ T > 0 /\ t \in Nat /\ t > 0 /\ TwoTo[n] = T * t
  <2>1. n - k \in Nat /\ k + (n - k) = n
    OBVIOUS
  <2> QED
    <3>1. TwoTo[k + (n - k)] = TwoTo[k] * TwoTo[n - k]
      BY <2>1, TwoToSum
    <3>2. T \in Nat /\ T > 0 /\ t \in Nat /\ t > 0
      BY <2>1, TwoToPositive
    <3> QED
      BY <2>1, <3>1, <3>2
<1> HIDE DEF T, t
<1>2. y \in Int /\ r \in 0 .. t - 1 /\ q = t * y + r
  BY <1>1, DivMod
<1>3. x < T
  BY DEF T
<1> HIDE DEF y, r
<1>4. T * q + x = (T * t) * y + (T * r + x)
  <2>1. T * (t * y + r) = (T * t) * y + T * r
    BY <1>1, <1>2, Z3
  <2>2. T * q \in Int /\ (T * t) * y \in Int /\ T * r \in Int
    BY <1>1, <1>2, Z3
  <2> QED
    BY <1>2, <2>1, <2>2
<1>5. T * r + x \in 0 .. T * t - 1 /\ T * t \in Nat /\ T * t > 0 /\ T * q + x \in Int
  <2>1. T * r >= 0 /\ T * (r + 1) <= T * t /\ T * (r + 1) = T * r + T
    BY <1>1, <1>2, Z3
  <2>2. T * t \in Nat /\ T * t > 0 /\ T * q \in Int /\ T * r \in Int
    BY <1>1, <1>2, Z3
  <2> QED
    BY <1>1, <1>3, <2>1, <2>2
<1>6. (T * q + x) \div (T * t) = y
  BY <1>2, <1>4, <1>5, DivIs
<1> QED
  BY <1>1, <1>6 DEF Bit, T, t, y

\* The lower n + 1 bits of a number are bit n and the lower n bits.
LEMMA LowerBits ==
  ASSUME NEW v \in Nat, NEW n \in Nat
  PROVE  v % TwoTo[n + 1] = (v % TwoTo[n]) + (IF Bit(v, n) = 1 THEN TwoTo[n] ELSE 0)
<1> DEFINE T == TwoTo[n]
           y == v \div T
           r == v % T
           z == y \div 2
           b == y % 2
<1>1. T \in Nat /\ T > 0 /\ TwoTo[n + 1] = 2 * T
  BY TwoToPositive, TwoToDoubles
<1> HIDE DEF T
<1>2. y \in Int /\ r \in 0 .. T - 1 /\ v = T * y + r
  BY <1>1, DivMod
<1> HIDE DEF y, r
<1>3. z \in Int /\ b \in {0, 1} /\ y = 2 * z + b
  BY <1>2
<1> HIDE DEF z, b
<1>4. v = (2 * T) * z + (T * b + r)
  <2>1. T * (2 * z + b) = (2 * T) * z + T * b
    BY <1>1, <1>3, Z3
  <2>2. (2 * T) * z \in Int /\ T * b \in Int
    BY <1>1, <1>3, Z3
  <2> QED
    BY <1>2, <1>3, <2>1, <2>2
<1>5. T * b = (IF b = 1 THEN T ELSE 0)
  BY <1>1, <1>3
<1>6. T * b + r \in 0 .. 2 * T - 1
  BY <1>1, <1>2, <1>3, <1>5
<1>7. v % (2 * T) = T * b + r
  <2> DEFINE t == 2 * T
             u == T * b + r
  <2>1. t \in Nat /\ t > 0 /\ u \in 0 .. t - 1
    BY <1>1, <1>6
  <2>2. v = t * z + u
    BY <1>4
  <2> HIDE DEF t, u
  <2>3. v % t = u
    BY <1>3, <2>1, <2>2, ModIs
  <2> QED
    BY <2>3 DEF t, u
<1>8. Bit(v, n) = b
  BY DEF Bit, b, y, T
<1> QED
  BY <1>1, <1>2, <1>3, <1>5, <1>7, <1>8 DEF r, T

\* The number whose bits are those of a and of b, as far as the words go
LEMMA OrIs ==
  ASSUME NEW a, NEW b, NEW c \in Nat, c < TwoTo[AddressBits + 2],
         \A n \in 0 .. AddressBits + 1 : Bit(c, n) = 1 <=> Bit(a, n) = 1 \/ Bit(b, n) = 1
  PROVE  Or(a, b) = c
<1> DEFINE W == AddressBits + 2
           Bits(v, n) == IF n = 0 THEN 0
                         ELSE v[n - 1] + (IF Bit(a, n - 1) = 1 \/ Bit(b, n - 1) = 1
                                          THEN TwoTo[n - 1] ELSE 0)
           Is(v) == v = [n \in 0 .. W |-> Bits(v, n)]
           parts == [n \in 0 .. W |-> c % TwoTo[n]]
           lowest == CHOOSE v : Is(v)
<1>1. W \in Nat /\ AddressBits + 1 = W - 1
  BY GlobalAddressAssumption
<1> HIDE DEF W
<1>2. \A n \in Nat : TwoTo[n] \in Nat /\ TwoTo[n] > 0
  BY TwoToPositive
<1>3. TwoTo[0] = 1 /\ c % 1 = 0
  BY TwoToDoubles
<1>4. ASSUME NEW n \in 0 .. W, n # 0
      PROVE  c % TwoTo[n] = (c % TwoTo[n - 1]) + (IF Bit(a, n - 1) = 1 \/ Bit(b, n - 1) = 1
                                                  THEN TwoTo[n - 1] ELSE 0)
  <2>1. n - 1 \in Nat /\ (n - 1) + 1 = n /\ n - 1 \in 0 .. AddressBits + 1
    BY <1>1, <1>4
  <2>2. c % TwoTo[(n - 1) + 1] =
          (c % TwoTo[n - 1]) + (IF Bit(c, n - 1) = 1 THEN TwoTo[n - 1] ELSE 0)
    BY <2>1, LowerBits
  <2> QED
    BY <2>1, <2>2
<1>5. Is(parts)
  <2>1. ASSUME NEW n \in 0 .. W PROVE c % TwoTo[n] = Bits(parts, n)
    <3>1. CASE n = 0
      BY <1>3, <3>1
    <3>2. CASE n # 0
      <4>1. n - 1 \in 0 .. W
        BY <1>1, <3>2
      <4>2. parts[n - 1] = c % TwoTo[n - 1]
        BY <4>1
      <4> HIDE DEF parts
      <4> QED
        BY <1>4, <3>2, <4>2
    <3> QED
      BY <3>1, <3>2
  <2> HIDE DEF Bits
  <2> QED
    BY <2>1
<1>6. Is(lowest)
  <2> HIDE DEF Is, parts
  <2> QED
    BY <1>5
<1>7. Or(a, b) = lowest[W]
  BY DEF Or, W
<1> HIDE DEF lowest
<1> DEFINE S == {n \in Nat : n <= W => lowest[n] = c % TwoTo[n]}
<1>8. 0 \in S
  <2>1. 0 \in 0 .. W
    BY <1>1
  <2> QED
    BY <1>3, <1>6, <2>1
<1>9. ASSUME NEW n \in Nat, n \in S PROVE n + 1 \in S
  <2> SUFFICES ASSUME n + 1 <= W PROVE lowest[n + 1] = c % TwoTo[n + 1]
    OBVIOUS
  <2>1. n + 1 \in 0 .. W /\ n + 1 # 0 /\ (n + 1) - 1 = n
    BY <1>1
  <2>2. lowest[n] = c % TwoTo[n]
    BY <1>1, <1>9
  <2>3. lowest[n + 1] = Bits(lowest, n + 1)
    BY <1>6, <2>1
  <2>4. c % TwoTo[n + 1] = (c % TwoTo[n]) + (IF Bit(a, n) = 1 \/ Bit(b, n) = 1 THEN TwoTo[n] ELSE 0)
    BY <1>4, <2>1
  <2> QED
    BY <2>1, <2>2, <2>3, <2>4
<1> HIDE DEF S
<1>10. W \in S
  BY <1>1, <1>8, <1>9, Induction
<1>11. c % TwoTo[W] = c
  <2>1. TwoTo[W] \in Nat /\ TwoTo[W] > 0 /\ c < TwoTo[W]
    BY <1>1, <1>2 DEF W
  <2>2. c = TwoTo[W] * 0 + c /\ c \in 0 .. TwoTo[W] - 1
    BY <2>1
  <2> QED
    BY <2>1, <2>2, ModIs
<1> QED
  BY <1>1, <1>7, <1>10, <1>11 DEF S

\* The or of a number that ends with k zeros and one that fits below them, which
\* may have the lowest bit above them as well if the other one has it too
LEMMA OrParts ==
  ASSUME NEW k \in Nat, NEW q \in Nat, NEW x \in Nat, x < TwoTo[k],
         TwoTo[k] * q + x < TwoTo[AddressBits + 2],
         NEW y \in {0, 1}, y = 1 => q % 2 = 1
  PROVE  /\ Or(TwoTo[k] * y + x, TwoTo[k] * q) = TwoTo[k] * q + x
         /\ Or(TwoTo[k] * q, TwoTo[k] * y + x) = TwoTo[k] * q + x
<1> DEFINE a == TwoTo[k] * y + x
           b == TwoTo[k] * q
           c == TwoTo[k] * q + x
<1>1. TwoTo[k] \in Nat /\ TwoTo[k] > 0
  BY TwoToPositive
<1>2. c \in Nat /\ b = TwoTo[k] * q + 0
  <2>1. TwoTo[k] * q \in Nat
    BY <1>1, Z3
  <2> QED
    BY <2>1
<1>3. ASSUME NEW n \in 0 .. AddressBits + 1
      PROVE  Bit(c, n) = 1 <=> Bit(a, n) = 1 \/ Bit(b, n) = 1
  <2>1. n \in Nat /\ y \in Nat
    BY GlobalAddressAssumption
  <2>2. CASE n < k
    <3>1. Bit(c, n) = Bit(x, n) /\ Bit(a, n) = Bit(x, n)
      BY <2>1, <2>2, BitBelow
    <3>2. Bit(b, n) = Bit(0, n)
      BY <1>1, <1>2, <2>1, <2>2, BitBelow
    <3>3. Bit(0, n) = 0
      <4>1. TwoTo[n] \in Nat /\ TwoTo[n] > 0
        BY <2>1, TwoToPositive
      <4>2. 0 \div TwoTo[n] = 0
        BY <4>1, DivMod, NoMultiple
      <4> QED
        BY <4>2 DEF Bit
    <3> HIDE DEF a, b, c
    <3> QED
      BY <3>1, <3>2, <3>3
  <2>3. CASE n >= k
    <3>1. Bit(c, n) = Bit(q, n - k) /\ Bit(a, n) = Bit(y, n - k)
      BY <2>1, <2>3, BitAbove
    <3>2. Bit(b, n) = Bit(q, n - k)
      BY <1>1, <1>2, <2>1, <2>3, BitAbove
    <3>3. Bit(y, n - k) = 1 => Bit(q, n - k) = 1
      <4>1. n - k \in Nat /\ TwoTo[n - k] \in Nat /\ TwoTo[n - k] > 0
        BY <2>1, <2>3, TwoToPositive
      <4>2. CASE y < TwoTo[n - k]
        <5>1. y = TwoTo[n - k] * 0 + y /\ y \in 0 .. TwoTo[n - k] - 1
          BY <2>1, <4>1, <4>2
        <5>2. y \div TwoTo[n - k] = 0
          BY <2>1, <4>1, <5>1, DivIs
        <5> QED
          BY <5>2 DEF Bit
      <4>3. CASE y >= TwoTo[n - k]
        <5>1. TwoTo[n - k] = 1 /\ y = 1
          BY <4>1, <4>3
        <5>2. q \div 1 = q
          OBVIOUS
        <5> QED
          BY <5>1, <5>2 DEF Bit
      <4> QED
        BY <4>1, <4>2, <4>3
    <3> HIDE DEF a, b, c
    <3> QED
      BY <3>1, <3>2, <3>3
  <2> QED
    BY <2>1, <2>2, <2>3
<1>4. c < TwoTo[AddressBits + 2]
  OBVIOUS
<1> HIDE DEF a, b, c
<1>5. Or(a, b) = c /\ Or(b, a) = c
  BY <1>2, <1>3, <1>4, OrIs
<1> QED
  BY <1>5 DEF a, b, c

\* How the sizes of the memories and the places of the bits compare
LEMMA Sizes ==
  LET s == TwoTo[SramBits]
      e == TwoTo[ExtMemBits]
      p == TwoTo[PpuBit - 2]
      d == TwoTo[DramBits - 2]
      h == TwoTo[AddressBits - 2]
  IN  /\ s \in Nat /\ e \in Nat /\ p \in Nat /\ d \in Nat /\ h \in Nat
      /\ 8 <= s /\ 2 * s <= e /\ 2 * e <= p /\ 2 * p <= d /\ 32 * d <= h
      /\ TwoTo[SramBits + 2] = 4 * s
      /\ TwoTo[PpuBit - 1] = 2 * p /\ TwoTo[PpuBit] = 4 * p
      /\ TwoTo[DramBits] = 4 * d /\ TwoTo[DramBits + 2] = 16 * d
      /\ TwoTo[AddressBits - 1] = 2 * h /\ TwoTo[AddressBits] = 4 * h
      /\ TwoTo[AddressBits + 2] = 16 * h
<1> DEFINE S == SramBits
           E == ExtMemBits
           P == PpuBit - 2
           D == DramBits - 2
           H == AddressBits - 2
<1>1. /\ S \in Nat /\ E \in Nat /\ P \in Nat /\ D \in Nat /\ H \in Nat
      /\ 3 <= S /\ S < E /\ E < P /\ P < D /\ D + 5 <= H
      /\ PpuBit - 1 = P + 1 /\ PpuBit = P + 2 /\ DramBits = D + 2
      /\ AddressBits - 1 = H + 1 /\ AddressBits = H + 2
  BY GlobalAddressAssumption
<1>2. \A n \in Nat : /\ TwoTo[n + 1] = 2 * TwoTo[n] /\ TwoTo[n + 2] = 4 * TwoTo[n]
                     /\ TwoTo[n + 4] = 16 * TwoTo[n] /\ TwoTo[n + 5] = 32 * TwoTo[n]
  <2> SUFFICES ASSUME NEW n \in Nat
               PROVE  /\ TwoTo[n + 1] = 2 * TwoTo[n] /\ TwoTo[n + 2] = 4 * TwoTo[n]
                      /\ TwoTo[n + 4] = 16 * TwoTo[n] /\ TwoTo[n + 5] = 32 * TwoTo[n]
    OBVIOUS
  <2>1. /\ TwoTo[n + 1] = TwoTo[n] * TwoTo[1] /\ TwoTo[n + 2] = TwoTo[n] * TwoTo[2]
        /\ TwoTo[n + 4] = TwoTo[n] * TwoTo[4] /\ TwoTo[n + 5] = TwoTo[n] * TwoTo[5]
    BY TwoToSum
  <2> QED
    BY <2>1, TwoToValues, TwoToPositive
<1>3. /\ TwoTo[3] <= TwoTo[S] /\ 2 * TwoTo[S] <= TwoTo[E] /\ 2 * TwoTo[E] <= TwoTo[P]
      /\ 2 * TwoTo[P] <= TwoTo[D] /\ TwoTo[D + 5] <= TwoTo[H]
  BY <1>1, TwoToGrows
<1>4. /\ TwoTo[S] \in Nat /\ TwoTo[E] \in Nat /\ TwoTo[P] \in Nat /\ TwoTo[D] \in Nat
      /\ TwoTo[H] \in Nat
  BY <1>1, TwoToPositive
<1>5. /\ AddressBits + 2 = H + 4 /\ DramBits + 2 = D + 4
  BY <1>1
<1>6. /\ TwoTo[S + 2] = 4 * TwoTo[S] /\ TwoTo[P + 1] = 2 * TwoTo[P] /\ TwoTo[P + 2] = 4 * TwoTo[P]
      /\ TwoTo[D + 2] = 4 * TwoTo[D] /\ TwoTo[D + 4] = 16 * TwoTo[D] /\ TwoTo[D + 5] = 32 * TwoTo[D]
      /\ TwoTo[H + 1] = 2 * TwoTo[H] /\ TwoTo[H + 2] = 4 * TwoTo[H] /\ TwoTo[H + 4] = 16 * TwoTo[H]
  BY <1>1, <1>2
<1>7. TwoTo[3] = 8
  BY TwoToValues
<1>8. /\ TwoTo[PpuBit - 1] = TwoTo[P + 1] /\ TwoTo[PpuBit] = TwoTo[P + 2]
      /\ TwoTo[DramBits] = TwoTo[D + 2] /\ TwoTo[DramBits + 2] = TwoTo[D + 4]
      /\ TwoTo[AddressBits - 1] = TwoTo[H + 1] /\ TwoTo[AddressBits] = TwoTo[H + 2]
      /\ TwoTo[AddressBits + 2] = TwoTo[H + 4]
  BY <1>1, <1>5
<1> HIDE DEF S, E, P, D, H
<1> QED
  BY <1>3, <1>4, <1>6, <1>7, <1>8 DEF S, E, P, D, H

\* The word a memory begins at
Base(memory) == CASE memory = "top" -> sram_top [] memory = "bottom" -> sram_bot
                  [] memory = "extmem" -> extmem [] memory = "dram" -> extmem_dram

\* Where the memories begin and how large they are
LEMMA Bases ==
  LET s == TwoTo[SramBits]
      e == TwoTo[ExtMemBits]
      p == TwoTo[PpuBit - 2]
      d == TwoTo[DramBits - 2]
      h == TwoTo[AddressBits - 2]
  IN  /\ sram_top = 5 * p /\ sram_bot = 7 * p /\ extmem = 2 * h /\ extmem_dram = 2 * h + 4 * d
      /\ Base("top") = 5 * p /\ Base("bottom") = 7 * p
      /\ Base("extmem") = 2 * h /\ Base("dram") = 2 * h + 4 * d
      /\ MemorySize("top") = 4 * s /\ MemorySize("bottom") = 4 * s
      /\ MemorySize("extmem") = 4 * e /\ MemorySize("dram") = 16 * d
      /\ sram_size = s /\ extmem_size = e /\ extmem_dram_size = 4 * d
<1>1. /\ "top" \in Ppus /\ "bottom" \in Ppus /\ "extmem" \notin Ppus /\ "dram" \notin Ppus
  BY DEF Ppus
<1>2. /\ sram_size = TwoTo[SramBits] /\ extmem_size = TwoTo[ExtMemBits]
      /\ extmem_dram_size = TwoTo[DramBits]
  BY DEF sram_size, extmem_size, extmem_dram_size
<1>3. /\ Base("top") = sram_top /\ Base("bottom") = sram_bot
      /\ Base("extmem") = extmem /\ Base("dram") = extmem_dram
  BY DEF Base
<1>4. /\ MemorySize("top") = 4 * sram_size /\ MemorySize("bottom") = 4 * sram_size
      /\ MemorySize("extmem") = 4 * extmem_size /\ MemorySize("dram") = 4 * extmem_dram_size
  BY <1>1 DEF MemorySize
<1>5. /\ sram_top = 5 * TwoTo[PpuBit - 2] /\ sram_bot = 7 * TwoTo[PpuBit - 2]
      /\ extmem = 2 * TwoTo[AddressBits - 2]
      /\ extmem_dram = 2 * TwoTo[AddressBits - 2] + 4 * TwoTo[DramBits - 2]
  BY Sizes DEF sram_top, sram_bot, extmem, extmem_dram
<1> QED
  BY <1>2, <1>3, <1>4, <1>5, Sizes

\* The or of two parts that do not overlap
LEMMA OrApart ==
  ASSUME NEW k \in Nat, NEW q \in Nat, NEW x \in Nat, x < TwoTo[k],
         TwoTo[k] * q + x < TwoTo[AddressBits + 2]
  PROVE  /\ Or(x, TwoTo[k] * q) = TwoTo[k] * q + x
         /\ Or(TwoTo[k] * q, x) = TwoTo[k] * q + x
<1>1. TwoTo[k] * 0 + x = x
  BY TwoToPositive
<1>2. /\ Or(TwoTo[k] * 0 + x, TwoTo[k] * q) = TwoTo[k] * q + x
      /\ Or(TwoTo[k] * q, TwoTo[k] * 0 + x) = TwoTo[k] * q + x
  BY OrParts
<1> QED
  BY <1>1, <1>2

\* A base is a multiple of a power of two that is not smaller than the memory.
LEMMA BaseAligned ==
  ASSUME NEW memory \in Memories
  PROVE  \E k, q \in Nat : Base(memory) = TwoTo[k] * q /\ MemorySize(memory) <= 4 * TwoTo[k]
<1>1. CASE memory \in {"top", "bottom"}
  <2>1. PpuBit - 2 \in Nat
    BY GlobalAddressAssumption
  <2>2. \E q \in {5, 7} : Base(memory) = TwoTo[PpuBit - 2] * q
    BY <1>1, Bases, Sizes
  <2>3. MemorySize(memory) <= 4 * TwoTo[PpuBit - 2]
    BY <1>1, Bases, Sizes
  <2>4. \A q \in {5, 7} : q \in Nat
    OBVIOUS
  <2> QED
    BY <2>1, <2>2, <2>3, <2>4
<1>2. CASE memory = "extmem"
  <2>1. AddressBits - 1 \in Nat
    BY GlobalAddressAssumption
  <2>2. /\ Base(memory) = TwoTo[AddressBits - 1] * 1
        /\ MemorySize(memory) <= 4 * TwoTo[AddressBits - 1]
    BY <1>2, Bases, Sizes
  <2> QED
    BY <2>1, <2>2
<1>3. CASE memory = "dram"
  <2> DEFINE j == AddressBits - 1 - DramBits
  <2>1. DramBits \in Nat /\ j \in Nat /\ DramBits + j = AddressBits - 1
    BY GlobalAddressAssumption
  <2> HIDE DEF j
  <2>2. TwoTo[AddressBits - 1] = TwoTo[DramBits] * TwoTo[j]
    BY <2>1, TwoToSum
  <2>3. TwoTo[DramBits] \in Nat /\ TwoTo[j] \in Nat
    BY <2>1, TwoToPositive
  <2>4. TwoTo[DramBits] * (TwoTo[j] + 1) = TwoTo[DramBits] * TwoTo[j] + TwoTo[DramBits]
    BY <2>3, Z3
  <2>5. Base(memory) = TwoTo[AddressBits - 1] + TwoTo[DramBits]
    BY <1>3 DEF Base, extmem, extmem_dram
  <2>6. MemorySize(memory) <= 4 * TwoTo[DramBits]
    BY <1>3, Bases, Sizes
  <2>7. TwoTo[j] + 1 \in Nat
    BY <2>3
  <2> QED
    BY <2>1, <2>2, <2>4, <2>5, <2>6, <2>7
<1> QED
  BY <1>1, <1>2, <1>3 DEF Memories

\* The end of a memory is below that of all addresses.
LEMMA BaseFits ==
  ASSUME NEW memory \in Memories
  PROVE  /\ Base(memory) \in Nat /\ MemorySize(memory) \in Nat
         /\ \A bytes \in Nat : bytes < MemorySize(memory) =>
               Base(memory) + bytes \div 4 < TwoTo[AddressBits]
         /\ MemorySize(memory) < TwoTo[AddressBits]
         /\ TwoTo[AddressBits] \in Nat /\ TwoTo[AddressBits] >= 256
         /\ TwoTo[AddressBits + 2] = 4 * TwoTo[AddressBits]
<1> DEFINE s == TwoTo[SramBits]
           e == TwoTo[ExtMemBits]
           p == TwoTo[PpuBit - 2]
           d == TwoTo[DramBits - 2]
           h == TwoTo[AddressBits - 2]
           b == Base(memory)
           m == MemorySize(memory)
           a == TwoTo[AddressBits]
<1>1. /\ s \in Nat /\ e \in Nat /\ p \in Nat /\ d \in Nat /\ h \in Nat
      /\ 8 <= s /\ 2 * s <= e /\ 2 * e <= p /\ 2 * p <= d /\ 32 * d <= h
      /\ a = 4 * h /\ TwoTo[AddressBits + 2] = 16 * h
  BY Sizes
<1>2. \/ b = 5 * p /\ m = 4 * s
      \/ b = 7 * p /\ m = 4 * s
      \/ b = 2 * h /\ m = 4 * e
      \/ b = 2 * h + 4 * d /\ m = 16 * d
  BY Bases DEF Memories
<1> HIDE DEF s, e, p, d, h, b, m, a
<1> QED
  BY <1>1, <1>2 DEF b, m, a

\* from_relative(): the base and the offset stay what they are.
LEMMA FromRelative ==
  ASSUME NEW memory \in Memories, NEW bytes \in Nat, bytes < MemorySize(memory)
  PROVE  from_relative(memory, bytes) =
           [addr |-> Base(memory) + bytes \div 4, offset |-> bytes % 4]
<1>1. from_relative(memory, bytes) = Relative(Base(memory), bytes)
  BY DEF from_relative, Base, Memories
<1>2. PICK k \in Nat, q \in Nat :
        Base(memory) = TwoTo[k] * q /\ MemorySize(memory) <= 4 * TwoTo[k]
  BY BaseAligned
<1>3. /\ Base(memory) \in Nat /\ MemorySize(memory) \in Nat
      /\ Base(memory) + bytes \div 4 < TwoTo[AddressBits]
      /\ TwoTo[AddressBits] \in Nat /\ TwoTo[AddressBits + 2] = 4 * TwoTo[AddressBits]
  BY BaseFits
<1>4. TwoTo[k] \in Nat
  BY TwoToPositive
<1>5. bytes \div 4 \in Nat /\ bytes \div 4 < TwoTo[k]
  BY <1>2, <1>3, <1>4
<1>6. TwoTo[k] * q + bytes \div 4 < TwoTo[AddressBits + 2]
  BY <1>2, <1>3, <1>5
<1>7. Or(bytes \div 4, TwoTo[k] * q) = TwoTo[k] * q + bytes \div 4
  BY <1>5, <1>6, OrApart
<1> QED
  BY <1>1, <1>2, <1>7 DEF Relative

\* A number that fits is not wrapped.
LEMMA Fits == ASSUME NEW v \in Nat, v < TwoTo[AddressBits] PROVE Wrapped(v) = v
<1>1. TwoTo[AddressBits] \in Nat /\ TwoTo[AddressBits] > 0
  BY GlobalAddressAssumption, TwoToPositive
<1>2. v = TwoTo[AddressBits] * 0 + v /\ v \in 0 .. TwoTo[AddressBits] - 1
  BY <1>1
<1> QED
  BY <1>1, <1>2, ModIs DEF Wrapped

\* The address of a byte of a memory
Place4(memory, bytes) == [addr |-> Base(memory) + bytes \div 4, offset |-> bytes % 4]

\* Bytes that are added carry into the word's address.
LEMMA Added ==
  ASSUME NEW memory \in Memories, NEW bytes \in Nat, NEW sum \in Nat,
         bytes + sum < MemorySize(memory)
  PROVE  /\ PlusBytes(from_relative(memory, bytes), sum) = Place4(memory, bytes + sum)
         /\ Plus2(from_relative(memory, bytes), from_global(0, sum)) = Place4(memory, bytes + sum)
         /\ from_global(Base(memory), bytes + sum) = Place4(memory, bytes + sum)
<1> DEFINE b == Base(memory)
           T == TwoTo[AddressBits]
           r == bytes % 4
<1>1. /\ b \in Nat /\ MemorySize(memory) \in Nat /\ T \in Nat
      /\ b + (bytes + sum) \div 4 < T /\ MemorySize(memory) < T /\ T >= 256
  BY BaseFits
<1>2. from_relative(memory, bytes) = [addr |-> b + bytes \div 4, offset |-> r]
  BY <1>1, FromRelative
<1> DEFINE x == bytes \div 4
           y == sum \div 4
           q == sum % 4
<1>3. /\ r \in 0 .. 3 /\ x \in Nat /\ bytes = 4 * x + r
      /\ q \in 0 .. 3 /\ y \in Nat /\ sum = 4 * y + q
  OBVIOUS
<1> HIDE DEF b, T, x, y, q, r
<1>4. /\ (bytes + sum) \div 4 = x + (r + sum) \div 4
      /\ (bytes + sum) \div 4 = x + y + (r + q) \div 4
      /\ (bytes + sum) % 4 = (r + sum) % 4
      /\ (bytes + sum) % 4 = (r + q) % 4
  BY <1>3
<1>5. Wrapped(b + (bytes + sum) \div 4) = b + (bytes + sum) \div 4
  BY <1>1, Fits DEF T
<1>6. PlusBytes(from_relative(memory, bytes), sum) = Place4(memory, bytes + sum)
  <2>1. Wrapped(r + sum) = r + sum
    <3>1. r + sum \in Nat /\ r + sum < T
      BY <1>1, <1>3
    <3> QED
      BY <3>1, Fits DEF T
  <2> DEFINE A == from_relative(memory, bytes)
  <2>2. A.addr = b + x /\ A.offset = r
    BY <1>2 DEF x
  <2> HIDE DEF A
  <2>3. PlusBytes(A, sum) = [addr |-> Wrapped((b + x) + (r + sum) \div 4), offset |-> (r + sum) % 4]
    BY <1>1, <1>3, <2>1, <2>2 DEF PlusBytes
  <2>4. (b + x) + (r + sum) \div 4 = b + (bytes + sum) \div 4
    BY <1>1, <1>3, <1>4
  <2> QED
    BY <1>4, <1>5, <2>3, <2>4 DEF Place4, b, A
<1>7. Plus2(from_relative(memory, bytes), from_global(0, sum)) = Place4(memory, bytes + sum)
  <2>1. Wrapped(0 + y) = y
    <3>1. 0 + y \in Nat /\ 0 + y < T /\ 0 + y = y
      BY <1>1, <1>3
    <3> QED
      BY <3>1, Fits DEF T
  <2> DEFINE A == from_relative(memory, bytes)
             B == from_global(0, sum)
  <2>2. A.addr = b + x /\ A.offset = r
    BY <1>2 DEF x
  <2>3. B.addr = y /\ B.offset = q
    BY <2>1 DEF from_global, y, q
  <2> HIDE DEF A, B
  <2>4. Plus2(A, B) = [addr |-> Wrapped((b + x) + y + (r + q) \div 4), offset |-> (r + q) % 4]
    BY <1>1, <1>3, <2>2, <2>3 DEF Plus2
  <2>5. (b + x) + y + (r + q) \div 4 = b + (bytes + sum) \div 4
    BY <1>1, <1>3, <1>4
  <2> QED
    BY <1>4, <1>5, <2>4, <2>5 DEF Place4, b, A, B
<1>8. from_global(Base(memory), bytes + sum) = Place4(memory, bytes + sum)
  BY <1>5 DEF from_global, Place4, b
<1> QED
  BY <1>6, <1>7, <1>8

\* A word's address and the byte in it make the address of a byte.
LEMMA OrOffset ==
  ASSUME NEW v \in Nat, NEW r \in 0 .. 3, 4 * v + r < TwoTo[AddressBits + 2]
  PROVE  Or(4 * v, r) = 4 * v + r
<1>1. TwoTo[2] = 4
  BY TwoToValues
<1>2. r \in Nat /\ 2 \in Nat /\ r < TwoTo[2] /\ TwoTo[2] * v + r < TwoTo[AddressBits + 2]
  BY <1>1
<1>3. Or(TwoTo[2] * v, r) = TwoTo[2] * v + r
  BY <1>2, OrApart
<1> QED
  BY <1>1, <1>3

\* The address for the omnibus is that of the byte.
LEMMA GlobalPlace ==
  ASSUME NEW memory \in Memories, NEW bytes \in Nat, bytes < MemorySize(memory)
  PROVE  to_global_omnibus_byte(Place4(memory, bytes)) = 4 * Base(memory) + bytes
<1> DEFINE v == Base(memory) + bytes \div 4
           r == bytes % 4
<1>1. /\ v \in Nat /\ v < TwoTo[AddressBits] /\ TwoTo[AddressBits] \in Nat
      /\ TwoTo[AddressBits + 2] = 4 * TwoTo[AddressBits]
      /\ Base(memory) \in Nat
  BY BaseFits
<1>2. r \in 0 .. 3 /\ 4 * v + r = 4 * Base(memory) + bytes
  BY <1>1
<1>3. to_global_omnibus_byte(Place4(memory, bytes)) = Or(4 * v, r)
  BY DEF to_global_omnibus_byte, Place4
<1> HIDE DEF v, r
<1>4. 4 * v + r < TwoTo[AddressBits + 2]
  BY <1>1, <1>2
<1> QED
  BY <1>1, <1>2, <1>3, <1>4, OrOffset

\* The pointers that SRAM and ExtMemBase keep: what is above the bits of a byte
\* address is dropped.
LEMMA Pointers ==
  ASSUME NEW memory \in Memories, NEW bytes \in Nat, bytes < MemorySize(memory)
  PROVE  Pointer(Place4(memory, bytes)) =
           CASE memory \in Ppus -> 4 * Base(memory) + bytes
             [] memory = "extmem" -> bytes
             [] memory = "dram" -> TwoTo[DramBits + 2] + bytes
<1> DEFINE s == TwoTo[SramBits]
           e == TwoTo[ExtMemBits]
           p == TwoTo[PpuBit - 2]
           d == TwoTo[DramBits - 2]
           h == TwoTo[AddressBits - 2]
           b == Base(memory)
           x == bytes \div 4
           r == bytes % 4
           low == CASE memory \in Ppus -> b [] memory = "extmem" -> 0 [] memory = "dram" -> 4 * d
<1>1. /\ s \in Nat /\ e \in Nat /\ p \in Nat /\ d \in Nat /\ h \in Nat
      /\ 8 <= s /\ 2 * s <= e /\ 2 * e <= p /\ 2 * p <= d /\ 32 * d <= h
      /\ TwoTo[AddressBits] = 4 * h /\ TwoTo[AddressBits + 2] = 16 * h
      /\ TwoTo[DramBits + 2] = 16 * d
  BY Sizes
<1>2. \/ memory \in Ppus /\ b \in {5 * p, 7 * p} /\ MemorySize(memory) = 4 * s
      \/ memory = "extmem" /\ b = 2 * h /\ MemorySize(memory) = 4 * e
      \/ memory = "dram" /\ b = 2 * h + 4 * d /\ MemorySize(memory) = 16 * d
  BY Bases DEF Memories, Ppus
<1>3. "extmem" \notin Ppus /\ "dram" \notin Ppus
  BY DEF Ppus
<1>4. x \in Nat /\ r \in 0 .. 3 /\ bytes = 4 * x + r
  OBVIOUS
<1>5. Pointer(Place4(memory, bytes)) = Or(Wrapped(4 * (b + x)), r)
  BY DEF Pointer, Place4
<1>6. /\ low \in Nat /\ 4 * (low + x) \in 0 .. 4 * h - 4
      /\ \E k \in {0, 2} : 4 * (b + x) = (4 * h) * k + 4 * (low + x)
  <2> HIDE DEF s, e, p, d, h, b, x, r
  <2>1. CASE memory \in Ppus
    <3>1. low = b /\ b \in {5 * p, 7 * p} /\ bytes < 4 * s
      BY <1>2, <1>3, <2>1
    <3> HIDE DEF low
    <3>2. 4 * (b + x) = (4 * h) * 0 + 4 * (low + x)
      BY <1>1, <1>4, <3>1
    <3> QED
      BY <1>1, <1>4, <3>1, <3>2
  <2>2. CASE memory = "extmem"
    <3>1. low = 0 /\ b = 2 * h /\ bytes < 4 * e
      BY <1>2, <1>3, <2>2
    <3> HIDE DEF low
    <3>2. 4 * (b + x) = (4 * h) * 2 + 4 * (low + x)
      BY <1>1, <1>4, <3>1
    <3> QED
      BY <1>1, <1>4, <3>1, <3>2
  <2>3. CASE memory = "dram"
    <3>1. low = 4 * d /\ b = 2 * h + 4 * d /\ bytes < 16 * d
      BY <1>2, <1>3, <2>3
    <3> HIDE DEF low
    <3>2. 4 * (b + x) = (4 * h) * 2 + 4 * (low + x)
      BY <1>1, <1>4, <3>1
    <3> QED
      BY <1>1, <1>4, <3>1, <3>2
  <2> QED
    BY <1>2, <2>1, <2>2, <2>3
<1>7. b \in Nat
  BY BaseFits
<1>8. low = (CASE memory \in Ppus -> b [] memory = "extmem" -> 0 [] memory = "dram" -> 4 * d)
  OBVIOUS
<1> HIDE DEF s, e, p, d, h, b, x, r, low
<1>9. Wrapped(4 * (b + x)) = 4 * (low + x)
  <2>1. 4 * h \in Nat /\ 4 * h > 0 /\ 4 * (b + x) \in Int
    BY <1>1, <1>4, <1>7
  <2>2. PICK k \in {0, 2} : 4 * (b + x) = (4 * h) * k + 4 * (low + x)
    BY <1>6
  <2>3. k \in Int /\ 4 * (low + x) \in 0 .. 4 * h - 1
    BY <1>1, <1>6
  <2>4. (4 * (b + x)) % (4 * h) = 4 * (low + x)
    BY <2>1, <2>2, <2>3, ModIs
  <2> QED
    BY <1>1, <2>4 DEF Wrapped
<1>10. Or(4 * (low + x), r) = 4 * low + bytes
  <2>1. low + x \in Nat /\ 4 * (low + x) + r < TwoTo[AddressBits + 2]
    BY <1>1, <1>4, <1>6
  <2>2. Or(4 * (low + x), r) = 4 * (low + x) + r
    BY <1>4, <2>1, OrOffset
  <2> QED
    BY <1>4, <1>6, <2>2
<1>11. Pointer(Place4(memory, bytes)) = 4 * low + bytes
  BY <1>5, <1>9, <1>10
<1>12. CASE memory \in Ppus
  <2>1. low = b
    BY <1>3, <1>8, <1>12
  <2> QED
    BY <1>3, <1>11, <1>12, <2>1 DEF b
<1>13. CASE memory = "extmem"
  BY <1>3, <1>8, <1>11, <1>13
<1>14. CASE memory = "dram"
  BY <1>1, <1>3, <1>8, <1>11, <1>14
<1> QED
  BY <1>2, <1>12, <1>13, <1>14

\* A byte of a PPU's memory: where each PPU finds it
LEMMA SramPlaces ==
  ASSUME NEW memory \in Ppus, NEW ppu \in Ppus, NEW bytes \in Nat, bytes < MemorySize(memory)
  PROVE  LET s == to_sram(Place4(memory, bytes))
         IN  /\ to_scalar_addr(s, ppu) = ScalarPlace(memory, bytes, ppu)
             /\ to_vector_addr(s) = bytes
             /\ is_local(s, ppu) <=> memory = ppu
             /\ sram_valid(s)
<1> DEFINE w == TwoTo[SramBits]
           p == TwoTo[PpuBit - 2]
           h == TwoTo[AddressBits - 2]
           b == Base(memory)
           s == to_sram(Place4(memory, bytes))
<1>1. /\ w \in Nat /\ p \in Nat /\ h \in Nat /\ 8 <= w /\ 4 * w <= p /\ 64 * p <= h
      /\ TwoTo[SramBits + 2] = 4 * w /\ TwoTo[AddressBits] = 4 * h
      /\ TwoTo[AddressBits - 1] = 2 * h /\ TwoTo[AddressBits + 2] = 16 * h
  BY Sizes
<1>2. /\ sram_top = 5 * p /\ sram_bot = 7 * p /\ sram_size = w
      /\ MemorySize(memory) = 4 * w
      /\ b = (IF memory = "top" THEN 5 * p ELSE 7 * p)
  BY Bases DEF Ppus
<1>3. memory \in Memories
  BY DEF Memories, Ppus
<1>4. s.ptr = 4 * b + bytes
  <2>1. memory # "extmem" /\ memory # "dram"
    BY DEF Ppus
  <2>2. Pointer(Place4(memory, bytes)) = 4 * Base(memory) + bytes
    BY <1>3, <2>1, Pointers
  <2> QED
    BY <2>2 DEF to_sram
<1>5. s.me = memory
  <2>1. s.me = IF b + bytes \div 4 < sram_bot THEN "top" ELSE "bottom"
    BY DEF to_sram, Place4
  <2> HIDE DEF w, p, h, b, s
  <2>2. b + bytes \div 4 < sram_bot <=> memory = "top"
    BY <1>1, <1>2
  <2> QED
    BY <2>1, <2>2 DEF Ppus
<1>6. LocalPart(s.ptr) = bytes
  <2>1. PICK t \in Nat : p = w * t
    <3>1. SramBits \in Nat /\ PpuBit - 2 - SramBits \in Nat
          /\ SramBits + (PpuBit - 2 - SramBits) = PpuBit - 2
      BY GlobalAddressAssumption
    <3>2. p = w * TwoTo[PpuBit - 2 - SramBits]
      BY <3>1, TwoToSum
    <3> QED
      BY <3>1, <3>2, TwoToPositive
  <2> HIDE DEF w, p, h, b
  <2>2. \E k \in Nat : 4 * b = (4 * w) * k
    <3>1. 4 * (5 * (w * t)) = (4 * w) * (5 * t) /\ 4 * (7 * (w * t)) = (4 * w) * (7 * t)
      BY <1>1, Z3
    <3>2. 5 * t \in Nat /\ 7 * t \in Nat
      OBVIOUS
    <3> QED
      BY <1>2, <2>1, <3>1, <3>2
  <2>3. PICK k \in Nat : 4 * b = (4 * w) * k
    BY <2>2
  <2>4. /\ s.ptr \in Int /\ 4 * w \in Nat /\ 4 * w > 0 /\ bytes \in 0 .. 4 * w - 1
        /\ s.ptr = (4 * w) * k + bytes
    BY <1>1, <1>2, <1>4, <2>3
  <2>5. s.ptr % (4 * w) = bytes
    BY <2>4, ModIs
  <2> QED
    BY <1>1, <2>5 DEF LocalPart
<1>7. to_scalar_addr(s, ppu) = ScalarPlace(memory, bytes, ppu)
  <2>1. CASE ppu = memory
    <3>1. memory # "extmem" /\ memory # "dram" /\ memory \notin Ppus \ {ppu}
      BY <2>1 DEF Ppus
    <3> HIDE DEF s
    <3> QED
      BY <1>5, <1>6, <2>1, <3>1 DEF to_scalar_addr, ScalarPlace
  <2>2. CASE ppu # memory
    <3>1. to_scalar_addr(s, ppu) = Or(s.ptr, TwoTo[AddressBits - 1])
      BY <1>5, <2>2 DEF to_scalar_addr, ppu_omnibus_chip
    <3>2. ScalarPlace(memory, bytes, ppu) = TwoTo[AddressBits - 1] + 4 * b + bytes
      <4>1. memory \in Ppus \ {ppu} /\ memory # "extmem" /\ memory # "dram" /\ memory # ppu
        BY <2>2 DEF Ppus
      <4>2. b = (IF memory = "top" THEN sram_top ELSE sram_bot)
        BY <1>2
      <4> HIDE DEF b
      <4> QED
        BY <4>1, <4>2 DEF ScalarPlace
    <3> DEFINE T == TwoTo[AddressBits - 1]
    <3> HIDE DEF w, p, h, b, s
    <3>3. /\ s.ptr \in Nat /\ s.ptr < T /\ AddressBits - 1 \in Nat
          /\ TwoTo[AddressBits - 1] * 1 = T
          /\ T * 1 + s.ptr < TwoTo[AddressBits + 2] /\ T * 1 + s.ptr = T + 4 * b + bytes
      BY <1>1, <1>2, <1>4, GlobalAddressAssumption
    <3>4. Or(s.ptr, T * 1) = T * 1 + s.ptr
      BY <3>3, OrApart
    <3> QED
      BY <3>1, <3>2, <3>3, <3>4
  <2> QED
    BY <2>1, <2>2
<1>8. sram_valid(s)
  <2> HIDE DEF w, p, h, b, s
  <2>1. /\ 4 * b \in Nat /\ 4 * b < TwoTo[AddressBits]
        /\ 4 * (b + sram_size) \in Nat /\ 4 * (b + sram_size) < TwoTo[AddressBits]
    BY <1>1, <1>2
  <2>2. Wrapped(4 * b) = 4 * b /\ Wrapped(4 * (b + sram_size)) = 4 * (b + sram_size)
    BY <2>1, Fits
  <2>3. Wrapped(4 * b) <= s.ptr /\ s.ptr < Wrapped(4 * (b + sram_size))
    BY <1>1, <1>2, <1>4, <2>2
  <2>4. b \in {sram_top, sram_bot}
    BY <1>2
  <2> QED
    BY <2>3, <2>4 DEF sram_valid
<1> QED
  BY <1>5, <1>6, <1>7, <1>8 DEF to_vector_addr, is_local

\* A byte of the external memory
LEMMA ExtMemPlaces ==
  ASSUME NEW bytes \in Nat, bytes < MemorySize("extmem")
  PROVE  LET ptr == Pointer(Place4("extmem", bytes))
         IN  /\ to_ext_scalar_addr(ptr, "extmem") = TwoTo[AddressBits - 2] + bytes
             /\ to_fxviox_addr(ptr, "extmem") = TwoTo[AddressBits - 1] + bytes \div 16
             /\ ext_valid(ptr, "extmem")
<1> DEFINE e == TwoTo[ExtMemBits]
           h == TwoTo[AddressBits - 2]
           T == TwoTo[AddressBits - 1]
           ptr == Pointer(Place4("extmem", bytes))
<1>1. /\ e \in Nat /\ h \in Nat /\ 64 * e <= h /\ e > 0
      /\ T = 2 * h /\ TwoTo[AddressBits] = 4 * h /\ TwoTo[AddressBits + 2] = 16 * h
  BY Sizes
<1>2. extmem_size = e /\ MemorySize("extmem") = 4 * e
  BY Bases
<1>3. ptr = bytes
  <2>1. "extmem" \in Memories /\ "extmem" \notin Ppus
    BY DEF Memories, Ppus
  <2> QED
    BY <2>1, Pointers
<1>4. AddressBits - 2 \in Nat /\ AddressBits - 1 \in Nat
  BY GlobalAddressAssumption
<1>5. /\ to_ext_scalar_addr(ptr, "extmem") = Or(ptr, TwoTo[AddressBits - 2])
      /\ to_fxviox_addr(ptr, "extmem") = Or(ptr \div 16, TwoTo[AddressBits - 1])
      /\ ext_valid(ptr, "extmem") <=> ptr < Wrapped(4 * extmem_size)
  BY DEF to_ext_scalar_addr, to_fxviox_addr, ext_valid, extmem_data_base, dls_extmem_base
<1> HIDE DEF e, h, T, ptr
<1>6. Or(bytes, h * 1) = h * 1 + bytes
  <2>1. bytes < h /\ h * 1 + bytes < TwoTo[AddressBits + 2]
    BY <1>1, <1>2
  <2> QED
    BY <1>4, <2>1, OrApart DEF h
<1>7. Or(bytes \div 16, T * 1) = T * 1 + bytes \div 16
  <2>1. bytes \div 16 \in Nat /\ bytes \div 16 < T /\ T * 1 + bytes \div 16 < TwoTo[AddressBits + 2]
    BY <1>1, <1>2
  <2> QED
    BY <1>4, <2>1, OrApart DEF T
<1>8. Wrapped(4 * extmem_size) = 4 * e
  <2>1. 4 * e \in Nat /\ 4 * e < TwoTo[AddressBits]
    BY <1>1
  <2> QED
    BY <1>2, <2>1, Fits
<1>9. h * 1 = h /\ T * 1 = T
  BY <1>1
<1> QED
  BY <1>2, <1>3, <1>5, <1>6, <1>7, <1>8, <1>9 DEF h, T, ptr

\* The pointer already has the bit that tells the DRAM from the external memory.
LEMMA DramPlaces ==
  ASSUME NEW bytes \in Nat, bytes < MemorySize("dram")
  PROVE  LET ptr == Pointer(Place4("dram", bytes))
         IN  /\ to_ext_scalar_addr(ptr, "dram") =
                  TwoTo[AddressBits - 2] + TwoTo[DramBits + 2] + bytes
             /\ to_fxviox_addr(ptr, "dram") =
                  TwoTo[AddressBits - 1] + TwoTo[DramBits - 2] + bytes \div 16
<1> DEFINE d == TwoTo[DramBits - 2]
           D == TwoTo[DramBits + 2]
           h == TwoTo[AddressBits - 2]
           T == TwoTo[AddressBits - 1]
           ptr == Pointer(Place4("dram", bytes))
<1>1. /\ d \in Nat /\ h \in Nat /\ 32 * d <= h /\ d > 0 /\ D = 16 * d
      /\ T = 2 * h /\ TwoTo[AddressBits + 2] = 16 * h
  BY Sizes
<1>2. MemorySize("dram") = 16 * d
  BY Bases
<1>3. ptr = D + bytes
  <2>1. "dram" \in Memories /\ "dram" \notin Ppus
    BY DEF Memories, Ppus
  <2> QED
    BY <2>1, Pointers
<1>4. /\ to_ext_scalar_addr(ptr, "dram") = Or(ptr, h + D)
      /\ to_fxviox_addr(ptr, "dram") = Or(ptr \div 16, T + d)
  BY DEF to_ext_scalar_addr, to_fxviox_addr, extmem_dram_data_base, extmem_data_base,
         dls_extmem_dram_base, dls_extmem_base
<1>5. /\ DramBits + 2 \in Nat /\ DramBits - 2 \in Nat
      /\ AddressBits - 2 - (DramBits + 2) - 1 \in Nat
      /\ AddressBits - 1 - (DramBits - 2) - 1 \in Nat
  BY GlobalAddressAssumption
<1> HIDE DEF d, D, h, T, ptr
\* Twice an even number of times the power, and once more
<1>6. ASSUME NEW k \in Nat, NEW n \in Nat, n - k - 1 \in Nat
      PROVE  \E q \in Nat : q % 2 = 1 /\ TwoTo[n] + TwoTo[k] = TwoTo[k] * q
  <2> DEFINE j == TwoTo[n - k - 1]
  <2>1. TwoTo[(n - k - 1) + 1] = 2 * j /\ (n - k - 1) + 1 = n - k /\ n - k \in Nat
    BY <1>6, TwoToDoubles
  <2>2. TwoTo[k + (n - k)] = TwoTo[k] * TwoTo[n - k] /\ k + (n - k) = n
    BY <2>1, TwoToSum
  <2>3. j \in Nat /\ TwoTo[k] \in Nat
    BY <1>6, TwoToPositive
  <2> HIDE DEF j
  <2>4. TwoTo[k] * (2 * j + 1) = TwoTo[k] * (2 * j) + TwoTo[k]
    BY <2>3, Z3
  <2>5. 2 * j + 1 \in Nat /\ (2 * j + 1) % 2 = 1
    BY <2>3
  <2> QED
    BY <2>1, <2>2, <2>4, <2>5
<1>7. Or(D * 1 + bytes, h + D) = (h + D) + bytes
  <2>1. PICK q \in Nat : q % 2 = 1 /\ h + D = D * q
    <3>1. AddressBits - 2 \in Nat
      BY GlobalAddressAssumption
    <3> QED
      BY <1>5, <1>6, <3>1 DEF h, D
  <2>2. bytes < D /\ D * q + bytes < TwoTo[AddressBits + 2]
    BY <1>1, <1>2, <2>1
  <2>3. Or(D * 1 + bytes, D * q) = D * q + bytes
    BY <1>5, <2>1, <2>2, OrParts DEF D
  <2> QED
    BY <2>1, <2>3
<1>8. Or(d * 1 + bytes \div 16, T + d) = (T + d) + bytes \div 16
  <2>1. PICK q \in Nat : q % 2 = 1 /\ T + d = d * q
    <3>1. AddressBits - 1 \in Nat
      BY GlobalAddressAssumption
    <3> QED
      BY <1>5, <1>6, <3>1 DEF T, d
  <2>2. bytes \div 16 \in Nat /\ bytes \div 16 < d /\ d * q + bytes \div 16 < TwoTo[AddressBits + 2]
    BY <1>1, <1>2, <2>1
  <2>3. Or(d * 1 + bytes \div 16, d * q) = d * q + bytes \div 16
    BY <1>5, <2>1, <2>2, OrParts DEF d
  <2> QED
    BY <2>1, <2>3
<1>9. /\ D * 1 + bytes = ptr /\ d * 1 + bytes \div 16 = ptr \div 16
      /\ (h + D) + bytes = h + D + bytes /\ (T + d) + bytes \div 16 = T + d + bytes \div 16
  BY <1>1, <1>3
<1> QED
  BY <1>4, <1>7, <1>8, <1>9 DEF h, D, T, d, ptr

\* Making an address keeps the property.
LEMMA AddressMeantBytes == ASSUME Address PROVE AddressesMeanBytes'
<1>1. PICK memory \in Memories, ppu \in Ppus, sum \in 0 .. MaxSum :
        \E bytes \in OffsetsIn(memory) :
         /\ bytes + sum < MemorySize(memory)
         /\ LET a == PlusBytes(from_relative(memory, bytes), sum)
                ptr == Pointer(a)
            IN  Called([function |-> "address", memory |-> memory, ppu |-> ppu, a |-> a,
                        bytes |-> bytes + sum,
                        result |->
                          [sum    |-> Plus2(from_relative(memory, bytes), from_global(0, sum)),
                           global |-> to_global_omnibus_byte(a),
                           scalar |-> IF memory \in Ppus THEN to_scalar_addr(to_sram(a), ppu)
                                      ELSE to_ext_scalar_addr(ptr, memory),
                           vector |-> IF memory \in Ppus THEN to_vector_addr(to_sram(a))
                                      ELSE to_fxviox_addr(ptr, memory),
                           near   |-> IF memory \in Ppus THEN is_local(to_sram(a), ppu) ELSE FALSE,
                           valid  |-> IF memory \in Ppus THEN sram_valid(to_sram(a))
                                      ELSE ext_valid(ptr, memory)]])
  BY Zenon DEF Address
<1>2. PICK bytes \in OffsetsIn(memory) :
         /\ bytes + sum < MemorySize(memory)
         /\ LET a == PlusBytes(from_relative(memory, bytes), sum)
                ptr == Pointer(a)
            IN  Called([function |-> "address", memory |-> memory, ppu |-> ppu, a |-> a,
                        bytes |-> bytes + sum,
                        result |->
                          [sum    |-> Plus2(from_relative(memory, bytes), from_global(0, sum)),
                           global |-> to_global_omnibus_byte(a),
                           scalar |-> IF memory \in Ppus THEN to_scalar_addr(to_sram(a), ppu)
                                      ELSE to_ext_scalar_addr(ptr, memory),
                           vector |-> IF memory \in Ppus THEN to_vector_addr(to_sram(a))
                                      ELSE to_fxviox_addr(ptr, memory),
                           near   |-> IF memory \in Ppus THEN is_local(to_sram(a), ppu) ELSE FALSE,
                           valid  |-> IF memory \in Ppus THEN sram_valid(to_sram(a))
                                      ELSE ext_valid(ptr, memory)]])
  BY <1>1, Zenon
<1> DEFINE a == PlusBytes(from_relative(memory, bytes), sum)
           B == bytes + sum
           ptr == Pointer(a)
           result == [sum    |-> Plus2(from_relative(memory, bytes), from_global(0, sum)),
                      global |-> to_global_omnibus_byte(a),
                      scalar |-> IF memory \in Ppus THEN to_scalar_addr(to_sram(a), ppu)
                                 ELSE to_ext_scalar_addr(ptr, memory),
                      vector |-> IF memory \in Ppus THEN to_vector_addr(to_sram(a))
                                 ELSE to_fxviox_addr(ptr, memory),
                      near   |-> IF memory \in Ppus THEN is_local(to_sram(a), ppu) ELSE FALSE,
                      valid  |-> IF memory \in Ppus THEN sram_valid(to_sram(a))
                                 ELSE ext_valid(ptr, memory)]
<1>3. /\ call'.memory = memory /\ call'.ppu = ppu /\ call'.a = a /\ call'.bytes = B
      /\ call'.result = result
  <2>1. Called([function |-> "address", memory |-> memory, ppu |-> ppu, a |-> a, bytes |-> B,
                result |-> result])
    BY <1>2, Zenon
  <2> HIDE DEF a, B, result
  <2> QED
    BY <2>1 DEF Called
<1>4. /\ result.sum = Plus2(from_relative(memory, bytes), from_global(0, sum))
      /\ result.global = to_global_omnibus_byte(a)
      /\ memory \in Ppus => /\ result.scalar = to_scalar_addr(to_sram(a), ppu)
                            /\ result.vector = to_vector_addr(to_sram(a))
      /\ memory \notin Ppus => /\ result.scalar = to_ext_scalar_addr(ptr, memory)
                               /\ result.vector = to_fxviox_addr(ptr, memory)
  <2> HIDE DEF a, ptr
  <2> QED
    OBVIOUS
<1>5. /\ memory \in Ppus => /\ result.near <=> is_local(to_sram(a), ppu)
                            /\ result.valid <=> sram_valid(to_sram(a))
      /\ memory \notin Ppus => (result.valid <=> ext_valid(ptr, memory))
  <2> HIDE DEF a, ptr
  <2>1. /\ result.near = IF memory \in Ppus THEN is_local(to_sram(a), ppu) ELSE FALSE
        /\ result.valid = IF memory \in Ppus THEN sram_valid(to_sram(a)) ELSE ext_valid(ptr, memory)
    BY Zenon
  <2> HIDE DEF result
  <2> QED
    BY <2>1, Zenon
<1>6. bytes \in Nat /\ sum \in Nat
  <2>1. MemorySize(memory) \in Nat
    BY BaseFits
  <2>2. CASE memory = "dram"
    BY <2>2, CallsAssumption DEF OffsetsIn
  <2>3. CASE memory # "dram"
    BY <2>1, <2>3, CallsAssumption DEF OffsetsIn
  <2> QED
    BY <2>2, <2>3
<1>7. B \in Nat /\ B < MemorySize(memory)
  BY <1>2, <1>6
<1>8. /\ a = Place4(memory, B)
      /\ Plus2(from_relative(memory, bytes), from_global(0, sum)) = a
      /\ from_global(Base(memory), B) = a
  BY <1>2, <1>6, Added
<1>9. to_global_omnibus_byte(a) = 4 * Base(memory) + B
  BY <1>7, <1>8, GlobalPlace
<1> HIDE DEF B, result, a
<1>10. memory \in Ppus => /\ result.scalar = ScalarPlace(memory, B, ppu)
                          /\ result.vector = B
                          /\ result.near <=> memory = ppu
                          /\ result.valid
  BY <1>4, <1>5, <1>7, <1>8, SramPlaces
<1>11. memory = "extmem" => /\ result.scalar = TwoTo[AddressBits - 2] + B
                            /\ result.vector = TwoTo[AddressBits - 1] + B \div 16
                            /\ result.valid
  <2> SUFFICES ASSUME memory = "extmem"
               PROVE  /\ result.scalar = TwoTo[AddressBits - 2] + B
                      /\ result.vector = TwoTo[AddressBits - 1] + B \div 16
                      /\ result.valid
    OBVIOUS
  <2>1. memory \notin Ppus
    BY DEF Ppus
  <2> QED
    BY <1>4, <1>5, <1>7, <1>8, <2>1, ExtMemPlaces
<1>12. memory = "dram" => /\ result.scalar = TwoTo[AddressBits - 2] + TwoTo[DramBits + 2] + B
                          /\ result.vector = TwoTo[AddressBits - 1] + TwoTo[DramBits - 2] + B \div 16
  <2> SUFFICES ASSUME memory = "dram"
               PROVE  /\ result.scalar = TwoTo[AddressBits - 2] + TwoTo[DramBits + 2] + B
                      /\ result.vector = TwoTo[AddressBits - 1] + TwoTo[DramBits - 2] + B \div 16
    OBVIOUS
  <2>1. memory \notin Ppus
    BY DEF Ppus
  <2> QED
    BY <1>4, <1>7, <1>8, <2>1, DramPlaces
<1>13. memory \notin Ppus =>
         result.scalar = ScalarPlace(memory, B, ppu) /\ memory \in {"extmem", "dram"}
  <2>1. memory \notin Ppus =>
          memory \in {"extmem", "dram"} /\ memory # ppu /\ memory \notin Ppus \ {ppu}
    BY DEF Memories, Ppus
  <2>2. CASE memory = "extmem"
    BY <1>11, <2>1, <2>2 DEF ScalarPlace
  <2>3. CASE memory = "dram"
    BY <1>12, <2>1, <2>3 DEF ScalarPlace
  <2> QED
    BY <2>1, <2>2, <2>3
<1>14. "extmem" \notin Ppus /\ "dram" \notin Ppus
  BY DEF Ppus
<1>15. /\ call'.a = from_global(Base(memory), B) /\ result.sum = call'.a
       /\ result.global = 4 * Base(memory) + B
       /\ result.scalar = ScalarPlace(memory, B, ppu)
       /\ memory \in Ppus => result.vector = B /\ (result.near <=> memory = ppu)
       /\ memory = "extmem" => result.vector = TwoTo[AddressBits - 1] + B \div 16
       /\ memory = "dram" =>
            result.vector = TwoTo[AddressBits - 1] + TwoTo[DramBits - 2] + B \div 16
  BY <1>3, <1>4, <1>8, <1>9, <1>10, <1>11, <1>12, <1>13
<1>16. memory # "dram" => result.valid
  BY <1>10, <1>11, <1>13
<1> QED
  BY <1>3, <1>15, <1>16 DEF AddressesMeanBytes, Base

\* So does asking for the kind of its memory.
LEMMA KindsTold == ASSUME Classify PROVE KindsAreDisjoint'
<1> DEFINE s == TwoTo[SramBits]
           e == TwoTo[ExtMemBits]
           p == TwoTo[PpuBit - 2]
           d == TwoTo[DramBits - 2]
           h == TwoTo[AddressBits - 2]
<1>1. PICK addr \in 0 .. TwoTo[AddressBits] - 1 :
        LET a == from_global(addr, 0)
        IN  Called([function |-> "classify", a |-> addr,
                    result |-> {k \in {"sram", "extmem", "dram"} :
                                  CASE k = "sram"   -> is_sram(a)
                                    [] k = "extmem" -> is_extmem(a)
                                    [] k = "dram"   -> is_extmem_dram(a)}])
  BY DEF Classify
<1> DEFINE a == from_global(addr, 0)
           r == call'.result
<1>2. call'.a = addr /\ r = {k \in {"sram", "extmem", "dram"} :
                               CASE k = "sram"   -> is_sram(a)
                                 [] k = "extmem" -> is_extmem(a)
                                 [] k = "dram"   -> is_extmem_dram(a)}
  <2> HIDE DEF a
  <2> QED
    BY <1>1 DEF Called, a
<1>3. /\ s \in Nat /\ e \in Nat /\ p \in Nat /\ d \in Nat /\ h \in Nat
      /\ 8 <= s /\ 2 * s <= e /\ 2 * e <= p /\ 2 * p <= d /\ 32 * d <= h
      /\ TwoTo[AddressBits] = 4 * h
  BY Sizes
<1>4. /\ sram_top = 5 * p /\ sram_bot = 7 * p /\ extmem = 2 * h /\ extmem_dram = 2 * h + 4 * d
      /\ sram_size = s /\ extmem_size = e /\ extmem_dram_size = 4 * d
  BY Bases
<1>5. addr \in Nat /\ a.addr = addr
  <2>1. addr \in Nat /\ addr < TwoTo[AddressBits] /\ addr + 0 \div 4 = addr
    BY <1>3
  <2> QED
    BY <2>1, Fits DEF from_global
<1> HIDE DEF s, e, p, d, h, a, r
<1>6. /\ "sram" \in r <=> 5 * p <= addr /\ addr < 7 * p + s
      /\ "extmem" \in r <=> 2 * h <= addr /\ addr < 2 * h + e
      /\ "dram" \in r <=> 2 * h + 4 * d <= addr /\ addr < 2 * h + 4 * d + e
      /\ r \subseteq {"sram", "extmem", "dram"}
  <2>1. /\ "sram" \in r <=> is_sram(a)
        /\ "extmem" \in r <=> is_extmem(a)
        /\ "dram" \in r <=> is_extmem_dram(a)
        /\ r \subseteq {"sram", "extmem", "dram"}
    BY <1>2
  <2> QED
    BY <1>4, <1>5, <2>1 DEF is_sram, is_extmem, is_extmem_dram
<1>7. \A k, l \in r : k = l
  BY <1>3, <1>5, <1>6
<1>8. (\/ sram_top <= addr /\ addr < sram_top + sram_size
       \/ sram_bot <= addr /\ addr < sram_bot + sram_size) => r = {"sram"}
  <2> SUFFICES ASSUME \/ sram_top <= addr /\ addr < sram_top + sram_size
                      \/ sram_bot <= addr /\ addr < sram_bot + sram_size
               PROVE  r = {"sram"}
    OBVIOUS
  <2>1. "sram" \in r
    BY <1>3, <1>4, <1>5, <1>6
  <2> QED
    BY <1>6, <1>7, <2>1
<1>9. extmem <= addr /\ addr < extmem + extmem_size => r = {"extmem"}
  <2> SUFFICES ASSUME extmem <= addr, addr < extmem + extmem_size PROVE r = {"extmem"}
    OBVIOUS
  <2>1. "extmem" \in r
    BY <1>3, <1>4, <1>5, <1>6
  <2> QED
    BY <1>6, <1>7, <2>1
<1>10. "dram" \in r => extmem_dram <= addr /\ addr < extmem_dram + extmem_dram_size
  BY <1>3, <1>4, <1>5, <1>6
<1>11. call'.a = addr
  BY <1>2
<1> QED
  BY <1>7, <1>8, <1>9, <1>10, <1>11 DEF KindsAreDisjoint, r

\* For all widths of the memories and of addresses that the assumption allows: an address
\* means the byte it was made for, for each unit that reaches the byte
\* (globaladdress.h:47), also after bytes were added that carry into the next word, and
\* no address is taken for two kinds of memory (globaladdress.h:437).
THEOREM AddressInvariant == CallsSpec => []AddressesAreExact
<1>1. CallInit => AddressesAreExact
  BY NothingCalled DEF AddressesAreExact, AddressesMeanBytes, KindsAreDisjoint, IsCall
<1>2. AddressesAreExact /\ [CallsNext]_call => AddressesAreExact'
  <2> SUFFICES ASSUME AddressesAreExact, [CallsNext]_call PROVE AddressesAreExact'
    OBVIOUS
  <2>1. CASE UNCHANGED call
    BY <2>1 DEF AddressesAreExact, AddressesMeanBytes, KindsAreDisjoint, IsCall
  <2>2. CASE CallsNext
    <3>1. IsCall("address")' => AddressesMeanBytes'
      BY <2>2, WhichAction, AddressMeantBytes
    <3>2. IsCall("classify")' => KindsAreDisjoint'
      BY <2>2, WhichAction, KindsTold
    <3>3. ~ IsCall("address")' => AddressesMeanBytes'
      BY DEF AddressesMeanBytes
    <3>4. ~ IsCall("classify")' => KindsAreDisjoint'
      BY DEF KindsAreDisjoint
    <3> QED
      BY <3>1, <3>2, <3>3, <3>4 DEF AddressesAreExact
  <2> QED
    BY <2>1, <2>2
<1> QED
  BY <1>1, <1>2, PTL DEF CallsSpec

-----------------------------------------------------------------------------
(* The generators of random numbers: words are sets of bits. *)

\* What has been shifted and added is shifted by twice as much if it is done again:
\* the sums of words are those of polynomials with coefficients modulo two.
LEMMA LeftTwice ==
  ASSUME NEW a \in SUBSET WordBits32, NEW n \in Nat
  PROVE  /\ Xor(a, Left(a, n)) \in SUBSET WordBits32
         /\ Xor(Xor(a, Left(a, n)), Left(Xor(a, Left(a, n)), n)) = Xor(a, Left(a, n + n))
<1> DEFINE b == Xor(a, Left(a, n))
<1>1. ASSUME NEW i \in WordBits32
      PROVE  /\ i \in b <=> ~ (i \in a <=> i - n \in a)
             /\ i \in Left(b, n) <=> i - n \in b
             /\ i \in Left(a, n + n) <=> i - (n + n) \in a
  BY DEF Xor, Left
<1>2. ASSUME NEW i \in WordBits32
      PROVE  i - n \in b <=> ~ (i - n \in a <=> i - (n + n) \in a)
  <2>1. (i - n) - n = i - (n + n)
    BY DEF WordBits32
  <2>2. CASE i - n \in WordBits32
    BY <1>1, <2>1, <2>2
  <2>3. CASE i - n \notin WordBits32
    <3>1. i - (n + n) \notin WordBits32
      BY <2>3 DEF WordBits32
    <3>2. b \subseteq WordBits32
      BY DEF Xor, Left
    <3> HIDE DEF b
    <3> QED
      BY <2>3, <3>1, <3>2
  <2> QED
    BY <2>2, <2>3
<1>3. b \subseteq WordBits32 /\ Left(b, n) \subseteq WordBits32 /\ Left(a, n + n) \subseteq WordBits32
  BY DEF Xor, Left
<1> HIDE DEF b
<1>4. ASSUME NEW i \in WordBits32
      PROVE  i \in Xor(b, Left(b, n)) <=> i \in Xor(a, Left(a, n + n))
  BY <1>1, <1>2 DEF Xor
<1>5. Xor(b, Left(b, n)) \subseteq WordBits32 /\ Xor(a, Left(a, n + n)) \subseteq WordBits32
  BY <1>3 DEF Xor
<1>6. Xor(b, Left(b, n)) = Xor(a, Left(a, n + n))
  BY <1>4, <1>5
<1> QED
  BY <1>3, <1>6 DEF b

\* Bits that are shifted out of the word are gone.
LEMMA ShiftedOut ==
  ASSUME NEW a \in SUBSET WordBits32, NEW n \in Nat, n >= 32
  PROVE  Xor(a, Left(a, n)) = a
<1>1. Left(a, n) = {}
  BY DEF Left, WordBits32
<1> QED
  BY <1>1 DEF Xor

\* A shift to the right by more than half the word is undone by doing it again.
LEMMA RightTwice ==
  ASSUME NEW a \in SUBSET WordBits32
  PROVE  /\ Xor(a, Right(a, 17)) \in SUBSET WordBits32
         /\ Xor(Xor(a, Right(a, 17)), Right(Xor(a, Right(a, 17)), 17)) = a
<1> DEFINE b == Xor(a, Right(a, 17))
<1>1. b \subseteq WordBits32
  BY DEF Xor, Right
<1>2. ASSUME NEW i \in WordBits32 PROVE i \in b <=> ~ (i \in a <=> i + 17 \in a)
  BY DEF Xor, Right
<1>3. ASSUME NEW i \in WordBits32 PROVE i + 17 \in b <=> i + 17 \in a
  <2>1. CASE i + 17 \in WordBits32
    <3>1. (i + 17) + 17 \notin a
      BY DEF WordBits32
    <3> QED
      BY <1>2, <2>1, <3>1
  <2>2. CASE i + 17 \notin WordBits32
    BY <1>1, <2>2
  <2> QED
    BY <2>1, <2>2
<1> HIDE DEF b
<1>4. ASSUME NEW i \in WordBits32 PROVE i \in Xor(b, Right(b, 17)) <=> i \in a
  BY <1>2, <1>3 DEF Xor, Right
<1>5. Xor(b, Right(b, 17)) \subseteq WordBits32
  BY <1>1 DEF Xor, Right
<1>6. Xor(b, Right(b, 17)) = a
  BY <1>4, <1>5
<1> QED
  BY <1>1, <1>6 DEF b

\* The generator, undone step by step
LEMMA XorshiftUndone ==
  ASSUME NEW seed \in SUBSET WordBits32
  PROVE  LET shifted(a, n) == Xor(a, Left(a, n))
             result == xorshift32(seed)
             second == shifted(shifted(shifted(result, 5), 10), 20)
             first  == Xor(second, Right(second, 17))
         IN  /\ shifted(shifted(first, 13), 26) = seed
             /\ (result = {}) = (seed = {})
<1> DEFINE shifted(a, n) == Xor(a, Left(a, n))
           first  == shifted(seed, 13)
           second == Xor(first, Right(first, 17))
           result == shifted(second, 5)
<1>1. xorshift32(seed) = result
  BY DEF xorshift32
<1>2. first \in SUBSET WordBits32 /\ shifted(shifted(first, 13), 26) = seed
  <2>1. first \in SUBSET WordBits32 /\ shifted(first, 13) = shifted(seed, 26)
    <3>1. 13 \in Nat /\ 13 + 13 = 26
      OBVIOUS
    <3> QED
      BY <3>1, LeftTwice
  <2>2. shifted(shifted(seed, 26), 26) = shifted(seed, 52)
    <3>1. 26 \in Nat /\ 26 + 26 = 52
      OBVIOUS
    <3> QED
      BY <3>1, LeftTwice
  <2>3. shifted(seed, 52) = seed
    <3>1. 52 \in Nat /\ 52 >= 32
      OBVIOUS
    <3> QED
      BY <3>1, ShiftedOut
  <2> HIDE DEF shifted
  <2> QED
    BY <2>1, <2>2, <2>3
<1> HIDE DEF first
<1>3. second \in SUBSET WordBits32 /\ Xor(second, Right(second, 17)) = first
  BY <1>2, RightTwice
<1> HIDE DEF second
<1>4. result \in SUBSET WordBits32 /\ shifted(shifted(shifted(result, 5), 10), 20) = second
  <2>1. result \in SUBSET WordBits32 /\ shifted(result, 5) = shifted(second, 10)
    <3>1. 5 \in Nat /\ 5 + 5 = 10
      OBVIOUS
    <3> QED
      BY <1>3, <3>1, LeftTwice
  <2>2. shifted(shifted(second, 10), 10) = shifted(second, 20)
    <3>1. 10 \in Nat /\ 10 + 10 = 20
      OBVIOUS
    <3> QED
      BY <1>3, <3>1, LeftTwice
  <2>3. shifted(shifted(second, 20), 20) = shifted(second, 40)
    <3>1. 20 \in Nat /\ 20 + 20 = 40
      OBVIOUS
    <3> QED
      BY <1>3, <3>1, LeftTwice
  <2>4. shifted(second, 40) = second
    <3>1. 40 \in Nat /\ 40 >= 32
      OBVIOUS
    <3> QED
      BY <1>3, <3>1, ShiftedOut
  <2> HIDE DEF shifted
  <2> QED
    BY <2>1, <2>2, <2>3, <2>4
<1>5. \A n \in Nat : shifted({}, n) = {} /\ Right({}, n) = {} /\ Xor({}, {}) = {}
  BY DEF Xor, Left, Right
<1> HIDE DEF result
<1>6. (result = {}) = (seed = {})
  <2>1. seed = {} => result = {}
    <3>1. seed = {} => first = {}
      BY <1>5 DEF first
    <3>2. first = {} => second = {}
      BY <1>5 DEF second
    <3>3. second = {} => result = {}
      BY <1>5 DEF result
    <3> QED
      BY <3>1, <3>2, <3>3
  <2>2. result = {} => seed = {}
    <3>1. result = {} => second = {}
      BY <1>4, <1>5
    <3>2. second = {} => first = {}
      BY <1>3, <1>5
    <3>3. first = {} => seed = {}
      BY <1>2, <1>5
    <3> QED
      BY <3>1, <3>2, <3>3
  <2> QED
    BY <2>1, <2>2
<1> HIDE DEF shifted
<1>7. shifted(shifted(Xor(shifted(shifted(shifted(result, 5), 10), 20),
                          Right(shifted(shifted(shifted(result, 5), 10), 20), 17)), 13), 26) = seed
  BY <1>2, <1>3, <1>4
<1> QED
  BY <1>1, <1>6, <1>7 DEF shifted

\* 2245 and 1549 are inverse to each other modulo 2^12.
LEMMA LcgUndone ==
  ASSUME NEW seed \in 0 .. TwoTo[12] - 1
  PROVE  (2245 * (random_lcg(seed) - 863)) % TwoTo[12] = seed
<1> DEFINE x == 1549 * seed + 863
           q == x \div 4096
<1>1. TwoTo[12] = 4096
  BY TwoToValues
<1>2. q \in Int /\ x % 4096 \in Int /\ x = 4096 * q + (x % 4096)
  <2>1. x \in Int /\ 4096 \in Nat /\ 4096 > 0
    BY <1>1
  <2> HIDE DEF x
  <2> QED
    BY <2>1, DivMod
<1>3. random_lcg(seed) = x % 4096
  BY <1>1 DEF random_lcg
<1> HIDE DEF q
<1> DEFINE k == 849 * seed - 2245 * q
<1>4. k \in Int /\ seed \in 0 .. 4096 - 1 /\ 2245 * (random_lcg(seed) - 863) = 4096 * k + seed
  BY <1>1, <1>2, <1>3
<1> HIDE DEF k
<1>5. (4096 * k + seed) % 4096 = seed
  <2>1. 4096 * k + seed \in Int
    BY <1>4
  <2> QED
    BY <1>4, <2>1, ModIs
<1> QED
  BY <1>1, <1>4, <1>5

\* Words are ordered.
LEMMA GreaterTransitive ==
  ASSUME NEW a, NEW b, NEW c, Greater(a, b), Greater(b, c)
  PROVE  Greater(a, c)
<1>1. PICK i \in WordBits32 : /\ i \in a /\ i \notin b
                             /\ \A j \in WordBits32 : j > i => (j \in a <=> j \in b)
  BY DEF Greater
<1>2. PICK k \in WordBits32 : /\ k \in b /\ k \notin c
                             /\ \A j \in WordBits32 : j > k => (j \in b <=> j \in c)
  BY DEF Greater
<1>3. i < k \/ k < i
  BY <1>1, <1>2 DEF WordBits32
<1>4. CASE i < k
  <2>1. k \in a /\ k \notin c
    BY <1>1, <1>2, <1>4
  <2>2. \A j \in WordBits32 : j > k => j > i
    BY <1>4 DEF WordBits32
  <2>3. \A j \in WordBits32 : j > k => (j \in a <=> j \in c)
    BY <1>1, <1>2, <2>2
  <2> QED
    BY <2>1, <2>3 DEF Greater
<1>5. CASE k < i
  <2>1. i \in a /\ i \notin c
    BY <1>1, <1>2, <1>5
  <2>2. \A j \in WordBits32 : j > i => j > k
    BY <1>5 DEF WordBits32
  <2>3. \A j \in WordBits32 : j > i => (j \in a <=> j \in c)
    BY <1>1, <1>2, <2>2
  <2> QED
    BY <2>1, <2>3 DEF Greater
<1> QED
  BY <1>3, <1>4, <1>5

\* There is a first place among some.
LEMMA FirstIs ==
  ASSUME NEW S, S \subseteq Nat, S # {}
  PROVE  First(S) \in S /\ \A i \in S : First(S) <= i
  BY Smallest DEF First

\* A draw is over sooner for a larger cutoff.
LEMMA SoonerOver ==
  ASSUME NEW seed, NEW more, NEW less, Greater(more, less),
         draw_poisson(seed, less, 3, 8).found
  PROVE  /\ draw_poisson(seed, more, 3, 8).found
         /\ draw_poisson(seed, more, 3, 8).t <= draw_poisson(seed, less, 3, 8).t
<1> DEFINE draws == Drawn(seed, 8)
           hits(cutoff) == {n \in 0 .. 8 : ~ Greater(draws[n], cutoff)}
<1>1. ASSUME NEW cutoff
      PROVE  /\ draw_poisson(seed, cutoff, 3, 8).found = (hits(cutoff) # {})
             /\ hits(cutoff) # {} => draw_poisson(seed, cutoff, 3, 8).t = 3 * First(hits(cutoff))
  BY DEF draw_poisson
<1>2. hits(less) \subseteq hits(more) /\ hits(less) \subseteq Nat /\ hits(more) \subseteq Nat
  <2>1. \A n \in 0 .. 8 : Greater(draws[n], more) => Greater(draws[n], less)
    BY GreaterTransitive
  <2> QED
    BY <2>1
<1> HIDE DEF hits
<1>3. hits(less) # {} /\ hits(more) # {}
  BY <1>1, <1>2
<1>4. /\ First(hits(less)) \in hits(less) /\ First(hits(more)) \in Nat
      /\ \A n \in hits(more) : First(hits(more)) <= n
  BY <1>2, <1>3, FirstIs
<1>5. First(hits(more)) <= First(hits(less)) /\ First(hits(less)) \in Nat
  BY <1>2, <1>4
<1>6. 3 * First(hits(more)) <= 3 * First(hits(less))
  BY <1>4, <1>5
<1> QED
  BY <1>1, <1>3, <1>6

\* The generators of a call
LEMMA Generated == ASSUME Draw PROVE GeneratorsInvertible'
<1>1. CASE \E seed \in Seeds32 :
             Called([function |-> "xorshift", seed |-> seed, result |-> xorshift32(seed)])
  <2>1. PICK seed \in Seeds32 :
          call' = [function |-> "xorshift", seed |-> seed, result |-> xorshift32(seed)]
    BY <1>1 DEF Called
  <2>2. /\ call'.function = "xorshift" /\ call'.seed = seed /\ call'.result = xorshift32(seed)
        /\ seed \in SUBSET WordBits32
    BY <2>1, NumbersAssumption
  <2>3. ~ IsCall("lcg")' /\ ~ IsCall("poisson")'
    BY <2>2 DEF IsCall
  <2> QED
    BY <2>2, <2>3, XorshiftUndone DEF GeneratorsInvertible
<1>2. CASE \E seed \in Seeds32, cutoff \in Cutoffs :
             Called([function |-> "poisson", seed |-> seed, cutoff |-> cutoff,
                     result |-> draw_poisson(seed, cutoff, 3, 8)])
  <2>1. PICK seed \in Seeds32, cutoff \in Cutoffs :
          call' = [function |-> "poisson", seed |-> seed, cutoff |-> cutoff,
                   result |-> draw_poisson(seed, cutoff, 3, 8)]
    BY <1>2 DEF Called
  <2>2. /\ call'.function = "poisson" /\ call'.seed = seed /\ call'.cutoff = cutoff
        /\ call'.result = draw_poisson(seed, cutoff, 3, 8)
    BY <2>1
  <2>3. ~ IsCall("lcg")' /\ ~ IsCall("xorshift")'
    BY <2>2 DEF IsCall
  <2> QED
    BY <2>2, <2>3, SoonerOver DEF GeneratorsInvertible
<1>3. CASE \E seed \in 0 .. TwoTo[12] - 1 :
             Called([function |-> "lcg", a |-> seed, result |-> random_lcg(seed)])
  <2>1. PICK seed \in 0 .. TwoTo[12] - 1 :
          call' = [function |-> "lcg", a |-> seed, result |-> random_lcg(seed)]
    BY <1>3 DEF Called
  <2>2. call'.function = "lcg" /\ call'.a = seed /\ call'.result = random_lcg(seed)
    BY <2>1
  <2>3. ~ IsCall("poisson")' /\ ~ IsCall("xorshift")'
    BY <2>2 DEF IsCall
  <2> QED
    BY <2>2, <2>3, LcgUndone DEF GeneratorsInvertible
<1> QED
  BY <1>1, <1>2, <1>3 DEF Draw


\* Whatever the seeds and the cutoffs: the generators can be undone (random.cpp:5, 28), and
\* a draw is over sooner for a larger cutoff (random.cpp:21).
THEOREM GeneratorsInvariant == CallsSpec => []GeneratorsInvertible
<1>1. CallInit => GeneratorsInvertible
  BY NothingCalled DEF GeneratorsInvertible, IsCall
<1>2. GeneratorsInvertible /\ [CallsNext]_call => GeneratorsInvertible'
  <2> SUFFICES ASSUME GeneratorsInvertible, [CallsNext]_call PROVE GeneratorsInvertible'
    OBVIOUS
  <2>1. CASE UNCHANGED call
    BY <2>1 DEF GeneratorsInvertible, IsCall
  <2>2. CASE CallsNext
    <3>1. CASE IsCall("xorshift")' \/ IsCall("poisson")' \/ IsCall("lcg")'
      BY <2>2, <3>1, WhichAction, Generated
    <3>2. CASE ~ (IsCall("xorshift")' \/ IsCall("poisson")' \/ IsCall("lcg")')
      BY <3>2 DEF GeneratorsInvertible
    <3> QED
      BY <3>1, <3>2
  <2> QED
    BY <2>1, <2>2
<1> QED
  BY <1>1, <1>2, PTL DEF CallsSpec

-----------------------------------------------------------------------------
(* Bytes, arrays and measurements: loops, and what is in their variables. *)

\* A byte's bits by number: switching halves, pairs and single bits mirrors them.
LEMMA ByteMirrored ==
  ASSUME NEW b \in SUBSET (0 .. 7)
  PROVE  reverse_byte(b) = {7 - i : i \in b}
<1> DEFINE switched(byte, n) == {i \in 0 .. 7 : IF (i \div n) % 2 = 0 THEN i + n \in byte
                                                ELSE i - n \in byte}
           x == switched(b, 4)
           y == switched(x, 2)
           z == switched(y, 1)
<1>1. reverse_byte(b) = z
  BY DEF reverse_byte
<1>2. /\ (0 \in x <=> 4 \in b) /\ (1 \in x <=> 5 \in b)
      /\ (2 \in x <=> 6 \in b) /\ (3 \in x <=> 7 \in b)
      /\ (4 \in x <=> 0 \in b) /\ (5 \in x <=> 1 \in b)
      /\ (6 \in x <=> 2 \in b) /\ (7 \in x <=> 3 \in b)
  OBVIOUS
<1> HIDE DEF x
<1>3. /\ (0 \in y <=> 2 \in x) /\ (1 \in y <=> 3 \in x)
      /\ (2 \in y <=> 0 \in x) /\ (3 \in y <=> 1 \in x)
      /\ (4 \in y <=> 6 \in x) /\ (5 \in y <=> 7 \in x)
      /\ (6 \in y <=> 4 \in x) /\ (7 \in y <=> 5 \in x)
  OBVIOUS
<1> HIDE DEF y
<1>4. /\ (0 \in z <=> 1 \in y) /\ (1 \in z <=> 0 \in y)
      /\ (2 \in z <=> 3 \in y) /\ (3 \in z <=> 2 \in y)
      /\ (4 \in z <=> 5 \in y) /\ (5 \in z <=> 4 \in y)
      /\ (6 \in z <=> 7 \in y) /\ (7 \in z <=> 6 \in y)
  OBVIOUS
<1>5. z \subseteq 0 .. 7
  OBVIOUS
<1> HIDE DEF z
<1>6. /\ (0 \in z <=> 7 \in b) /\ (1 \in z <=> 6 \in b)
      /\ (2 \in z <=> 5 \in b) /\ (3 \in z <=> 4 \in b)
      /\ (4 \in z <=> 3 \in b) /\ (5 \in z <=> 2 \in b)
      /\ (6 \in z <=> 1 \in b) /\ (7 \in z <=> 0 \in b)
  BY <1>2, <1>3, <1>4
<1>7. ASSUME NEW i \in 0 .. 7 PROVE i \in z <=> 7 - i \in b
  <2>1. i \in {0, 1, 2, 3, 4, 5, 6, 7}
    OBVIOUS
  <2>2. /\ 7 - 0 = 7 /\ 7 - 1 = 6 /\ 7 - 2 = 5 /\ 7 - 3 = 4
        /\ 7 - 4 = 3 /\ 7 - 5 = 2 /\ 7 - 6 = 1 /\ 7 - 7 = 0
    OBVIOUS
  <2> QED
    BY <1>6, <2>1, <2>2
<1>8. \A i \in 0 .. 7 : 7 - i \in 0 .. 7 /\ 7 - (7 - i) = i
  OBVIOUS
<1>9. z = {7 - i : i \in b}
  BY <1>5, <1>7, <1>8
<1> QED
  BY <1>1, <1>9

\* How often a value is found from its first place on is how often it is found at all.
LEMMA AmountFromFirst ==
  ASSUME NEW s \in Seq(Nat), NEW i \in 1 .. Len(s)
  PROVE  LET amount(v) == Cardinality({j \in DOMAIN s : s[j] = v})
             from(f)   == Cardinality({j \in f .. Len(s) : s[j] = s[f]})
         IN  /\ from(i) \in Nat /\ from(i) >= 1 /\ from(i) <= amount(s[i])
             /\ from(i) <= Len(s) /\ amount(s[i]) \in Nat
             /\ \E f \in 1 .. Len(s) : s[f] = s[i] /\ amount(s[i]) = from(f)
<1> DEFINE all == {j \in DOMAIN s : s[j] = s[i]}
           late(f) == {j \in f .. Len(s) : s[j] = s[f]}
<1>0. Len(s) \in Nat /\ DOMAIN s = 1 .. Len(s) /\ s \in [1 .. Len(s) -> Nat]
  OBVIOUS
<1>1. IsFiniteSet(1 .. Len(s)) /\ Cardinality(1 .. Len(s)) = Len(s)
  BY <1>0, FS_Interval
<1>2. late(i) \subseteq all /\ all \subseteq 1 .. Len(s) /\ late(i) \subseteq 1 .. Len(s) /\ i \in late(i)
  BY <1>0
<1>3. PICK f \in all : \A j \in all : f <= j
  <2>1. all \subseteq Nat /\ all # {}
    BY <1>0, <1>2
  <2> HIDE DEF all
  <2> QED
    BY <2>1, Smallest
<1>4. f \in 1 .. Len(s) /\ s[f] = s[i] /\ late(f) = all
  BY <1>0, <1>3
<1> HIDE DEF late, all
<1>5. /\ IsFiniteSet(all) /\ IsFiniteSet(late(i)) /\ Cardinality(late(i)) <= Cardinality(all)
      /\ Cardinality(late(i)) <= Len(s)
  <2>1. IsFiniteSet(all)
    BY <1>1, <1>2, FS_Subset
  <2>2. IsFiniteSet(late(i)) /\ Cardinality(late(i)) <= Cardinality(all)
    BY <1>2, <2>1, FS_Subset
  <2>3. Cardinality(late(i)) <= Cardinality(1 .. Len(s))
    BY <1>1, <1>2, FS_Subset
  <2> QED
    BY <1>1, <2>1, <2>2, <2>3
<1>6. Cardinality(all) \in Nat /\ Cardinality(late(i)) \in Nat
  BY <1>5, FS_CardinalityType
<1>7. Cardinality(late(i)) # 0
  BY <1>2, <1>5, FS_EmptySet
<1>8. Cardinality(late(i)) >= 1
  BY <1>6, <1>7
<1>9. \E g \in 1 .. Len(s) : s[g] = s[i] /\ Cardinality(all) = Cardinality(late(g))
  BY <1>4
<1> QED
  BY <1>5, <1>6, <1>8, <1>9 DEF all, late

\* The value that find_max_amount() returns is not less frequent than another one.
LEMMA MostFrequent ==
  ASSUME NEW s \in Seq(Nat) \ {<< >>}
  PROVE  LET amount(v) == Cardinality({j \in DOMAIN s : s[j] = v})
         IN  \A i \in DOMAIN s : amount(s[i]) <= amount(find_max_amount(s))
<1> DEFINE size == Len(s)
           amount(v) == Cardinality({j \in DOMAIN s : s[j] = v})
           from(f) == Cardinality({j \in f .. size : s[j] = s[f]})
           best == {i \in 1 .. size - 1 : \A j \in 1 .. size - 1 : from(j) <= from(i)}
<1>1. size \in Nat /\ size >= 1 /\ DOMAIN s = 1 .. size
  OBVIOUS
<1>2. find_max_amount(s) = s[IF size = 1 THEN 1 ELSE First(best)]
  BY DEF find_max_amount
<1>3. ASSUME NEW i \in 1 .. size
      PROVE  /\ from(i) \in Nat /\ from(i) >= 1 /\ from(i) <= amount(s[i]) /\ from(i) <= size
             /\ amount(s[i]) \in Nat
             /\ \E f \in 1 .. size : s[f] = s[i] /\ amount(s[i]) = from(f)
  BY AmountFromFirst
<1>4. from(size) = 1
  <2>1. {j \in size .. size : s[j] = s[size]} = {size}
    BY <1>1
  <2> QED
    BY <2>1, FS_Singleton
<1> HIDE DEF size, amount, from
<1> SUFFICES ASSUME NEW i \in 1 .. size PROVE amount(s[i]) <= amount(find_max_amount(s))
  BY <1>1 DEF amount
<1>5. CASE size = 1
  <2>1. i = 1 /\ amount(s[i]) \in Nat
    BY <1>3, <1>5
  <2> QED
    BY <1>2, <1>5, <2>1
<1>6. CASE size # 1
  <2>1. best # {} /\ best \subseteq Nat /\ best \subseteq 1 .. size - 1
    <3> DEFINE left == {size - from(j) : j \in 1 .. size - 1}
    <3>1. \A j \in 1 .. size - 1 : j \in 1 .. size /\ from(j) \in Nat /\ size - from(j) \in Nat
      <4>1. \A j \in 1 .. size - 1 : j \in 1 .. size
        BY <1>1
      <4>2. \A j \in 1 .. size : from(j) \in Nat /\ from(j) <= size
        BY <1>3
      <4> QED
        BY <1>1, <4>1, <4>2
    <3>2. left \subseteq Nat /\ size - from(1) \in left
      <4>1. 1 \in 1 .. size - 1
        BY <1>1, <1>6
      <4> QED
        BY <3>1, <4>1
    <3>3. PICK n \in left : \A m \in left : n <= m
      <4> HIDE DEF left
      <4> QED
        BY <3>2, Smallest
    <3>4. PICK k \in 1 .. size - 1 : n = size - from(k)
      BY <3>3
    <3>5. \A j \in 1 .. size - 1 : size - from(k) <= size - from(j)
      BY <3>3, <3>4
    <3>6. \A j \in 1 .. size - 1 : from(j) <= from(k)
      BY <1>1, <3>1, <3>5
    <3> QED
      BY <1>1, <3>6
  <2> DEFINE r == First(best)
  <2>2. r \in best
    <3> HIDE DEF best
    <3> QED
      BY <2>1, FirstIs
  <2>3. /\ r \in 1 .. size /\ \A j \in 1 .. size - 1 : from(j) <= from(r)
        /\ find_max_amount(s) = s[r]
    BY <1>1, <1>2, <1>6, <2>2
  <2> HIDE DEF r, best
  <2>4. PICK f \in 1 .. size : s[f] = s[i] /\ amount(s[i]) = from(f)
    BY <1>3
  <2>5. from(f) <= from(r)
    <3>1. CASE f = size
      BY <1>3, <1>4, <2>3, <3>1
    <3>2. CASE f # size
      <4>1. f \in 1 .. size - 1
        BY <1>1, <3>2
      <4> QED
        BY <2>3, <4>1
    <3> QED
      BY <3>1, <3>2
  <2>6. from(r) <= amount(s[r]) /\ from(r) \in Nat /\ amount(s[r]) \in Nat /\ from(f) \in Nat
    BY <1>3, <2>3
  <2> QED
    BY <2>3, <2>4, <2>5, <2>6
<1> QED
  BY <1>5, <1>6

\* The variable of a loop over n rounds: the recursive function exists that says what
\* is in it after each of them.
LEMMA LoopExists ==
  ASSUME NEW n \in Nat, NEW start \in Nat, NEW step \in [1 .. n -> [Nat -> Nat]]
  PROVE  \E g \in [0 .. n -> Nat] : /\ g[0] = start
                                   /\ \A k \in 1 .. n : g[k] = step[k][g[k - 1]]
<1> DEFINE Has(g, m) == /\ g \in [0 .. m -> Nat]
                        /\ g[0] = start
                        /\ \A k \in 1 .. m : g[k] = step[k][g[k - 1]]
           S == {m \in Nat : m <= n => \E g : Has(g, m)}
<1> HIDE DEF Has
<1>1. 0 \in S
  <2>1. Has([k \in 0 .. 0 |-> start], 0)
    BY DEF Has
  <2> QED
    BY <2>1
<1>2. ASSUME NEW m \in Nat, m \in S PROVE m + 1 \in S
  <2> SUFFICES ASSUME m + 1 <= n PROVE \E g : Has(g, m + 1)
    OBVIOUS
  <2>1. PICK g : Has(g, m)
    BY <1>2
  <2>2. /\ g \in [0 .. m -> Nat] /\ g[0] = start
        /\ \A k \in 1 .. m : g[k] = step[k][g[k - 1]]
    BY <2>1 DEF Has
  <2> DEFINE h == [k \in 0 .. m + 1 |-> IF k = m + 1 THEN step[m + 1][g[m]] ELSE g[k]]
  <2>3. step[m + 1][g[m]] \in Nat
    <3>1. m + 1 \in 1 .. n /\ m \in 0 .. m
      OBVIOUS
    <3>2. g[m] \in Nat /\ step[m + 1] \in [Nat -> Nat]
      BY <2>2, <3>1
    <3> QED
      BY <3>2
  <2>4. ASSUME NEW k \in 0 .. m + 1
        PROVE  /\ k # m + 1 => k \in 0 .. m /\ h[k] = g[k]
               /\ h[k] \in Nat
    <3>1. k # m + 1 => k \in 0 .. m
      OBVIOUS
    <3> QED
      BY <2>2, <2>3, <3>1
  <2>5. h \in [0 .. m + 1 -> Nat]
    BY <2>4
  <2>6. h[0] = start
    <3>1. 0 \in 0 .. m + 1 /\ 0 # m + 1
      OBVIOUS
    <3> QED
      BY <2>2, <2>4, <3>1
  <2>7. h[m + 1] = step[m + 1][g[m]]
    <3>1. m + 1 \in 0 .. m + 1
      OBVIOUS
    <3> QED
      BY <3>1
  <2> HIDE DEF h
  <2>8. ASSUME NEW k \in 1 .. m + 1 PROVE h[k] = step[k][h[k - 1]]
    <3>1. k - 1 \in 0 .. m + 1 /\ k - 1 # m + 1 /\ k \in 0 .. m + 1
      OBVIOUS
    <3>2. h[k - 1] = g[k - 1]
      BY <2>4, <3>1
    <3>3. CASE k = m + 1
      <4>1. k - 1 = m
        BY <3>3
      <4> QED
        BY <2>7, <3>2, <3>3, <4>1
    <3>4. CASE k # m + 1
      <4>1. k \in 1 .. m
        BY <3>4
      <4> QED
        BY <2>2, <2>4, <3>1, <3>2, <3>4, <4>1
    <3> QED
      BY <3>3, <3>4
  <2> QED
    BY <2>5, <2>6, <2>8 DEF Has
<1> HIDE DEF S
<1>3. n \in S
  BY <1>1, <1>2, Induction
<1>4. \E g : Has(g, n)
  BY <1>3 DEF S
<1> QED
  BY <1>4 DEF Has

\* The loop that looks for the largest number
LEMMA LoopOfMax ==
  ASSUME NEW n \in Nat, NEW d, \A i \in 1 .. n : d[i] \in Nat
  PROVE  \E g \in [0 .. n -> Nat] :
           /\ g[0] = 0
           /\ \A k \in 1 .. n : g[k] = IF g[k - 1] < d[k] THEN d[k] ELSE g[k - 1]
<1> DEFINE step == [k \in 1 .. n |-> [v \in Nat |-> IF v < d[k] THEN d[k] ELSE v]]
<1>1. step \in [1 .. n -> [Nat -> Nat]]
  OBVIOUS
<1>2. \A k \in 1 .. n, v \in Nat : step[k][v] = IF v < d[k] THEN d[k] ELSE v
  OBVIOUS
<1> HIDE DEF step
<1>3. 0 \in Nat
  OBVIOUS
<1>4. PICK g \in [0 .. n -> Nat] : /\ g[0] = 0
                                  /\ \A k \in 1 .. n : g[k] = step[k][g[k - 1]]
  BY <1>1, <1>3, LoopExists
<1>5. ASSUME NEW k \in 1 .. n PROVE g[k] = IF g[k - 1] < d[k] THEN d[k] ELSE g[k - 1]
  <2>1. k - 1 \in 0 .. n /\ g[k - 1] \in Nat
    OBVIOUS
  <2> QED
    BY <1>2, <1>4, <2>1
<1> QED
  BY <1>4, <1>5

\* The loop that looks for the smallest one, from the first number on
LEMMA LoopOfMin ==
  ASSUME NEW n \in Nat, NEW d, \A i \in 1 .. n : d[i] \in Nat, n >= 1
  PROVE  \E g \in [0 .. n -> Nat] :
           /\ g[0] = d[1]
           /\ \A k \in 1 .. n : g[k] = IF g[k - 1] > d[k] THEN d[k] ELSE g[k - 1]
<1> DEFINE step == [k \in 1 .. n |-> [v \in Nat |-> IF v > d[k] THEN d[k] ELSE v]]
<1>1. step \in [1 .. n -> [Nat -> Nat]]
  OBVIOUS
<1>2. \A k \in 1 .. n, v \in Nat : step[k][v] = IF v > d[k] THEN d[k] ELSE v
  OBVIOUS
<1> HIDE DEF step
<1>3. d[1] \in Nat
  OBVIOUS
<1>4. PICK g \in [0 .. n -> Nat] : /\ g[0] = d[1]
                                  /\ \A k \in 1 .. n : g[k] = step[k][g[k - 1]]
  BY <1>1, <1>3, LoopExists
<1>5. ASSUME NEW k \in 1 .. n PROVE g[k] = IF g[k - 1] > d[k] THEN d[k] ELSE g[k - 1]
  <2>1. k - 1 \in 0 .. n /\ g[k - 1] \in Nat
    OBVIOUS
  <2> QED
    BY <1>2, <1>4, <2>1
<1> QED
  BY <1>4, <1>5

\* The loop that sums up in a word
SumInWord(u, v, top) == (u + v) % top

LEMMA LoopOfSum ==
  ASSUME NEW n \in Nat, NEW d, \A i \in 1 .. n : d[i] \in Nat, NEW top \in Nat, top > 0
  PROVE  \E g \in [0 .. n -> Nat] :
           /\ g[0] = 0
           /\ \A k \in 1 .. n : g[k] = SumInWord(g[k - 1], d[k], top)
<1> DEFINE step == [k \in 1 .. n |-> [v \in Nat |-> SumInWord(v, d[k], top)]]
<1>1. step \in [1 .. n -> [Nat -> Nat]]
  <2>1. ASSUME NEW k \in 1 .. n, NEW v \in Nat PROVE SumInWord(v, d[k], top) \in Nat
    <3>1. v + d[k] \in Int
      OBVIOUS
    <3>2. (v + d[k]) % top \in 0 .. top - 1
      BY <3>1, DivMod
    <3> QED
      BY <3>2 DEF SumInWord
  <2> QED
    BY <2>1
<1>2. \A k \in 1 .. n, v \in Nat : step[k][v] = SumInWord(v, d[k], top)
  OBVIOUS
<1> HIDE DEF step
<1>3. 0 \in Nat
  OBVIOUS
<1>4. PICK g \in [0 .. n -> Nat] : /\ g[0] = 0
                                  /\ \A k \in 1 .. n : g[k] = step[k][g[k - 1]]
  BY <1>1, <1>3, LoopExists
<1>5. ASSUME NEW k \in 1 .. n PROVE g[k] = SumInWord(g[k - 1], d[k], top)
  <2>1. k - 1 \in 0 .. n /\ g[k - 1] \in Nat
    OBVIOUS
  <2> QED
    BY <1>2, <1>4, <2>1
<1> QED
  BY <1>4, <1>5

\* Measurements there are some of, and the sum of them if it fits into the word
Measured(w, ts) == w \in Nat /\ ts \in Seq(Nat \X Nat) \ {<< >>}
SumFits(w, ts) == Len(ts) * max_time(w, ts) < TwoTo[w]

\* Durations are words, also when the clock wraps around within one of them.
LEMMA DurationsAreWords ==
  ASSUME NEW w, NEW ts, Measured(w, ts)
  PROVE  /\ Len(ts) \in Nat /\ Len(ts) >= 1
         /\ TwoTo[w] \in Nat /\ TwoTo[w] > 0
         /\ \A i \in 1 .. Len(ts) : Differences(w, ts)[i] \in Nat
<1>1. w \in Nat /\ Len(ts) \in Nat /\ Len(ts) >= 1 /\ ts \in Seq(Nat \X Nat)
  BY DEF Measured
<1>2. TwoTo[w] \in Nat /\ TwoTo[w] > 0
  BY <1>1, TwoToPositive
<1>3. ASSUME NEW i \in 1 .. Len(ts) PROVE Differences(w, ts)[i] \in Nat
  <2> DEFINE v == ts[i][2] - ts[i][1]
  <2>1. ts[i] \in Nat \X Nat
    BY <1>1
  <2>2. v \in Int
    BY <2>1
  <2>3. Differences(w, ts)[i] = v % TwoTo[w]
    BY DEF Differences
  <2> HIDE DEF v
  <2>4. v % TwoTo[w] \in 0 .. TwoTo[w] - 1
    BY <1>2, <2>2, DivMod
  <2> QED
    BY <1>2, <2>3, <2>4
<1> QED
  BY <1>1, <1>2, <1>3

\* The longest one of some durations
LEMMA MaxTimeIs ==
  ASSUME NEW w, NEW ts, Measured(w, ts)
  PROVE  LET d == Differences(w, ts)
         IN  /\ max_time(w, ts) \in Nat
             /\ \A i \in 1 .. Len(ts) : d[i] \in Nat /\ d[i] <= max_time(w, ts)
<1> DEFINE n == Len(ts)
           d == Differences(w, ts)
           most(g) == [k \in 0 .. n |-> IF k = 0 THEN 0 ELSE IF g[k - 1] < d[k] THEN d[k] ELSE g[k - 1]]
           t_max == CHOOSE g : g = most(g)
<1>1. n \in Nat /\ \A i \in 1 .. n : d[i] \in Nat
  BY DurationsAreWords
<1>2. max_time(w, ts) = t_max[n]
  BY DEF max_time
<1> HIDE DEF n, d
<1>3. t_max = most(t_max)
  <2>1. PICK g \in [0 .. n -> Nat] :
          /\ g[0] = 0
          /\ \A k \in 1 .. n : g[k] = IF g[k - 1] < d[k] THEN d[k] ELSE g[k - 1]
    <3> HIDE DEF most
    <3> QED
      BY <1>1, LoopOfMax
  <2>2. \A k \in 0 .. n : k # 0 => k \in 1 .. n
    BY <1>1
  <2>3. g = most(g)
    BY <2>1, <2>2
  <2> HIDE DEF most
  <2> QED
    BY <2>3
<1> HIDE DEF t_max
<1> DEFINE S == {m \in Nat : m <= n => t_max[m] \in Nat /\ \A i \in 1 .. m : d[i] <= t_max[m]}
<1>4. 0 \in S
  BY <1>1, <1>3
<1>5. ASSUME NEW m \in Nat, m \in S PROVE m + 1 \in S
  <2> SUFFICES ASSUME m + 1 <= n
               PROVE  t_max[m + 1] \in Nat /\ \A i \in 1 .. m + 1 : d[i] <= t_max[m + 1]
    OBVIOUS
  <2>1. t_max[m] \in Nat /\ \A i \in 1 .. m : d[i] <= t_max[m]
    BY <1>1, <1>5
  <2>2. m + 1 \in 0 .. n /\ m + 1 # 0 /\ (m + 1) - 1 = m /\ d[m + 1] \in Nat
    BY <1>1
  <2>3. t_max[m + 1] = IF t_max[m] < d[m + 1] THEN d[m + 1] ELSE t_max[m]
    BY <1>3, <2>2
  <2>4. \A i \in 1 .. m : d[i] \in Nat
    BY <1>1
  <2>5. \A i \in 1 .. m + 1 : i \in 1 .. m \/ i = m + 1
    OBVIOUS
  <2>6. t_max[m + 1] \in Nat /\ t_max[m] <= t_max[m + 1] /\ d[m + 1] <= t_max[m + 1]
    BY <2>1, <2>2, <2>3
  <2>7. ASSUME NEW i \in 1 .. m PROVE d[i] <= t_max[m + 1]
    BY <2>1, <2>4, <2>6
  <2> QED
    BY <2>5, <2>6, <2>7
<1> HIDE DEF S
<1>6. n \in S
  BY <1>1, <1>4, <1>5, Induction
<1>7. t_max[n] \in Nat /\ \A i \in 1 .. n : d[i] <= t_max[n]
  BY <1>1, <1>6 DEF S
<1> QED
  BY <1>1, <1>2, <1>7 DEF n, d

\* The shortest one
LEMMA MinTimeIs ==
  ASSUME NEW w, NEW ts, Measured(w, ts)
  PROVE  LET d == Differences(w, ts)
         IN  /\ min_time(w, ts) \in Nat
             /\ \A i \in 1 .. Len(ts) : min_time(w, ts) <= d[i]
<1> DEFINE n == Len(ts)
           d == Differences(w, ts)
           least(g) == [k \in 0 .. n |-> IF k = 0 THEN d[1] ELSE IF g[k - 1] > d[k] THEN d[k] ELSE g[k - 1]]
           t_min == CHOOSE g : g = least(g)
<1>1. n \in Nat /\ n >= 1 /\ \A i \in 1 .. n : d[i] \in Nat
  BY DurationsAreWords
<1>2. min_time(w, ts) = t_min[n]
  BY DEF min_time
<1> HIDE DEF n, d
<1>3. t_min = least(t_min)
  <2>1. PICK g \in [0 .. n -> Nat] :
          /\ g[0] = d[1]
          /\ \A k \in 1 .. n : g[k] = IF g[k - 1] > d[k] THEN d[k] ELSE g[k - 1]
    <3> HIDE DEF least
    <3> QED
      BY <1>1, LoopOfMin
  <2>2. \A k \in 0 .. n : k # 0 => k \in 1 .. n
    BY <1>1
  <2>3. g = least(g)
    BY <2>1, <2>2
  <2> HIDE DEF least
  <2> QED
    BY <2>3
<1> HIDE DEF t_min
<1> DEFINE S == {m \in Nat : m <= n => t_min[m] \in Nat /\ \A i \in 1 .. m : t_min[m] <= d[i]}
<1>4. 0 \in S
  BY <1>1, <1>3
<1>5. ASSUME NEW m \in Nat, m \in S PROVE m + 1 \in S
  <2> SUFFICES ASSUME m + 1 <= n
               PROVE  t_min[m + 1] \in Nat /\ \A i \in 1 .. m + 1 : t_min[m + 1] <= d[i]
    OBVIOUS
  <2>1. t_min[m] \in Nat /\ \A i \in 1 .. m : t_min[m] <= d[i]
    BY <1>1, <1>5
  <2>2. m + 1 \in 0 .. n /\ m + 1 # 0 /\ (m + 1) - 1 = m /\ d[m + 1] \in Nat
    BY <1>1
  <2>3. t_min[m + 1] = IF t_min[m] > d[m + 1] THEN d[m + 1] ELSE t_min[m]
    BY <1>3, <2>2
  <2>4. \A i \in 1 .. m : d[i] \in Nat
    BY <1>1
  <2>5. \A i \in 1 .. m + 1 : i \in 1 .. m \/ i = m + 1
    OBVIOUS
  <2>6. t_min[m + 1] \in Nat /\ t_min[m + 1] <= t_min[m] /\ t_min[m + 1] <= d[m + 1]
    BY <2>1, <2>2, <2>3
  <2>7. ASSUME NEW i \in 1 .. m PROVE t_min[m + 1] <= d[i]
    BY <2>1, <2>4, <2>6
  <2> QED
    BY <2>5, <2>6, <2>7
<1> HIDE DEF S
<1>6. n \in S
  BY <1>1, <1>4, <1>5, Induction
<1>7. t_min[n] \in Nat /\ \A i \in 1 .. n : t_min[n] <= d[i]
  BY <1>1, <1>6 DEF S
<1> QED
  BY <1>1, <1>2, <1>7 DEF n, d

\* A quotient is between the numbers whose multiples the dividend is between.
LEMMA QuotientBetween ==
  ASSUME NEW n \in Nat, n > 0, NEW x \in Nat, NEW a \in Nat, NEW b \in Nat,
         n * a <= x, x <= n * b
  PROVE  a <= x \div n /\ x \div n <= b
<1> DEFINE q == x \div n
           r == x % n
<1>1. q \in Int /\ r \in 0 .. n - 1 /\ x = n * q + r
  BY DivMod
<1> HIDE DEF q, r
<1>2. a < q + 1
  <2>1. n * (q + 1) = n * q + n
    BY <1>1, Z3
  <2>2. n * a \in Int /\ n * q \in Int
    BY <1>1
  <2>3. n * a < n * (q + 1)
    BY <1>1, <2>1, <2>2
  <2> QED
    BY <1>1, <2>3, GrowsBack
<1>3. q < b + 1
  <2>1. n * (b + 1) = n * b + n
    BY Z3
  <2>2. n * b \in Int /\ n * q \in Int
    BY <1>1
  <2>3. n * q < n * (b + 1)
    BY <1>1, <2>1, <2>2
  <2> QED
    BY <1>1, <2>3, GrowsBack
<1> QED
  BY <1>1, <1>2, <1>3 DEF q

\* As long as the sum fits into the word, the average is between the two.
LEMMA AverageBetween ==
  ASSUME NEW w, NEW ts, Measured(w, ts), SumFits(w, ts)
  PROVE  min_time(w, ts) <= average(w, ts) /\ average(w, ts) <= max_time(w, ts)
<1> DEFINE n == Len(ts)
           d == Differences(w, ts)
           low == min_time(w, ts)
           high == max_time(w, ts)
           top == TwoTo[w]
           sum(g) == [k \in 0 .. n |-> IF k = 0 THEN 0 ELSE (g[k - 1] + d[k]) % top]
           avg == CHOOSE g : g = sum(g)
<1>1. n \in Nat /\ n >= 1 /\ top \in Nat /\ top > 0
  BY DurationsAreWords
<1>2. /\ low \in Nat /\ high \in Nat
      /\ \A i \in 1 .. n : d[i] \in Nat /\ low <= d[i] /\ d[i] <= high
  BY MaxTimeIs, MinTimeIs
<1>3. average(w, ts) = avg[n] \div n
  BY DEF average
<1> HIDE DEF n, d, low, high, top
<1>4. avg = sum(avg)
  <2>1. PICK g \in [0 .. n -> Nat] :
          /\ g[0] = 0
          /\ \A k \in 1 .. n : g[k] = SumInWord(g[k - 1], d[k], top)
    <3>1. \A i \in 1 .. n : d[i] \in Nat
      BY <1>2
    <3>2. n \in Nat /\ top \in Nat /\ top > 0
      BY <1>1
    <3> HIDE DEF sum
    <3> QED
      BY <3>1, <3>2, LoopOfSum, ZenonT(40)
  <2>2. \A k \in 0 .. n : k # 0 => k \in 1 .. n
    BY <1>1
  <2>3. g = sum(g)
    BY <2>1, <2>2 DEF SumInWord
  <2> HIDE DEF sum
  <2> QED
    BY <2>3
<1> HIDE DEF avg
<1> DEFINE S == {m \in Nat : m <= n => avg[m] \in Nat /\ m * low <= avg[m] /\ avg[m] <= m * high}
<1>5. 0 \in S
  BY <1>1, <1>2, <1>4
<1>6. ASSUME NEW m \in Nat, m \in S PROVE m + 1 \in S
  <2> SUFFICES ASSUME m + 1 <= n
               PROVE  /\ avg[m + 1] \in Nat
                      /\ (m + 1) * low <= avg[m + 1] /\ avg[m + 1] <= (m + 1) * high
    OBVIOUS
  <2>1. avg[m] \in Nat /\ m * low <= avg[m] /\ avg[m] <= m * high
    BY <1>1, <1>6
  <2>2. m + 1 \in 0 .. n /\ m + 1 # 0 /\ (m + 1) - 1 = m /\ m + 1 \in 1 .. n
    BY <1>1
  <2>3. avg[m + 1] = (avg[m] + d[m + 1]) % top
    BY <1>4, <2>2
  <2>4. d[m + 1] \in Nat /\ low <= d[m + 1] /\ d[m + 1] <= high
    BY <1>2, <2>2
  <2>5. (m + 1) * low = m * low + low /\ (m + 1) * high = m * high + high
    BY <1>2, Z3
  <2>6. m * low \in Nat /\ m * high \in Nat
    BY <1>2
  <2>7. /\ (m + 1) * low <= avg[m] + d[m + 1] /\ avg[m] + d[m + 1] <= (m + 1) * high
        /\ avg[m] + d[m + 1] \in Nat
    <3> DEFINE l == m * low
               h == m * high
               e == d[m + 1]
    <3>1. l \in Nat /\ h \in Nat
      BY <2>6
    <3>2. avg[m] \in Nat /\ l <= avg[m] /\ avg[m] <= h
      BY <2>1
    <3>3. e \in Nat /\ low <= e /\ e <= high
      BY <2>4
    <3> HIDE DEF l, h, e
    <3>4. l + low <= avg[m] + e /\ avg[m] + e <= h + high /\ avg[m] + e \in Nat
      BY <1>2, <3>1, <3>2, <3>3
    <3> QED
      BY <2>5, <3>4 DEF l, h, e
  <2>8. (m + 1) * high <= n * high
    <3>1. high * (m + 1) <= high * n
      BY <1>1, <1>2, Grows
    <3>2. high * (m + 1) = (m + 1) * high /\ high * n = n * high
      BY <1>1, <1>2, Z3
    <3> QED
      BY <3>1, <3>2
  <2>9. n * high < top
    BY DEF SumFits, n, high, top
  <2>10. (m + 1) * high \in Nat /\ n * high \in Nat
    BY <1>1, <1>2
  <2>11. avg[m] + d[m + 1] < top
    BY <1>1, <2>7, <2>8, <2>9, <2>10
  <2>12. (avg[m] + d[m + 1]) % top = avg[m] + d[m + 1]
    <3> DEFINE x == avg[m] + d[m + 1]
    <3>1. x \in Nat /\ x < 2 * top /\ x < top
      BY <1>1, <2>7, <2>11
    <3> HIDE DEF x
    <3>2. x % top = x
      BY <1>1, <3>1, ModSmall
    <3> QED
      BY <3>2 DEF x
  <2> QED
    BY <2>3, <2>7, <2>12
<1> HIDE DEF S
<1>7. n \in S
  BY <1>1, <1>5, <1>6, Induction
<1>8. avg[n] \in Nat /\ n * low <= avg[n] /\ avg[n] <= n * high
  BY <1>1, <1>7 DEF S
<1>9. low <= avg[n] \div n /\ avg[n] \div n <= high
  <2> DEFINE x == avg[n]
  <2>1. x \in Nat /\ n > 0 /\ n * low <= x /\ x <= n * high
    BY <1>1, <1>8
  <2> HIDE DEF x
  <2>2. low <= x \div n /\ x \div n <= high
    BY <1>1, <1>2, <2>1, QuotientBetween
  <2> QED
    BY <2>2 DEF x
<1> QED
  BY <1>3, <1>9 DEF low, high

\* The helpers of a call
LEMMA Helped == ASSUME Help PROVE HelpersKeepLaws'
<1>1. CASE \E b \in SUBSET (0 .. 7) :
             Called([function |-> "reverse", byte |-> b, result |-> reverse_byte(b)])
  <2>1. PICK b \in SUBSET (0 .. 7) :
          call' = [function |-> "reverse", byte |-> b, result |-> reverse_byte(b)]
    BY <1>1 DEF Called
  <2>2. call'.function = "reverse" /\ call'.byte = b /\ call'.result = reverse_byte(b)
    BY <2>1
  <2>3. ~ IsCall("diff")' /\ ~ IsCall("amount")' /\ ~ IsCall("times")'
    BY <2>2 DEF IsCall
  <2> QED
    BY <2>2, <2>3, ByteMirrored DEF HelpersKeepLaws
<1>2. CASE \E a, b \in 0 .. 15 :
             Called([function |-> "diff", a |-> a, b |-> b, result |-> abs_diff(a, b)])
  <2>1. PICK a \in 0 .. 15, b \in 0 .. 15 :
          call' = [function |-> "diff", a |-> a, b |-> b, result |-> abs_diff(a, b)]
    BY <1>2 DEF Called
  <2>2. call'.function = "diff" /\ call'.a = a /\ call'.b = b /\ call'.result = abs_diff(a, b)
    BY <2>1
  <2>3. ~ IsCall("reverse")' /\ ~ IsCall("amount")' /\ ~ IsCall("times")'
    BY <2>2 DEF IsCall
  <2>4. abs_diff(a, b) \in {a - b, b - a} \cap Nat
    BY DEF abs_diff
  <2> QED
    BY <2>2, <2>3, <2>4 DEF HelpersKeepLaws
<1>3. CASE \E array \in Arrays :
             Called([function |-> "amount", array |-> array, result |-> find_max_amount(array)])
  <2>1. PICK array \in Arrays :
          call' = [function |-> "amount", array |-> array, result |-> find_max_amount(array)]
    BY <1>3 DEF Called
  <2>2. /\ call'.function = "amount" /\ call'.array = array
        /\ call'.result = find_max_amount(array) /\ array \in Seq(Nat) \ {<< >>}
    BY <2>1, NumbersAssumption
  <2>3. ~ IsCall("reverse")' /\ ~ IsCall("diff")' /\ ~ IsCall("times")'
    BY <2>2 DEF IsCall
  <2> QED
    BY <2>2, <2>3, MostFrequent DEF HelpersKeepLaws
<1>4. CASE \E times \in Measurements :
             Called([function |-> "times", times |-> times,
                     result |-> [average |-> average(TimeBits, times),
                                 max     |-> max_time(TimeBits, times),
                                 min     |-> min_time(TimeBits, times)]])
  <2>1. PICK times \in Measurements :
          call' = [function |-> "times", times |-> times,
                   result |-> [average |-> average(TimeBits, times),
                               max     |-> max_time(TimeBits, times),
                               min     |-> min_time(TimeBits, times)]]
    BY <1>4 DEF Called
  <2>2. /\ call'.function = "times" /\ call'.times = times
        /\ call'.result.average = average(TimeBits, times)
        /\ call'.result.max = max_time(TimeBits, times)
        /\ call'.result.min = min_time(TimeBits, times)
        /\ times \in Seq(Nat \X Nat) \ {<< >>} /\ TimeBits \in Nat
    BY <2>1, NumbersAssumption
  <2>3. ~ IsCall("reverse")' /\ ~ IsCall("diff")' /\ ~ IsCall("amount")'
    BY <2>2 DEF IsCall
  <2> QED
    BY <2>2, <2>3, AverageBetween DEF HelpersKeepLaws, Measured, SumFits
<1> QED
  BY <1>1, <1>2, <1>3, <1>4 DEF Help


\* Whatever the arrays and the measurements, and for clocks of any width: bits are mirrored
\* (bitformatting.cpp:6), the most frequent value is found (helper.h:20), and averages are
\* between the shortest and the longest duration (time.h:76).
THEOREM HelpersInvariant == CallsSpec => []HelpersKeepLaws
<1>1. CallInit => HelpersKeepLaws
  BY NothingCalled DEF HelpersKeepLaws, IsCall
<1>2. HelpersKeepLaws /\ [CallsNext]_call => HelpersKeepLaws'
  <2> SUFFICES ASSUME HelpersKeepLaws, [CallsNext]_call PROVE HelpersKeepLaws'
    OBVIOUS
  <2>1. CASE UNCHANGED call
    BY <2>1 DEF HelpersKeepLaws, IsCall
  <2>2. CASE CallsNext
    <3>1. CASE IsCall("reverse")' \/ IsCall("diff")' \/ IsCall("amount")' \/ IsCall("times")'
      BY <2>2, <3>1, WhichAction, Helped
    <3>2. CASE ~ (IsCall("reverse")' \/ IsCall("diff")' \/ IsCall("amount")' \/ IsCall("times")')
      BY <3>2 DEF HelpersKeepLaws
    <3> QED
      BY <3>1, <3>2
  <2> QED
    BY <2>1, <2>2
<1> QED
  BY <1>1, <1>2, PTL DEF CallsSpec

\* Both, as the run checks them.
THEOREM NumbersInvariant == CallsSpec => []NumbersKeepLaws
<1>1. GeneratorsInvertible /\ HelpersKeepLaws => NumbersKeepLaws
  BY DEF NumbersKeepLaws
<1> QED
  BY <1>1, GeneratorsInvariant, HelpersInvariant, PTL

-----------------------------------------------------------------------------
(* get_location(): an inductive invariant of both PPUs. *)

\* At first, no PPU is in get_location().
LEMMA InitInv == Init => IInv
  BY LocationAssumption
  DEF Init, IInv, TypeOK, RowInv, OwnReadInv, OtherReadInv, HasRead0, HasRead1,
      With0, With32, Locations, Reads, Rows, NoRow, NoReads, PPUOnDLS

\* There is one other PPU.
LEMMA OtherPPU == ASSUME NEW p \in PPUOnDLS, NEW q \in PPUOnDLS, NEW a \in PPUOnDLS,
                     q # p, a # p
              PROVE  a = q
  BY DEF PPUOnDLS

\* A row in which one column is replaced and put back is the same row.
LEMMA PutBack == ASSUME NEW row \in Rows, NEW v, NEW w
                 PROVE  [[row EXCEPT ![Probed] = v] EXCEPT ![Probed] = row[Probed]] = row
  BY LocationAssumption DEF Rows

\* What a write of a test value does.
LEMMA SetTestFacts ==
  ASSUME TypeOK, NEW p \in PPUOnDLS, SetTest(p)
  PROVE  \E v \in {0, 32} :
           /\ [working[p] EXCEPT ![Probed] = v] \in Rows
           /\ working' = [working EXCEPT ![p] = [working[p] EXCEPT ![Probed] = v]]
           /\ synram' = [synram EXCEPT ![p] = [working[p] EXCEPT ![Probed] = v]]
           /\ \/ v = 0 /\ pc[p] = "set 0" /\ pc' = [pc EXCEPT ![p] = "top_read_0"]
              \/ v = 32 /\ pc[p] = "set 32" /\ pc' = [pc EXCEPT ![p] = "top_read_1"]
<1>1. PICK v \in {0, 32} :
        /\ IF v = 0 THEN Goto(p, "set 0", "top_read_0") ELSE Goto(p, "set 32", "top_read_1")
        /\ working' = [working EXCEPT ![p][Probed] = v]
        /\ synram' = [synram EXCEPT ![p] = working'[p]]
  BY DEF SetTest
<1>2. [working[p] EXCEPT ![Probed] = v] \in Rows
  BY LocationAssumption DEF TypeOK, Rows
<1>3. working' = [working EXCEPT ![p] = [working[p] EXCEPT ![Probed] = v]]
  BY <1>1
<1>4. working'[p] = [working[p] EXCEPT ![Probed] = v]
  BY <1>3 DEF TypeOK
<1>5. synram' = [synram EXCEPT ![p] = [working[p] EXCEPT ![Probed] = v]]
  BY <1>1, <1>4
<1>6. CASE v = 0
  <2>1. Goto(p, "set 0", "top_read_0")
    BY <1>1, <1>6
  <2> QED
    BY <1>2, <1>3, <1>5, <1>6, <2>1 DEF Goto
<1>7. CASE v = 32
  <2>1. v # 0
    BY <1>7
  <2>2. Goto(p, "set 32", "top_read_1")
    BY <1>1, <2>1
  <2> QED
    BY <1>2, <1>3, <1>5, <1>7, <2>2 DEF Goto
<1> QED
  BY <1>6, <1>7

\* What a read through the omnibus does.
LEMMA ReadTestFacts ==
  ASSUME TypeOK, NEW p \in PPUOnDLS, ReadTest(p)
  PROVE  \E r \in Reads :
           /\ pc[p] = r
           /\ pc' = [pc EXCEPT ![p] = After(r)]
           /\ \A q \in PPUOnDLS \ {p} : read'[q] = read[q]
           /\ \A s \in Reads \ {r} : read'[p][s] = read[p][s]
           /\ read'[p][r] = synram[Target(r)][Probed]
           /\ read' \in [PPUOnDLS -> [Reads -> Weights]]
           /\ pc' \in [PPUOnDLS -> Locations]
<1>1. PICK r \in Reads : /\ Goto(p, r, After(r))
                         /\ read' = [read EXCEPT ![p][r] = synram[Target(r)][Probed]]
  BY DEF ReadTest
<1>2. synram[Target(r)][Probed] \in Weights
  BY LocationAssumption DEF TypeOK, Rows, Target, PPUOnDLS
<1>3. After(r) \in Locations
  BY DEF After, Locations, Reads
<1>4. /\ read[p] \in [Reads -> Weights]
      /\ read \in [PPUOnDLS -> [Reads -> Weights]]
      /\ pc \in [PPUOnDLS -> Locations]
  BY DEF TypeOK
<1>5. read' = [read EXCEPT ![p] = [read[p] EXCEPT ![r] = synram[Target(r)][Probed]]]
  BY <1>1
<1> WITNESS r \in Reads
<1>6. read' \in [PPUOnDLS -> [Reads -> Weights]]
  BY <1>2, <1>4, <1>5
<1>7. pc[p] = r /\ pc' = [pc EXCEPT ![p] = After(r)]
  BY <1>1 DEF Goto
<1>8. pc' \in [PPUOnDLS -> Locations]
  BY <1>3, <1>4, <1>7
<1> QED
  BY <1>4, <1>5, <1>6, <1>7, <1>8

\* A PPU that goes on is at a location again.
LEMMA GotoLocation == ASSUME TypeOK, NEW p \in PPUOnDLS, NEW l \in Locations,
                             pc' = [pc EXCEPT ![p] = l]
                      PROVE  pc' \in [PPUOnDLS -> Locations]
  BY DEF TypeOK

\* The locations a write of a test value leads to.
LEMMA TestLocations == "top_read_0" \in Locations /\ "top_read_1" \in Locations
  BY DEF Locations, Reads

\* Every step keeps the types.
LEMMA TypeStep == TypeOK /\ [Next]_vars => TypeOK'
<1> SUFFICES ASSUME TypeOK, [Next]_vars PROVE TypeOK'
  OBVIOUS
<1> USE LocationAssumption DEF TypeOK, Goto, Rows, PPUOnDLS, Locations, Reads, locals
<1>1. CASE UNCHANGED vars
  BY <1>1 DEF vars
<1>2. ASSUME NEW p \in PPUOnDLS, Program(p) PROVE TypeOK'
  BY <1>2, ZenonT(40) DEF Program
<1>3. ASSUME NEW p \in PPUOnDLS, Call(p) PROVE TypeOK'
  BY <1>3 DEF Call
<1>4. ASSUME NEW p \in PPUOnDLS, GetRow(p) PROVE TypeOK'
  BY <1>4 DEF GetRow
<1>5. ASSUME NEW p \in PPUOnDLS, SetTest(p) PROVE TypeOK'
  <2>1. UNCHANGED <<before, read, kept, disturbed>>
    BY <1>5 DEF SetTest
  <2>2. PICK v \in {0, 32} :
          /\ [working[p] EXCEPT ![Probed] = v] \in Rows
          /\ working' = [working EXCEPT ![p] = [working[p] EXCEPT ![Probed] = v]]
          /\ synram' = [synram EXCEPT ![p] = [working[p] EXCEPT ![Probed] = v]]
          /\ \/ v = 0 /\ pc[p] = "set 0" /\ pc' = [pc EXCEPT ![p] = "top_read_0"]
             \/ v = 32 /\ pc[p] = "set 32" /\ pc' = [pc EXCEPT ![p] = "top_read_1"]
    BY <1>5, SetTestFacts
  <2>3. working' \in [PPUOnDLS -> Rows] /\ synram' \in [PPUOnDLS -> Rows]
    BY <2>2
  <2>4. pc' \in [PPUOnDLS -> Locations]
    <3>1. pc' = [pc EXCEPT ![p] = "top_read_0"] \/ pc' = [pc EXCEPT ![p] = "top_read_1"]
      BY <2>2
    <3>2. CASE pc' = [pc EXCEPT ![p] = "top_read_0"]
      BY <3>2, TestLocations, GotoLocation
    <3>3. CASE pc' = [pc EXCEPT ![p] = "top_read_1"]
      BY <3>3, TestLocations, GotoLocation
    <3> QED
      BY <3>1, <3>2, <3>3
  <2> QED
    BY <2>1, <2>3, <2>4
<1>6. ASSUME NEW p \in PPUOnDLS, ReadTest(p) PROVE TypeOK'
  BY <1>6, ReadTestFacts DEF ReadTest
<1>7. ASSUME NEW p \in PPUOnDLS, Restore(p) PROVE TypeOK'
  BY <1>7 DEF Restore, Forget, NoRow, NoReads
<1> QED
  BY <1>1, <1>2, <1>3, <1>4, <1>5, <1>6, <1>7 DEF Next, Step

\* Every step keeps what a PPU's own row has to do with its program's.
LEMMA RowStep == ASSUME IInv, [Next]_vars, NEW p \in PPUOnDLS PROVE RowInv(p)'
<1> USE LocationAssumption
    DEF IInv, TypeOK, RowInv, Holds, Goto, Rows, PPUOnDLS, With0, With32, Reads, locals
<1>1. CASE UNCHANGED vars
  BY <1>1 DEF vars
<1>2. ASSUME NEW q \in PPUOnDLS, Program(q) PROVE RowInv(p)'
  BY <1>2, ZenonT(40) DEF Program
<1>3. ASSUME NEW q \in PPUOnDLS, Call(q) PROVE RowInv(p)'
  BY <1>3 DEF Call
<1>4. ASSUME NEW q \in PPUOnDLS, GetRow(q) PROVE RowInv(p)'
  BY <1>4 DEF GetRow
<1>5. ASSUME NEW q \in PPUOnDLS, SetTest(q) PROVE RowInv(p)'
  <2>1. UNCHANGED <<before, read, kept, disturbed>>
    BY <1>5 DEF SetTest
  <2>2. PICK v \in {0, 32} :
          /\ [working[q] EXCEPT ![Probed] = v] \in Rows
          /\ working' = [working EXCEPT ![q] = [working[q] EXCEPT ![Probed] = v]]
          /\ synram' = [synram EXCEPT ![q] = [working[q] EXCEPT ![Probed] = v]]
          /\ \/ v = 0 /\ pc[q] = "set 0" /\ pc' = [pc EXCEPT ![q] = "top_read_0"]
             \/ v = 32 /\ pc[q] = "set 32" /\ pc' = [pc EXCEPT ![q] = "top_read_1"]
    BY <1>5, SetTestFacts
  <2>3. CASE p # q
    BY <2>1, <2>2, <2>3
  <2>4. CASE p = q /\ v = 0
    BY <2>1, <2>2, <2>4, ZenonT(40)
  <2>5. CASE p = q /\ v = 32
    <3>1. working'[p] = [kept[p] EXCEPT ![Probed] = 32]
      BY <2>2, <2>5, ZenonT(40)
    <3> QED
      BY <2>1, <2>2, <2>5, <3>1
  <2> QED
    BY <2>3, <2>4, <2>5
<1>6. ASSUME NEW q \in PPUOnDLS, ReadTest(q) PROVE RowInv(p)'
  <2>1. UNCHANGED <<synram, working, before, kept, disturbed>>
    BY <1>6 DEF ReadTest
  <2>2. PICK r \in Reads : pc[q] = r /\ pc' = [pc EXCEPT ![q] = After(r)]
    BY <1>6 DEF ReadTest
  <2> QED
    BY <2>1, <2>2 DEF After
<1>7. ASSUME NEW q \in PPUOnDLS, Restore(q) PROVE RowInv(p)'
  <2>1. CASE p # q
    BY <1>7, <2>1 DEF Restore, Forget
  <2>2. CASE p = q
    <3>1. synram'[p] = [[kept[p] EXCEPT ![Probed] = 32] EXCEPT ![Probed] = kept[p][Probed]]
      BY <1>7, <2>2 DEF Restore
    <3>2. synram'[p] = kept[p]
      BY <3>1, PutBack
    <3> QED
      BY <1>7, <2>2, <3>2 DEF Restore, Forget
  <2> QED
    BY <2>1, <2>2
<1> QED
  BY <1>1, <1>2, <1>3, <1>4, <1>5, <1>6, <1>7 DEF Next, Step

\* Every step keeps what a PPU has read from its own memory.
LEMMA OwnReadStep == ASSUME IInv, [Next]_vars, NEW p \in PPUOnDLS PROVE OwnReadInv(p)'
<1> USE LocationAssumption
    DEF IInv, TypeOK, OwnReadInv, HasRead0, HasRead1, Read0, Read1, Goto, PPUOnDLS,
        With32, Reads, locals
<1>1. CASE UNCHANGED vars
  BY <1>1 DEF vars
<1>2. ASSUME NEW q \in PPUOnDLS, Program(q) PROVE OwnReadInv(p)'
  BY <1>2 DEF Program
<1>3. ASSUME NEW q \in PPUOnDLS, Call(q) PROVE OwnReadInv(p)'
  BY <1>3 DEF Call
<1>4. ASSUME NEW q \in PPUOnDLS, GetRow(q) PROVE OwnReadInv(p)'
  BY <1>4 DEF GetRow
<1>5. ASSUME NEW q \in PPUOnDLS, SetTest(q) PROVE OwnReadInv(p)'
  <2>1. UNCHANGED read
    BY <1>5 DEF SetTest
  <2>2. \/ pc[q] = "set 0" /\ pc' = [pc EXCEPT ![q] = "top_read_0"]
        \/ pc[q] = "set 32" /\ pc' = [pc EXCEPT ![q] = "top_read_1"]
    BY <1>5 DEF SetTest
  <2>3. CASE q = p
    BY <2>1, <2>2, <2>3
  <2>4. CASE q # p
    BY <2>1, <2>2, <2>4
  <2> QED
    BY <2>3, <2>4
<1>6. ASSUME NEW q \in PPUOnDLS, ReadTest(q) PROVE OwnReadInv(p)'
  <2>1. UNCHANGED <<synram, working, before, kept, disturbed>>
    BY <1>6 DEF ReadTest
  <2>2. /\ pc[p] \in With0 => synram[p][Probed] = 0
        /\ pc[p] \in With32 => synram[p][Probed] = 32
    <3>1. kept[p] \in Rows /\ RowInv(p)
      OBVIOUS
    <3>2. ASSUME NEW v, Holds(p, v) PROVE synram[p][Probed] = v
      BY <3>1, <3>2, ZenonT(40) DEF Holds, Rows
    <3> QED
      BY <3>1, <3>2 DEF RowInv
  <2>3. PICK r \in Reads :
          /\ pc[q] = r
          /\ pc' = [pc EXCEPT ![q] = After(r)]
          /\ \A o \in PPUOnDLS \ {q} : read'[o] = read[o]
          /\ \A s \in Reads \ {r} : read'[q][s] = read[q][s]
          /\ read'[q][r] = synram[Target(r)][Probed]
    BY <1>6, ReadTestFacts, ZenonT(40)
  <2>4. CASE p # q
    BY <2>3, <2>4
  <2>5. CASE p = q
    BY <2>2, <2>3, <2>5 DEF With0, After, Target
  <2> QED
    BY <2>4, <2>5
<1>7. ASSUME NEW q \in PPUOnDLS, Restore(q) PROVE OwnReadInv(p)'
  BY <1>7 DEF Restore, Forget
<1> QED
  BY <1>1, <1>2, <1>3, <1>4, <1>5, <1>6, <1>7 DEF Next, Step

\* Every step keeps what an undisturbed PPU has read from the other memory.
LEMMA OtherReadStep == ASSUME IInv, [Next]_vars, NEW p \in PPUOnDLS PROVE OtherReadInv(p)'
<1> DEFINE Same(q) == /\ HasRead0(p, q) => read[p][Read0(q)] = synram[q][Probed]
                      /\ HasRead1(p, q) => read[p][Read1(q)] = synram[q][Probed]
<1> SUFFICES ASSUME NEW q \in PPUOnDLS, q # p, pc'[p] # "idle", ~ disturbed'[p]
             PROVE  pc'[q] = "idle" /\ Same(q)'
  BY DEF OtherReadInv
<1>1. TypeOK /\ (pc[p] # "idle" /\ ~ disturbed[p] => pc[q] = "idle" /\ Same(q))
  BY DEF IInv, OtherReadInv
<1> USE DEF HasRead0, HasRead1, With32
<1>2. CASE UNCHANGED vars
  BY <1>1, <1>2 DEF vars, locals
<1>3. ASSUME NEW a \in PPUOnDLS, Program(a) PROVE pc'[q] = "idle" /\ Same(q)'
  BY <1>1, <1>3 DEF Program, locals
<1>4. ASSUME NEW a \in PPUOnDLS, Call(a) PROVE pc'[q] = "idle" /\ Same(q)'
  BY <1>1, <1>4 DEF Call, Goto, TypeOK
<1>5. ASSUME NEW a \in PPUOnDLS, GetRow(a) PROVE pc'[q] = "idle" /\ Same(q)'
  BY <1>1, <1>5 DEF GetRow, Goto, TypeOK
<1>6. ASSUME NEW a \in PPUOnDLS, SetTest(a) PROVE pc'[q] = "idle" /\ Same(q)'
  <2>1. /\ UNCHANGED <<before, read, kept, disturbed>>
        /\ \A o \in PPUOnDLS \ {a} : synram'[o] = synram[o]
        /\ \/ pc[a] = "set 0" /\ pc' = [pc EXCEPT ![a] = "top_read_0"]
           \/ pc[a] = "set 32" /\ pc' = [pc EXCEPT ![a] = "top_read_1"]
    BY <1>1, <1>6, SetTestFacts DEF SetTest, TypeOK
  <2>2. CASE a = p
    BY <1>1, <2>1, <2>2, OtherPPU DEF TypeOK, Read0, Read1
  <2>3. CASE a # p
    BY <1>1, <2>1, <2>3, OtherPPU DEF TypeOK
  <2> QED
    BY <2>2, <2>3
<1>7. ASSUME NEW a \in PPUOnDLS, ReadTest(a) PROVE pc'[q] = "idle" /\ Same(q)'
  <2>1. UNCHANGED <<synram, working, before, kept, disturbed>>
    BY <1>7 DEF ReadTest
  <2>2. PICK r \in Reads :
          /\ pc[a] = r
          /\ pc' = [pc EXCEPT ![a] = After(r)]
          /\ \A o \in PPUOnDLS \ {a} : read'[o] = read[o]
          /\ \A s \in Reads \ {r} : read'[a][s] = read[a][s]
          /\ read'[a][r] = synram[Target(r)][Probed]
    BY <1>1, <1>7, ReadTestFacts
  <2>3. CASE a = p
    BY <1>1, <2>1, <2>2, <2>3 DEF TypeOK, After, Target, Read0, Read1, Reads, PPUOnDLS
  <2>4. CASE a # p
    BY <1>1, <2>1, <2>2, <2>4, OtherPPU DEF TypeOK, Reads
  <2> QED
    BY <2>3, <2>4
<1>8. ASSUME NEW a \in PPUOnDLS, Restore(a) PROVE pc'[q] = "idle" /\ Same(q)'
  BY <1>1, <1>8, OtherPPU DEF Restore, Forget, Goto, TypeOK
<1> QED
  BY <1>2, <1>3, <1>4, <1>5, <1>6, <1>7, <1>8 DEF Next, Step

-----------------------------------------------------------------------------

\* The invariant holds, whatever the PPUs write while the other is in the call.
THEOREM InductiveInvariant == Spec => []IInv
<1>1. Init => IInv
  BY InitInv
<1>2. IInv /\ [Next]_vars => IInv'
  BY TypeStep, RowStep, OwnReadStep, OtherReadStep DEF IInv
<1> QED
  BY <1>1, <1>2, PTL DEF Spec

\* get_location() leaves both synapse memories as they were.
THEOREM RowIsRestored == Spec => []RowRestored
<1>1. IInv => RowRestored
  BY DEF IInv, RowInv, RowRestored
<1> QED
  BY <1>1, InductiveInvariant, PTL

\* The call always succeeds.
THEOREM CallSucceeds == Spec => AlwaysSucceeds
<1>1. ASSUME IInv, NEW p \in PPUOnDLS, Restore(p) PROVE Verdict(read[p]).valid
  <2>1. OwnReadInv(p) /\ pc[p] = "restore"
    BY <1>1 DEF IInv, Restore, Goto
  <2>2. read[p][Read0(p)] = 0 /\ read[p][Read1(p)] = 32
    BY <2>1 DEF OwnReadInv, HasRead0, HasRead1, With32
  <2> QED
    BY <2>2 DEF Read0, Read1, Verdict, SeenTop, SeenBottom, SeenAt, PPUOnDLS
<1>2. IInv /\ [Next]_vars =>
        [\A p \in PPUOnDLS : Restore(p) => Verdict(read[p]).valid]_vars
  BY <1>1
<1> QED
  BY <1>2, InductiveInvariant, PTL DEF Spec, AlwaysSucceeds

\* The top PPU always learns that it is the top one.
THEOREM TopLearnsTop == Spec => TopIsRight
<1>1. ASSUME IInv, Restore("top")
      PROVE  Verdict(read["top"]) = [valid |-> TRUE, ppu |-> "top"]
  <2>1. OwnReadInv("top") /\ pc["top"] = "restore"
    BY <1>1 DEF IInv, Restore, Goto, PPUOnDLS
  <2>2. read["top"]["top_read_0"] = 0 /\ read["top"]["top_read_1"] = 32
    BY <2>1 DEF OwnReadInv, HasRead0, HasRead1, With32, Read0, Read1
  <2> QED
    BY <2>2 DEF Verdict, SeenTop, SeenBottom, SeenAt
<1>2. IInv /\ [Next]_vars =>
        [Restore("top") => Verdict(read["top"]) = [valid |-> TRUE, ppu |-> "top"]]_vars
  BY <1>1
<1> QED
  BY <1>2, InductiveInvariant, PTL DEF Spec, TopIsRight

\* Either PPU learns where it is if the other one neither runs the function nor
\* writes weights during the call.
THEOREM LearnsLocation == Spec => RightUnlessDisturbed
<1>1. ASSUME IInv, NEW p \in PPUOnDLS, Restore(p), ~ disturbed[p]
      PROVE  Verdict(read[p]) = [valid |-> TRUE, ppu |-> p]
  <2>1. OwnReadInv(p) /\ OtherReadInv(p) /\ pc[p] = "restore"
    BY <1>1 DEF IInv, Restore, Goto
  <2>2. read[p][Read0(p)] = 0 /\ read[p][Read1(p)] = 32
    BY <2>1 DEF OwnReadInv, HasRead0, HasRead1, With32
  <2>3. ASSUME p = "bottom" PROVE read[p]["top_read_0"] = read[p]["top_read_1"]
    BY <1>1, <2>1, <2>3 DEF OtherReadInv, HasRead0, HasRead1, With32, Read0, Read1, PPUOnDLS
  <2>4. CASE p = "top"
    BY <2>2, <2>4 DEF Read0, Read1, Verdict, SeenTop, SeenBottom, SeenAt
  <2>5. CASE p = "bottom"
    <3>1. ~ SeenTop(read[p])
      BY <2>3, <2>5 DEF SeenTop, SeenAt
    <3>2. SeenBottom(read[p])
      BY <2>2, <2>5 DEF SeenBottom, SeenAt, Read0, Read1
    <3> QED
      BY <3>1, <3>2, <2>5 DEF Verdict
  <2> QED
    BY <2>4, <2>5 DEF PPUOnDLS
<1>2. IInv /\ [Next]_vars =>
        [\A p \in PPUOnDLS : Restore(p) /\ ~ disturbed[p] =>
           Verdict(read[p]) = [valid |-> TRUE, ppu |-> p]]_vars
  BY <1>1
<1> QED
  BY <1>2, InductiveInvariant, PTL DEF Spec, RightUnlessDisturbed

\* What a PPU learns from get_location() is right, for the bottom one unless it is
\* disturbed.
THEOREM LearnsTruth == Spec => LocationLearned
<1> QED
  BY TopLearnsTop, LearnsLocation DEF LocationLearned
=============================================================================
