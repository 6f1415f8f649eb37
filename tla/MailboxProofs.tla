---------------------------- MODULE MailboxProofs ----------------------------
(***************************************************************************)
(* Proofs about the mailbox: for a mailbox of any size, any texts, numbers *)
(* and vectors, and words of any width.                                    *)
(***************************************************************************)
EXTENDS Mailbox, NumberLemmas, SequenceTheorems

LEMMA Settings ==
  /\ Size \in Nat /\ Beyond \in Nat /\ MaxText \in Nat
  /\ Base \in Nat /\ Base >= 2
  /\ IntRange \in Nat /\ IntRange > 0 /\ IntMin \in Int /\ IntMin < 0 /\ -IntMin < IntRange
  /\ \A n \in Numbers : n \in Int /\ n >= IntMin /\ -n \in Int /\ (n < 0 => -n \in Nat) /\ (n >= 0 => n \in Nat)
  /\ \A s \in Strings : s \in Seq(Bytes)
  /\ \A s \in Blocks : s \in Seq(Bytes)
  /\ \A v \in Vectors : v \in Seq(Numbers)
  /\ Lengths \subseteq Nat
  /\ \A d \in 0 .. Base - 1 : Digit0 + d \in Bytes
  /\ Minus \in Bytes /\ Open \in Bytes /\ Comma \in Bytes /\ Close \in Bytes /\ 0 \in Bytes
  /\ Bytes \subseteq Nat
<1>1. /\ Size \in Nat /\ Beyond \in Nat /\ MaxText \in Nat
      /\ Base \in Nat /\ Base >= 2 /\ IntRange \in Nat /\ IntRange > 0
      /\ \A s \in Blocks : s \in Seq(Bytes)
      /\ \A v \in Vectors : v \in Seq(Numbers)
      /\ Lengths \subseteq Nat
  BY MailboxAssumption
<1>2. IntMin \in Int /\ IntMin < 0 /\ -IntMin < IntRange
  <2> DEFINE h == IntRange \div 2
  <2>1. h \in Int /\ IntRange % 2 = 0 /\ IntRange = 2 * h + (IntRange % 2)
    BY <1>1, DivMod, MailboxAssumption
  <2> HIDE DEF h
  <2>2. h > 0 /\ h < IntRange
    BY <1>1, <2>1
  <2> QED
    BY <2>1, <2>2 DEF IntMin, h
<1>3. \A n \in Numbers : n \in Int /\ n >= IntMin /\ -n \in Int /\ (n < 0 => -n \in Nat) /\ (n >= 0 => n \in Nat)
  BY <1>2, MailboxAssumption
<1>4. \A s \in Strings : s \in Seq(Bytes)
  <2>1. Bytes \ {0} \subseteq Bytes
    OBVIOUS
  <2> QED
    BY <2>1, SeqMonotonic, MailboxAssumption
<1>5. /\ \A d \in 0 .. Base - 1 : Digit0 + d \in Bytes
      /\ Minus \in Bytes /\ Open \in Bytes /\ Comma \in Bytes /\ Close \in Bytes /\ 0 \in Bytes
      /\ Bytes \subseteq Nat
  BY <1>1 DEF Bytes, Digit0, Minus, Open, Comma, Close
<1> QED
  BY <1>1, <1>2, <1>3, <1>4, <1>5

-----------------------------------------------------------------------------
(* Numbers *)

\* The function itoa() is computed with
Digits(value) ==
  CHOOSE digits : digits = [v \in 0 .. value |->
    Append(IF v < Base THEN <<>> ELSE digits[v \div Base], Digit0 + (v % Base))]

\* Division makes a number smaller.
LEMMA Shorter ==
  ASSUME NEW v \in Nat
  PROVE  /\ v % Base \in 0 .. Base - 1 /\ v = (v \div Base) * Base + (v % Base)
         /\ v < Base => v % Base = v
         /\ v >= Base => v \div Base \in 0 .. v - 1 /\ v \div Base > 0
<1> DEFINE q == v \div Base
           r == v % Base
<1>1. q \in Int /\ r \in 0 .. Base - 1 /\ v = Base * q + r
  BY Settings, DivMod
<1>2. v < Base => r = v
  BY Settings, ModSmall
<1> HIDE DEF q, r
<1>3. v = q * Base + r
  BY <1>1, Settings
<1>4. ASSUME v >= Base PROVE q \in 0 .. v - 1 /\ q > 0
  <2>1. CASE q <= 0
    <3>1. Base * q <= Base * 0
      BY <1>1, <2>1, Settings, Grows
    <3> QED
      BY <1>1, <1>4, <3>1, Settings
  <2>2. CASE q >= 1
    <3>1. q * Base >= q * 2
      BY <1>1, <2>2, Settings, Grows
    <3>2. q * 2 = q + q /\ q * Base \in Int
      BY <1>1, Settings
    <3> QED
      BY <1>1, <1>3, <2>2, <3>1, <3>2
  <2> QED
    BY <1>1, <2>1, <2>2
<1> QED
  BY <1>1, <1>2, <1>3, <1>4 DEF q, r

LEMMA DigitsExist ==
  ASSUME NEW value \in Nat
  PROVE  LET digits == Digits(value)
         IN  /\ itoa(value) = digits[value]
             /\ \A v \in 0 .. value :
                  digits[v] = Append(IF v < Base THEN <<>> ELSE digits[v \div Base],
                                     Digit0 + (v % Base))
<1> DEFINE Has(f, n) == f = [v \in 0 .. n |->
                Append(IF v < Base THEN <<>> ELSE f[v \div Base], Digit0 + (v % Base))]
           S == {n \in Nat : \E f : Has(f, n)}
<1>1. ASSUME NEW n \in Nat, n = 0 PROVE \E f : Has(f, n)
  <2> DEFINE f == [v \in 0 .. n |-> Append(<<>>, Digit0 + (v % Base))]
  <2>1. \A v \in 0 .. n : v < Base
    BY <1>1, Settings
  <2>2. Has(f, n)
    BY <2>1
  <2> HIDE DEF Has, f
  <2> QED
    BY <2>2
<1>2. ASSUME NEW n \in Nat, \E f : Has(f, n) PROVE \E f : Has(f, n + 1)
  <2>1. PICK f : Has(f, n)
    BY <1>2
  <2> DEFINE last == Append(IF n + 1 < Base THEN <<>> ELSE f[(n + 1) \div Base],
                            Digit0 + ((n + 1) % Base))
             g == [v \in 0 .. n + 1 |-> IF v = n + 1 THEN last ELSE f[v]]
  <2>2. ASSUME NEW v \in 0 .. n + 1
        PROVE  g[v] = Append(IF v < Base THEN <<>> ELSE g[v \div Base], Digit0 + (v % Base))
    <3>1. v \in Nat /\ (v >= Base => v \div Base \in 0 .. v - 1)
      BY Shorter
    <3>2. v >= Base => g[v \div Base] = f[v \div Base]
      BY <3>1
    <3>3. CASE v = n + 1
      BY <3>1, <3>2, <3>3, Settings
    <3>4. CASE v # n + 1
      <4>1. v \in 0 .. n
        BY <3>4
      <4>2. f[v] = Append(IF v < Base THEN <<>> ELSE f[v \div Base], Digit0 + (v % Base))
        BY <2>1, <4>1
      <4> QED
        BY <3>1, <3>2, <3>4, <4>1, <4>2, Settings
    <3> QED
      BY <3>3, <3>4
  <2>3. Has(g, n + 1)
    <3>1. g = [v \in 0 .. n + 1 |-> g[v]]
      OBVIOUS
    <3> HIDE DEF g
    <3> QED
      BY <2>2, <3>1
  <2> HIDE DEF Has, g
  <2> QED
    BY <2>3
<1>3. PICK f : Has(f, value)
  <2> HIDE DEF Has
  <2>1. 0 \in S /\ \A n \in Nat : n \in S => n + 1 \in S
    BY <1>1, <1>2
  <2> HIDE DEF S
  <2>2. Nat \subseteq S
    BY <2>1, Induction
  <2> QED
    BY <2>2 DEF S
<1> DEFINE digits == Digits(value)
<1>4. Has(digits, value)
  BY <1>3 DEF Digits
<1>5. itoa(value) = digits[value]
  BY DEF itoa, Digits
<1> HIDE DEF digits
<1>6. \A v \in 0 .. value :
        digits[v] = Append(IF v < Base THEN <<>> ELSE digits[v \div Base], Digit0 + (v % Base))
  BY <1>4
<1> QED
  BY <1>5, <1>6 DEF digits

\* The function Value is computed with
Values(s) == CHOOSE value : value = [i \in 0 .. Len(s) |->
               IF i = 0 THEN 0 ELSE value[i - 1] * Base + (s[i] - Digit0)]

LEMMA ValuesExist ==
  ASSUME NEW s \in Seq(Bytes)
  PROVE  LET value == Values(s)
         IN  /\ Value(s) = value[Len(s)]
             /\ value[0] = 0
             /\ \A i \in 1 .. Len(s) : value[i] = value[i - 1] * Base + (s[i] - Digit0)
<1> DEFINE Has(f, n) == f = [i \in 0 .. n |->
                IF i = 0 THEN 0 ELSE f[i - 1] * Base + (s[i] - Digit0)]
           S == {n \in Nat : \E f : Has(f, n)}
<1>1. \E f : Has(f, 0)
  <2> DEFINE f == [i \in 0 .. 0 |-> 0]
  <2>1. Has(f, 0)
    OBVIOUS
  <2> HIDE DEF Has, f
  <2> QED
    BY <2>1
<1>2. ASSUME NEW n \in Nat, \E f : Has(f, n) PROVE \E f : Has(f, n + 1)
  <2>1. PICK f : Has(f, n)
    BY <1>2
  <2> DEFINE g == [i \in 0 .. n + 1 |-> IF i = n + 1 THEN f[n] * Base + (s[n + 1] - Digit0)
                                                    ELSE f[i]]
  <2>2. ASSUME NEW i \in 0 .. n + 1
        PROVE  g[i] = IF i = 0 THEN 0 ELSE g[i - 1] * Base + (s[i] - Digit0)
    <3>1. CASE i = n + 1
      <4>1. i # 0 /\ i - 1 = n /\ n \in 0 .. n + 1 /\ n # n + 1
        BY <3>1
      <4> QED
        BY <3>1, <4>1
    <3>2. CASE i # n + 1
      <4>1. i \in 0 .. n /\ (i # 0 => i - 1 \in 0 .. n /\ i - 1 \in 0 .. n + 1 /\ i - 1 # n + 1)
        BY <3>2
      <4>2. f[i] = IF i = 0 THEN 0 ELSE f[i - 1] * Base + (s[i] - Digit0)
        BY <2>1, <4>1
      <4> QED
        BY <3>2, <4>1, <4>2
    <3> QED
      BY <3>1, <3>2
  <2>3. Has(g, n + 1)
    <3>1. g = [i \in 0 .. n + 1 |-> g[i]]
      OBVIOUS
    <3> HIDE DEF g
    <3> QED
      BY <2>2, <3>1
  <2> HIDE DEF Has, g
  <2> QED
    BY <2>3
<1>3. Len(s) \in Nat
  BY LenProperties
<1>4. PICK f : Has(f, Len(s))
  <2> HIDE DEF Has
  <2>1. 0 \in S /\ \A n \in Nat : n \in S => n + 1 \in S
    BY <1>1, <1>2
  <2> HIDE DEF S
  <2>2. Nat \subseteq S
    BY <2>1, Induction
  <2> QED
    BY <1>3, <2>2 DEF S
<1> DEFINE value == Values(s)
<1>5. Has(value, Len(s))
  BY <1>4 DEF Values
<1>6. Value(s) = value[Len(s)]
  BY DEF Value, Values
<1> HIDE DEF value
<1>7. /\ value[0] = 0
      /\ \A i \in 1 .. Len(s) : value[i] = value[i - 1] * Base + (s[i] - Digit0)
  BY <1>3, <1>5
<1> QED
  BY <1>6, <1>7 DEF value

\* One more character
LEMMA ValueOfAppend ==
  ASSUME NEW s \in Seq(Bytes), NEW c \in Bytes
  PROVE  Value(Append(s, c)) = (IF s = <<>> THEN 0 ELSE Value(s)) * Base + (c - Digit0)
<1> DEFINE t == Append(s, c)
           f == Values(s)
           g == Values(t)
           S == {n \in Nat : n <= Len(s) => g[n] = f[n]}
<1>1. /\ t \in Seq(Bytes) /\ Len(t) = Len(s) + 1 /\ t[Len(s) + 1] = c
      /\ \A i \in 1 .. Len(s) : t[i] = s[i]
      /\ Len(s) \in Nat
  BY AppendProperties, LenProperties
<1> HIDE DEF t
<1>2. /\ Value(s) = f[Len(s)] /\ f[0] = 0
      /\ \A i \in 1 .. Len(s) : f[i] = f[i - 1] * Base + (s[i] - Digit0)
  BY ValuesExist
<1>3. /\ Value(t) = g[Len(t)] /\ g[0] = 0
      /\ \A i \in 1 .. Len(t) : g[i] = g[i - 1] * Base + (t[i] - Digit0)
  BY <1>1, ValuesExist
<1> HIDE DEF f, g
<1>4. ASSUME NEW n \in S PROVE n + 1 \in S
  <2> SUFFICES ASSUME n + 1 <= Len(s) PROVE g[n + 1] = f[n + 1]
    OBVIOUS
  <2>1. /\ n + 1 \in 1 .. Len(s) /\ n + 1 \in 1 .. Len(t) /\ (n + 1) - 1 = n /\ n <= Len(s)
    BY <1>1
  <2>2. g[n] = f[n]
    BY <2>1
  <2> QED
    BY <1>1, <1>2, <1>3, <2>1, <2>2
<1>5. Nat \subseteq S
  <2>1. 0 \in S
    BY <1>2, <1>3
  <2> HIDE DEF S
  <2> QED
    BY <1>4, <2>1, Induction
<1>6. g[Len(s)] = f[Len(s)]
  BY <1>1, <1>5
<1>7. Value(t) = g[Len(s)] * Base + (c - Digit0)
  <2>1. Len(s) + 1 \in 1 .. Len(t) /\ (Len(s) + 1) - 1 = Len(s)
    BY <1>1
  <2> QED
    BY <1>1, <1>3, <2>1
<1>8. s = <<>> => f[Len(s)] = 0
  BY <1>2
<1> QED
  BY <1>2, <1>6, <1>7, <1>8 DEF t

\* itoa() writes a number in digits that read as that number, without leading zeros.
LEMMA ItoaReads ==
  ASSUME NEW value \in Nat
  PROVE  itoa(value) \in Seq(Bytes) /\ ReadsAs(value, itoa(value))
<1> DEFINE digits == Digits(value)
           Good(v, s) == /\ s \in Seq(Bytes) /\ Len(s) \in Nat /\ Len(s) > 0
                         /\ v > 0 => s[1] # Digit0
                         /\ v = 0 => Len(s) = 1
                         /\ Value(s) = v
           S == {n \in Nat : n <= value => Good(n, digits[n])}
<1>1. /\ itoa(value) = digits[value]
      /\ \A v \in 0 .. value :
           digits[v] = Append(IF v < Base THEN <<>> ELSE digits[v \div Base],
                              Digit0 + (v % Base))
  BY DigitsExist
<1> HIDE DEF digits
<1>2. ASSUME NEW v \in Nat, v <= value,
             v >= Base => Good(v \div Base, digits[v \div Base])
      PROVE  Good(v, digits[v])
  <2> DEFINE r == v % Base
             q == v \div Base
             c == Digit0 + r
  <2>1. /\ r \in 0 .. Base - 1 /\ v = q * Base + r /\ (v < Base => r = v)
        /\ (v >= Base => q \in 0 .. v - 1 /\ q > 0)
    BY Shorter
  <2>2. digits[v] = Append(IF v < Base THEN <<>> ELSE digits[q], c)
    BY <1>1, <1>2
  <2>3. c \in Bytes /\ c - Digit0 = r /\ (r # 0 => c # Digit0)
    BY <2>1, Settings DEF Digit0
  <2>4. v >= Base => Good(q, digits[q])
    BY <1>2
  <2> HIDE DEF r, q, c
  <2>5. CASE v < Base
    <3>1. <<>> \in Seq(Bytes) /\ digits[v] = Append(<<>>, c) /\ Len(<<>>) = 0
      BY <2>2, <2>5, EmptySeq
    <3>2. /\ digits[v] \in Seq(Bytes) /\ Len(digits[v]) = 1 /\ digits[v][1] = c
      BY <2>3, <3>1, AppendProperties
    <3>3. Value(digits[v]) = 0 * Base + (c - Digit0)
      BY <2>3, <3>1, ValueOfAppend
    <3>4. Value(digits[v]) = v /\ (v > 0 => c # Digit0)
      BY <2>1, <2>3, <2>5, <3>3, Settings
    <3> QED
      BY <3>2, <3>4
  <2>6. CASE ~ v < Base
    <3> DEFINE s == digits[q]
    <3>1. /\ s \in Seq(Bytes) /\ Len(s) \in Nat /\ Len(s) > 0 /\ s[1] # Digit0 /\ Value(s) = q
          /\ v > 0 /\ q \in Nat
      BY <2>1, <2>4, <2>6, Settings
    <3>2. digits[v] = Append(s, c)
      BY <2>2, <2>6
    <3> HIDE DEF s
    <3>3. /\ digits[v] \in Seq(Bytes) /\ Len(digits[v]) = Len(s) + 1 /\ digits[v][1] = s[1]
      BY <2>3, <3>1, <3>2, AppendProperties
    <3>4. Value(digits[v]) = q * Base + (c - Digit0)
      <4>1. s # <<>>
        BY <3>1
      <4> QED
        BY <2>3, <3>1, <3>2, <4>1, ValueOfAppend
    <3>5. Value(digits[v]) = v
      BY <2>1, <2>3, <3>4
    <3> QED
      BY <3>1, <3>3, <3>5
  <2> QED
    BY <2>5, <2>6
<1>3. ASSUME NEW n \in Nat, \A m \in 0 .. n - 1 : m \in S PROVE n \in S
  <2> SUFFICES ASSUME n <= value PROVE Good(n, digits[n])
    OBVIOUS
  <2>1. n >= Base => n \div Base \in 0 .. n - 1 /\ n \div Base \in Nat /\ n \div Base <= value
    <3>1. n >= Base => n \div Base \in 0 .. n - 1
      BY Shorter
    <3> QED
      BY <3>1
  <2>2. n >= Base => Good(n \div Base, digits[n \div Base])
    <3> HIDE DEF Good
    <3> QED
      BY <1>3, <2>1
  <2> HIDE DEF Good
  <2> QED
    BY <1>2, <2>2
<1>4. Nat \subseteq S
  <2> HIDE DEF S
  <2> QED
    BY <1>3, StrongInduction
<1>5. Good(value, digits[value])
  <2> HIDE DEF Good
  <2> QED
    BY <1>4
<1> QED
  BY <1>1, <1>5 DEF ReadsAs

-----------------------------------------------------------------------------
(* Calls *)

\* A call that has not written anything: the digits of its number, after the sign if
\* there is one.
Whole(c) == /\ c \in Call
            /\ Len(c.strings) \in 1 .. 2
            /\ Len(c.strings) = 2 => c.strings[1] = <<Minus>>
            /\ \A n \in c.shows :
                 IF n < 0 THEN Len(c.strings) = 2 /\ ReadsAs(-n, c.strings[2])
                          ELSE Len(c.strings) = 1 /\ ReadsAs(n, c.strings[1])

LEMMA StringWhole ==
  ASSUME NEW s \in Seq(Bytes) PROVE Whole(StringCall(s))
<1> DEFINE q == <<s>>
<1>1. q \in Seq(Seq(Bytes)) /\ Len(q) = 1
  OBVIOUS
<1>2. {} \in SUBSET Int
  OBVIOUS
<1> HIDE DEF q
<1>3. StringCall(s) = [strings |-> q, shows |-> {}]
  BY DEF StringCall, q
<1> QED
  BY <1>1, <1>2, <1>3 DEF Whole, Call

\* A call that writes a natural number by its digits
LEMMA DigitsWhole ==
  ASSUME NEW n \in Nat
  PROVE  Whole([strings |-> <<itoa(n)>>, shows |-> {n}])
<1> DEFINE s == itoa(n)
           q == <<s>>
<1>1. s \in Seq(Bytes) /\ ReadsAs(n, s)
  BY ItoaReads
<1> HIDE DEF s
<1>2. q \in Seq(Seq(Bytes)) /\ Len(q) = 1 /\ q[1] = s
  BY <1>1
<1>3. {n} \in SUBSET Int /\ ~ n < 0
  OBVIOUS
<1> HIDE DEF q
<1> DEFINE c == [strings |-> q, shows |-> {n}]
<1>4. c \in Call /\ c.strings = q /\ c.shows = {n}
  BY <1>2, <1>3 DEF Call
<1> HIDE DEF c
<1>5. ASSUME NEW m \in c.shows PROVE m = n
  BY <1>4
<1>6. Whole(c)
  <2>1. Len(c.strings) \in 1 .. 2 /\ Len(c.strings) # 2
    BY <1>2, <1>4
  <2>2. \A m \in c.shows : ~ m < 0 /\ Len(c.strings) = 1 /\ ReadsAs(m, c.strings[1])
    BY <1>1, <1>2, <1>3, <1>4, <1>5
  <2> QED
    BY <1>4, <2>1, <2>2 DEF Whole
<1> QED
  BY <1>6 DEF c, q, s

\* The calls of the number functions
LEMMA NumbersWhole ==
  ASSUME NEW n \in Numbers
  PROVE  Whole(IntCall(n % IntRange)) /\ Whole(SignedIntCall(n))
<1>1. n % IntRange \in Nat
  BY Settings, DivMod
<1>2. Whole(IntCall(n % IntRange))
  BY <1>1, DigitsWhole DEF IntCall
<1>3. CASE n >= 0
  <2>1. n \in Nat /\ ~ n < 0
    BY <1>3, Settings
  <2>2. SignedIntCall(n) = [strings |-> <<itoa(n)>>, shows |-> {n}]
    BY <2>1 DEF SignedIntCall
  <2> QED
    BY <1>2, <2>1, <2>2, DigitsWhole
<1>4. CASE n < 0
  <2> DEFINE s == IF n = IntMin THEN LowestText ELSE itoa((-n) % IntRange)
             q == <<<<Minus>>, s>>
  <2>1. n \in Int /\ -n \in Nat /\ n >= IntMin /\ IntMin \in Int /\ -IntMin < IntRange /\ IntRange \in Nat
    BY <1>4, Settings
  <2>2. s \in Seq(Bytes) /\ ReadsAs(-n, s)
    <3>1. CASE n = IntMin
      BY <3>1, LiteralAssumption
    <3>2. CASE n # IntMin
      <4>1. -n < IntRange
        BY <2>1
      <4>2. (-n) % IntRange = -n
        BY <2>1, <4>1, ModSmall
      <4> QED
        BY <2>1, <3>2, <4>2, ItoaReads
    <3> QED
      BY <3>1, <3>2
  <2> HIDE DEF s
  <2>3. <<Minus>> \in Seq(Bytes)
    BY Settings
  <2>4. q \in Seq(Seq(Bytes)) /\ Len(q) = 2 /\ q[1] = <<Minus>> /\ q[2] = s
    BY <2>2, <2>3
  <2> HIDE DEF q
  <2>5. SignedIntCall(n) = [strings |-> q, shows |-> {n}]
    BY <1>4 DEF SignedIntCall, q, s
  <2> QED
    BY <1>2, <1>4, <2>1, <2>2, <2>4, <2>5 DEF Whole, Call
<1> QED
  BY <1>3, <1>4, Settings

\* What a text function has to do when it is called
AsCalled(c) == /\ c \in Seq(Call) /\ c # <<>>
               /\ \A i \in 1 .. Len(c) : Whole(c[i])

LEMMA OneCall ==
  ASSUME NEW call, Whole(call) PROVE AsCalled(<<call>>)
<1>1. call \in Call
  BY DEF Whole
<1>2. <<call>> \in Seq(Call) /\ Len(<<call>>) = 1 /\ <<call>>[1] = call /\ <<call>> # <<>>
  BY <1>1
<1> QED
  BY <1>2 DEF AsCalled

LEMMA Halves ==
  ASSUME NEW len \in Nat, NEW k \in 1 .. 2 * len + 1
  PROVE  k # 1 /\ k # 2 * len + 1 /\ k % 2 = 0 => k \div 2 \in 1 .. len
<1> DEFINE h == k \div 2
<1>1. h \in Int /\ k % 2 \in 0 .. 1 /\ k = 2 * h + (k % 2)
  BY DivMod
<1> HIDE DEF h
<1>2. k # 1 /\ k # 2 * len + 1 /\ k % 2 = 0 => h \in 1 .. len
  BY <1>1
<1> QED
  BY <1>2 DEF h

\* A vector function calls for every element and every character between them.
LEMMA VectorWhole ==
  ASSUME NEW len \in Nat, NEW elements, elements = [i \in 1 .. len |-> elements[i]],
         \A i \in 1 .. len : Whole(elements[i])
  PROVE  AsCalled(VectorCalls(elements))
<1> DEFINE last == 2 * len + 1
           Item(k) == IF k = 1 THEN StringCall(<<Open>>)
                      ELSE IF k = last THEN StringCall(<<Close>>)
                      ELSE IF k % 2 = 0 THEN elements[k \div 2] ELSE StringCall(<<Comma>>)
           c == [k \in 1 .. last |-> Item(k)]
<1>1. Len(elements) = len
  <2> DEFINE W == {elements[i] : i \in 1 .. len}
  <2>1. elements \in [1 .. len -> W]
    OBVIOUS
  <2> HIDE DEF W
  <2>2. elements \in Seq(W) /\ DOMAIN elements = 1 .. len
    BY <2>1, SeqDef
  <2> QED
    BY <2>2, LenProperties
<1>2. ASSUME NEW k \in 1 .. last PROVE Whole(Item(k))
  <2>1. /\ Whole(StringCall(<<Open>>)) /\ Whole(StringCall(<<Close>>))
        /\ Whole(StringCall(<<Comma>>))
    <3>1. <<Open>> \in Seq(Bytes) /\ <<Close>> \in Seq(Bytes) /\ <<Comma>> \in Seq(Bytes)
      BY Settings
    <3> QED
      BY <3>1, StringWhole
  <2>2. k # 1 /\ k # last /\ k % 2 = 0 => k \div 2 \in 1 .. len
    BY Halves
  <2>3. ASSUME k # 1, k # last, k % 2 = 0 PROVE Whole(elements[k \div 2])
    <3> DEFINE h == k \div 2
    <3>1. h \in 1 .. len
      BY <2>2, <2>3
    <3> HIDE DEF h
    <3>2. Whole(elements[h])
      BY <3>1
    <3> QED
      BY <3>2 DEF h
  <2> HIDE DEF last
  <2> QED
    BY <2>1, <2>3
<1>3. VectorCalls(elements) = c
  BY <1>1 DEF VectorCalls
<1>4. last \in Nat /\ 1 \in 1 .. last
  OBVIOUS
<1> HIDE DEF Item, last
<1>5. \A k \in 1 .. last : c[k] \in Call
  BY <1>2 DEF Whole
<1>6. c \in Seq(Call) /\ Len(c) = last
  <2>1. c \in [1 .. last -> Call]
    BY <1>5
  <2>2. DOMAIN c = 1 .. last
    OBVIOUS
  <2> HIDE DEF c
  <2>3. c \in Seq(Call)
    BY <1>4, <2>1, SeqDef
  <2> QED
    BY <1>4, <2>2, <2>3, LenProperties
<1>7. \A k \in 1 .. Len(c) : Whole(c[k])
  BY <1>2, <1>6
<1> HIDE DEF c
<1>8. c # <<>>
  BY <1>4, <1>6, EmptySeq
<1> QED
  BY <1>3, <1>6, <1>7, <1>8 DEF AsCalled

\* The vectors a program writes
LEMMA VectorsWhole ==
  ASSUME NEW v \in Vectors
  PROVE  /\ AsCalled(VectorCalls([i \in 1 .. Len(v) |-> IntCall(v[i] % IntRange)]))
         /\ AsCalled(VectorCalls([i \in 1 .. Len(v) |-> SignedIntCall(v[i])]))
<1>1. v \in Seq(Numbers) /\ Len(v) \in Nat
  BY Settings, LenProperties
<1>2. \A i \in 1 .. Len(v) : v[i] \in Numbers
  BY <1>1, ElementOfSeq
<1> DEFINE e == [i \in 1 .. Len(v) |-> IntCall(v[i] % IntRange)]
           f == [i \in 1 .. Len(v) |-> SignedIntCall(v[i])]
<1>3. e = [i \in 1 .. Len(v) |-> e[i]] /\ \A i \in 1 .. Len(v) : Whole(e[i])
  BY <1>2, NumbersWhole
<1>4. f = [i \in 1 .. Len(v) |-> f[i]] /\ \A i \in 1 .. Len(v) : Whole(f[i])
  BY <1>2, NumbersWhole
<1> HIDE DEF e, f
<1>5. AsCalled(VectorCalls(e)) /\ AsCalled(VectorCalls(f))
  BY <1>1, <1>3, <1>4, VectorWhole
<1> QED
  BY <1>5 DEF e, f

-----------------------------------------------------------------------------
(* Bytes *)

\* How much of a text or a block is written
LEMMA HowMuch ==
  ASSUME NEW n \in Nat, NEW at \in Nat
  PROVE  /\ Inside(n, at) \in 0 .. n
         /\ Inside(n, at) = IF at < Size THEN IF n <= Size - at THEN n ELSE Size - at ELSE 0
<1>1. Size \in Nat
  BY Settings
<1>2. at < Size => Min({n, Size - at}) = IF n <= Size - at THEN n ELSE Size - at
  <2> DEFINE m == IF n <= Size - at THEN n ELSE Size - at
             k == Size - at
  <2>1. m \in {n, k} /\ \A y \in {n, k} : m <= y
    BY <1>1
  <2>2. k \in Int /\ m \in Int
    BY <1>1
  <2>3. Min({n, k}) = CHOOSE x \in {n, k} : \A y \in {n, k} : x <= y
    BY DEF Min
  <2> HIDE DEF k, m
  <2>4. \A x \in {n, k} : (\A y \in {n, k} : x <= y) => x = m
    BY <2>1, <2>2
  <2>5. Min({n, k}) = m
    BY <2>1, <2>3, <2>4
  <2> QED
    BY <2>5 DEF m, k
<1> QED
  BY <1>1, <1>2 DEF Inside

-----------------------------------------------------------------------------
(***************************************************************************)
(* The inductive invariant.  TextKept needs to know where the head is: at  *)
(* the end of the text while that is inside the mailbox, and past the      *)
(* mailbox only if the text is at least as long.                           *)
(***************************************************************************)

HeadInv == /\ head < Size => head = Len(text)
           /\ head >= Size => Len(text) >= Size

\* The sign of the number that is being written is the last character of the text.
SignWritten(c) == /\ Len(c.strings) = 1
                  /\ Len(text) = begun + 1
                  /\ text[begun + 1] = Minus
                  /\ \A n \in c.shows : n < 0 /\ ReadsAs(-n, c.strings[1])

\* The first of the calls has written nothing, or the sign; the other ones nothing.
CallsInv == /\ \A i \in 2 .. Len(calls) : Whole(calls[i])
            /\ calls # <<>> => \/ Whole(calls[1]) /\ begun = Len(text)
                               \/ SignWritten(calls[1])

\* The head is where the results say: those the program got, and those the running
\* functions have.
CountInv == /\ head = returned + (ret + part) + ends
            /\ calls = <<>> => ret = 0 /\ part = 0

IInv == TypeOK /\ TextKept /\ HeadInv /\ CallsInv /\ CountInv

LEMMA StateFacts ==
  ASSUME TypeOK
  PROVE  /\ head \in Nat /\ text \in Seq(Bytes) /\ Len(text) \in Nat
         /\ memory \in [Offsets -> Bytes \cup {Unwritten}] /\ Size \in Nat
         /\ \A a \in 0 .. Size - 1 : a \in Offsets /\ a \in Nat
<1>1. Len(text) \in Nat
  BY LenProperties DEF TypeOK
<1> QED
  BY <1>1, Settings DEF TypeOK, Offsets

\* What is stored are the bytes given, where they are given, and nothing else changes.
LEMMA StoredBytes ==
  ASSUME TypeOK, NEW s \in Seq(Bytes), NEW n \in 0 .. Len(s), NEW at \in Nat
  PROVE  /\ Stored(s, n, at) \in [Offsets -> Bytes \cup {Unwritten}]
         /\ \A a \in Offsets : Stored(s, n, at)[a] =
              IF a >= at /\ a < at + n THEN s[a - at + 1] ELSE memory[a]
<1>1. Len(s) \in Nat /\ n \in Nat /\ n <= Len(s)
  BY LenProperties
<1>2. ASSUME NEW a \in Offsets
      PROVE  /\ a - at \in 0 .. n - 1 <=> a >= at /\ a < at + n
             /\ a - at \in 0 .. n - 1 => s[a - at + 1] \in Bytes
  <2>1. a \in Int
    BY Settings DEF Offsets
  <2>2. a - at \in 0 .. n - 1 => a - at + 1 \in 1 .. Len(s)
    BY <1>1, <2>1
  <2> QED
    BY <1>1, <2>1, <2>2, ElementOfSeq
<1>3. memory \in [Offsets -> Bytes \cup {Unwritten}]
  BY DEF TypeOK
<1> QED
  BY <1>2, <1>3 DEF Stored

\* When no function runs there is nothing to know about its calls.
LEMMA NoCalls ==
  ASSUME calls' = <<>> PROVE CallsInv'
<1>1. Len(calls') = 0
  OBVIOUS
<1> QED
  BY <1>1 DEF CallsInv

LEMMA InitIInv == Init => IInv
<1> SUFFICES ASSUME Init PROVE IInv
  OBVIOUS
<1>1. /\ memory = [a \in Offsets |-> Unwritten] /\ head = 0 /\ buffer = <<>> /\ text = <<>>
      /\ calls = <<>> /\ ret = 0 /\ part = 0 /\ begun = 0
      /\ returned = 0 /\ ends = 0 /\ direct = {} /\ Len(text) = 0 /\ Size \in Nat
  BY Settings DEF Init
<1>2. TypeOK
  BY <1>1, EmptySeq DEF TypeOK
<1>3. TextKept
  BY <1>1, <1>2, StateFacts DEF TextKept
<1>4. CallsInv
  <2>1. Len(calls) = 0
    BY <1>1
  <2> QED
    BY <1>1, <2>1 DEF CallsInv
<1> QED
  BY <1>1, <1>2, <1>3, <1>4 DEF IInv, HeadInv, CountInv

\* A string is appended as far as it fits.
LEMMA TextStep ==
  ASSUME TypeOK, TextKept, HeadInv, NEW s \in Seq(Bytes), PutString(s)
  PROVE  /\ memory' \in [Offsets -> Bytes \cup {Unwritten}]
         /\ text' \in Seq(Bytes) /\ text' = text \o s /\ Len(text') \in Nat
         /\ Len(text') = Len(text) + Len(s)
         /\ Fitting(Len(s)) \in Nat /\ head' \in Nat /\ head' = head + Fitting(Len(s))
         /\ buffer' = buffer /\ ends' = ends /\ direct' = direct
         /\ TextKept' /\ HeadInv'
<1> DEFINE F == Fitting(Len(s))
<1>1. /\ memory' = Stored(s, F, head) /\ head' = head + F /\ text' = text \o s
      /\ buffer' = buffer /\ ends' = ends /\ direct' = direct
  BY DEF PutString
<1>2. /\ head \in Nat /\ text \in Seq(Bytes) /\ Len(text) \in Nat /\ Size \in Nat
      /\ Len(s) \in Nat
  BY StateFacts, LenProperties
<1>3. /\ F \in 0 .. Len(s)
      /\ head < Size => F = IF Len(s) <= Size - head THEN Len(s) ELSE Size - head
      /\ head = Size => F = 0
  <2> DEFINE I == Inside(Len(s), head)
  <2>1. /\ I \in 0 .. Len(s)
        /\ I = IF head < Size THEN IF Len(s) <= Size - head THEN Len(s) ELSE Size - head ELSE 0
    BY <1>2, HowMuch
  <2>2. F = IF head <= Size THEN I ELSE Len(s)
    BY DEF Fitting
  <2> HIDE DEF F, I
  <2> QED
    BY <1>2, <2>1, <2>2
<1>10. F = Fitting(Len(s))
  OBVIOUS
<1> HIDE DEF F
<1>4. /\ text' \in Seq(Bytes) /\ Len(text') = Len(text) + Len(s)
      /\ \A i \in 1 .. Len(text) + Len(s) :
           text'[i] = IF i <= Len(text) THEN text[i] ELSE s[i - Len(text)]
  BY <1>1, <1>2, ConcatProperties
<1>5. /\ memory' \in [Offsets -> Bytes \cup {Unwritten}]
      /\ \A a \in Offsets : memory'[a] =
           IF a >= head /\ a < head + F THEN s[a - head + 1] ELSE memory[a]
  BY <1>1, <1>2, <1>3, StoredBytes
<1>7. HeadInv'
  <2>1. F \in Nat /\ F <= Len(s)
    BY <1>2, <1>3
  <2>2. /\ head < Size => head = Len(text)
        /\ head >= Size => Len(text) >= Size
    BY DEF HeadInv
  <2>4. ASSUME head' < Size PROVE head' = Len(text')
    <3>1. head < Size /\ head + F < Size
      BY <1>1, <1>2, <2>1, <2>4
    <3>2. F = Len(s)
      BY <1>2, <1>3, <3>1
    <3> QED
      BY <1>1, <1>4, <2>2, <3>1, <3>2
  <2>5. head' >= Size => Len(text') >= Size
    <3>1. CASE head < Size
      BY <1>1, <1>2, <1>3, <1>4, <2>1, <2>2, <3>1
    <3>2. CASE head >= Size
      BY <1>2, <1>4, <2>2, <3>2
    <3> QED
      BY <1>2, <3>1, <3>2
  <2> QED
    BY <2>4, <2>5 DEF HeadInv
<1>9. ASSUME NEW a \in (0 .. Size - 1) \ direct
      PROVE  memory'[a] = IF a < Len(text') THEN text'[a + 1] ELSE Unwritten
  <2>1. /\ a \in Nat /\ a < Size /\ a \in Offsets
        /\ memory[a] = IF a < Len(text) THEN text[a + 1] ELSE Unwritten
    BY <1>1, <1>2, StateFacts DEF TextKept
  <2>2. CASE a < head
    <3>1. a < Len(text)
      BY <1>1, <1>2, <2>1, <2>2 DEF HeadInv
    <3>2. a + 1 \in 1 .. Len(text) + Len(s) /\ a + 1 <= Len(text) /\ a < Len(text')
      BY <1>2, <1>4, <2>1, <3>1
    <3>3. memory'[a] = memory[a]
      BY <1>2, <1>5, <2>1, <2>2
    <3> QED
      BY <1>4, <2>1, <3>1, <3>2, <3>3
  <2>3. CASE a >= head /\ a < head + F
    <3>1. head = Len(text)
      BY <1>1, <1>2, <2>1, <2>3 DEF HeadInv
    <3>2. /\ a + 1 \in 1 .. Len(text) + Len(s) /\ ~ a + 1 <= Len(text) /\ a < Len(text')
          /\ a - head + 1 = (a + 1) - Len(text)
      BY <1>2, <1>3, <1>4, <2>1, <2>3, <3>1
    <3> QED
      BY <1>4, <1>5, <2>1, <2>3, <3>2
  <2>4. CASE a >= head /\ ~ a < head + F
    <3>1. head = Len(text) /\ F = Len(s)
      BY <1>1, <1>2, <1>3, <2>1, <2>4 DEF HeadInv
    <3>2. ~ a < Len(text) /\ ~ a < Len(text')
      BY <1>2, <1>4, <2>1, <2>4, <3>1
    <3> QED
      BY <1>5, <2>1, <2>4, <3>2
  <2> QED
    BY <1>2, <2>1, <2>2, <2>3, <2>4
<1>11. TextKept'
  BY <1>1, <1>9 DEF TextKept
<1>12. F \in Nat /\ head' \in Nat /\ Len(text') \in Nat
  BY <1>1, <1>2, <1>3, <1>4
<1> QED
  BY <1>1, <1>4, <1>5, <1>7, <1>10, <1>11, <1>12

\* A text function begins with the calls it is to make.
LEMMA BeginStep ==
  ASSUME IInv, NEW c, AsCalled(c), Begin(c) PROVE IInv'
<1>1. /\ calls' = c /\ begun' = Len(text) /\ buffer' = <<>> /\ memory' = memory /\ head' = head
      /\ ret' = ret /\ part' = part /\ text' = text /\ returned' = returned /\ ends' = ends
      /\ direct' = direct /\ calls = <<>>
      /\ TypeOK /\ TextKept /\ HeadInv /\ CountInv
  BY DEF IInv, Begin
<1>2. c \in Seq(Call) /\ c # <<>> /\ Len(c) \in Nat /\ \A i \in 1 .. Len(c) : Whole(c[i])
  BY LenProperties DEF AsCalled
<1>3. 1 \in 1 .. Len(c) /\ \A i \in 2 .. Len(c) : i \in 1 .. Len(c)
  BY <1>2, EmptySeq
<1>4. TypeOK'
  BY <1>1, <1>2, StateFacts, EmptySeq DEF TypeOK
<1>5. CallsInv'
  BY <1>1, <1>2, <1>3 DEF CallsInv
<1>6. CountInv'
  BY <1>1 DEF CountInv
<1> QED
  BY <1>1, <1>4, <1>5, <1>6 DEF IInv, TextKept, HeadInv

\* What the running functions have to do
LEMMA CallFacts ==
  ASSUME TypeOK, calls # <<>>
  PROVE  /\ Len(calls) \in Nat /\ Len(calls) > 0
         /\ Current = calls[1] /\ Current \in Call
         /\ Current.strings \in Seq(Seq(Bytes)) /\ Current.shows \in SUBSET Int
         /\ Len(Current.strings) \in Nat
         /\ Len(Current.strings) > 0 =>
              NextString = Current.strings[1] /\ NextString \in Seq(Bytes)
         /\ Tail(calls) \in Seq(Call) /\ Len(Tail(calls)) = Len(calls) - 1
         /\ \A i \in 1 .. Len(calls) - 1 : Tail(calls)[i] = calls[i + 1]
<1>1. calls \in Seq(Call)
  BY DEF TypeOK
<1>2. Len(calls) \in Nat /\ Len(calls) > 0
  BY <1>1, LenProperties, EmptySeq
<1>3. Current = calls[1] /\ Current \in Call
  BY <1>1, <1>2, ElementOfSeq DEF Current
<1>4. Current.strings \in Seq(Seq(Bytes)) /\ Current.shows \in SUBSET Int
  BY <1>3 DEF Call
<1> DEFINE q == Current.strings
<1>5. Len(q) \in Nat
  BY <1>4, LenProperties
<1>6. Len(q) > 0 => Head(q) = q[1] /\ Head(q) \in Seq(Bytes)
  <2> HIDE DEF q
  <2>1. q \in Seq(Seq(Bytes))
    BY <1>4 DEF q
  <2> QED
    BY <1>5, <2>1, ElementOfSeq
<1>7. /\ Tail(calls) \in Seq(Call) /\ Len(Tail(calls)) = Len(calls) - 1
      /\ \A i \in 1 .. Len(calls) - 1 : Tail(calls)[i] = calls[i + 1]
  BY <1>1, HeadTailProperties
<1> QED
  BY <1>2, <1>3, <1>4, <1>5, <1>6, <1>7 DEF NextString

\* A call goes on with its second string.
LEMMA SignStep ==
  ASSUME IInv, WriteSign PROVE IInv'
<1> DEFINE q == Current.strings
           rest == Tail(q)
           call == [Current EXCEPT !.strings = rest]
           s == NextString
<1>1. /\ calls # <<>> /\ Len(q) > 1 /\ PutString(s)
      /\ part' = part + Fitting(Len(s)) /\ calls' = <<call>> \o Tail(calls)
      /\ ret' = ret /\ begun' = begun /\ returned' = returned
      /\ TypeOK /\ TextKept /\ HeadInv /\ CallsInv /\ CountInv
  BY DEF IInv, WriteSign
<1>2. /\ Len(calls) \in Nat /\ Len(calls) > 0 /\ Current = calls[1] /\ Current \in Call
      /\ q \in Seq(Seq(Bytes)) /\ Len(q) \in Nat
      /\ s = q[1] /\ s \in Seq(Bytes)
      /\ Tail(calls) \in Seq(Call) /\ Len(Tail(calls)) = Len(calls) - 1
      /\ \A i \in 1 .. Len(calls) - 1 : Tail(calls)[i] = calls[i + 1]
  BY <1>1, CallFacts
<1>3. /\ rest \in Seq(Seq(Bytes)) /\ Len(rest) = Len(q) - 1 /\ rest[1] = q[2]
  <2>1. q # <<>>
    BY <1>1, <1>2, EmptySeq
  <2> HIDE DEF q
  <2>2. /\ rest \in Seq(Seq(Bytes)) /\ Len(rest) = Len(q) - 1
        /\ \A i \in 1 .. Len(rest) : rest[i] = q[i + 1]
    BY <1>2, <2>1, HeadTailProperties
  <2>3. 1 \in 1 .. Len(rest) /\ 1 + 1 = 2
    BY <1>1, <1>2, <2>2
  <2> HIDE DEF rest
  <2> QED
    BY <2>2, <2>3
<1>4. /\ memory' \in [Offsets -> Bytes \cup {Unwritten}]
      /\ text' \in Seq(Bytes) /\ text' = text \o s
      /\ Len(text') = Len(text) + Len(s)
      /\ Fitting(Len(s)) \in Nat /\ head' \in Nat /\ head' = head + Fitting(Len(s))
      /\ buffer' = buffer /\ ends' = ends /\ direct' = direct
      /\ TextKept' /\ HeadInv'
  <2> HIDE DEF s
  <2> QED
    BY <1>1, <1>2, TextStep
<1> HIDE DEF rest, q
<1>5. call \in Call /\ call.strings = rest /\ call.shows = Current.shows
  BY <1>2, <1>3 DEF Call
<1> HIDE DEF call
<1>6. /\ calls' \in Seq(Call) /\ Len(calls') = Len(calls) /\ calls'[1] = call
      /\ \A i \in 2 .. Len(calls) : calls'[i] = calls[i]
  <2>1. <<call>> \in Seq(Call) /\ Len(<<call>>) = 1 /\ <<call>>[1] = call
    BY <1>5
  <2>2. /\ calls' \in Seq(Call) /\ Len(calls') = 1 + (Len(calls) - 1)
        /\ \A i \in 1 .. 1 + (Len(calls) - 1) :
             calls'[i] = IF i <= 1 THEN call ELSE Tail(calls)[i - 1]
    BY <1>1, <1>2, <2>1, ConcatProperties
  <2>3. \A i \in 2 .. Len(calls) : calls'[i] = calls[i]
    <3> TAKE i \in 2 .. Len(calls)
    <3>1. /\ i \in 1 .. 1 + (Len(calls) - 1) /\ ~ i <= 1
          /\ i - 1 \in 1 .. Len(calls) - 1 /\ (i - 1) + 1 = i
      BY <1>2
    <3> QED
      BY <1>2, <2>2, <3>1
  <2> QED
    BY <1>2, <2>2, <2>3
<1>7. TypeOK'
  <2>1. ret \in Nat /\ part \in Nat /\ begun \in Nat
    BY <1>1 DEF TypeOK
  <2>2. part' \in Nat
    BY <1>1, <1>4, <2>1
  <2> QED
    BY <1>1, <1>4, <1>6, <2>1, <2>2 DEF TypeOK
<1>8. CallsInv'
  <2>1. Whole(calls[1]) /\ begun = Len(text)
    <3>1. SignWritten(calls[1]) => ~ Len(calls[1].strings) > 1
      BY DEF SignWritten
    <3>2. Len(calls[1].strings) > 1
      BY <1>1, <1>2 DEF q
    <3>3. calls # <<>> /\ CallsInv
      BY <1>1
    <3>4. ~ SignWritten(calls[1])
      BY <3>1, <3>2
    <3> QED
      BY <3>3, <3>4 DEF CallsInv
  <2>2. Len(q) = 2 /\ s = <<Minus>> /\ \A n \in Current.shows : n < 0 /\ ReadsAs(-n, q[2])
    <3>1. Whole(Current)
      BY <1>2, <2>1
    <3>2. Len(q) \in 1 .. 2 /\ (Len(q) = 2 => q[1] = <<Minus>>)
      BY <3>1 DEF Whole, q
    <3>3. Len(q) = 2 /\ Len(q) # 1
      <4>1. Len(q) > 1
        BY <1>1
      <4> QED
        BY <3>2, <4>1
    <3>4. \A n \in Current.shows : n < 0 /\ ReadsAs(-n, q[2])
      BY <3>1, <3>3 DEF Whole, q
    <3> QED
      BY <1>2, <3>2, <3>3, <3>4
  <2>3. /\ Len(text') = begun + 1 /\ text'[begun + 1] = Minus
    <3>1. Len(s) = 1 /\ s[1] = Minus /\ Len(text) \in Nat /\ text \in Seq(Bytes)
      BY <1>1, <2>2, StateFacts
    <3>2. \A i \in 1 .. Len(text) + 1 :
             text'[i] = IF i <= Len(text) THEN text[i] ELSE s[i - Len(text)]
      BY <1>2, <1>4, <3>1, ConcatProperties
    <3>3. Len(text) + 1 \in 1 .. Len(text) + 1 /\ (Len(text) + 1) - Len(text) = 1
      BY <3>1
    <3> QED
      BY <1>4, <2>1, <3>1, <3>2, <3>3
  <2>4. /\ Len(calls'[1].strings) = 1 /\ Len(text') = begun' + 1
        /\ text'[begun' + 1] = Minus
        /\ \A n \in calls'[1].shows : n < 0 /\ ReadsAs(-n, calls'[1].strings[1])
    BY <1>1, <1>2, <1>3, <1>5, <1>6, <2>2, <2>3
  <2>5. SignWritten(calls[1])'
    BY <2>4 DEF SignWritten
  <2>6. \A i \in 2 .. Len(calls') : Whole(calls'[i])
    BY <1>1, <1>6 DEF CallsInv
  <2> QED
    BY <2>5, <2>6 DEF CallsInv
<1>9. CountInv'
  <2> DEFINE F == Fitting(Len(s))
  <2>1. /\ head = returned + (ret + part) + ends /\ head \in Nat
        /\ returned \in Nat /\ ret \in Nat /\ part \in Nat /\ ends \in Nat
    BY <1>1 DEF CountInv, TypeOK
  <2>4. /\ F \in Nat /\ head' = head + F /\ part' = part + F /\ ends' = ends
        /\ returned' = returned /\ ret' = ret
    BY <1>1, <1>4
  <2> HIDE DEF F
  <2>2. head' = returned' + (ret' + part') + ends'
    BY <2>1, <2>4
  <2>3. calls' # <<>>
    BY <1>2, <1>6, EmptySeq
  <2> QED
    BY <2>2, <2>3 DEF CountInv
<1> QED
  BY <1>4, <1>7, <1>8, <1>9 DEF IInv

LEMMA SomeCall == Len(calls) > 1 \/ Len(calls) = 1 => calls # <<>>
<1>1. Len(<<>>) = 0
  OBVIOUS
<1>2. calls = <<>> => ~ (Len(calls) > 1 \/ Len(calls) = 1)
  BY <1>1
<1> QED
  BY <1>2

\* The last string of a call
LEMMA LastString ==
  ASSUME IInv, calls # <<>>, Len(Current.strings) = 1
  PROVE  NextString \in Seq(Bytes) /\ Len(calls) \in Nat
<1>1. 1 > 0
  OBVIOUS
<1> QED
  BY <1>1, CallFacts DEF IInv

\* A call of the vector function ends, and there are more.
LEMMA ElementStep ==
  ASSUME IInv, WriteElement PROVE IInv'
<1> DEFINE s == NextString
           F == Fitting(Len(s))
<1>1. /\ Len(calls) > 1 /\ Len(Current.strings) = 1 /\ PutString(s)
      /\ ret' = ret + (part + F) /\ part' = 0 /\ calls' = Tail(calls)
      /\ begun' = Len(text') /\ returned' = returned
      /\ TypeOK /\ TextKept /\ HeadInv /\ CallsInv /\ CountInv
  BY DEF IInv, WriteElement
<1>2. calls # <<>>
  BY <1>1, SomeCall
<1>3. /\ Len(calls) \in Nat /\ s \in Seq(Bytes)
      /\ Tail(calls) \in Seq(Call) /\ Len(Tail(calls)) = Len(calls) - 1
      /\ \A i \in 1 .. Len(calls) - 1 : Tail(calls)[i] = calls[i + 1]
  BY <1>1, <1>2, CallFacts, LastString
<1>4. /\ memory' \in [Offsets -> Bytes \cup {Unwritten}]
      /\ text' \in Seq(Bytes) /\ Len(text') \in Nat
      /\ F \in Nat /\ head' \in Nat /\ head' = head + F
      /\ buffer' = buffer /\ ends' = ends /\ direct' = direct
      /\ TextKept' /\ HeadInv'
  <2> HIDE DEF s
  <2> QED
    BY <1>1, <1>3, TextStep
<1> HIDE DEF s, F
<1>5. /\ ret \in Nat /\ part \in Nat /\ returned \in Nat /\ ends \in Nat /\ head \in Nat
      /\ buffer \in Seq(Bytes \cup {Unwritten}) /\ direct \subseteq 0 .. Size - 1
      /\ head = returned + (ret + part) + ends
  BY <1>1 DEF TypeOK, CountInv
<1>6. TypeOK'
  <2>1. ret' \in Nat /\ part' \in Nat
    BY <1>1, <1>4, <1>5
  <2> QED
    BY <1>1, <1>3, <1>4, <1>5, <2>1 DEF TypeOK
<1>7. CallsInv'
  <2>1. \A i \in 1 .. Len(calls') : Whole(calls'[i])
    <3> TAKE i \in 1 .. Len(calls')
    <3>1. i \in 1 .. Len(calls) - 1 /\ i + 1 \in 2 .. Len(calls)
      BY <1>1, <1>3
    <3> QED
      BY <1>1, <1>3, <3>1 DEF CallsInv
  <2>2. 1 \in 1 .. Len(calls') /\ \A i \in 2 .. Len(calls') : i \in 1 .. Len(calls')
    BY <1>1, <1>3
  <2>3. Whole(calls'[1]) /\ \A i \in 2 .. Len(calls') : Whole(calls'[i])
    BY <2>1, <2>2
  <2> QED
    BY <1>1, <2>3 DEF CallsInv
<1>8. CountInv'
  <2>1. head' = returned' + (ret' + part') + ends'
    BY <1>1, <1>4, <1>5
  <2>2. calls' # <<>>
    <3>1. Len(calls') > 0
      BY <1>1, <1>3
    <3> QED
      BY <3>1
  <2> QED
    BY <2>1, <2>2 DEF CountInv
<1> QED
  BY <1>4, <1>6, <1>7, <1>8 DEF IInv

\* A text function returns to the program.
LEMMA LastStep ==
  ASSUME IInv, WriteLast PROVE IInv'
<1> DEFINE s == NextString
           F == Fitting(Len(s))
<1>1. /\ Len(calls) = 1 /\ Len(Current.strings) = 1 /\ PutString(s)
      /\ returned' = returned + (ret + (part + F)) /\ ret' = 0 /\ part' = 0 /\ calls' = <<>>
      /\ begun' = Len(text')
      /\ TypeOK /\ TextKept /\ HeadInv /\ CallsInv /\ CountInv
  BY DEF IInv, WriteLast
<1>2. calls # <<>>
  BY <1>1, SomeCall
<1>3. s \in Seq(Bytes)
  BY <1>1, <1>2, LastString
<1>4. /\ memory' \in [Offsets -> Bytes \cup {Unwritten}]
      /\ text' \in Seq(Bytes) /\ Len(text') \in Nat
      /\ F \in Nat /\ head' \in Nat /\ head' = head + F
      /\ buffer' = buffer /\ ends' = ends /\ direct' = direct
      /\ TextKept' /\ HeadInv'
  <2> HIDE DEF s
  <2> QED
    BY <1>1, <1>3, TextStep
<1> HIDE DEF s, F
<1>5. /\ ret \in Nat /\ part \in Nat /\ returned \in Nat /\ ends \in Nat /\ head \in Nat
      /\ buffer \in Seq(Bytes \cup {Unwritten}) /\ direct \subseteq 0 .. Size - 1
      /\ head = returned + (ret + part) + ends
  BY <1>1 DEF TypeOK, CountInv
<1>6. TypeOK'
  <2>1. returned' \in Nat /\ ret' \in Nat /\ part' \in Nat
    BY <1>1, <1>4, <1>5
  <2>2. calls' \in Seq(Call)
    BY <1>1, EmptySeq
  <2> QED
    BY <1>1, <1>4, <1>5, <2>1, <2>2 DEF TypeOK
<1>7. CallsInv'
  BY <1>1, NoCalls
<1>8. CountInv'
  BY <1>1, <1>4, <1>5 DEF CountInv
<1> QED
  BY <1>4, <1>6, <1>7, <1>8 DEF IInv

\* A null character is appended if it fits, and the head moves on in any case.
LEMMA TerminateStep ==
  ASSUME IInv, StringTerminate PROVE IInv'
<1> DEFINE F == Inside(1, head)
           s == <<0>>
<1>1. /\ memory' = Stored(s, F, head) /\ head' = head + 1 /\ text' = Append(text, 0)
      /\ buffer' = <<>> /\ ends' = ends + 1 /\ direct' = direct /\ returned' = returned
      /\ calls = <<>> /\ calls' = calls /\ ret' = ret /\ part' = part /\ begun' = begun
      /\ TypeOK /\ TextKept /\ CountInv /\ HeadInv /\ CallsInv
  BY DEF IInv, StringTerminate, running
<1>2. /\ head \in Nat /\ text \in Seq(Bytes) /\ Len(text) \in Nat /\ Size \in Nat
      /\ returned \in Nat /\ ends \in Nat /\ ret \in Nat /\ part \in Nat /\ 0 \in Bytes
  BY <1>1, StateFacts, Settings DEF TypeOK
<1>3. F \in 0 .. 1 /\ F = IF head < Size THEN 1 ELSE 0
  <2>1. /\ F \in 0 .. 1
        /\ F = IF head < Size THEN IF 1 <= Size - head THEN 1 ELSE Size - head ELSE 0
    BY <1>2, HowMuch
  <2> HIDE DEF F
  <2> QED
    BY <1>2, <2>1
<1>4. s \in Seq(Bytes) /\ Len(s) = 1 /\ s[1] = 0
  BY <1>2
<1> HIDE DEF F, s
<1>5. /\ text' \in Seq(Bytes) /\ Len(text') = Len(text) + 1
      /\ \A i \in 1 .. Len(text) : text'[i] = text[i]
      /\ text'[Len(text) + 1] = 0
  BY <1>1, <1>2, AppendProperties
<1>6. /\ memory' \in [Offsets -> Bytes \cup {Unwritten}]
      /\ \A a \in Offsets : memory'[a] =
           IF a >= head /\ a < head + F THEN s[a - head + 1] ELSE memory[a]
  <2>1. F \in 0 .. Len(s)
    BY <1>3, <1>4
  <2> QED
    BY <1>1, <1>2, <1>4, <2>1, StoredBytes
<1>7. TypeOK'
  BY <1>1, <1>2, <1>5, <1>6, EmptySeq DEF TypeOK
<1>8. HeadInv' /\ CountInv' /\ CallsInv'
  <2>1. HeadInv'
    BY <1>1, <1>2, <1>5 DEF HeadInv
  <2>2. CountInv'
    BY <1>1, <1>2 DEF CountInv
  <2>3. CallsInv'
    BY <1>1, NoCalls
  <2> QED
    BY <2>1, <2>2, <2>3
<1>9. ASSUME NEW a \in (0 .. Size - 1) \ direct
      PROVE  memory'[a] = IF a < Len(text') THEN text'[a + 1] ELSE Unwritten
  <2>1. /\ a \in Nat /\ a < Size /\ a \in Offsets
        /\ memory[a] = IF a < Len(text) THEN text[a + 1] ELSE Unwritten
    BY <1>1, <1>2, StateFacts DEF TextKept
  <2>2. CASE a < head
    <3>1. a < Len(text) /\ a + 1 \in 1 .. Len(text) /\ a < Len(text')
      BY <1>1, <1>2, <1>5, <2>1, <2>2 DEF HeadInv
    <3> QED
      BY <1>2, <1>5, <1>6, <2>1, <2>2, <3>1
  <2>3. CASE a = head
    <3>1. head = Len(text) /\ F = 1
      BY <1>1, <1>2, <1>3, <2>1, <2>3 DEF HeadInv
    <3>2. memory'[a] = 0
      <4>1. a >= head /\ a < head + F /\ a - head + 1 = 1
        BY <1>2, <2>3, <3>1
      <4> QED
        BY <1>4, <1>6, <2>1, <4>1
    <3> QED
      BY <1>2, <1>5, <2>3, <3>1, <3>2
  <2>4. CASE a > head
    <3>1. head = Len(text) /\ F <= 1 /\ F \in Nat
      BY <1>1, <1>2, <1>3, <2>1, <2>4 DEF HeadInv
    <3>2. ~ a < Len(text) /\ ~ a < Len(text') /\ ~ a < head + F
      BY <1>2, <1>5, <2>1, <2>4, <3>1
    <3> QED
      BY <1>6, <2>1, <3>2
  <2> QED
    BY <1>2, <2>1, <2>2, <2>3, <2>4
<1> QED
  BY <1>1, <1>7, <1>8, <1>9 DEF IInv, TextKept

\* A direct write touches the bytes it is charged with.
LEMMA WriteStep ==
  ASSUME IInv, NEW offset \in Starts, NEW s \in Blocks, Write(offset, s) PROVE IInv'
<1> DEFINE F == Inside(Len(s), offset)
<1>1. /\ memory' = Stored(s, F, offset) /\ direct' = direct \cup offset .. offset + F - 1
      /\ head' = head /\ text' = text /\ returned' = returned /\ ends' = ends
      /\ buffer' = <<>>
      /\ calls = <<>> /\ calls' = calls /\ ret' = ret /\ part' = part /\ begun' = begun
      /\ TypeOK /\ TextKept /\ CountInv /\ HeadInv /\ CallsInv
  BY DEF IInv, Write, running
<1>2. /\ s \in Seq(Bytes) /\ Len(s) \in Nat /\ offset \in Nat /\ Size \in Nat
      /\ offset <= Size
  BY Settings, LenProperties DEF Starts
<1>3. /\ F \in 0 .. Len(s)
      /\ F = IF offset < Size THEN IF Len(s) <= Size - offset THEN Len(s) ELSE Size - offset
                              ELSE 0
  BY <1>2, HowMuch
<1> HIDE DEF F
<1>4. offset .. offset + F - 1 \subseteq 0 .. Size - 1
  BY <1>2, <1>3
<1>5. /\ memory' \in [Offsets -> Bytes \cup {Unwritten}]
      /\ \A a \in Offsets : memory'[a] =
           IF a >= offset /\ a < offset + F THEN s[a - offset + 1] ELSE memory[a]
  BY <1>1, <1>2, <1>3, StoredBytes
<1>6. TypeOK'
  BY <1>1, <1>4, <1>5, EmptySeq DEF TypeOK
<1>7. ASSUME NEW a \in (0 .. Size - 1) \ direct' PROVE memory'[a] = memory[a] /\ a \notin direct
  <2>1. a \in Nat /\ a \in Offsets /\ a \notin offset .. offset + F - 1 /\ a \notin direct
    BY <1>1, StateFacts
  <2>2. ~ (a >= offset /\ a < offset + F)
    BY <1>2, <1>3, <2>1
  <2> QED
    BY <1>5, <2>1, <2>2
<1>8. CallsInv'
  BY <1>1, NoCalls
<1> QED
  BY <1>1, <1>6, <1>7, <1>8 DEF IInv, TextKept, HeadInv, CountInv

\* What the reads leave in the buffer
LEMMA ReadBuffers ==
  ASSUME TypeOK, NEW offset \in Starts
  PROVE  /\ \A size \in Lengths, behind \in BOOLEAN :
              Read(offset, size, behind) => buffer' \in Seq(Bytes \cup {Unwritten})
         /\ ReadU8(offset) => buffer' \in Seq(Bytes \cup {Unwritten})
<1> DEFINE B == Bytes \cup {Unwritten}
<1>1. /\ offset \in Nat /\ Size \in Nat /\ Beyond \in Nat /\ Lengths \subseteq Nat
      /\ memory \in [Offsets -> B] /\ 0 \in B
  BY Settings DEF Starts, TypeOK
<1>2. ASSUME NEW size \in Lengths, NEW behind \in BOOLEAN, Read(offset, size, behind)
      PROVE  buffer' \in Seq(B)
  <2> DEFINE copy == [i \in 1 .. size |-> memory[offset + i - 1]]
  <2>1. size \in Nat /\ offset + size <= Size + Beyond
    BY <1>1, <1>2 DEF Read
  <2>2. \A i \in 1 .. size : offset + i - 1 \in Offsets
    BY <1>1, <2>1 DEF Offsets
  <2>3. copy \in [1 .. size -> B]
    BY <1>1, <2>2
  <2>4. copy \in Seq(B)
    <3> HIDE DEF copy, B
    <3> QED
      BY <2>1, <2>3, SeqDef
  <2> QED
    BY <1>2, <2>4, EmptySeq DEF Read, Copied
<1>3. ASSUME ReadU8(offset) PROVE buffer' \in Seq(B)
  <2>1. offset < Size => memory[offset] \in B
    BY <1>1 DEF Offsets
  <2>2. CASE offset < Size
    <3>1. buffer' = <<memory[offset]>>
      BY <1>3, <2>2 DEF ReadU8
    <3> QED
      BY <2>1, <2>2, <3>1
  <2>3. CASE ~ offset < Size
    <3>1. buffer' = <<0>>
      BY <1>3, <2>3 DEF ReadU8
    <3> QED
      BY <1>1, <3>1
  <2> QED
    BY <2>2, <2>3
<1> QED
  BY <1>2, <1>3

\* What the reads leave alone
LEMMA ReadStep ==
  ASSUME IInv, buffer' \in Seq(Bytes \cup {Unwritten}),
         UNCHANGED <<running, memory, head, text, returned, ends, direct>>
  PROVE  IInv'
<1>1. /\ calls' = calls /\ ret' = ret /\ part' = part /\ begun' = begun
      /\ memory' = memory /\ head' = head /\ text' = text /\ returned' = returned
      /\ ends' = ends /\ direct' = direct
  BY DEF running
<1>2. TypeOK' /\ TextKept' /\ HeadInv' /\ CountInv'
  BY <1>1 DEF IInv, TypeOK, TextKept, HeadInv, CountInv
<1>3. CallsInv'
  BY <1>1 DEF IInv, CallsInv, SignWritten
<1> QED
  BY <1>2, <1>3 DEF IInv

LEMMA IInvStep == IInv /\ [Next]_vars => IInv'
<1> SUFFICES ASSUME IInv, [Next]_vars PROVE IInv'
  OBVIOUS
<1>1. ASSUME NEW s \in Strings, WriteString(s) PROVE IInv'
  <2>1. AsCalled(<<StringCall(s)>>)
    BY Settings, StringWhole, OneCall
  <2> QED
    BY <1>1, <2>1, BeginStep DEF WriteString
<1>2. ASSUME NEW n \in Numbers, WriteSignedInt(n) \/ WriteInt(n % IntRange) PROVE IInv'
  <2>1. AsCalled(<<SignedIntCall(n)>>) /\ AsCalled(<<IntCall(n % IntRange)>>)
    BY NumbersWhole, OneCall
  <2> QED
    BY <1>2, <2>1, BeginStep DEF WriteSignedInt, WriteInt
<1>3. ASSUME NEW v \in Vectors, WriteSignedVector(v) \/ WriteVector(v) PROVE IInv'
  BY <1>3, VectorsWhole, BeginStep DEF WriteSignedVector, WriteVector
<1>4. CASE WriteSign \/ WriteElement \/ WriteLast
  BY <1>4, SignStep, ElementStep, LastStep
<1>5. CASE StringTerminate
  BY <1>5, TerminateStep
<1>6. ASSUME NEW offset \in Starts, NEW s \in Blocks, Write(offset, s) PROVE IInv'
  BY <1>6, WriteStep
<1>7. ASSUME NEW offset \in Starts, NEW size \in Lengths, NEW behind \in BOOLEAN,
             Read(offset, size, behind)
      PROVE  IInv'
  <2>1. buffer' \in Seq(Bytes \cup {Unwritten})
    BY <1>7, ReadBuffers DEF IInv
  <2> QED
    BY <1>7, <2>1, ReadStep DEF Read
<1>8. ASSUME NEW offset \in Starts, ReadU8(offset) PROVE IInv'
  <2>1. buffer' \in Seq(Bytes \cup {Unwritten})
    BY <1>8, ReadBuffers DEF IInv
  <2> QED
    BY <1>8, <2>1, ReadStep DEF ReadU8
<1>9. CASE UNCHANGED vars
  <2>1. buffer' \in Seq(Bytes \cup {Unwritten})
    BY <1>9 DEF vars, IInv, TypeOK
  <2> QED
    BY <1>9, <2>1, ReadStep DEF vars
<1> QED
  BY <1>1, <1>2, <1>3, <1>4, <1>5, <1>6, <1>7, <1>8, <1>9 DEF Next

-----------------------------------------------------------------------------
(* What holds of every program *)

THEOREM MailboxInvariant == Spec => []IInv
  BY InitIInv, IInvStep, PTL DEF Spec

\* The mailbox holds bytes, and what is written directly is inside it.
THEOREM TypeCorrect == Spec => []TypeOK
<1>1. IInv => TypeOK
  BY DEF IInv
<1> QED
  BY <1>1, MailboxInvariant, PTL

\* The host finds the text from its beginning on, as far as it fits.
THEOREM KeepsText == Spec => []TextKept
<1>1. IInv => TextKept
  BY DEF IInv
<1> QED
  BY <1>1, MailboxInvariant, PTL

\* When no text function runs, the results the program got tell where the write head is.
THEOREM CountsHead == Spec => []ReturnsCountHead
<1>1. IInv => ReturnsCountHead
  <2> SUFFICES ASSUME IInv, calls = <<>> PROVE head = returned + ends
    BY DEF ReturnsCountHead
  <2>1. /\ ret = 0 /\ part = 0 /\ head = returned + (ret + part) + ends
        /\ returned \in Nat /\ ends \in Nat
    BY DEF IInv, CountInv, TypeOK
  <2> QED
    BY <2>1
<1> QED
  BY <1>1, MailboxInvariant, PTL

\* The program reads its text back, byte by byte and by blocks.
THEOREM ReadsTextBack == Spec => TextReadsBack
<1>1. ASSUME IInv, NEW a \in (0 .. Size - 1) \ direct, NEW offset \in Starts,
             \/ ReadU8(offset) /\ a = offset
             \/ \E size \in Lengths : /\ Read(offset, size, FALSE)
                                      /\ a \in offset .. offset + size - 1
      PROVE  buffer'[a - offset + 1] = IF a < Len(text) THEN text[a + 1] ELSE Unwritten
  <2>1. /\ memory[a] = IF a < Len(text) THEN text[a + 1] ELSE Unwritten
        /\ a \in Nat /\ a < Size /\ offset \in Nat /\ Size \in Nat /\ Lengths \subseteq Nat
    BY <1>1, Settings DEF IInv, TextKept, Starts
  <2>2. ASSUME ReadU8(offset), a = offset PROVE buffer'[a - offset + 1] = memory[a]
    <3>1. buffer' = <<memory[a]>> /\ a - offset + 1 = 1
      BY <2>1, <2>2 DEF ReadU8
    <3> QED
      BY <3>1
  <2>3. ASSUME NEW size \in Lengths, Read(offset, size, FALSE), a \in offset .. offset + size - 1
        PROVE  buffer'[a - offset + 1] = memory[a]
    <3>1. buffer' = [i \in 1 .. size |-> memory[offset + i - 1]]
      BY <2>3 DEF Read, Copied
    <3>2. a - offset + 1 \in 1 .. size /\ offset + (a - offset + 1) - 1 = a
      BY <2>1, <2>3
    <3> QED
      BY <3>1, <3>2
  <2> QED
    BY <1>1, <2>1, <2>2, <2>3
<1>2. IInv /\ [Next]_vars =>
        [ \A a \in (0 .. Size - 1) \ direct, offset \in Starts :
            LET read == \/ /\ ReadU8(offset) /\ a = offset
                        \/ \E size \in Lengths : /\ Read(offset, size, FALSE)
                                                 /\ a \in offset .. offset + size - 1
            IN  read => buffer'[a - offset + 1] = IF a < Len(text) THEN text[a + 1]
                                                                   ELSE Unwritten ]_vars
  BY <1>1
<1> QED
  BY <1>2, MailboxInvariant, PTL DEF Spec, TextReadsBack

\* What follows a sequence is what was appended to it.
LEMMA SubSeqOfRest ==
  ASSUME NEW S, NEW t \in Seq(S), NEW s \in Seq(S)
  PROVE  SubSeq(t \o s, Len(t) + 1, Len(t \o s)) = s
<1> DEFINE m == Len(t) + 1
           n == Len(t) + Len(s)
<1>1. Len(t) \in Nat /\ Len(s) \in Nat /\ Len(t \o s) = n
  BY LenProperties, ConcatProperties
<1>2. CASE Len(s) = 0
  <2>1. m \in Int /\ n \in Int /\ n < m /\ s = <<>>
    BY <1>1, <1>2, EmptySeq
  <2> HIDE DEF m, n
  <2> QED
    BY <1>1, <2>1, SubSeqEmpty DEF m
<1>3. CASE Len(s) # 0
  <2>1. /\ m \in Len(t) + 1 .. Len(t) + Len(s) /\ n \in Len(t) + 1 .. Len(t) + Len(s)
        /\ m - Len(t) = 1 /\ n - Len(t) = Len(s)
    BY <1>1, <1>3
  <2> HIDE DEF m, n
  <2>2. SubSeq(t \o s, m, n) = SubSeq(s, m - Len(t), n - Len(t))
    BY <2>1, SubSeqOfConcat2
  <2>3. SubSeq(s, 1, Len(s)) = s
    BY SubSeqFull
  <2> QED
    BY <1>1, <2>1, <2>2, <2>3 DEF m
<1> QED
  BY <1>2, <1>3

\* A sign that was written before its digits
LEMMA SignAndDigits ==
  ASSUME NEW t \in Seq(Bytes), NEW s \in Seq(Bytes), NEW b \in Nat,
         Len(t) = b + 1, t[b + 1] = Minus
  PROVE  LET r == SubSeq(t \o s, b + 1, Len(t \o s))
         IN  Len(r) = Len(s) + 1 /\ r[1] = Minus /\ Tail(r) = s
<1> DEFINE w == t \o s
           n == Len(w)
           r == SubSeq(w, b + 1, n)
<1>1. /\ w \in Seq(Bytes) /\ n = (b + 1) + Len(s) /\ Len(s) \in Nat
      /\ \A i \in 1 .. (b + 1) + Len(s) : w[i] = IF i <= b + 1 THEN t[i] ELSE s[i - (b + 1)]
  <2>1. /\ w \in Seq(Bytes) /\ Len(w) = Len(t) + Len(s)
        /\ \A i \in 1 .. Len(t) + Len(s) : w[i] = IF i <= Len(t) THEN t[i] ELSE s[i - Len(t)]
    BY ConcatProperties
  <2>2. Len(s) \in Nat
    BY LenProperties
  <2> HIDE DEF w
  <2> QED
    BY <2>1, <2>2
<1>2. \A i \in b + 1 .. n : w[i] \in Bytes
  <2> HIDE DEF w
  <2>1. \A i \in b + 1 .. n : i \in 1 .. Len(w)
    BY <1>1
  <2> QED
    BY <1>1, <2>1, ElementOfSeq
<1> HIDE DEF w, n
<1>3. /\ r \in Seq(Bytes) /\ Len(r) = Len(s) + 1
      /\ \A i \in 1 .. Len(s) + 1 : r[i] = w[b + i]
  <2>1. b + 1 \in Int /\ n \in Int /\ b + 1 <= n /\ n - (b + 1) + 1 = Len(s) + 1
    BY <1>1
  <2>2. /\ r \in Seq(Bytes) /\ Len(r) = n - (b + 1) + 1
        /\ \A i \in 1 .. n - (b + 1) + 1 : r[i] = w[b + 1 + i - 1]
    BY <1>2, <2>1, SubSeqProperties
  <2>3. \A i \in 1 .. Len(s) + 1 : b + 1 + i - 1 = b + i
    BY <1>1
  <2> HIDE DEF r
  <2> QED
    BY <2>1, <2>2, <2>3
<1> HIDE DEF r
<1>4. r[1] = Minus
  BY <1>1, <1>3
<1>5. Tail(r) = s
  <2>1. r # <<>>
    BY <1>1, <1>3, EmptySeq
  <2>2. /\ Tail(r) \in Seq(Bytes) /\ Len(Tail(r)) = Len(s)
        /\ \A i \in 1 .. Len(Tail(r)) : Tail(r)[i] = r[i + 1]
    BY <1>1, <1>3, <2>1, HeadTailProperties
  <2>3. ASSUME NEW i \in 1 .. Len(s) PROVE Tail(r)[i] = s[i]
    <3>1. /\ i + 1 \in 1 .. Len(s) + 1 /\ b + (i + 1) \in 1 .. (b + 1) + Len(s)
          /\ ~ b + (i + 1) <= b + 1 /\ b + (i + 1) - (b + 1) = i
      BY <1>1
    <3> QED
      BY <1>1, <1>3, <2>2, <3>1
  <2> QED
    BY <2>2, <2>3, SeqEqual
<1> QED
  BY <1>3, <1>4, <1>5 DEF r, w, n

\* A number is in the text when its call has ended.
LEMMA CallReadsBack ==
  ASSUME IInv, WriteElement \/ WriteLast, NEW n \in Current.shows
  PROVE  ShowsNumber(n, SubSeq(text', begun + 1, Len(text')))
<1> DEFINE s == NextString
           t == text
<1>1. /\ Len(calls) > 1 \/ Len(calls) = 1
      /\ Len(Current.strings) = 1 /\ text' = text \o s
      /\ TypeOK /\ CallsInv
  BY DEF IInv, WriteElement, WriteLast, PutString
<1>2. calls # <<>>
  BY <1>1, SomeCall
<1>3. /\ s \in Seq(Bytes) /\ s = Current.strings[1] /\ Current = calls[1] /\ n \in Int
      /\ text \in Seq(Bytes) /\ Len(text) \in Nat /\ begun \in Nat /\ Len(s) \in Nat
  <2>1. s \in Seq(Bytes)
    BY <1>1, <1>2, LastString
  <2>2. Len(s) \in Nat
    BY <2>1, LenProperties
  <2>3. begun \in Nat
    BY <1>1 DEF TypeOK
  <2>4. s = Current.strings[1] /\ Current = calls[1] /\ Current.shows \in SUBSET Int
    BY <1>1, <1>2, CallFacts
  <2> QED
    BY <1>1, <2>1, <2>2, <2>3, <2>4, StateFacts
<1> HIDE DEF s
<1>4. CASE Whole(calls[1]) /\ begun = Len(text)
  <2>1. ~ n < 0 /\ ReadsAs(n, s)
    BY <1>1, <1>3, <1>4 DEF Whole
  <2>2. SubSeq(text \o s, Len(text) + 1, Len(text \o s)) = s
    BY <1>3, SubSeqOfRest
  <2> QED
    BY <1>1, <1>4, <2>1, <2>2 DEF ShowsNumber
<1>5. CASE SignWritten(calls[1])
  <2> DEFINE r == SubSeq(text \o s, begun + 1, Len(text \o s))
  <2>1. n < 0 /\ ReadsAs(-n, s) /\ Len(text) = begun + 1 /\ text[begun + 1] = Minus
    BY <1>3, <1>5 DEF SignWritten
  <2>2. Len(r) = Len(s) + 1 /\ r[1] = Minus /\ Tail(r) = s
    <3>1. /\ text \in Seq(Bytes) /\ s \in Seq(Bytes) /\ begun \in Nat
          /\ Len(text) = begun + 1 /\ text[begun + 1] = Minus
      BY <1>3, <2>1
    <3> QED
      BY <3>1, SignAndDigits
  <2> HIDE DEF r
  <2>3. Len(r) > 1
    <3>1. Len(s) > 0
      BY <2>1 DEF ReadsAs
    <3> QED
      BY <1>3, <2>2, <3>1
  <2>4. ShowsNumber(n, r)
    <3>1. n < 0 /\ Len(r) > 1 /\ r[1] = Minus /\ ReadsAs(-n, Tail(r))
      BY <2>1, <2>2, <2>3
    <3> QED
      BY <3>1 DEF ShowsNumber
  <2> QED
    BY <1>1, <2>4 DEF r
<1> QED
  BY <1>1, <1>2, <1>4, <1>5 DEF CallsInv

\* Every number, alone or in a vector, is written in digits that read as that number:
\* for words of any width, also the smallest one, whose negative is none.
THEOREM ReadsNumbersBack == Spec => NumbersReadBack
<1>1. IInv /\ [Next]_vars =>
        [ WriteElement \/ WriteLast =>
            \A n \in Current.shows :
              ShowsNumber(n, SubSeq(text', begun + 1, Len(text'))) ]_vars
  BY CallReadsBack
<1> QED
  BY <1>1, MailboxInvariant, PTL DEF Spec, NumbersReadBack

\* What the program has for LowestText, in base ten, is the number that
\* LiteralAssumption asks for when integers have 32 bits.
THEOREM SourceLiteral ==
  LET literal == <<Digit0 + 2, Digit0 + 1, Digit0 + 4, Digit0 + 7, Digit0 + 4,
                   Digit0 + 8, Digit0 + 3, Digit0 + 6, Digit0 + 4, Digit0 + 8>>
  IN  Base = 10 => literal \in Seq(Bytes) /\ ReadsAs(2147483648, literal)
<1> DEFINE literal == <<Digit0 + 2, Digit0 + 1, Digit0 + 4, Digit0 + 7, Digit0 + 4,
                        Digit0 + 8, Digit0 + 3, Digit0 + 6, Digit0 + 4, Digit0 + 8>>
           value == Values(literal)
<1> SUFFICES ASSUME Base = 10 PROVE literal \in Seq(Bytes) /\ ReadsAs(2147483648, literal)
  OBVIOUS
<1>1. \A d \in 0 .. 9 : Digit0 + d \in Bytes
  BY Settings
<1>2. literal \in Seq(Bytes)
  <2>1. /\ Digit0 + 1 \in Bytes /\ Digit0 + 2 \in Bytes /\ Digit0 + 3 \in Bytes
        /\ Digit0 + 4 \in Bytes /\ Digit0 + 6 \in Bytes /\ Digit0 + 7 \in Bytes
        /\ Digit0 + 8 \in Bytes
    BY <1>1
  <2> QED
    BY <2>1
<1>3. /\ Len(literal) = 10
      /\ literal[1] = Digit0 + 2 /\ literal[2] = Digit0 + 1 /\ literal[3] = Digit0 + 4
      /\ literal[4] = Digit0 + 7 /\ literal[5] = Digit0 + 4 /\ literal[6] = Digit0 + 8
      /\ literal[7] = Digit0 + 3 /\ literal[8] = Digit0 + 6 /\ literal[9] = Digit0 + 4
      /\ literal[10] = Digit0 + 8
  OBVIOUS
<1> HIDE DEF literal
<1>4. /\ Value(literal) = value[10] /\ value[0] = 0
      /\ \A i \in 1 .. 10 : value[i] = value[i - 1] * 10 + (literal[i] - Digit0)
  BY <1>2, <1>3, ValuesExist
<1> HIDE DEF value
<1>5. value[1] = 2 /\ value[2] = 21 /\ value[3] = 214 /\ value[4] = 2147 /\ value[5] = 21474
  BY <1>3, <1>4 DEF Digit0
<1>6. /\ value[6] = 214748 /\ value[7] = 2147483 /\ value[8] = 21474836
      /\ value[9] = 214748364 /\ value[10] = 2147483648
  BY <1>3, <1>4, <1>5 DEF Digit0
<1>7. literal[1] # Digit0
  BY <1>3 DEF Digit0
<1> QED
  BY <1>2, <1>3, <1>4, <1>6, <1>7 DEF ReadsAs

=============================================================================
