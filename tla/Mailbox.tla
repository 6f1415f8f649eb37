------------------------------ MODULE Mailbox ------------------------------
(***************************************************************************)
(* The mailbox of src/libnux/vx/mailbox.cpp: a region at the end of the    *)
(* PPU's memory that the host reads.  The program appends text at a write  *)
(* head; it may also write bytes at any offset.                            *)
(*                                                                         *)
(* Every call of mailbox_write_string() is a step, so that the host may    *)
(* look between two strings of a number or a vector.  calls is what the    *)
(* functions that run still have to do, as a call stack has it: the calls  *)
(* the outer one has to make, each with the strings it has to write.       *)
(*                                                                         *)
(* Offsets count from mailbox_base, and the model goes on for some bytes   *)
(* past mailbox_end.  A byte is a number, 0 the null character.            *)
(***************************************************************************)
EXTENDS Integers, SequencesExt

CONSTANTS Size,     \* mailbox_size
          Beyond,   \* bound: bytes modelled past mailbox_end
          Base,     \* of the number system of the texts: 10 in the program
          IntRange, \* number of values of uint32_t: 2^32 in the program
          Strings,  \* texts the program writes
          Numbers,  \* int32_t numbers it writes
          Vectors,  \* vectors of numbers it writes
          Blocks,   \* sources of mailbox_write()
          LowestText, \* the text of INT32_MIN: "2147483648" in the program
          Lengths,  \* sizes of mailbox_read()
          MaxText   \* bound: nothing is written after that much text

\* The characters "-", "{", ",", "}", and the digits from "0" on.
Minus  == 1
Open   == 2
Comma  == 3
Close  == 4
Digit0 == 5

Unwritten == -1
Bytes     == 0 .. Digit0 + Base - 1
Offsets   == 0 .. Size + Beyond - 1
Starts    == 0 .. Size \* bound: where direct accesses begin
IntMin    == - (IntRange \div 2)

\* The number a digit sequence stands for.
Value(s) == LET value[i \in 0 .. Len(s)] ==
                  IF i = 0 THEN 0 ELSE value[i - 1] * Base + (s[i] - Digit0)
            IN  value[Len(s)]

\* The digits s read as n, and there is no leading zero.
ReadsAs(n, s) == /\ Len(s) > 0
                 /\ Len(s) > 1 => s[1] # Digit0
                 /\ Value(s) = n

ASSUME MailboxAssumption ==
  /\ Size \in Nat /\ Beyond \in Nat /\ MaxText \in Nat
  /\ Base \in 2 .. 16
  /\ IntRange \in Nat \ {0} /\ IntRange % 2 = 0
  /\ \A s \in Strings : s \in Seq(Bytes \ {0})
  /\ \A s \in Blocks : s \in Seq(Bytes)
  /\ Lengths \subseteq Nat
  /\ Numbers \subseteq IntMin .. -1 - IntMin
  /\ \A v \in Vectors : v \in Seq(Numbers)

\* The literal in the source is right for the width of the integers.
ASSUME LiteralAssumption == LowestText \in Seq(Bytes) /\ ReadsAs(-IntMin, LowestText)

VARIABLES memory, \* the bytes from mailbox_base on
          head,   \* write_head_offset
          buffer, \* where mailbox_read() copies bytes to; forgotten by the next call
          calls,  \* what the running text function still has to do; empty if none runs
          ret,    \* ret of the vector function, and
          part,   \* ret of mailbox_write_signed_int()
          \* history:
          text,     \* all characters handed to mailbox_write_string()
          begun,    \* length of the text when the first of the calls began
          returned, \* sum of what the program got from the text functions
          ends,     \* how often mailbox_string_terminate() was called
          direct    \* offsets written by the functions that take an offset

running == <<calls, ret, part, begun>>

vars == <<memory, head, buffer, running, text, returned, ends, direct>>

\* A call: the strings it writes, and the number they show, if they show one.
Call == [strings : Seq(Seq(Bytes)), shows : SUBSET Int]

TypeOK == /\ memory \in [Offsets -> Bytes \cup {Unwritten}]
          /\ head \in Nat
          /\ buffer \in Seq(Bytes \cup {Unwritten})
          /\ calls \in Seq(Call) /\ ret \in Nat /\ part \in Nat
          /\ text \in Seq(Bytes) /\ begun \in Nat
          /\ returned \in Nat /\ ends \in Nat
          /\ direct \subseteq 0 .. Size - 1

Init == /\ memory = [a \in Offsets |-> Unwritten]
        /\ head = 0
        /\ buffer = <<>>
        /\ calls = <<>> /\ ret = 0 /\ part = 0 /\ begun = 0
        /\ text = <<>> /\ returned = 0 /\ ends = 0
        /\ direct = {}

-----------------------------------------------------------------------------

\* memory with the first n bytes of s from offset at on
Stored(s, n, at) == [a \in Offsets |-> IF a - at \in 0 .. n - 1 THEN s[a - at + 1]
                                                                ELSE memory[a]]

\* How many of n bytes from offset at on are inside the mailbox.
Inside(n, at) == IF at < Size THEN Min({n, Size - at}) ELSE 0

\* How many of n characters mailbox_write_string() writes: its loop stops when
\* the head is equal to the end.
Fitting(n) == IF head <= Size THEN Inside(n, head) ELSE n

\* Mistake: while (value > base) in place of while (value != 0).
ItoaStopsAtBase(value) ==
  LET digits[v \in 0 .. value] == Append(IF v \div Base <= Base THEN <<>> ELSE digits[v \div Base],
                                  Digit0 + (v % Base))
  IN  digits[value]

\* itoa(value, Base)
itoa(value) ==
  LET digits[v \in 0 .. value] == Append(IF v < Base THEN <<>> ELSE digits[v \div Base],
                                  Digit0 + (v % Base))
  IN  digits[value]

StringCall(s) == [strings |-> <<s>>, shows |-> {}]

\* mailbox_write_int(n)
IntCall(n) == [strings |-> <<itoa(n)>>, shows |-> {n}]

\* mailbox_write_signed_int(n).  The negative is an int32_t handed over as a
\* uint32_t.
SignedIntCall(n) ==
  [strings |-> IF n < 0 THEN <<<<Minus>>, IF n = IntMin THEN LowestText
                                                       ELSE itoa((-n) % IntRange)>>
                        ELSE <<itoa(n)>>,
   shows |-> {n}]

\* The calls that write a vector, given those that write its elements.
VectorCalls(elements) ==
  LET last == 2 * Len(elements) + 1
      Item(k) == IF k = 1 THEN StringCall(<<Open>>)
                 ELSE IF k = last THEN StringCall(<<Close>>)
                 ELSE IF k % 2 = 0 THEN elements[k \div 2] ELSE StringCall(<<Comma>>)
  IN  [k \in 1 .. last |-> Item(k)]

\* How many characters the calls c write if all of them fit.
Length(c) == FoldLeft(LAMBDA n, call : FoldLeft(LAMBDA m, s : m + Len(s), n, call.strings),
                      0, c)

\* The program calls a text function, which has the calls c to make.
Begin(c) == /\ calls = <<>>
            /\ Len(text) < MaxText
            /\ head > Size => head + Length(c) <= Size + Beyond
            /\ calls' = c
            /\ begun' = Len(text)
            /\ buffer' = <<>>
            /\ UNCHANGED <<memory, head, ret, part, text, returned, ends, direct>>

WriteString(s)       == Begin(<<StringCall(s)>>)
WriteInt(n)          == Begin(<<IntCall(n)>>)
WriteSignedInt(n)    == Begin(<<SignedIntCall(n)>>)
WriteVector(v)       == Begin(VectorCalls([i \in 1 .. Len(v) |-> IntCall(v[i] % IntRange)]))
WriteSignedVector(v) == Begin(VectorCalls([i \in 1 .. Len(v) |-> SignedIntCall(v[i])]))

Current == Head(calls)
NextString   == Head(Current.strings)

\* mailbox_write_string(s)
PutString(s) == /\ memory' = Stored(s, Fitting(Len(s)), head)
                /\ head' = head + Fitting(Len(s))
                /\ text' = text \o s
                /\ UNCHANGED <<buffer, ends, direct>>

\* The sign is written: its result is kept until the digits are written.
WriteSign == /\ calls # <<>>
             /\ Len(Current.strings) > 1
             /\ PutString(NextString)
             /\ part' = part + Fitting(Len(NextString))
             /\ calls' = <<[Current EXCEPT !.strings = Tail(@)]>> \o Tail(calls)
             /\ UNCHANGED <<ret, begun, returned>>

\* Mistake: the result of a comma is forgotten.
WriteElementCommaForgotten ==
  /\ Len(calls) > 1
  /\ Len(Current.strings) = 1
  /\ PutString(NextString)
  /\ ret' = IF NextString = <<Comma>> THEN ret ELSE ret + (part + Fitting(Len(NextString)))
  /\ part' = 0
  /\ calls' = Tail(calls)
  /\ begun' = Len(text')
  /\ UNCHANGED returned

\* A call of the vector function ends, and its result is added to the sum.
WriteElement == /\ Len(calls) > 1
                /\ Len(Current.strings) = 1
                /\ PutString(NextString)
                /\ ret' = ret + (part + Fitting(Len(NextString)))
                /\ part' = 0
                /\ calls' = Tail(calls)
                /\ begun' = Len(text')
                /\ UNCHANGED returned

\* The last string of a text function: the program gets the sum.
WriteLast == /\ Len(calls) = 1
             /\ Len(Current.strings) = 1
             /\ PutString(NextString)
             /\ returned' = returned + (ret + (part + Fitting(Len(NextString))))
             /\ ret' = 0 /\ part' = 0
             /\ calls' = <<>>
             /\ begun' = Len(text')

\* Mistake: the head stays at the null character.
StringTerminateInPlace == /\ calls = <<>>
                          /\ Len(text) < MaxText
                          /\ memory' = Stored(<<0>>, Inside(1, head), head)
                          /\ text' = Append(text, 0)
                          /\ ends' = ends + 1
                          /\ buffer' = <<>>
                          /\ UNCHANGED <<running, head, returned, direct>>

\* mailbox_string_terminate(): the head moves on even if nothing is written.
StringTerminate == /\ calls = <<>>
                   /\ Len(text) < MaxText
                   /\ memory' = Stored(<<0>>, Inside(1, head), head)
                   /\ head' = head + 1
                   /\ text' = Append(text, 0)
                   /\ ends' = ends + 1
                   /\ buffer' = <<>>
                   /\ UNCHANGED <<running, returned, direct>>

\* Mistake: the end of the mailbox is not looked at.
WriteUnchecked(offset, s) ==
  /\ calls = <<>>
  /\ offset + Len(s) <= Size + Beyond
  /\ memory' = Stored(s, Len(s), offset)
  /\ direct' = direct \cup offset .. offset + Len(s) - 1
  /\ buffer' = <<>>
  /\ UNCHANGED <<running, head, text, returned, ends>>

\* mailbox_write(offset, s, Len(s)), and mailbox_write_u8() if s is one byte
Write(offset, s) ==
  /\ calls = <<>>
  /\ memory' = Stored(s, Inside(Len(s), offset), offset)
  /\ direct' = direct \cup offset .. offset + Inside(Len(s), offset) - 1
  /\ buffer' = <<>>
  /\ UNCHANGED <<running, head, text, returned, ends>>

\* Mistake: the source is not moved on.
CopiedFirst(offset, size) == [i \in 1 .. size |-> memory[offset]]

\* What the loop of mailbox_read() copies to a buffer in front of the mailbox's end;
\* it looks at the destination only, and the source may be behind the mailbox.
Copied(offset, size) == [i \in 1 .. size |-> memory[offset + i - 1]]

\* mailbox_read(): into a buffer behind the mailbox, as one in the external memory
\* is, nothing is copied.
Read(offset, size, behind) ==
  /\ calls = <<>>
  /\ offset + size <= Size + Beyond
  /\ buffer' = IF behind THEN <<>> ELSE Copied(offset, size)
  /\ UNCHANGED <<running, memory, head, text, returned, ends, direct>>

\* mailbox_read_u8()
ReadU8(offset) ==
  /\ calls = <<>>
  /\ buffer' = IF offset < Size THEN <<memory[offset]>> ELSE <<0>>
  /\ UNCHANGED <<running, memory, head, text, returned, ends, direct>>

Next == \/ \E s \in Strings : WriteString(s)
        \/ \E n \in Numbers : WriteSignedInt(n) \/ WriteInt(n % IntRange)
        \/ \E v \in Vectors : WriteSignedVector(v) \/ WriteVector(v)
        \/ WriteSign \/ WriteElement \/ WriteLast
        \/ StringTerminate
        \/ \E offset \in Starts, s \in Blocks : Write(offset, s)
        \/ \E offset \in Starts, size \in Lengths, behind \in BOOLEAN :
             Read(offset, size, behind)
        \/ \E offset \in Starts : ReadU8(offset)

Spec == Init /\ [][Next]_vars

-----------------------------------------------------------------------------

\* The host finds the text from its beginning on, as far as it fits, and the
\* rest of the mailbox as it was: calls that were cut off, null characters and
\* calls after the mailbox was full leave no gap.  (The bytes written directly
\* are the program's own affair.)
TextKept ==
  \A a \in (0 .. Size - 1) \ direct :
    memory[a] = IF a < Len(text) THEN text[a + 1] ELSE Unwritten

\* The program finds its text like the host, byte by byte or by blocks that begin
\* anywhere (mailbox.cpp:44, 52).
TextReadsBack ==
  [][ \A a \in (0 .. Size - 1) \ direct, offset \in Starts :
        LET read == \/ /\ ReadU8(offset) /\ a = offset
                    \/ \E size \in Lengths : /\ Read(offset, size, FALSE)
                                             /\ a \in offset .. offset + size - 1
        IN  read => buffer'[a - offset + 1] = IF a < Len(text) THEN text[a + 1]
                                                               ELSE Unwritten ]_vars

\* When no text function runs, the results the program got tell where the head is:
\* what the many calls behind a number or a vector return is all added up, on both
\* levels (mailbox.cpp:91-115), also if some of them are cut off.
ReturnsCountHead == calls = <<>> => head = returned + ends

\* The text shows the number n.
ShowsNumber(n, s) == IF n < 0 THEN Len(s) > 1 /\ s[1] = Minus /\ ReadsAs(-n, Tail(s))
                              ELSE ReadsAs(n, s)

\* Every number the program writes, alone or in a vector, is in the text in a form
\* that reads as that number, also the smallest one and zero (mailbox.cpp:8, 91):
\* its digits follow its sign, with nothing between them.
NumbersReadBack ==
  [][ WriteElement \/ WriteLast =>
        \A n \in Current.shows : ShowsNumber(n, SubSeq(text', begun + 1, Len(text'))) ]_vars

\* Text that does not fit is refused: "TODO set errno ERANGE as soon as
\* implemented" is what the code says at the place (mailbox.cpp:79).
\* Does not hold: a null character that did not fit moves the head past the
\* end, and the loop compares the two for equality only.
StaysInMailbox == \A a \in Offsets : a >= Size => memory[a] = Unwritten
=============================================================================
