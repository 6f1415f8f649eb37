------------------------------- MODULE SoftUart -------------------------------
(***************************************************************************)
(* class SoftUartTx of src/libnux/vx/uart.cpp: a word becomes levels of a  *)
(* pin, each of which lasts as long as sleep_cycles() takes. A receiver    *)
(* with a clock of its own listens; it is not part of the library.         *)
(*                                                                         *)
(* The line is a sequence of levels with their durations in cycles.        *)
(***************************************************************************)
EXTENDS Integers, Sequences, FiniteSets

LOCAL Seqs == INSTANCE SequencesExt
LOCAL Sets == INSTANCE FiniteSetsExt

CONSTANTS WordBits,     \* of uart_word_t: 16 in the program
          CyclesPerBit, \* cycles_per_bit
          Warm,         \* cycles of the sleep before a word: 10 in the program
          Late          \* bound: by how much sleep_cycles() may be late

ASSUME SoftUartAssumption ==
  /\ WordBits \in Nat \ {0} /\ CyclesPerBit \in Nat \ {0}
  /\ Warm \in Nat /\ Late \in Nat

BitOf(data, i) == (data \div 2^i) % 2

\* __builtin_parity(data)
Parity(data) == Cardinality({i \in 0 .. WordBits - 1 : BitOf(data, i) = 1}) % 2

\* Mistake: the most significant bit comes first.
DataBitsReversed(data, width) == [i \in 1 .. width |-> BitOf(data, width - i)]

\* The data bits, from the least significant one on
DataBits(data, width) == [i \in 1 .. width |-> BitOf(data, i - 1)]

\* The bits write() puts on the line for a word
Frame(config, data) ==
  <<0>> \o DataBits(data, config.width)
        \o (CASE config.parity = "NONE" -> << >>
              [] config.parity = "EVEN" -> <<Parity(data)>>
              [] config.parity = "ODD"  -> <<1 - Parity(data)>>)
        \o [i \in 1 .. config.stop_bits |-> 1]

\* logic2physical()
Physical(config, bit) == IF config.inverted THEN 1 - bit ELSE bit

\* write(data) on a line that is at a level: the sleep that warms the cache,
\* one cycle at the idle level, and the bits. late[i] is by how much the sleep
\* after the i-th bit is late.
write(config, data, level, late) ==
  LET bits == Frame(config, data)
  IN  <<[level |-> level, cycles |-> Warm + Late],
        [level |-> Physical(config, 1), cycles |-> 1]>>
      \o [i \in 1 .. Len(bits) |-> [level  |-> Physical(config, bits[i]),
                                    cycles |-> CyclesPerBit + late[i]]]

\* The line after the constructor and a word after the other, and then idle for
\* as long as the receiver may listen
Line(config, words, late) ==
  LET after[n \in 0 .. Len(words)] ==
        IF n = 0 THEN <<[level |-> Physical(config, 1), cycles |-> 1]>>
        ELSE after[n-1] \o write(config, words[n], after[n-1][Len(after[n-1])].level, late)
  IN  after[Len(words)] \o <<[level |-> Physical(config, 1), cycles |-> 2 * CyclesPerBit]>>

\* printf() of a text without null characters: vsnprintf() writes as much of it into
\* string_buffer as there is room for in front of a null character.
printf(config, text, buffer_size, late) ==
  Line(config, SubSeq(text, 1, Sets!Min({Len(text), buffer_size - 1})), late)

-----------------------------------------------------------------------------
(***************************************************************************)
(* The receiver: an edge from the idle level starts a word, whose bits are *)
(* read in their middle. A word is dropped if its stop bit is not there.   *)
(***************************************************************************)

\* The level at each cycle
Levels(line) == Seqs!FlattenSeq([n \in 1 .. Len(line) |-> [i \in 1 .. line[n].cycles |-> line[n].level]])

Middle(start, i) == start + i * CyclesPerBit + CyclesPerBit \div 2

\* The words received from cycle t on, with their parity bits
Received(config, levels) ==
  LET length == config.width + (IF config.parity = "NONE" THEN 0 ELSE 1)
      bit(t) == Physical(config, levels[t])
      from[t \in 1 .. Len(levels)] ==
        LET edges == {e \in t + 1 .. Len(levels) : bit(e - 1) = 1 /\ bit(e) = 0}
            start == Sets!Min(edges)
            stop  == Middle(start, length + 1)
            sum[i \in 0 .. config.width] ==
              IF i = 0 THEN 0 ELSE sum[i-1] + bit(Middle(start, i)) * 2^(i-1)
            word == [data |-> sum[config.width],
                     parity |-> IF config.parity = "NONE" THEN 0 ELSE bit(Middle(start, length))]
        IN  IF edges = {} \/ stop > Len(levels) THEN << >>
            ELSE (IF bit(stop) = 1 THEN <<word>> ELSE << >>) \o from[stop]
  IN  from[1]
=============================================================================
