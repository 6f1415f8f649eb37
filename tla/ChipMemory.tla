------------------------------ MODULE ChipMemory ------------------------------
(***************************************************************************)
(* What libnux does with the memories and registers of the chip that are   *)
(* arranged like synapses: vector.h, syn.h, correlation.h, correlation.cpp,*)
(* and reset_neurons.h. A memory is a function from an index, two for each *)
(* row, to a vector of bytes. The vector unit reads and writes whole       *)
(* vectors, the omnibus words of four bytes.                               *)
(***************************************************************************)
EXTENDS Integers

CONSTANTS VectorBytes, \* dls_vector_size: 128 in the program
          ChipRows     \* dls_num_rows: 256 in the program

ASSUME ChipMemoryAssumption == /\ VectorBytes \in Nat /\ VectorBytes % 4 = 0
                               /\ ChipRows \in Nat

Entries       == 0 .. VectorBytes - 1
VectorIndices == 0 .. 2 * ChipRows - 1
WordsPerVector == VectorBytes \div 4

\* Where fxvcmpb with a mask finds "greater than zero": it takes bytes for signed
\* numbers.
Chosen(mask, i) == 0 < mask[i] /\ mask[i] < 128

\* fxvoutx with the condition "greater", and without, as the vector unit itself
\* sees it, which reads what it has written
OutMasked(memory, index, values, mask) ==
  [memory EXCEPT ![index] = [i \in Entries |-> IF Chosen(mask, i) THEN values[i] ELSE @[i]]]
Out(memory, index, values) == [memory EXCEPT ![index] = values]

\* The byte of a memory at a word's address of the omnibus
OmnibusByte(memory, address, byte) ==
  memory[address \div WordsPerVector][4 * (address % WordsPerVector) + byte]

\* The omnibus addresses of a row
RowWords(row) == row * 2 * WordsPerVector .. (row + 1) * 2 * WordsPerVector - 1

\* What the omnibus sees between two states of a memory: of the vectors that are
\* written, the words in arrived have reached it.
Arriving(before, after, arrived) ==
  [index \in VectorIndices |-> [i \in Entries |->
     IF index * WordsPerVector + (i \div 4) \in arrived THEN after[index][i]
     ELSE before[index][i]]]

\* Only a sync waits until everything has arrived.
Arrivals(synchronised, row) == IF synchronised THEN {RowWords(row)} ELSE SUBSET RowWords(row)

-----------------------------------------------------------------------------

get_row_via_vector(memory, row) == [even |-> memory[2 * row], odd |-> memory[2 * row + 1]]

set_row_via_vector(memory, values, row) ==
  Out(Out(memory, 2 * row, values.even), 2 * row + 1, values.odd)

\* Mistake: the mask of the odd columns is not compared.
set_row_via_vector_masked_once(memory, values, mask, row) ==
  OutMasked(OutMasked(memory, 2 * row, values.even, mask.even),
            2 * row + 1, values.odd, mask.even)

set_row_via_vector_masked(memory, values, mask, row) ==
  OutMasked(OutMasked(memory, 2 * row, values.even, mask.even),
            2 * row + 1, values.odd, mask.odd)

\* get_row_via_omnibus() reads the words of a row one after the other.
get_row_via_omnibus(memory, row) ==
  LET vector(base) == [c \in Entries |->
        OmnibusByte(memory, base + (c \div 4) + row * 2 * WordsPerVector, c % 4)]
  IN  [even |-> vector(0), odd |-> vector(WordsPerVector)]

get_vector(memory, index) == memory[index]
set_vector(memory, values, index) == Out(memory, index, values)

\* get_weights() and set_weights(), which have no sync
get_weights(memory, row) == <<memory[2 * row], memory[2 * row + 1]>>
set_weights(memory, halves, row) == Out(Out(memory, 2 * row, halves[1]), 2 * row + 1, halves[2])

-----------------------------------------------------------------------------
(***************************************************************************)
(* Correlations change while the program runs. A read without              *)
(* dls_buffer_enable_mask samples them, a read with it returns what was    *)
(* sampled last, in any of the four vectors. Here, a value is the moment of*)
(* its sample.                                                             *)
(***************************************************************************)

\* What each of some reads returns, their moments being given
Sampled(reads, moments) ==
  LET value[i \in DOMAIN reads] ==
        IF reads[i] = "sample" THEN moments[i] ELSE value[i-1]
  IN  value

\* The two causal and the two acausal halves of get_correlation()
get_correlation(moments) == Sampled(<<"sample", "buffer", "buffer", "buffer">>, moments)

\* get_causal_correlation(), get_acausal_correlation()
get_causal_correlation(moments)  == Sampled(<<"sample", "buffer">>, moments)
get_acausal_correlation(moments) == Sampled(<<"sample", "buffer">>, moments)

\* reset_correlation() writes to both vectors of a row; reset_all_correlations()
\* does so for every row.
reset_correlation(row) == {2 * row, 2 * row + 1}
reset_all_correlations == UNION {reset_correlation(row) : row \in 0 .. ChipRows - 1}

\* reset_neurons() with masks: the neurons that are reset
reset_neurons(mask_even, mask_odd) ==
  {place \in {"even", "odd"} \X Entries :
     Chosen(IF place[1] = "even" THEN mask_even ELSE mask_odd, place[2])}
reset_all_neurons == {"even", "odd"} \X Entries
=============================================================================
