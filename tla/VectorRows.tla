------------------------------ MODULE VectorRows ------------------------------
(***************************************************************************)
(* Rows of the synapse matrix. A row has a vector of its even elements and *)
(* one of its odd ones (src/include/libnux/vx/vector_row.h); with elements *)
(* of 16 bits, twice as long, these half rows are made of two vectors, the *)
(* left and the right one. Conversions unpack and pack whole vectors.      *)
(***************************************************************************)
EXTENDS VectorElements

CONSTANT Quarter  \* elements of a vector of 16-bit elements: 64

ASSUME QuarterAssumption == Quarter \in Nat \ {0}

HalfRow == 2 * Quarter  \* elements of a half row
Indices == 0 .. 2 * HalfRow - 1

\* The row that the assignments row[i] = elements[i] make.
RowOf(elements) == [even |-> [j \in 0 .. HalfRow - 1 |-> elements[2 * j]],
                    odd  |-> [j \in 0 .. HalfRow - 1 |-> elements[2 * j + 1]]]

\* The half row that the assignments half[j] = elements[j] make, with 16-bit elements
HalfOf(elements) == [left  |-> [j \in 0 .. Quarter - 1 |-> elements[j]],
                     right |-> [j \in 0 .. Quarter - 1 |-> elements[j + Quarter]]]

WideRowOf(elements) == LET row == RowOf(elements)
                       IN  [even |-> HalfOf(row.even), odd |-> HalfOf(row.odd)]

\* operator[]
At(row, i) == IF i % 2 = 1 THEN row.odd[i \div 2] ELSE row.even[i \div 2]
HalfAt(half, j) == IF j < Quarter THEN half.left[j] ELSE half.right[j - Quarter]
WideAt(row, i) == HalfAt(IF i % 2 = 1 THEN row.odd ELSE row.even, i \div 2)

\* An operator on two rows: on the even elements, and on the odd ones.
OnRows(c, op, row1, row2) ==
  [half \in {"even", "odd"} |->
    [j \in 0 .. HalfRow - 1 |-> Combined(c, op, row1[half][j], row2[half][j])]]

\* With half rows of two vectors: on each of them.
OnWideRows(c, op, row1, row2) ==
  [half \in {"even", "odd"} |-> [quarter \in {"left", "right"} |->
    [j \in 0 .. Quarter - 1 |->
      Combined(c, op, row1[half][quarter][j], row2[half][quarter][j])]]]

-----------------------------------------------------------------------------

\* The instructions: bytes of the left or right halves of two vectors become the
\* high and low bytes of 16-bit elements; the low or high bytes of the elements of
\* two vectors become one vector.
fxvupckbl(high, low) == [j \in 0 .. Quarter - 1 |-> high[j] * TwoTo[8] + low[j]]
fxvupckbr(high, low) == [j \in 0 .. Quarter - 1 |-> high[j + Quarter] * TwoTo[8] + low[j + Quarter]]
fxvpckbl(left, right) ==
  [j \in 0 .. HalfRow - 1 |-> (IF j < Quarter THEN left[j] ELSE right[j - Quarter]) % TwoTo[8]]
fxvpckbu(left, right) ==
  [j \in 0 .. HalfRow - 1 |-> (IF j < Quarter THEN left[j] ELSE right[j - Quarter]) \div TwoTo[8]]

zero == [j \in 0 .. HalfRow - 1 |-> 0]

\* Mistake: both quarters from the left.
ModWidenedLeft(row) ==
  [half \in {"even", "odd"} |-> [left  |-> fxvupckbl(zero, row[half]),
                                 right |-> fxvupckbl(zero, row[half])]]

\* VectorRowMod8::operator VectorRowMod16
ModWidened(row) ==
  [half \in {"even", "odd"} |-> [left  |-> fxvupckbl(zero, row[half]),
                                 right |-> fxvupckbr(zero, row[half])]]

\* VectorRowMod16::operator VectorRowMod8
ModNarrowed(row) == [half \in {"even", "odd"} |-> fxvpckbl(row[half].left, row[half].right)]

\* VectorRowFracSat8::operator VectorRowFracSat16
FracWidened(row) ==
  [half \in {"even", "odd"} |-> [left  |-> fxvupckbl(row[half], zero),
                                 right |-> fxvupckbr(row[half], zero)]]

\* VectorRowFracSat16::operator VectorRowFracSat8
FracNarrowed(row) == [half \in {"even", "odd"} |-> fxvpckbu(row[half].left, row[half].right)]
=============================================================================
