------------------------------ MODULE Location ------------------------------
(***************************************************************************)
(* get_location() of include/libnux/vx/location.h: a PPU finds out whether *)
(* it is the top or the bottom one.  It writes two test values into row 0  *)
(* of its own synapse memory through the vector unit and watches, through  *)
(* the omnibus, in which of the two memories they appear.                  *)
(*                                                                         *)
(* Both PPUs run the same program.  Every access to a memory is a step of  *)
(* its own; the other PPU may do anything in between.                      *)
(***************************************************************************)
EXTENDS Integers

CONSTANTS Weights, \* values of a synapse, 0 .. 63 in the hardware
          Columns  \* columns of row 0

\* The column whose value is replaced: even[0]
Probed == 0

\* enum class PPUOnDLS
PPUOnDLS == {"top", "bottom"}

ASSUME LocationAssumption == /\ Weights \subseteq Nat /\ {0, 32} \subseteq Weights
                             /\ Probed \in Columns

Rows == [Columns -> Weights]

\* The four reads of the probed column, in their order.
Reads == {"top_read_0", "bottom_read_0", "top_read_1", "bottom_read_1"}

VARIABLES synram,  \* row 0 of both synapse memories
          pc,      \* where each PPU is in get_location()
          working, \* its copy of its row
          before,  \* the value of the probed column it found
          read,    \* what it has read through the omnibus
          \* history:
          kept,    \* its row as its program last wrote it
          disturbed \* whether the other PPU was in get_location(), or wrote
                    \* weights of its own, during its call

locals == <<working, before, read>>
vars == <<synram, pc, locals, kept, disturbed>>

Locations == {"idle", "get", "set 0", "set 32", "restore"} \cup Reads

TypeOK == /\ synram \in [PPUOnDLS -> Rows]
          /\ pc \in [PPUOnDLS -> Locations]
          /\ working \in [PPUOnDLS -> Rows]
          /\ before \in [PPUOnDLS -> Weights]
          /\ read \in [PPUOnDLS -> [Reads -> Weights]]
          /\ kept \in [PPUOnDLS -> Rows]
          /\ disturbed \in [PPUOnDLS -> BOOLEAN]

NoRow   == [c \in Columns |-> 0]
NoReads == [r \in Reads |-> 0]

Init == /\ synram \in [PPUOnDLS -> Rows]
        /\ pc = [p \in PPUOnDLS |-> "idle"]
        /\ working = [p \in PPUOnDLS |-> NoRow]
        /\ before = [p \in PPUOnDLS |-> 0]
        /\ read = [p \in PPUOnDLS |-> NoReads]
        /\ kept = synram
        /\ disturbed = [p \in PPUOnDLS |-> FALSE]

Goto(p, from, to) == pc[p] = from /\ pc' = [pc EXCEPT ![p] = to]

\* The program on p writes a row of its own, outside of get_location().
Program(p) ==
  /\ pc[p] = "idle"
  /\ \E row \in Rows : /\ synram' = [synram EXCEPT ![p] = row]
                       /\ kept' = [kept EXCEPT ![p] = row]
  /\ disturbed' = [q \in PPUOnDLS |-> disturbed[q] \/ (q # p /\ pc[q] # "idle")]
  /\ UNCHANGED <<pc, locals>>

\* get_location() is called on p.
Call(p) ==
  /\ Goto(p, "idle", "get")
  /\ disturbed' = [q \in PPUOnDLS |->
                  IF q = p THEN \E o \in PPUOnDLS : pc[o] # "idle"
                  ELSE pc[q] # "idle"]
  /\ UNCHANGED <<synram, locals, kept>>

\* working = get_row_via_vector(), before = working.even[0]
GetRow(p) ==
  /\ Goto(p, "get", "set 0")
  /\ working' = [working EXCEPT ![p] = synram[p]]
  /\ before' = [before EXCEPT ![p] = synram[p][Probed]]
  /\ UNCHANGED <<synram, read, kept, disturbed>>

\* working.even[0] = value, set_row_via_vector(working)
SetTest(p) ==
  /\ \E value \in {0, 32} :
       /\ IF value = 0 THEN Goto(p, "set 0", "top_read_0") ELSE Goto(p, "set 32", "top_read_1")
       /\ working' = [working EXCEPT ![p][Probed] = value]
       /\ synram' = [synram EXCEPT ![p] = working'[p]]
  /\ UNCHANGED <<before, read, kept, disturbed>>

\* The memory a read goes to, and where the function goes on after it.
Target(r) == IF r \in {"top_read_0", "top_read_1"} THEN "top" ELSE "bottom"
After(r)  == CASE r = "top_read_0"    -> "bottom_read_0"
               [] r = "bottom_read_0" -> "set 32"
               [] r = "top_read_1"    -> "bottom_read_1"
               [] r = "bottom_read_1" -> "restore"

\* get_row_via_omnibus(row, base).even[0]
ReadTest(p) ==
  /\ \E r \in Reads : /\ Goto(p, r, After(r))
                      /\ read' = [read EXCEPT ![p][r] = synram[Target(r)][Probed]]
  /\ UNCHANGED <<synram, working, before, kept, disturbed>>

\* What p concludes from its reads.
SeenAt(r, first, second) == r[first] = 0 /\ r[second] = 32
SeenTop(r)    == SeenAt(r, "top_read_0", "top_read_1")
SeenBottom(r) == SeenAt(r, "bottom_read_0", "bottom_read_1")

\* Mistake: one test value is taken to be enough.
VerdictOfOneValue(r) == [valid |-> r["top_read_1"] = 32 \/ r["bottom_read_1"] = 32,
                         ppu |-> IF r["top_read_1"] = 32 THEN "top" ELSE "bottom"]

\* Mistake: the branch for the bottom memory does not set valid.
VerdictTopOnly(r) == [valid |-> SeenTop(r),
                      ppu |-> IF SeenTop(r) THEN "top" ELSE "bottom"]

Verdict(r) == [valid |-> SeenTop(r) \/ SeenBottom(r),
               ppu |-> IF SeenTop(r) THEN "top" ELSE "bottom"]

\* The call is over, its variables are gone.
Forget(p) == /\ working' = [working EXCEPT ![p] = NoRow]
             /\ before' = [before EXCEPT ![p] = 0]
             /\ read' = [read EXCEPT ![p] = NoReads]
             /\ disturbed' = [disturbed EXCEPT ![p] = FALSE]

\* Mistake: the test value is left in the row.
RestoreNothing(p) ==
  /\ Goto(p, "restore", "idle")
  /\ synram' = [synram EXCEPT ![p] = [working[p] EXCEPT ![Probed] = 32]]
  /\ Forget(p)
  /\ UNCHANGED kept

\* The conclusion is drawn, the row is restored and get_location() returns.
Restore(p) ==
  /\ Goto(p, "restore", "idle")
  /\ synram' = [synram EXCEPT ![p] = [working[p] EXCEPT ![Probed] = before[p]]]
  /\ Forget(p)
  /\ UNCHANGED kept

Step(p) == GetRow(p) \/ SetTest(p) \/ ReadTest(p) \/ Restore(p)

Next == \E p \in PPUOnDLS : Program(p) \/ Call(p) \/ Step(p)

Spec == Init /\ [][Next]_vars

-----------------------------------------------------------------------------

\* get_location() leaves the synapse memory as it was, whatever the other PPU
\* does at the same time.
RowRestored == \A p \in PPUOnDLS : pc[p] = "idle" => synram[p] = kept[p]

\* The call always succeeds on the top PPU and names the top one, even if the
\* bottom PPU runs the same function: the top memory is looked at first.
TopIsRight ==
  [][ Restore("top") => Verdict(read["top"]) = [valid |-> TRUE, ppu |-> "top"] ]_vars

\* "is not safe under concurrent execution of the same function on the other
\* PPU" (location.h:10-11), nor while the other PPU writes weights; without
\* both, the function succeeds and names the right PPU.
RightUnlessDisturbed ==
  [][ \A p \in PPUOnDLS : Restore(p) /\ ~ disturbed[p] =>
        Verdict(read[p]) = [valid |-> TRUE, ppu |-> p] ]_vars

\* What a PPU learns from get_location(): the top one always the truth, the bottom
\* one if it is not disturbed (location.h:15).
LocationLearned == TopIsRight /\ RightUnlessDisturbed

\* Even when it is misled, the function reports success: a PPU always sees the
\* two test values in its own memory.
AlwaysSucceeds == [][ \A p \in PPUOnDLS : Restore(p) => Verdict(read[p]).valid ]_vars

-----------------------------------------------------------------------------

(***************************************************************************)
(* The inductive invariant.                                                *)
(***************************************************************************)

\* Where the probed column of p's memory holds the test value 0, and 32.
With0  == {"top_read_0", "bottom_read_0", "set 32"}
With32 == {"top_read_1", "bottom_read_1", "restore"}

Holds(p, value) == /\ working[p] = [kept[p] EXCEPT ![Probed] = value]
                   /\ synram[p] = working[p]
                   /\ before[p] = kept[p][Probed]

\* In a call, p's memory differs from what the program wrote in the probed
\* column only, and p knows what was there.
RowInv(p) == /\ pc[p] \in {"idle", "get", "set 0"} => synram[p] = kept[p]
             /\ pc[p] = "set 0" => working[p] = kept[p] /\ before[p] = kept[p][Probed]
             /\ pc[p] \in With0 => Holds(p, 0)
             /\ pc[p] \in With32 => Holds(p, 32)

\* The names of the reads of the memory of ppu.
Read0(ppu) == IF ppu = "top" THEN "top_read_0" ELSE "bottom_read_0"
Read1(ppu) == IF ppu = "top" THEN "top_read_1" ELSE "bottom_read_1"

\* Where p has read the memory of ppu for the first, and for the second time.
HasRead0(p, ppu) == \/ pc[p] \in {"set 32"} \cup With32
                    \/ pc[p] = "bottom_read_0" /\ ppu = "top"
HasRead1(p, ppu) == \/ pc[p] = "restore"
                    \/ pc[p] = "bottom_read_1" /\ ppu = "top"

\* p has read its test values from its own memory.
OwnReadInv(p) == /\ HasRead0(p, p) => read[p][Read0(p)] = 0
                 /\ HasRead1(p, p) => read[p][Read1(p)] = 32

\* If nobody disturbs p's call, it reads twice what the other memory holds.
OtherReadInv(p) ==
  pc[p] # "idle" /\ ~ disturbed[p] =>
    \A q \in PPUOnDLS \ {p} :
      /\ pc[q] = "idle"
      /\ HasRead0(p, q) => read[p][Read0(q)] = synram[q][Probed]
      /\ HasRead1(p, q) => read[p][Read1(q)] = synram[q][Probed]

IInv == /\ TypeOK
        /\ \A p \in PPUOnDLS : RowInv(p) /\ OwnReadInv(p) /\ OtherReadInv(p)
=============================================================================
