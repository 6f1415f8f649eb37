-------------------------------- MODULE Runtime --------------------------------
(***************************************************************************)
(* The test program of TestProgram in the memory of ProgramMemory: the     *)
(* bodies of the tests call functions and malloc(), interrupts with a      *)
(* service routine come while they do so, and those without one start the  *)
(* program again, with the heap it has left behind. A function whose frame *)
(* does not fit traps, and the handler of stack_guards.cpp exits.          *)
(***************************************************************************)
EXTENDS TestProgram, ProgramMemory

ASSUME RuntimeAssumption == 12 \in Codes

RuntimeInit == Init /\ MemoryInit

\* A step of the program outside of malloc() and of service routines; a test's body
\* has returned when its test case ends.
ProgramStep == /\ pc = "exit" \/ (MayCall /\ ~ InIsr)
               /\ Step
               /\ pc = "case" /\ pc' = "call_all" => frames = << >>
               /\ IF pc = "reset" THEN SetStackPointer ELSE UNCHANGED memoryVars

\* What the body of a test does with the memory
InBody(A) == pc = "case" /\ A /\ UNCHANGED vars

Body == \/ \E units \in FrameSizes : InBody(Call(units))
        \/ InBody(Return)
        \/ \E size \in ObjectSizes, units \in FrameSizes : InBody(Malloc(size, units))
        \/ InBody(MallocReturns)
        \/ InBody(Serve)
        \/ InBody(EndService)

\* A function cannot get its frame: the trap leads to isr_program, which exits.
Overflow ==
  /\ pc = "case" /\ MayCall
  /\ \E units \in FrameSizes : Overflows(units)
  /\ CallExit(TrapCode, "overflow")
  /\ UNCHANGED <<next, destructors, exitCode, creators, counters, action, done, failures,
                 boots, memoryVars>>

\* An interrupt that nobody serves
Restart == Interrupt /\ UNCHANGED memoryVars

RuntimeNext == ProgramStep \/ Body \/ Overflow \/ Restart

RuntimeSpec == RuntimeInit /\ [][RuntimeNext]_<<vars, memoryVars>>

-----------------------------------------------------------------------------

\* The exit code of a program whose stack overflowed is never 0 (stack_guards.cpp:36),
\* whatever its tests had found, and it is the documented 12 unless the frame that
\* did not fit is one of those that are larger than the handler takes into account.
OverflowReported ==
  pc = "stopped" /\ way = "overflow" =>
    \/ exitCode = <<12>>
    \/ exitCode = <<1>> /\ \E units \in FrameSizes : units > NearRedzone /\ Overflows(units)

\* Types of both parts
RuntimeTypeOK == TypeOK /\ MemoryTypeOK

\* What the host may conclude from the exit code
ExitCodesHonest == ExitCodeHonest /\ OverflowReported
=============================================================================
