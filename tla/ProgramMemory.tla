----------------------------- MODULE ProgramMemory -----------------------------
(***************************************************************************)
(* The memory of a PPU behind the program: the heap of                     *)
(* src/libnux/vx/malloc.cpp grows upwards from heap_base, the stack grows  *)
(* downwards from stack_ptr_init, and the linker script elf32nux.x places  *)
(* both. Functions check the stack against stack_redzone, just where the   *)
(* heap begins (stack_guards.cpp, -fstack-limit-symbol), the frame of a    *)
(* service routine (isr.h) does not. An interrupt may come in the middle   *)
(* of malloc(), and its service routine may call malloc().                 *)
(*                                                                         *)
(* Addresses count units of eight bytes.                                   *)
(***************************************************************************)
EXTENDS Integers, Sequences

CONSTANTS IntEnd,      \* _int_end: behind the program
          MailboxBase, \* mailbox_base
          Margin,      \* between _int_end and stack_redzone: 16, which is 128 bytes
          IsrFrame,    \* frame of a service routine: 17, which is 136 bytes
          NearRedzone, \* isr_program takes a trap this near to stack_redzone for an
                       \* overflow: 4, which is 32 bytes
          FrameSizes,  \* of functions
          ObjectSizes  \* requested from malloc()

ASSUME ProgramMemoryAssumption ==
  /\ IntEnd \in Nat /\ MailboxBase \in Nat /\ Margin \in Nat
  /\ IsrFrame \in Nat /\ NearRedzone \in Nat
  /\ FrameSizes \subseteq Nat \ {0} /\ ObjectSizes \subseteq Nat
  /\ IntEnd + Margin + 2 < MailboxBase

stack_redzone  == IntEnd + Margin
heap_base      == stack_redzone
heap_end       == MailboxBase - 1
stack_ptr_init == MailboxBase - 2

VARIABLES frames,     \* the stack: what the program is in the middle of, innermost last
          sp,         \* stack pointer
          next_alloc, \* next_alloc of malloc.cpp
          objects     \* history: what malloc() has returned so far

memoryVars == <<frames, sp, next_alloc, objects>>

\* A function, a service routine, or a call of malloc() that is going to return
\* the address from
Frame == [kind : {"function", "isr", "malloc"}, units : Nat, from : Nat, size : Nat]

\* An object, and whether a service routine has got it while the program was in malloc()
Object == [from : Nat, size : Nat, within : BOOLEAN]

MemoryTypeOK ==
  /\ frames \in Seq(Frame) /\ sp \in Int
  /\ next_alloc \in Nat /\ objects \in Seq(Object)

MemoryInit == /\ frames = << >> /\ sp = stack_ptr_init
              /\ next_alloc = heap_base /\ objects = << >>

-----------------------------------------------------------------------------

InIsr == \E n \in DOMAIN frames : frames[n].kind = "isr"

Top == frames[Len(frames)]

\* A function may call another one, unless it is malloc().
MayCall == frames # << >> => Top.kind # "malloc"

Push(frame) == /\ frames' = Append(frames, frame)
               /\ sp' = sp - frame.units

Pop == /\ frames' = SubSeq(frames, 1, Len(frames) - 1)
       /\ sp' = sp + Top.units

\* Mistake: the frame that is about to be made is not counted.
OverflowsAfter(units) == sp < stack_redzone

\* The check at the entry of a function that needs units of stack, which traps
Overflows(units) == sp < stack_redzone + units

\* What isr_program exits with
TrapCode == IF sp < stack_redzone + NearRedzone THEN 12 ELSE 1

Call(units) == /\ MayCall /\ ~ Overflows(units)
               /\ Push([kind |-> "function", units |-> units, from |-> 0, size |-> 0])
               /\ UNCHANGED <<next_alloc, objects>>

Return == /\ frames # << >> /\ Top.kind = "function"
          /\ Pop
          /\ UNCHANGED <<next_alloc, objects>>

\* Mistake: only the start of the object is looked at.
RefusesStart(p, size) == next_alloc >= p \/ next_alloc >= heap_end

\* malloc() returns 0: next_alloc is not below its variable p, heap_end is behind it,
\* or too near.
Refuses(p, size) == \/ next_alloc >= p
                    \/ heap_end - next_alloc < 0
                    \/ heap_end - next_alloc < size

\* malloc() up to its last check; where in its frame p is, is up to the compiler
Malloc(size, units) ==
  /\ MayCall /\ ~ Overflows(units)
  /\ \E p \in sp - units .. sp - 1 :
       IF Refuses(p, size)
       THEN UNCHANGED <<frames, sp>>
       ELSE Push([kind |-> "malloc", units |-> units, from |-> next_alloc, size |-> size])
  /\ UNCHANGED <<next_alloc, objects>>

\* next_alloc is increased and malloc() returns; the compiler may have kept the value
\* next_alloc had before.
MallocReturns ==
  /\ frames # << >> /\ Top.kind = "malloc"
  /\ next_alloc' \in {next_alloc + Top.size, Top.from + Top.size}
  /\ Pop
  /\ objects' = Append(objects,
       [from |-> Top.from, size |-> Top.size,
        within |-> \E n \in 1 .. Len(frames) - 1 : frames[n].kind = "malloc"])

\* An interrupt with a service routine: ISR_PROLOGUE. In a service routine,
\* interrupts are disabled.
Serve == /\ ~ InIsr
         /\ Push([kind |-> "isr", units |-> IsrFrame, from |-> 0, size |-> 0])
         /\ UNCHANGED <<next_alloc, objects>>

\* ISR_EPILOGUE
EndService == /\ frames # << >> /\ Top.kind = "isr"
              /\ Pop
              /\ UNCHANGED <<next_alloc, objects>>

\* __init after an interrupt that nobody serves: static variables keep their values.
SetStackPointer == /\ frames' = << >> /\ sp' = stack_ptr_init
                   /\ UNCHANGED <<next_alloc, objects>>

MemoryNext == \/ \E units \in FrameSizes : Call(units)
              \/ Return
              \/ \E size \in ObjectSizes, units \in FrameSizes : Malloc(size, units)
              \/ MallocReturns
              \/ Serve \/ EndService
              \/ SetStackPointer

MemorySpec == MemoryInit /\ [][MemoryNext]_memoryVars

-----------------------------------------------------------------------------

Apart(a, b) == a.from + a.size <= b.from \/ b.from + b.size <= a.from

\* Everything malloc() returns is in the heap (malloc.cpp:30): behind the program, and
\* in front of the last unit below the mailbox, where exit() puts the exit code.
ObjectsInHeap == \A i \in DOMAIN objects :
  heap_base <= objects[i].from /\ objects[i].from + objects[i].size <= heap_end

\* No two objects share memory, also after restarts, if neither was allocated by a
\* service routine in the middle of a call of malloc() (malloc.cpp:32).
ObjectsApart == \A i, j \in DOMAIN objects :
  i = j \/ Apart(objects[i], objects[j]) \/ objects[i].within \/ objects[j].within

HeapIntegrity == ObjectsInHeap /\ ObjectsApart

\* The check of the stack (stack_guards.cpp:29) keeps the frames of functions behind
\* stack_redzone. The frame of a service routine may be in front of it, and is longer
\* than the margin there is (elf32nux.x:157), so that it may reach into the program.
StackBounded == /\ sp >= stack_redzone - IsrFrame
                /\ ~ InIsr => sp >= stack_redzone
                /\ frames # << >> /\ Top.kind # "isr" => sp >= stack_redzone
=============================================================================
