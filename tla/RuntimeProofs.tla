---------------------------- MODULE RuntimeProofs ----------------------------
(***************************************************************************)
(* Proofs about a test program in its memory: first about heap and stack,  *)
(* for any layout of the memory, any frames and any sizes of objects; then *)
(* about the program, for any number of tests and of restarts.             *)
(***************************************************************************)
EXTENDS Runtime, SequenceTheorems, FiniteSetTheorems, FunctionTheorems, TLAPS

-----------------------------------------------------------------------------
(* Heap and stack *)

\* The numbers of malloc() calls in progress, from the outside in
Mallocs == {n \in 1 .. Len(frames) : frames[n].kind = "malloc"}

(***************************************************************************)
(* The stack. There is a stack pointer to every frame, and only that of a  *)
(* service routine is in front of stack_redzone. The next one behind it is *)
(* what the program goes on with when the frame is removed.                *)
(***************************************************************************)
IsLevels(level) ==
  /\ level \in [0 .. Len(frames) -> Int]
  /\ level[0] = stack_ptr_init /\ level[Len(frames)] = sp
  /\ \A n \in 1 .. Len(frames) :
       /\ level[n] = level[n - 1] - frames[n].units
       /\ level[n] >= IF frames[n].kind = "isr" THEN stack_redzone - IsrFrame
                                                ELSE stack_redzone

StackInv == \E level : IsLevels(level)

(***************************************************************************)
(* The heap. What a call of malloc() in progress is going to return is in  *)
(* the heap and not behind next_alloc; a call that interrupts another one  *)
(* does not begin in front of it. No object lies behind next_alloc or      *)
(* where a call in progress is going to place its own, unless a service    *)
(* routine has got it in the middle of another call.                       *)
(***************************************************************************)
CallsInv ==
  /\ heap_base <= next_alloc
  /\ \A n \in Mallocs : /\ heap_base <= frames[n].from /\ frames[n].from <= next_alloc
                        /\ frames[n].from + frames[n].size <= heap_end
                        /\ \A m \in Mallocs : m < n => frames[m].from <= frames[n].from

End(object) == object.from + object.size

ObjectsInv ==
  \A i \in 1 .. Len(objects) :
    ~ objects[i].within => /\ End(objects[i]) <= next_alloc
                           /\ \A n \in Mallocs : End(objects[i]) <= frames[n].from

IInv == MemoryTypeOK /\ StackInv /\ CallsInv /\ ObjectsInv /\ HeapIntegrity

-----------------------------------------------------------------------------

\* The limits the linker script computes are whole numbers, in this order.
LEMMA Layout == /\ stack_redzone \in Nat /\ heap_base \in Nat
                /\ heap_end \in Nat /\ stack_ptr_init \in Nat
                /\ heap_base = stack_redzone /\ stack_redzone < stack_ptr_init
                /\ IsrFrame \in Nat /\ NearRedzone \in Nat
                /\ FrameSizes \subseteq Nat /\ ObjectSizes \subseteq Nat
  BY ProgramMemoryAssumption DEF stack_redzone, heap_base, heap_end, stack_ptr_init

\* What a new frame does to the stack
LEMMA Pushed ==
  ASSUME MemoryTypeOK, NEW frame \in Frame, Push(frame)
  PROVE  /\ frames' \in Seq(Frame) /\ Len(frames') = Len(frames) + 1
         /\ Len(frames) \in Nat
         /\ \A n \in 1 .. Len(frames) : frames'[n] = frames[n]
         /\ frames'[Len(frames) + 1] = frame
         /\ sp' = sp - frame.units /\ sp' \in Int
<1>1. frames \in Seq(Frame) /\ frames' = Append(frames, frame)
  BY DEF MemoryTypeOK, Push
<1>2. sp' = sp - frame.units /\ sp' \in Int
  BY DEF MemoryTypeOK, Push, Frame
<1> QED
  BY <1>1, <1>2, AppendProperties, LenProperties

\* What the removal of a frame does to the stack
LEMMA Popped ==
  ASSUME MemoryTypeOK, frames # << >>, Pop
  PROVE  /\ frames' \in Seq(Frame) /\ Len(frames') = Len(frames) - 1
         /\ Len(frames) \in Nat \ {0}
         /\ \A n \in 1 .. Len(frames) - 1 : frames'[n] = frames[n]
         /\ Top \in Frame
         /\ sp' = sp + Top.units /\ sp' \in Int
<1>1. frames \in Seq(Frame) /\ frames' = SubSeq(frames, 1, Len(frames) - 1)
  BY DEF MemoryTypeOK, Pop
<1>2. Len(frames) \in Nat \ {0}
  BY <1>1, EmptySeq, LenProperties
<1>3. Top \in Frame
  BY <1>1, <1>2, ElementOfSeq DEF Top
<1>4. sp' = sp + Top.units /\ sp' \in Int
  BY <1>3 DEF MemoryTypeOK, Pop, Frame
<1> DEFINE last == Len(frames) - 1
<1>5. last \in Int /\ \A n \in 1 .. last : frames[n] \in Frame
  BY <1>1, <1>2, ElementOfSeq
<1>6. /\ SubSeq(frames, 1, last) \in Seq(Frame)
      /\ Len(SubSeq(frames, 1, last)) = IF 1 <= last THEN last - 1 + 1 ELSE 0
      /\ \A n \in 1 .. last - 1 + 1 : SubSeq(frames, 1, last)[n] = frames[1 + n - 1]
  <2> HIDE DEF last
  <2> QED
    BY <1>5, SubSeqProperties
<1>7. frames' = SubSeq(frames, 1, last) /\ last \in Nat
  BY <1>1, <1>2
<1> HIDE DEF last
<1>8. frames' \in Seq(Frame) /\ Len(frames') = last
  BY <1>6, <1>7
<1>9. ASSUME NEW n \in 1 .. last PROVE frames'[n] = frames[n]
  <2>1. n \in 1 .. last - 1 + 1 /\ 1 + n - 1 = n
    BY <1>7
  <2> QED
    BY <1>6, <1>7, <2>1
<1> QED
  BY <1>2, <1>3, <1>4, <1>8, <1>9 DEF last

-----------------------------------------------------------------------------
(* The stack *)

\* How far the stack reaches
LEMMA StackEnd ==
  ASSUME MemoryTypeOK, StackInv
  PROVE  /\ StackBounded
         /\ frames = << >> \/ Top.kind # "isr" => sp >= stack_redzone
<1>1. PICK level : IsLevels(level)
  BY DEF StackInv
<1>2. frames \in Seq(Frame) /\ Len(frames) \in Nat
  BY LenProperties DEF MemoryTypeOK
<1>3. CASE frames = << >>
  <2>1. Len(frames) = 0
    BY <1>3, EmptySeq
  <2>2. sp = stack_ptr_init
    BY <1>1, <2>1 DEF IsLevels
  <2> QED
    BY <1>3, <2>2, Layout DEF StackBounded
<1>4. CASE frames # << >>
  <2>1. Len(frames) \in 1 .. Len(frames)
    BY <1>2, <1>4, EmptySeq
  <2>2. sp >= IF Top.kind = "isr" THEN stack_redzone - IsrFrame ELSE stack_redzone
    BY <1>1, <2>1 DEF IsLevels, Top
  <2>3. Top.kind = "isr" => InIsr
    BY <1>2, <2>1, LenProperties DEF InIsr, Top
  <2> QED
    BY <1>4, <2>2, <2>3, Layout DEF StackBounded, MemoryTypeOK
<1> QED
  BY <1>3, <1>4

\* A new frame, which reaches beyond stack_redzone only if it is a service routine's
LEMMA StackPush ==
  ASSUME MemoryTypeOK, StackInv, NEW frame \in Frame, Push(frame),
         sp' >= IF frame.kind = "isr" THEN stack_redzone - IsrFrame ELSE stack_redzone
  PROVE  StackInv'
<1>1. PICK level : IsLevels(level)
  BY DEF StackInv
<1> DEFINE len == Len(frames)
           new == [n \in 0 .. len + 1 |-> IF n = len + 1 THEN sp' ELSE level[n]]
<1>2. /\ len \in Nat /\ Len(frames') = len + 1
      /\ \A n \in 1 .. len : frames'[n] = frames[n]
      /\ frames'[len + 1] = frame
      /\ sp' = sp - frame.units /\ sp' \in Int
  BY Pushed
<1>3. new \in [0 .. Len(frames') -> Int]
  BY <1>1, <1>2 DEF IsLevels
<1>4. new[0] = stack_ptr_init /\ new[Len(frames')] = sp'
  BY <1>1, <1>2 DEF IsLevels
<1>5. ASSUME NEW n \in 1 .. len + 1
      PROVE  /\ new[n] = new[n - 1] - frames'[n].units
             /\ new[n] >= IF frames'[n].kind = "isr" THEN stack_redzone - IsrFrame
                                                     ELSE stack_redzone
  <2>1. CASE n = len + 1
    <3>1. new[n] = sp' /\ new[n - 1] = sp
      BY <1>1, <1>2, <2>1 DEF IsLevels
    <3> QED
      BY <1>2, <2>1, <3>1
  <2>2. CASE n # len + 1
    <3>1. new[n] = level[n] /\ new[n - 1] = level[n - 1] /\ n \in 1 .. len
      BY <1>2, <2>2
    <3>2. frames'[n] = frames[n]
      BY <1>2, <3>1
    <3> HIDE DEF new
    <3> QED
      BY <1>1, <3>1, <3>2 DEF IsLevels
  <2> QED
    BY <2>1, <2>2
<1>6. stack_ptr_init' = stack_ptr_init /\ stack_redzone' = stack_redzone
  BY DEF stack_ptr_init, stack_redzone
<1>7. PICK levels : levels = new
  OBVIOUS
<1> HIDE DEF new
<1>8. IsLevels(levels)'
  BY <1>2, <1>3, <1>4, <1>5, <1>6, <1>7 DEF IsLevels
<1> QED
  BY <1>8 DEF StackInv

\* A frame is removed.
LEMMA StackPop == ASSUME MemoryTypeOK, StackInv, frames # << >>, Pop PROVE StackInv'
<1>1. PICK level : IsLevels(level)
  BY DEF StackInv
<1> DEFINE len == Len(frames)
           new == [n \in 0 .. len - 1 |-> level[n]]
<1>2. /\ len \in Nat \ {0} /\ Len(frames') = len - 1
      /\ \A n \in 1 .. len - 1 : frames'[n] = frames[n]
      /\ sp' = sp + frames[len].units /\ Top \in Frame
  BY Popped DEF Top
<1>3. new \in [0 .. Len(frames') -> Int]
  BY <1>1, <1>2 DEF IsLevels
<1>4. new[0] = stack_ptr_init
  BY <1>1, <1>2 DEF IsLevels
<1>5. new[Len(frames')] = sp'
  <2>1. level[len] = level[len - 1] - frames[len].units /\ level[len] = sp
    BY <1>1, <1>2 DEF IsLevels
  <2>2. level[len - 1] \in Int
    BY <1>1, <1>2 DEF IsLevels
  <2>3. frames[len].units \in Int
    BY <1>2 DEF Top, Frame
  <2> QED
    BY <1>2, <2>1, <2>2, <2>3
<1>6. ASSUME NEW n \in 1 .. len - 1
      PROVE  /\ new[n] = new[n - 1] - frames'[n].units
             /\ new[n] >= IF frames'[n].kind = "isr" THEN stack_redzone - IsrFrame
                                                     ELSE stack_redzone
  <2>1. n \in 1 .. Len(frames) /\ frames'[n] = frames[n]
    BY <1>2
  <2>2. new[n] = level[n] /\ new[n - 1] = level[n - 1]
    BY <1>2
  <2> HIDE DEF new
  <2> QED
    BY <1>1, <2>1, <2>2 DEF IsLevels
<1>7. stack_ptr_init' = stack_ptr_init /\ stack_redzone' = stack_redzone
  BY DEF stack_ptr_init, stack_redzone
<1>8. PICK levels : levels = new
  OBVIOUS
<1> HIDE DEF new
<1>9. IsLevels(levels)'
  BY <1>2, <1>3, <1>4, <1>5, <1>6, <1>7, <1>8 DEF IsLevels
<1> QED
  BY <1>9 DEF StackInv

\* The program starts, or starts again.
LEMMA StackEmpty == /\ frames = << >> /\ sp = stack_ptr_init => StackInv
                    /\ frames' = << >> /\ sp' = stack_ptr_init => StackInv'
<1>1. PICK level : level = [n \in 0 .. 0 |-> stack_ptr_init]
  OBVIOUS
<1>2. ASSUME frames = << >>, sp = stack_ptr_init PROVE StackInv
  <2>1. Len(frames) = 0
    BY <1>2, EmptySeq
  <2>2. IsLevels(level)
    BY <1>1, <1>2, <2>1, Layout DEF IsLevels
  <2> QED
    BY <2>2 DEF StackInv
<1>3. ASSUME frames' = << >>, sp' = stack_ptr_init PROVE StackInv'
  <2>1. Len(frames') = 0 /\ stack_ptr_init' = stack_ptr_init
    BY <1>3, EmptySeq DEF stack_ptr_init
  <2>2. IsLevels(level)'
    BY <1>1, <1>3, <2>1, Layout DEF IsLevels
  <2> QED
    BY <2>2 DEF StackInv
<1> QED
  BY <1>2, <1>3

-----------------------------------------------------------------------------
(* The heap *)

\* The calls of malloc() in progress after a frame was made, and after one was removed
LEMMA MallocsPushed ==
  ASSUME MemoryTypeOK, NEW frame \in Frame, Push(frame)
  PROVE  /\ Mallocs' = IF frame.kind = "malloc" THEN Mallocs \cup {Len(frames) + 1}
                                                ELSE Mallocs
         /\ \A n \in Mallocs : frames'[n] = frames[n] /\ n \in Int /\ n < Len(frames) + 1
  BY Pushed DEF Mallocs

LEMMA MallocsPopped ==
  ASSUME MemoryTypeOK, frames # << >>, Pop
  PROVE  /\ Mallocs' = Mallocs \ {Len(frames)}
         /\ \A n \in Mallocs' : frames'[n] = frames[n] /\ n \in Int /\ n < Len(frames)
  BY Popped DEF Mallocs

\* Fewer calls of malloc() are in progress, and nothing else has changed.
LEMMA HeapKept ==
  ASSUME CallsInv, ObjectsInv, HeapIntegrity, UNCHANGED <<next_alloc, objects>>,
         Mallocs' \subseteq Mallocs, \A n \in Mallocs' : frames'[n] = frames[n]
  PROVE  (CallsInv /\ ObjectsInv /\ HeapIntegrity)'
<1>1. heap_base' = heap_base /\ heap_end' = heap_end
  BY DEF heap_base, heap_end, stack_redzone
<1>2. CallsInv'
  BY <1>1 DEF CallsInv
<1>3. ObjectsInv'
  BY DEF ObjectsInv, End
<1>4. HeapIntegrity'
  BY <1>1 DEF HeapIntegrity, ObjectsInHeap, ObjectsApart, Apart
<1> QED
  BY <1>2, <1>3, <1>4

-----------------------------------------------------------------------------
(* The steps *)

LEMMA InitInv == MemoryInit => IInv
<1> SUFFICES ASSUME MemoryInit PROVE IInv
  OBVIOUS
<1>1. Len(frames) = 0 /\ Len(objects) = 0 /\ DOMAIN objects = {}
  BY EmptySeq DEF MemoryInit
<1>2. MemoryTypeOK
  BY Layout, EmptySeq DEF MemoryInit, MemoryTypeOK
<1>3. StackInv
  BY StackEmpty DEF MemoryInit
<1>4. CallsInv /\ ObjectsInv /\ HeapIntegrity
  BY <1>1, Layout DEF MemoryInit, CallsInv, ObjectsInv, Mallocs, HeapIntegrity,
                      ObjectsInHeap, ObjectsApart
<1> QED
  BY <1>2, <1>3, <1>4 DEF IInv

\* A frame of a function or of a service routine is made.
LEMMA FrameMade ==
  ASSUME IInv, NEW frame \in Frame, Push(frame), frame.kind # "malloc",
         UNCHANGED <<next_alloc, objects>>,
         sp' >= IF frame.kind = "isr" THEN stack_redzone - IsrFrame ELSE stack_redzone
  PROVE  IInv'
<1>1. MemoryTypeOK'
  BY Pushed DEF IInv, MemoryTypeOK
<1>2. StackInv'
  BY StackPush DEF IInv
<1>3. (CallsInv /\ ObjectsInv /\ HeapIntegrity)'
  BY MallocsPushed, HeapKept DEF IInv
<1> QED
  BY <1>1, <1>2, <1>3 DEF IInv

\* A frame is removed, and nothing is allocated.
LEMMA FrameRemoved ==
  ASSUME IInv, frames # << >>, Pop, UNCHANGED <<next_alloc, objects>>
  PROVE  IInv'
<1>1. MemoryTypeOK'
  BY Popped DEF IInv, MemoryTypeOK
<1>2. StackInv'
  BY StackPop DEF IInv
<1>3. (CallsInv /\ ObjectsInv /\ HeapIntegrity)'
  BY MallocsPopped, HeapKept DEF IInv
<1> QED
  BY <1>1, <1>2, <1>3 DEF IInv

\* malloc() has passed its checks.
LEMMA MallocBegins ==
  ASSUME IInv, NEW size \in ObjectSizes, NEW units \in FrameSizes, Malloc(size, units)
  PROVE  IInv'
<1> DEFINE frame == [kind |-> "malloc", units |-> units, from |-> next_alloc, size |-> size]
<1>1. PICK p \in sp - units .. sp - 1 :
        IF Refuses(p, size) THEN UNCHANGED <<frames, sp>> ELSE Push(frame)
  BY DEF Malloc
<1>2. UNCHANGED <<next_alloc, objects>> /\ ~ Overflows(units)
  BY DEF Malloc
<1>3. CASE Refuses(p, size)
  <2>1. UNCHANGED <<frames, sp, next_alloc, objects>>
    BY <1>1, <1>2, <1>3
  <2>2. MemoryTypeOK' /\ StackInv' /\ Mallocs' = Mallocs
    BY <2>1 DEF IInv, MemoryTypeOK, StackInv, IsLevels, stack_ptr_init, stack_redzone, Mallocs
  <2>3. (CallsInv /\ ObjectsInv /\ HeapIntegrity)'
    BY <2>1, <2>2, HeapKept DEF IInv
  <2> QED
    BY <2>2, <2>3 DEF IInv
<1>4. CASE ~ Refuses(p, size)
  <2>1. Push(frame)
    BY <1>1, <1>4
  <2>2. /\ sp \in Int /\ next_alloc \in Nat /\ size \in Nat /\ units \in Nat
        /\ frame \in Frame
    BY Layout DEF IInv, MemoryTypeOK, Frame
  <2>3. MemoryTypeOK'
    BY <1>2, <2>1, <2>2, Pushed DEF IInv, MemoryTypeOK
  <2>4. StackInv'
    <3>1. sp' = sp - units /\ sp >= stack_redzone + units
      BY <1>2, <2>1, <2>2, Layout DEF Push, Overflows
    <3> QED
      BY <2>1, <2>2, <3>1, StackPush, Layout DEF IInv
  <2>5. /\ Mallocs' = Mallocs \cup {Len(frames) + 1}
        /\ frames'[Len(frames) + 1] = frame
        /\ \A n \in Mallocs : frames'[n] = frames[n] /\ n \in Int /\ n < Len(frames) + 1
        /\ Len(frames) \in Nat
    BY <2>1, <2>2, MallocsPushed, Pushed DEF IInv
  <2>6. CallsInv'
    <3>1. /\ heap_base <= next_alloc /\ next_alloc + size <= heap_end
          /\ heap_base' = heap_base /\ heap_end' = heap_end
      BY <1>4, <2>2, Layout DEF Refuses, IInv, CallsInv, heap_base, heap_end, stack_redzone
    <3>2. ASSUME NEW n \in Mallocs'
          PROVE  /\ heap_base <= frames'[n].from /\ frames'[n].from <= next_alloc
                 /\ frames'[n].from + frames'[n].size <= heap_end
                 /\ \A m \in Mallocs' : m < n => frames'[m].from <= frames'[n].from
      <4>1. CASE n = Len(frames) + 1
        BY <2>2, <2>5, <3>1, <4>1 DEF IInv, CallsInv
      <4>2. CASE n \in Mallocs
        BY <2>5, <3>1, <4>2 DEF IInv, CallsInv
      <4> QED
        BY <2>5, <4>1, <4>2
    <3> QED
      BY <1>2, <3>1, <3>2 DEF CallsInv
  <2>7. ObjectsInv'
    BY <1>2, <2>2, <2>5 DEF IInv, ObjectsInv, End
  <2>8. HeapIntegrity'
    BY <1>2 DEF IInv, HeapIntegrity, ObjectsInHeap, ObjectsApart, Apart, heap_base, heap_end,
                stack_redzone
  <2> QED
    BY <2>3, <2>4, <2>6, <2>7, <2>8 DEF IInv
<1> QED
  BY <1>3, <1>4

\* malloc() returns an object.
LEMMA MallocEnds == ASSUME IInv, MallocReturns PROVE IInv'
<1> DEFINE len == Len(frames)
           within == \E n \in 1 .. len - 1 : frames[n].kind = "malloc"
           object == [from |-> Top.from, size |-> Top.size, within |-> within]
<1>1. /\ frames # << >> /\ Pop /\ Top.kind = "malloc"
      /\ next_alloc' \in {next_alloc + Top.size, Top.from + Top.size}
      /\ objects' = Append(objects, object)
  BY DEF MallocReturns
<1>2. len \in Nat \ {0} /\ Top \in Frame
  BY <1>1, Popped DEF IInv
<1>3. len \in Mallocs /\ frames[len] = Top
  BY <1>1, <1>2 DEF Mallocs, Top
<1>4. /\ heap_base <= Top.from /\ Top.from <= next_alloc /\ Top.from + Top.size <= heap_end
      /\ \A n \in Mallocs : n < len => frames[n].from <= Top.from
  BY <1>3 DEF IInv, CallsInv
<1>5. /\ Top.from \in Nat /\ Top.size \in Nat /\ next_alloc \in Nat /\ next_alloc' \in Nat
      /\ Top.from + Top.size <= next_alloc'
  <2>1. Top.from \in Nat /\ Top.size \in Nat /\ next_alloc \in Nat
    BY <1>2 DEF IInv, MemoryTypeOK, Frame
  <2> QED
    BY <1>1, <1>4, <2>1
<1>6. /\ Mallocs' = Mallocs \ {len}
      /\ \A n \in Mallocs' : frames'[n] = frames[n] /\ frames[n] \in Frame /\ n < len
  <2>1. \A n \in Mallocs : frames[n] \in Frame
    BY ElementOfSeq DEF IInv, MemoryTypeOK, Mallocs
  <2> QED
    BY <1>1, <2>1, MallocsPopped DEF IInv
<1>7. object \in Object /\ objects \in Seq(Object)
  BY <1>5 DEF Object, IInv, MemoryTypeOK
<1>8. /\ objects' \in Seq(Object) /\ Len(objects) \in Nat /\ Len(objects') = Len(objects) + 1
      /\ DOMAIN objects = 1 .. Len(objects) /\ DOMAIN objects' = 1 .. Len(objects) + 1
      /\ \A i \in 1 .. Len(objects) : objects'[i] = objects[i] /\ objects[i] \in Object
      /\ objects'[Len(objects) + 1] = object
  <2>1. objects' = Append(objects, object)
    BY <1>1
  <2> HIDE DEF object
  <2> QED
    BY <1>7, <2>1, AppendProperties, LenProperties, ElementOfSeq
<1>9. ~ within => Mallocs' = {}
  BY <1>2, <1>6 DEF Mallocs
<1>10. heap_base' = heap_base /\ heap_end' = heap_end
  BY DEF heap_base, heap_end, stack_redzone
<1>11. MemoryTypeOK'
  BY <1>1, <1>5, <1>8, Popped DEF IInv, MemoryTypeOK
<1>12. StackInv'
  BY <1>1, StackPop DEF IInv
<1>13. CallsInv'
  <2>1. \A n \in Mallocs' : frames'[n].from <= Top.from /\ frames'[n].from \in Nat
    BY <1>4, <1>6 DEF Frame
  <2>2. heap_base' <= next_alloc'
    BY <1>4, <1>5, <1>10, Layout
  <2>3. ASSUME NEW n \in Mallocs'
        PROVE  /\ heap_base <= frames'[n].from /\ frames'[n].from <= next_alloc'
               /\ frames'[n].from + frames'[n].size <= heap_end
               /\ \A m \in Mallocs' : m < n => frames'[m].from <= frames'[n].from
    <3>1. frames'[n].from <= next_alloc'
      BY <1>5, <2>1
    <3> QED
      BY <1>6, <3>1 DEF IInv, CallsInv
  <2> QED
    BY <1>10, <2>2, <2>3 DEF CallsInv
\* Unless the call has interrupted another one, it is the only one in progress.
<1>14. ASSUME NEW i \in 1 .. Len(objects) + 1, ~ objects'[i].within
       PROVE  /\ End(objects'[i]) <= next_alloc'
              /\ \A n \in Mallocs' : End(objects'[i]) <= frames'[n].from
  <2>1. CASE i = Len(objects) + 1
    BY <1>5, <1>8, <1>9, <1>14, <2>1 DEF End
  <2>2. CASE i # Len(objects) + 1
    <3>1. /\ i \in 1 .. Len(objects) /\ objects'[i] = objects[i] /\ objects[i] \in Object
          /\ \A n \in Mallocs : End(objects[i]) <= frames[n].from
      BY <1>8, <1>14, <2>2 DEF IInv, ObjectsInv
    <3>2. End(objects[i]) <= Top.from /\ End(objects[i]) \in Nat
      BY <1>3, <3>1 DEF End, Object
    <3> QED
      BY <1>5, <1>6, <3>1, <3>2
  <2> QED
    BY <2>1, <2>2
<1>15. ObjectsInv'
  BY <1>8, <1>14 DEF ObjectsInv
<1>16. ObjectsInHeap'
  BY <1>4, <1>5, <1>8, <1>10 DEF ObjectsInHeap, IInv, HeapIntegrity
<1>17. ASSUME NEW i \in 1 .. Len(objects), ~ objects[i].within
       PROVE  Apart(objects[i], object) /\ Apart(object, objects[i])
  <2>1. End(objects[i]) <= Top.from
    BY <1>3, <1>17 DEF IInv, ObjectsInv
  <2> QED
    BY <2>1 DEF Apart, End
<1>18. ObjectsApart'
  <2> SUFFICES ASSUME NEW i \in 1 .. Len(objects) + 1, NEW j \in 1 .. Len(objects) + 1,
                      i # j, ~ objects'[i].within, ~ objects'[j].within
               PROVE  Apart(objects'[i], objects'[j])
    BY <1>8 DEF ObjectsApart, Apart
  <2>1. CASE i \in 1 .. Len(objects) /\ j \in 1 .. Len(objects)
    BY <1>8, <2>1 DEF IInv, HeapIntegrity, ObjectsApart
  <2>2. CASE i = Len(objects) + 1
    BY <1>8, <1>17, <2>2
  <2>3. CASE j = Len(objects) + 1
    BY <1>8, <1>17, <2>3
  <2> QED
    BY <1>8, <2>1, <2>2, <2>3
<1> QED
  BY <1>11, <1>12, <1>13, <1>15, <1>16, <1>18 DEF IInv, HeapIntegrity

LEMMA StepInv == IInv /\ [MemoryNext]_memoryVars => IInv'
<1> SUFFICES ASSUME IInv, [MemoryNext]_memoryVars PROVE IInv'
  OBVIOUS
<1>1. CASE UNCHANGED memoryVars
  <2>1. Mallocs' = Mallocs
    BY <1>1 DEF memoryVars, Mallocs
  <2>2. MemoryTypeOK' /\ StackInv'
    BY <1>1 DEF IInv, memoryVars, MemoryTypeOK, StackInv, IsLevels, stack_ptr_init,
                stack_redzone
  <2>3. (CallsInv /\ ObjectsInv /\ HeapIntegrity)'
    BY <1>1, <2>1, HeapKept DEF IInv, memoryVars
  <2> QED
    BY <2>2, <2>3 DEF IInv
<1>2. ASSUME NEW units \in FrameSizes, Call(units) PROVE IInv'
  <2> DEFINE frame == [kind |-> "function", units |-> units, from |-> 0, size |-> 0]
  <2>1. Push(frame) /\ ~ Overflows(units) /\ UNCHANGED <<next_alloc, objects>>
    BY <1>2 DEF Call
  <2>2. frame \in Frame /\ units \in Nat /\ sp \in Int
    BY Layout DEF Frame, IInv, MemoryTypeOK
  <2>3. sp' >= stack_redzone
    BY <2>1, <2>2, Layout DEF Push, Overflows
  <2> QED
    BY <2>1, <2>2, <2>3, FrameMade
<1>3. CASE Return
  BY <1>3, FrameRemoved DEF Return
<1>4. ASSUME NEW size \in ObjectSizes, NEW units \in FrameSizes, Malloc(size, units)
      PROVE  IInv'
  BY <1>4, MallocBegins
<1>5. CASE MallocReturns
  BY <1>5, MallocEnds
<1>6. CASE Serve
  <2> DEFINE frame == [kind |-> "isr", units |-> IsrFrame, from |-> 0, size |-> 0]
  <2>1. Push(frame) /\ ~ InIsr /\ UNCHANGED <<next_alloc, objects>>
    BY <1>6 DEF Serve
  <2>2. frame \in Frame /\ sp \in Int
    BY Layout DEF Frame, IInv, MemoryTypeOK
  <2>3. sp >= stack_redzone
    BY <2>1, StackEnd DEF IInv, StackBounded
  <2>4. sp' >= stack_redzone - IsrFrame
    BY <2>1, <2>2, <2>3, Layout DEF Push
  <2> QED
    BY <2>1, <2>2, <2>4, FrameMade
<1>7. CASE EndService
  BY <1>7, FrameRemoved DEF EndService
<1>8. CASE SetStackPointer
  <2>1. /\ frames' = << >> /\ sp' = stack_ptr_init /\ Len(frames') = 0
        /\ UNCHANGED <<next_alloc, objects>>
    BY <1>8, EmptySeq DEF SetStackPointer
  <2>2. MemoryTypeOK'
    BY <2>1, EmptySeq, Layout DEF IInv, MemoryTypeOK
  <2>4. StackInv'
    BY <2>1, StackEmpty
  <2>5. Mallocs' = {}
    BY <2>1 DEF Mallocs
  <2>6. (CallsInv /\ ObjectsInv /\ HeapIntegrity)'
    BY <2>1, <2>5, HeapKept DEF IInv
  <2> QED
    BY <2>2, <2>4, <2>6 DEF IInv
<1> QED
  BY <1>1, <1>2, <1>3, <1>4, <1>5, <1>6, <1>7, <1>8 DEF MemoryNext

-----------------------------------------------------------------------------

\* The inductive invariant of heap and stack, whatever the program and its service
\* routines call and in whatever order.
THEOREM MemoryInvariant == MemorySpec => []IInv
<1> QED
  BY InitInv, StepInv, PTL DEF MemorySpec

\* Pointers, frames and objects have their types.
THEOREM TypeCorrect == MemorySpec => []MemoryTypeOK
<1>1. IInv => MemoryTypeOK
  BY DEF IInv
<1> QED
  BY <1>1, MemoryInvariant, PTL

\* malloc() returns objects in the heap only, and they share memory only if a service
\* routine has called it in the middle of another call.
THEOREM HeapIsSound == MemorySpec => []HeapIntegrity
<1>1. IInv => HeapIntegrity
  BY DEF IInv
<1> QED
  BY <1>1, MemoryInvariant, PTL

\* The stack passes its limit by a service routine's frame at most.
THEOREM StackIsBounded == MemorySpec => []StackBounded
<1>1. IInv => StackBounded
  BY StackEnd DEF IInv
<1> QED
  BY <1>1, MemoryInvariant, PTL

-----------------------------------------------------------------------------
(* The memory: the program does nothing with it that ProgramMemory does not allow. *)

LEMMA StepsOfMemory == [RuntimeNext]_<<vars, memoryVars>> => [MemoryNext]_memoryVars
<1> SUFFICES ASSUME [RuntimeNext]_<<vars, memoryVars>> PROVE [MemoryNext]_memoryVars
  OBVIOUS
<1>1. CASE UNCHANGED <<vars, memoryVars>>
  BY <1>1
<1>2. CASE ProgramStep
  BY <1>2 DEF ProgramStep, MemoryNext
<1>3. CASE Body
  BY <1>3 DEF Body, InBody, MemoryNext
<1>4. CASE Overflow
  BY <1>4 DEF Overflow, memoryVars
<1>5. CASE Restart
  BY <1>5 DEF Restart
<1> QED
  BY <1>1, <1>2, <1>3, <1>4, <1>5 DEF RuntimeNext

\* The runtime is one of the programs ProgramMemory describes.
THEOREM UsesMemory == RuntimeSpec => MemorySpec
<1>1. RuntimeInit => MemoryInit
  BY DEF RuntimeInit
<1> QED
  BY <1>1, StepsOfMemory, PTL DEF RuntimeSpec, MemorySpec

\* The heap of a test program is sound, also when the program starts again and when
\* service routines interrupt its tests.
THEOREM RuntimeHeapIsSound == RuntimeSpec => []HeapIntegrity
  BY UsesMemory, HeapIsSound, PTL

\* Its stack is bounded.
THEOREM RuntimeStackIsBounded == RuntimeSpec => []StackBounded
  BY UsesMemory, StackIsBounded, PTL

-----------------------------------------------------------------------------
(* The test program *)

Registered(t) == \E n \in 1 .. Len(creators) : creators[n] = t

Running == pc \in {"call_all", "case", "summary"}

(***************************************************************************)
(* How far the program is. The constructors register one test after the    *)
(* other, and call_all() runs what was registered in the same order: the   *)
(* test cases completed since the reset are those in front of next.        *)
(***************************************************************************)
Progress ==
  /\ pc \in {"reset", "construct"} => boots.from = Len(done)
  /\ pc = "construct" => next >= 1 /\ \A t \in Tests : t < next => Registered(t)
  /\ Running => /\ \A t \in Tests : Registered(t)
                /\ next \in 1 .. Len(creators) + 1
                /\ Len(done) = boots.from + next - 1
                /\ \A i \in 1 .. next - 1 : done[boots.from + i].test = creators[i]
  /\ pc = "case" => next <= Len(creators) /\ failed - failedOffset = failures
  /\ pc = "summary" => next = Len(creators) + 1
  /\ pc = "destroy" => next >= 1

\* What the program exits with if it is asked for the result of its tests
Result == IF casesFailed # 0 THEN 1 ELSE 0

\* What is in r3 on the way to exit()
Exits ==
  /\ pc \notin {"destroy", "exit", "stopped"} => way = "none"
  /\ pc = "destroy" => way = "return" /\ (next = 1 => r3 = Result)
  /\ pc \in {"exit", "stopped"} =>
       /\ way = "registration" => r3 = 1
       /\ way = "shutdown" => r3 = Result
       /\ way = "overflow" =>
            \/ r3 = 12
            \/ r3 = 1 /\ \E units \in FrameSizes : units > NearRedzone /\ Overflows(units)
  /\ pc = "stopped" => exitCode = <<r3>>

RuntimeInv == TypeOK /\ Progress /\ CasesJudgedAlone /\ Exits

LEMMA Parameters ==
  /\ NumTests \in Nat /\ MaxTests \in Nat /\ MaxChecks \in Nat /\ MaxRestarts \in Nat
  /\ DestructorCounts \subseteq Nat /\ 0 \in Codes /\ 1 \in Codes /\ 12 \in Codes
  BY TestProgramAssumption, RuntimeAssumption

LEMMA RuntimeInitInv == RuntimeInit => RuntimeInv
<1> SUFFICES ASSUME RuntimeInit PROVE RuntimeInv
  OBVIOUS
<1>1. Len(creators) = 0 /\ Len(done) = 0 /\ creators \in Seq(Tests)
      /\ done \in Seq([test : Tests, failures : 0 .. MaxChecks])
  BY EmptySeq DEF RuntimeInit, Init
<1>2. TypeOK
  BY <1>1, Parameters DEF RuntimeInit, Init, TypeOK, Locations
<1>3. Progress
  BY <1>1 DEF RuntimeInit, Init, Progress, Running
<1>4. CasesJudgedAlone
  <2>1. FailedCases = {}
    BY <1>1, EmptySeq DEF RuntimeInit, Init, FailedCases
  <2> QED
    BY <1>1, <2>1, FS_EmptySet DEF RuntimeInit, Init, CasesJudgedAlone
<1>5. Exits
  BY DEF RuntimeInit, Init, Exits
<1> QED
  BY <1>2, <1>3, <1>4, <1>5 DEF RuntimeInv

-----------------------------------------------------------------------------
(* Types *)

\* The steps that put something into a sequence
LEMMA RegisterTyped == ASSUME TypeOK, Progress, Register PROVE TypeOK'
<1>1. CASE Len(creators) = MaxTests
  BY <1>1, Parameters DEF Register, CallExit, TypeOK, Locations, counters
<1>2. CASE Len(creators) # MaxTests
  <2>1. creators' = Append(creators, next) /\ next' = next + 1 /\ next \in Nat
    BY <1>2 DEF Register, TypeOK
  <2>2. next \in Tests /\ Len(creators) \in Nat
    BY Parameters, LenProperties DEF Register, Progress, TypeOK, Tests
  <2>3. creators' \in Seq(Tests) /\ Len(creators') <= MaxTests
    BY <1>2, <2>1, <2>2, AppendProperties, Parameters DEF TypeOK
  <2> QED
    BY <1>2, <2>1, <2>3 DEF Register, TypeOK, Locations, counters
<1> QED
  BY <1>1, <1>2

LEMMA TestcaseEndTyped == ASSUME TypeOK, Progress, TestcaseEnd PROVE TypeOK'
<1> DEFINE case == [test |-> creators[next], failures |-> failures]
<1>1. done' = Append(done, case) /\ next' = next + 1 /\ failures' = 0
  BY DEF TestcaseEnd
<1>2. case \in [test : Tests, failures : 0 .. MaxChecks]
  <2>1. next \in 1 .. Len(creators)
    BY DEF TestcaseEnd, Progress, Running, TypeOK
  <2> QED
    BY <2>1, ElementOfSeq DEF TypeOK
<1>3. /\ done' \in Seq([test : Tests, failures : 0 .. MaxChecks])
      /\ Len(done') = Len(done) + 1 /\ Len(done) \in Nat
  <2> HIDE DEF case
  <2> QED
    BY <1>1, <1>2, AppendProperties, LenProperties DEF TypeOK
<1>4. boots' \in [from : 0 .. Len(done'), count : 1 .. MaxRestarts + 1]
  <2>1. 0 .. Len(done) \subseteq 0 .. Len(done')
    BY <1>3
  <2> QED
    BY <2>1 DEF TestcaseEnd, TypeOK
<1>5. casesPassed' \in Nat /\ casesFailed' \in Nat
  <2>1. casesPassed \in Nat /\ casesFailed \in Nat
    BY DEF TypeOK
  <2>2. \/ casesPassed' = casesPassed + 1 /\ casesFailed' = casesFailed
        \/ casesFailed' = casesFailed + 1 /\ casesPassed' = casesPassed
    BY DEF TestcaseEnd
  <2> QED
    BY <2>1, <2>2
<1>6. failures' \in 0 .. MaxChecks /\ next' \in Nat
  BY <1>1, Parameters DEF TypeOK
<1> QED
  BY <1>3, <1>4, <1>5, <1>6 DEF TestcaseEnd, TypeOK, Locations

LEMMA CheckFailsTyped == ASSUME TypeOK, CheckFails PROVE TypeOK'
<1>1. /\ failures' = failures + 1 /\ failed' = failed + 1
      /\ passed - passedOffset + failures < MaxChecks
  BY DEF CheckFails, MoreChecks
<1>2. /\ failures \in 0 .. MaxChecks /\ passed \in Nat /\ passedOffset \in 0 .. passed
      /\ failed \in Nat /\ failedOffset \in 0 .. failed
  BY DEF TypeOK
<1>3. failures' \in 0 .. MaxChecks /\ failed' \in Nat /\ failedOffset \in 0 .. failed'
  BY <1>1, <1>2, Parameters
<1>4. /\ pc' \in Locations /\ r3' \in Codes
      /\ way' \in {"none", "registration", "check", "shutdown", "return", "overflow"}
  BY Parameters DEF CheckFails, TestShutdown, CallExit, TypeOK, Locations
<1> QED
  BY <1>3, <1>4 DEF CheckFails, TypeOK

LEMMA StepTyped == ASSUME TypeOK, Progress, Step PROVE TypeOK'
<1>1. CASE Start
  BY <1>1 DEF Start, TypeOK, Locations, counters, history
<1>2. CASE Register
  BY <1>2, RegisterTyped
<1>3. CASE CallStart
  BY <1>3 DEF CallStart, TypeOK, Locations, counters, history
<1>4. CASE TestcaseBegin
  <2>1. /\ passedOffset' \in 0 .. passed' /\ failedOffset' \in 0 .. failed'
        /\ failures' \in 0 .. MaxChecks
    BY <1>4, Parameters DEF TestcaseBegin, TypeOK
  <2> QED
    BY <1>4, <2>1, SMTT(30) DEF TestcaseBegin, TypeOK, Locations
<1>5. CASE CheckPasses
  <2>1. passed' \in Nat /\ passedOffset' \in 0 .. passed'
    BY <1>5 DEF CheckPasses, TypeOK
  <2> QED
    BY <1>5, <2>1 DEF CheckPasses, TypeOK, history
<1>6. CASE CheckFails
  BY <1>6, CheckFailsTyped
<1>7. ASSUME NEW to \in {"warning", "shutdown"}, TestSetAction(to) PROVE TypeOK'
  BY <1>7 DEF TestSetAction, TypeOK, counters, history
<1>8. CASE TestcaseEnd
  BY <1>8, TestcaseEndTyped
<1>9. CASE Summary
  BY <1>9 DEF Summary, TypeOK, Locations, counters, history
<1>10. CASE ReturnResult
  BY <1>10, Parameters DEF ReturnResult, TypeOK, Locations, counters
<1>11. CASE ShutDown
  BY <1>11, Parameters DEF ShutDown, TestShutdown, CallExit, TypeOK, Locations, counters
<1>12. CASE Destroy
  BY <1>12 DEF Destroy, TypeOK, counters, history
<1>13. CASE EndDestroy
  BY <1>13 DEF EndDestroy, TypeOK, Locations, counters, history
<1>14. CASE Exit
  BY <1>14 DEF Exit, TypeOK, Locations, counters, history
<1> QED
  BY <1>1, <1>2, <1>3, <1>4, <1>5, <1>6, <1>7, <1>8, <1>9, <1>10, <1>11, <1>12, <1>13, <1>14
  DEF Step

LEMMA InterruptTyped == ASSUME TypeOK, Interrupt PROVE TypeOK'
<1>1. boots' \in [from : 0 .. Len(done), count : 1 .. MaxRestarts + 1]
  <2>1. boots.count \in 1 .. MaxRestarts + 1 /\ Len(done) \in Nat
    BY LenProperties DEF TypeOK
  <2>2. boots.count + 1 \in 1 .. MaxRestarts + 1 /\ Len(done) \in 0 .. Len(done)
    BY <2>1, Parameters DEF Interrupt
  <2> QED
    BY <2>2 DEF Interrupt
<1>2. failures' \in 0 .. MaxChecks
  BY Parameters DEF Interrupt
<1> QED
  BY <1>1, <1>2 DEF Interrupt, TypeOK, Locations, counters

-----------------------------------------------------------------------------
(* How far the program is *)

LEMMA RegisterProgress == ASSUME TypeOK, Progress, Register PROVE Progress'
<1>1. CASE Len(creators) = MaxTests
  BY <1>1 DEF Register, CallExit, Progress, Running
<1>2. CASE Len(creators) # MaxTests
  <2>1. /\ creators' = Append(creators, next) /\ next' = next + 1 /\ pc = "construct"
        /\ UNCHANGED <<pc, done, boots>>
    BY <1>2 DEF Register
  <2>2. next \in Tests /\ Len(creators) \in Nat /\ creators \in Seq(Tests)
    BY Parameters, LenProperties DEF Register, Progress, TypeOK, Tests
  <2>3. /\ Len(creators') = Len(creators) + 1 /\ creators'[Len(creators) + 1] = next
        /\ \A n \in 1 .. Len(creators) : creators'[n] = creators[n]
    BY <2>1, <2>2, AppendProperties
  <2>4. ASSUME NEW t \in Tests, t < next + 1 PROVE Registered(t)'
    <3>1. CASE t = next
      BY <2>2, <2>3, <3>1 DEF Registered
    <3>2. CASE t < next
      <4>1. PICK n \in 1 .. Len(creators) : creators[n] = t
        BY <2>1, <3>2 DEF Progress, Registered
      <4> QED
        BY <2>2, <2>3, <4>1 DEF Registered
    <3> QED
      BY <2>2, <2>4, <3>1, <3>2 DEF Tests
  <2>5. next + 1 >= 1
    BY <2>2 DEF Tests
  <2> QED
    BY <2>1, <2>4, <2>5 DEF Progress, Running, Tests
<1> QED
  BY <1>1, <1>2

\* All tests have been registered, none has run since the reset.
LEMMA CallStartProgress == ASSUME TypeOK, Progress, CallStart PROVE Progress'
<1>1. /\ next > NumTests /\ next' = 1 /\ pc' = "call_all" /\ pc = "construct"
      /\ creators' = creators /\ UNCHANGED <<done, boots>> /\ next \in Nat
  BY DEF CallStart, history, TypeOK
<1>2. ASSUME NEW t \in Tests PROVE Registered(t)'
  <2>1. t < next
    BY <1>1, Parameters DEF Tests
  <2> QED
    BY <1>1, <2>1 DEF Progress, Registered
<1>3. Len(creators') \in Nat /\ Len(done') \in Nat /\ boots'.from = Len(done')
  BY <1>1, LenProperties DEF TypeOK, Progress
<1> QED
  BY <1>1, <1>2, <1>3 DEF Progress, Running

LEMMA TestcaseEndProgress == ASSUME TypeOK, Progress, TestcaseEnd PROVE Progress'
<1> DEFINE case == [test |-> creators[next], failures |-> failures]
<1>1. /\ done' = Append(done, case) /\ next' = next + 1 /\ pc = "case" /\ pc' = "call_all"
      /\ UNCHANGED <<creators, boots>>
  BY DEF TestcaseEnd
<1>2. /\ next \in 1 .. Len(creators) /\ Len(done) = boots.from + next - 1
      /\ boots.from \in Nat /\ Len(creators) \in Nat
      /\ \A i \in 1 .. next - 1 : done[boots.from + i].test = creators[i]
      /\ \A t \in Tests : Registered(t)
  BY <1>1, LenProperties DEF Progress, Running, TypeOK
<1>3. /\ Len(done') = Len(done) + 1 /\ done'[Len(done) + 1] = case
      /\ \A n \in 1 .. Len(done) : done'[n] = done[n]
  <2>1. next \in 1 .. Len(creators)
    BY <1>2
  <2>2. case \in [test : Tests, failures : 0 .. MaxChecks]
    BY <2>1, ElementOfSeq DEF TypeOK
  <2> HIDE DEF case
  <2> QED
    BY <1>1, <2>2, AppendProperties DEF TypeOK
<1>4. ASSUME NEW i \in 1 .. next PROVE done'[boots.from + i].test = creators[i]
  <2>1. CASE i = next
    <3>1. boots.from + i = Len(done) + 1
      BY <1>2, <2>1
    <3> QED
      BY <1>3, <2>1, <3>1
  <2>2. CASE i # next
    <3>1. i \in 1 .. next - 1 /\ boots.from + i \in 1 .. Len(done)
      BY <1>2, <2>2
    <3> QED
      BY <1>2, <1>3, <3>1
  <2> QED
    BY <2>1, <2>2
<1>5. \A t \in Tests : Registered(t)'
  BY <1>1, <1>2 DEF Registered
<1>6. next' \in 1 .. Len(creators') + 1 /\ Len(done') = boots'.from + next' - 1
      /\ next' - 1 = next
  BY <1>1, <1>2, <1>3
<1> QED
  BY <1>1, <1>4, <1>5, <1>6 DEF Progress, Running

LEMMA StepProgress == ASSUME TypeOK, Progress, Step PROVE Progress'
<1>1. CASE Start
  BY <1>1, Parameters DEF Start, Progress, Running, Tests, history
<1>2. CASE Register
  BY <1>2, RegisterProgress
<1>3. CASE CallStart
  BY <1>3, CallStartProgress
<1>4. CASE TestcaseBegin
  BY <1>4 DEF TestcaseBegin, Progress, Running, Registered, TypeOK
<1>5. CASE CheckPasses
  BY <1>5 DEF CheckPasses, Progress, Running, Registered, history
<1>6. CASE CheckFails
  <2>1. failed' - failedOffset' = failures'
    BY <1>6 DEF CheckFails, Progress, TypeOK
  <2>2. UNCHANGED <<next, creators, done, boots>> /\ pc = "case" /\ pc' \in {"case", "exit"}
    BY <1>6 DEF CheckFails, TestShutdown, CallExit
  <2> QED
    BY <2>1, <2>2 DEF Progress, Running, Registered
<1>7. ASSUME NEW to \in {"warning", "shutdown"}, TestSetAction(to) PROVE Progress'
  BY <1>7 DEF TestSetAction, Progress, Running, Registered, counters, history
<1>8. CASE TestcaseEnd
  BY <1>8, TestcaseEndProgress
<1>9. CASE Summary
  <2>1. /\ UNCHANGED <<next, creators, done, boots>> /\ pc = "call_all" /\ pc' = "summary"
        /\ next > Len(creators)
    BY <1>9 DEF Summary, history
  <2>2. next = Len(creators) + 1
    <3>1. Len(creators) \in Nat /\ next \in Nat
      BY LenProperties DEF TypeOK
    <3>2. next <= Len(creators) + 1
      BY <2>1, <3>1 DEF Progress, Running
    <3> QED
      BY <2>1, <3>1, <3>2
  <2> QED
    BY <2>1, <2>2 DEF Progress, Running, Registered
<1>10. CASE ReturnResult
  BY <1>10 DEF ReturnResult, Progress, Running
<1>11. CASE ShutDown
  BY <1>11 DEF ShutDown, TestShutdown, CallExit, Progress, Running
<1>12. CASE Destroy
  BY <1>12 DEF Destroy, Progress, Running, TypeOK
<1>13. CASE EndDestroy
  BY <1>13 DEF EndDestroy, Progress, Running
<1>14. CASE Exit
  BY <1>14 DEF Exit, Progress, Running
<1> QED
  BY <1>1, <1>2, <1>3, <1>4, <1>5, <1>6, <1>7, <1>8, <1>9, <1>10, <1>11, <1>12, <1>13, <1>14
  DEF Step

-----------------------------------------------------------------------------
(* The verdicts *)

\* The failed cases are finitely many.
LEMMA FailedCasesFinite ==
  ASSUME TypeOK PROVE IsFiniteSet(FailedCases) /\ FailedCases \subseteq 1 .. Len(done)
<1>1. DOMAIN done = 1 .. Len(done) /\ Len(done) \in Nat
  BY LenProperties DEF TypeOK
<1>2. FailedCases \in SUBSET (1 .. Len(done)) /\ IsFiniteSet(1 .. Len(done))
  BY <1>1, FS_Interval DEF FailedCases
<1> QED
  BY <1>2, FS_Subset

\* A test case is judged by the checks made since its beginning.
LEMMA TestcaseEndVerdict ==
  ASSUME TypeOK, Progress, CasesJudgedAlone, TestcaseEnd PROVE CasesJudgedAlone'
<1> DEFINE case == [test |-> creators[next], failures |-> failures]
<1>1. /\ done' = Append(done, case) /\ pc = "case"
      /\ \/ /\ failures = 0 /\ casesPassed' = casesPassed + 1 /\ casesFailed' = casesFailed
         \/ /\ failures # 0 /\ casesFailed' = casesFailed + 1 /\ casesPassed' = casesPassed
  BY DEF TestcaseEnd, Progress
<1>2. /\ Len(done') = Len(done) + 1 /\ done'[Len(done) + 1] = case /\ Len(done) \in Nat
      /\ \A n \in 1 .. Len(done) : done'[n] = done[n]
      /\ DOMAIN done = 1 .. Len(done) /\ DOMAIN done' = 1 .. Len(done) + 1
  <2>1. next \in 1 .. Len(creators)
    BY <1>1 DEF Progress, Running, TypeOK
  <2>2. case \in [test : Tests, failures : 0 .. MaxChecks]
    BY <2>1, ElementOfSeq DEF TypeOK
  <2> HIDE DEF case
  <2> QED
    BY <1>1, <2>2, AppendProperties, LenProperties DEF TypeOK
<1>3. failures \in Nat /\ casesPassed \in Nat /\ casesFailed \in Nat
  <2>1. failures \in Nat
    BY DEF TypeOK
  <2>2. casesPassed \in Nat /\ casesFailed \in Nat
    BY DEF TypeOK
  <2> QED
    BY <2>1, <2>2
<1>4. IsFiniteSet(FailedCases) /\ FailedCases \subseteq 1 .. Len(done)
      /\ Cardinality(FailedCases) \in Nat
  BY FailedCasesFinite, FS_CardinalityType
<1>5. CASE failures = 0
  <2>1. FailedCases' = FailedCases
    BY <1>2, <1>5 DEF FailedCases
  <2> QED
    BY <1>1, <1>2, <1>3, <1>5, <2>1 DEF CasesJudgedAlone
<1>6. CASE failures # 0
  <2>1. FailedCases' = FailedCases \cup {Len(done) + 1}
    BY <1>2, <1>3, <1>6 DEF FailedCases
  <2>2. Len(done) + 1 \notin FailedCases
    BY <1>2, <1>4
  <2>3. Cardinality(FailedCases \cup {Len(done) + 1}) = Cardinality(FailedCases) + 1
    BY <1>4, <2>2, FS_AddElement
  <2> QED
    BY <1>1, <1>2, <1>3, <1>6, <2>1, <2>3 DEF CasesJudgedAlone
<1> QED
  BY <1>5, <1>6

LEMMA VerdictKept ==
  ASSUME CasesJudgedAlone, UNCHANGED <<done, casesPassed, casesFailed>> PROVE CasesJudgedAlone'
  BY DEF CasesJudgedAlone, FailedCases

LEMMA StepVerdict == ASSUME TypeOK, Progress, CasesJudgedAlone, Step PROVE CasesJudgedAlone'
<1>1. CASE TestcaseEnd
  BY <1>1, TestcaseEndVerdict
<1>2. CASE ~ TestcaseEnd
  <2>1. UNCHANGED <<done, casesPassed, casesFailed>>
    BY <1>2 DEF Step, Start, Register, CallStart, TestcaseBegin, CheckPasses, CheckFails,
                TestSetAction, Summary, ReturnResult, ShutDown, Destroy, EndDestroy, Exit,
                counters, history
  <2> QED
    BY <2>1, VerdictKept
<1> QED
  BY <1>1, <1>2

-----------------------------------------------------------------------------
(* The exit code *)

\* Up to exit() nothing has decided on it.
LEMMA StepsToExit ==
  ASSUME Exits, Start \/ CallStart \/ TestcaseBegin \/ CheckPasses \/ TestcaseEnd \/ Summary
         \/ (\E to \in {"warning", "shutdown"} : TestSetAction(to))
  PROVE  Exits'
<1>1. pc \notin {"destroy", "exit", "stopped"} /\ pc' \notin {"destroy", "exit", "stopped"}
      /\ way' = way
  BY DEF Start, CallStart, TestcaseBegin, CheckPasses, TestcaseEnd, Summary, TestSetAction,
         history
<1> QED
  BY <1>1 DEF Exits

LEMMA StepExits ==
  ASSUME TypeOK, Progress, Exits, Step, pc = "exit" => UNCHANGED memoryVars
  PROVE  Exits'
<1>1. CASE Register
  BY <1>1 DEF Register, CallExit, Exits
<1>2. CASE CheckFails
  BY <1>2 DEF CheckFails, TestShutdown, CallExit, Exits
<1>3. CASE ReturnResult
  BY <1>3 DEF ReturnResult, Exits, Result, counters
<1>4. CASE ShutDown
  BY <1>4 DEF ShutDown, TestShutdown, CallExit, Exits, Result, counters
<1>5. CASE Destroy
  <2>1. /\ pc = "destroy" /\ pc' = "destroy" /\ way' = way
        /\ next' = next + 1 /\ next >= 1 /\ next \in Nat
    BY <1>5 DEF Destroy, history, Progress, TypeOK
  <2>2. next' # 1
    BY <2>1
  <2> QED
    BY <2>1, <2>2 DEF Exits
<1>6. CASE EndDestroy
  BY <1>6 DEF EndDestroy, Exits, Result, counters, history
<1>7. CASE Exit
  <2>1. Overflows(0)' = Overflows(0) /\ \A units : Overflows(units)' = Overflows(units)
    BY <1>7 DEF Exit, memoryVars, Overflows, stack_redzone
  <2> QED
    BY <1>7, <2>1 DEF Exit, Exits, Result, counters, history
<1> QED
  BY <1>1, <1>2, <1>3, <1>4, <1>5, <1>6, <1>7, StepsToExit DEF Step

\* A trap on the stack
LEMMA OverflowInv == ASSUME RuntimeInv, MemoryTypeOK, Overflow PROVE RuntimeInv'
<1>1. /\ pc = "case" /\ pc' = "exit" /\ way' = "overflow" /\ r3' = TrapCode
      /\ UNCHANGED <<next, destructors, exitCode, creators, counters, action, done, failures,
                     boots>>
      /\ UNCHANGED memoryVars
  BY DEF Overflow, CallExit
<1>2. PICK units \in FrameSizes : Overflows(units)
  BY DEF Overflow
<1>3. TypeOK'
  <2>1. r3' \in Codes
    BY <1>1, Parameters DEF TrapCode
  <2> QED
    BY <1>1, <2>1 DEF RuntimeInv, TypeOK, Locations, counters
<1>4. Progress'
  BY <1>1 DEF RuntimeInv, Progress, Running
<1>5. CasesJudgedAlone'
  BY <1>1, VerdictKept DEF RuntimeInv, counters
<1>6. r3' = 12 \/ (r3' = 1 /\ units > NearRedzone)
  <2>1. sp \in Int /\ units \in Nat
    BY Layout DEF MemoryTypeOK
  <2> QED
    BY <1>1, <1>2, <2>1, Layout DEF TrapCode, Overflows
<1>7. \A u : Overflows(u)' = Overflows(u)
  BY <1>1 DEF memoryVars, Overflows, stack_redzone
<1>8. Exits'
  BY <1>1, <1>2, <1>6, <1>7 DEF Exits
<1> QED
  BY <1>3, <1>4, <1>5, <1>8 DEF RuntimeInv

LEMMA InterruptInv == ASSUME RuntimeInv, Interrupt PROVE RuntimeInv'
<1>1. pc' = "reset" /\ way' = "none" /\ boots'.from = Len(done) /\ done' = done
  BY DEF Interrupt
<1>2. TypeOK'
  BY InterruptTyped DEF RuntimeInv
<1>3. Progress' /\ Exits'
  BY <1>1 DEF Progress, Running, Exits
<1>4. CasesJudgedAlone'
  BY VerdictKept DEF Interrupt, counters, RuntimeInv
<1> QED
  BY <1>2, <1>3, <1>4 DEF RuntimeInv

LEMMA RuntimeStepInv ==
  RuntimeInv /\ MemoryTypeOK /\ [RuntimeNext]_<<vars, memoryVars>> => RuntimeInv'
<1> SUFFICES ASSUME RuntimeInv, MemoryTypeOK, [RuntimeNext]_<<vars, memoryVars>>
             PROVE  RuntimeInv'
  OBVIOUS
<1>1. ASSUME UNCHANGED vars, pc \in {"exit", "stopped"} => UNCHANGED memoryVars
      PROVE  RuntimeInv'
  <2>1. TypeOK'
    BY <1>1 DEF RuntimeInv, TypeOK, vars, counters, history
  <2>2. Progress'
    BY <1>1 DEF RuntimeInv, Progress, Running, Registered, vars, counters, history
  <2>3. CasesJudgedAlone'
    BY <1>1, VerdictKept DEF RuntimeInv, vars, counters, history
  <2>4. pc \in {"exit", "stopped"} => \A units : Overflows(units)' = Overflows(units)
    BY <1>1 DEF memoryVars, Overflows, stack_redzone
  <2>5. Exits'
    BY <1>1, <2>4 DEF RuntimeInv, Exits, Result, vars, counters, history
  <2> QED
    BY <2>1, <2>2, <2>3, <2>5 DEF RuntimeInv
<1>2. CASE UNCHANGED <<vars, memoryVars>>
  BY <1>1, <1>2
<1>3. CASE ProgramStep
  <2>1. Step /\ (pc = "exit" => UNCHANGED memoryVars)
    BY <1>3 DEF ProgramStep
  <2> QED
    BY <2>1, StepTyped, StepProgress, StepVerdict, StepExits DEF RuntimeInv
<1>4. CASE Body
  <2>1. UNCHANGED vars /\ pc = "case"
    BY <1>4 DEF Body, InBody
  <2> QED
    BY <1>1, <2>1
<1>5. CASE Overflow
  BY <1>5, OverflowInv
<1>6. CASE Restart
  BY <1>6, InterruptInv DEF Restart
<1> QED
  BY <1>2, <1>3, <1>4, <1>5, <1>6 DEF RuntimeNext

-----------------------------------------------------------------------------

\* The inductive invariant of the test program, across any number of restarts.
THEOREM RuntimeInvariant == RuntimeSpec => []RuntimeInv
<1>1. RuntimeSpec => []MemoryTypeOK
  BY UsesMemory, TypeCorrect, PTL
<1> QED
  BY <1>1, RuntimeInitInv, RuntimeStepInv, PTL DEF RuntimeSpec

\* Types of the runtime and of its memory
THEOREM RuntimeTypeCorrect == RuntimeSpec => []RuntimeTypeOK
<1>1. RuntimeInv /\ MemoryTypeOK => RuntimeTypeOK
  BY DEF RuntimeInv, RuntimeTypeOK
<1> QED
  BY <1>1, RuntimeInvariant, UsesMemory, TypeCorrect, PTL

\* A test case fails if and only if one of its own checks does, whatever earlier cases
\* or cases cut short have left in the counters.
THEOREM CasesJudged == RuntimeSpec => []CasesJudgedAlone
<1>1. RuntimeInv => CasesJudgedAlone
  BY DEF RuntimeInv
<1> QED
  BY <1>1, RuntimeInvariant, PTL

\* Every registered test has run as often as it was registered when the summary is
\* written, and every test of the program was registered.
THEOREM TestsRun == RuntimeSpec => []EveryTestRuns
<1>1. ASSUME RuntimeInv, pc = "summary", NEW t \in Tests
      PROVE  LET runs == {n \in boots.from + 1 .. Len(done) : done[n].test = t}
                 registrations == {n \in DOMAIN creators : creators[n] = t}
             IN  Cardinality(runs) = Cardinality(registrations) /\ runs # {}
  <2> DEFINE from == boots.from
             len == Len(creators)
             runs == {n \in from + 1 .. Len(done) : done[n].test = t}
             registrations == {n \in DOMAIN creators : creators[n] = t}
             there == [n \in registrations |-> from + n]
             back == [n \in runs |-> n - from]
  <2>1. /\ len \in Nat /\ DOMAIN creators = 1 .. len /\ from \in Nat
        /\ Len(done) = from + len
        /\ \A i \in 1 .. len : done[from + i].test = creators[i]
    <3>1. /\ next = len + 1 /\ next - 1 = len /\ Len(done) = from + next - 1
          /\ \A i \in 1 .. next - 1 : done[from + i].test = creators[i]
          /\ len \in Nat /\ from \in Nat
      BY <1>1, LenProperties DEF RuntimeInv, Progress, Running, TypeOK
    <3>2. DOMAIN creators = 1 .. Len(creators)
      <4>1. creators \in Seq(Tests)
        BY <1>1 DEF RuntimeInv, TypeOK
      <4> QED
        BY <4>1, LenProperties
    <3>3. from + next - 1 = from + len
      BY <3>1
    <3> QED
      BY <3>1, <3>2, <3>3, Zenon
  <2>2. \E n \in 1 .. len : creators[n] = t
    BY <1>1 DEF RuntimeInv, Progress, Running, Registered
  <2> HIDE DEF from, len
  <2>3. \A n \in registrations : from + n \in runs
    BY <2>1
  <2>4. \A n \in runs : n - from \in registrations
    <3> SUFFICES ASSUME NEW n \in runs PROVE n - from \in registrations
      OBVIOUS
    <3>1. n - from \in 1 .. len /\ from + (n - from) = n
      BY <2>1
    <3>2. done[from + (n - from)].test = creators[n - from]
      BY <2>1, <3>1
    <3> QED
      BY <2>1, <3>1, <3>2
  <2>5. \A n \in registrations \cup runs : n \in Int
    BY <2>1
  <2>6. IsFiniteSet(runs) /\ IsFiniteSet(registrations)
    <3>1. IsFiniteSet(1 .. len) /\ IsFiniteSet(from + 1 .. from + len)
      BY <2>1, FS_Interval
    <3>2. registrations \in SUBSET (1 .. len) /\ runs \in SUBSET (from + 1 .. from + len)
      BY <2>1
    <3> HIDE DEF runs, registrations
    <3> QED
      BY <3>1, <3>2, FS_Subset
  <2>7. runs # {}
    BY <2>1, <2>2, <2>3
  <2> HIDE DEF runs, registrations
  <2>8. there \in Injection(registrations, runs)
    <3>1. there \in [registrations -> runs]
      BY <2>3
    <3>2. \A m, n \in registrations : there[m] = there[n] => m = n
      BY <2>1, <2>5
    <3> HIDE DEF there
    <3> QED
      BY <3>1, <3>2, Fun_IsInj
  <2>9. back \in Injection(runs, registrations)
    <3>1. back \in [runs -> registrations]
      BY <2>4
    <3>2. \A m, n \in runs : back[m] = back[n] => m = n
      BY <2>1, <2>5
    <3> HIDE DEF back
    <3> QED
      BY <3>1, <3>2, Fun_IsInj
  <2>10. Cardinality(runs) = Cardinality(registrations)
    <3>1. /\ Cardinality(registrations) <= Cardinality(runs)
          /\ Cardinality(runs) <= Cardinality(registrations)
      BY <2>6, <2>8, <2>9, FS_Injection
    <3>2. Cardinality(registrations) \in Nat /\ Cardinality(runs) \in Nat
      BY <2>6, FS_CardinalityType
    <3> QED
      BY <3>1, <3>2
  <2> QED
    BY <2>7, <2>10 DEF runs, registrations, from
<1>2. RuntimeInv => EveryTestRuns
  BY <1>1 DEF EveryTestRuns
<1> QED
  BY <1>2, RuntimeInvariant, PTL

\* test_shutdown() exits with what all completed test cases amount to, start() returns it,
\* too many tests are reported, and a stack that overflowed is never a success.
THEOREM ExitCodesAreHonest == RuntimeSpec => []ExitCodesHonest
<1>1. ASSUME RuntimeInv PROVE casesFailed = 0 <=> FailedCases = {}
  <2>1. IsFiniteSet(FailedCases)
    BY <1>1, FailedCasesFinite DEF RuntimeInv
  <2> QED
    BY <1>1, <2>1, FS_EmptySet DEF RuntimeInv, CasesJudgedAlone
<1>2. ASSUME RuntimeInv, pc = "stopped"
      PROVE  /\ way = "registration" => exitCode = <<1>>
             /\ way = "shutdown" => exitCode = <<Verdict>>
             /\ way = "overflow" =>
                  \/ exitCode = <<12>>
                  \/ exitCode = <<1>> /\ \E units \in FrameSizes :
                                           units > NearRedzone /\ Overflows(units)
  BY <1>1, <1>2 DEF RuntimeInv, Exits, Result, Verdict
<1>6. ASSUME RuntimeInv, pc = "destroy", next = 1 PROVE r3 = Verdict
  BY <1>1, <1>6 DEF RuntimeInv, Exits, Result, Verdict
<1>3. RuntimeInv => ExitCodeHonest
  BY <1>2, <1>6 DEF ExitCodeHonest
<1>4. RuntimeInv => OverflowReported
  BY <1>2 DEF OverflowReported
<1>5. RuntimeInv => ExitCodesHonest
  BY <1>3, <1>4 DEF ExitCodesHonest
<1> QED
  BY <1>5, RuntimeInvariant, PTL
=============================================================================
