# A TLA+ model of libnux

libnux is the C++ library and runtime for the plasticity processing units
(PPUs), the two small embedded processors with a vector unit on a BrainScaleS
chip. It has no operating system below it: a program is loaded into a memory of
16 KiB by a host, runs from its reset vector, talks to the chip and to
the other PPU through loads and stores, and leaves its results in a mailbox.

This directory holds TLA+ modules for those parts of the library that have a
behaviour of their own, configurations for TLC, and proofs for TLAPS. All paths
below are relative to the repository; `vx/` stands for `include/libnux/vx/`.

- [Inventory](#inventory)
- [Modules](#modules)
- [Runs](#runs)
- [Fairness and deadlock](#fairness-and-deadlock)
- [Proofs](#proofs)
- [Where code and documentation differ](#where-code-and-documentation-differ)
- [What is not modelled](#what-is-not-modelled)
- [Plan](#plan)

To check a run: `tlc -config MCBarrier.cfg MCDisseminationBarrier.tla`.
To check proofs: `tlapm DisseminationBarrierProofs.tla`.

## Inventory

### What the parts are and how they interact

| part | state | operations | who calls it |
|---|---|---|---|
| dissemination barrier, `vx/barrier.h` | per agent: flags by parity and round, parity, sense, pointers to other agents' flags | constructor, `initialize`, `wait` | both PPUs; they share memory over the bus, the host starts them |
| event queue, `scheduling/Queue.hpp` | ring buffer, write position, size, overflow count, high-water mark | `push`, `pop`, `[]`, `init`, getters | the scheduler |
| event sources, `scheduling/Timer.hpp`, `TimerOneshot.hpp`, `Service.hpp` | start, period, number, end, last run, missed count; deadline, window, fired | setters, `next_event` | program and services set, the scheduler polls |
| scheduler, `scheduling/Scheduler.hpp` | queue, current time, stop time | `execute` (fetch, sort, run) | the program; it calls back services |
| time base, `vx/spr.h`, `libnux/vx/time.cpp` | 64-bit hardware counter, read by halves | `get_time_base`, `now`, `sleep_cycles` | scheduler's `get_time`, programs |
| location, `vx/location.h` | row 0 of two synapse memories, a copy of it | `get_location` | programs on both PPUs, possibly at once |
| mailbox, `libnux/vx/mailbox.cpp` | bytes, write head | write text, numbers, vectors; terminate; write at an offset; read | programs, test framework; the host reads |
| test framework, `libnux/vx/unittest.cpp`, `testing.cpp` | counters, offsets, action on failure, list of tests | register, begin, end, check, summary, shutdown, run all | constructors and `start` of a test program |
| runtime, `nux_runtime/` | stack, `.init_array`, `.fini_array`, exit code word | reset, constructors, `start`, destructors, `exit` | the hardware; the host reads the exit code |
| heap and stack, `libnux/vx/malloc.cpp`, `nux_runtime/stack_guards.cpp`, linker script | end of the heap, stack pointer | `malloc`, `free` (does nothing), the check at a function's entry, trap handler | programs and their service routines |
| interrupts, `vx/isr.h`, `crt.s` | a frame on the stack | prologue, epilogue; restart if nobody serves | the hardware |
| vector unit classes, `vx/vector_*.h`, rows, `frac.h` | none (values) | arithmetic, shifts, selection, rounding, conversions | programs |
| software UART, `vx/uart.h`, `uart.cpp` | an output pin, a configuration | send a word, print a text | programs; a receiver on the host's side |
| random numbers, `vx/random.h`, `parallel_rng.h` | generator words | draw | programs |
| exponential and helpers, `exp.cpp`, `fxdpt.h`, `helper.h`, `bitformatting.cpp` | none (values) | exponentials, fixed point, reversal, differences | programs, learning rules |
| global addresses, `vx/globaladdress.h` | an address | conversions between kinds | programs |
| chip access, `vx/vector.h`, `syn.h`, `correlation.h`, `reset_neurons.h`, ... | memories and registers of the chip | reads and writes of rows, resets, single loads and stores | everything above |

The calls between them: a test program is started by the runtime, registers its
tests in constructors, runs them from `start`, and they write to the mailbox. A
scheduling program owns a scheduler, which owns a queue and polls the sources;
time comes from the time base; services write sources again. Two PPUs meet only
in the barrier, in the synapse memories (`get_location`) and in the host.
Everything a program calls takes its frame from the stack that grows towards
the heap, and an interrupt may put a service routine's frame on top of it
anywhere, in the middle of `malloc` too.

### What is hard, and what correct means

- **Barrier.** Two or more processors, unsynchronised, one-word stores into each
  other's memory, no locks. Correct: nobody leaves call *e* before everybody has
  entered it; no notification is lost by overwriting or seen twice by
  staleness; nobody spins forever.
- **Queue.** Index arithmetic with a position derived from two counters, full
  and empty, re-initialised in use. Correct: it is a FIFO that drops its oldest.
- **Sources.** Unsigned 32-bit arithmetic on times, late polls, settings changed
  between polls. Correct: each period is emitted or counted, deadlines are
  fresh, a one-shot timer's service runs once per setting, nothing loops forever on
  sane settings.
- **Scheduler.** A bounded queue that drops, sorting by a single swap, events
  left behind by one `execute` for the next, services that change the sources.
  Correct: the earliest deadline is run, events are accounted for and in order,
  fetching is exhaustive, `execute` returns.
- **Time base.** Non-atomic read of 64 bits. Correct: sleeping is as long as
  asked and not longer; a read is at most one carry wrong.
- **Location.** Two programs probing the same hardware. Correct: the memory is
  restored, the answer is right unless disturbed.
- **Mailbox.** A limit that bites in the middle of a string, a number or a
  terminator, results summed over the many strings of a vector. Correct: no gap, no
  byte past the end, results that say where the text ends, numbers read back.
- **Test program.** Counters that are differences of earlier counters, early
  exits from a constructor and from a check, destructors between the result and the
  exit, restart by interrupt without reloading. Correct: the host's exit code tells the truth.
- **Heap and stack.** Two regions that grow towards each other without a fixed
  boundary, checks of a start but not of an end, service routines that allocate
  in the middle of an allocation, restarts that reset the stack and not the
  heap. Correct: objects are in the heap and do not overlap, frames stay behind
  their limit, an overflow is reported as one.
- **Elements and rows.** Saturation, rounding, signedness, byte order.
- **UART, addresses, exponential, random numbers.** Time per bit that is slept
  with delays, carries between bytes of a word and between words, seams of a
  range reduction, narrowing. Correct: what is sent is received, an address
  means one byte however it is reached, a monotonic function is monotonic.
- **Rows of the chip.** The same row is written as vectors, as words and column
  by column, with masks of signed bytes, with and without waiting for the write.
  Correct: all ways agree.

`PROJECT.json` lists each of these hazards with its line.

## Modules

| module | code | how state and actions correspond |
|---|---|---|
| `RoundBarrier` | (abstract) | what a barrier promises: rounds and who is inside |
| `DisseminationBarrier` | `vx/barrier.h`; test program and host of `tests/hw/libnux/with_hostcode/vx/barrier_two_ppus.cpp` | `flags`, `remote`, `parity`, `sense` are the members of each agent's object; `Construct`, `Initialize` and, for `wait`, `Enter`, `Notify`, `Spin`, `Leave`: one shared access per action. `HostBegin` is the host |
| `MCDisseminationBarrier` | | powers of two for TLC |
| `DisseminationBarrierProofs` | | proofs |
| `PowersOfTwo` | | 2^n as a recursive function, which the provers can reason about; used for widths, shifts and sizes |
| `NumberLemmas` | | induction, and lemmas on `%`, products, periods and powers of two that the proof modules share |
| `RingQueue` | `Queue.hpp` | the object as a record, its member functions as operators, on which the next modules are built |
| `LossyQueue` | (abstract) | a sequence that drops its head when full |
| `Queue` | `Queue.hpp` | one object under any sequence of calls |
| `MCQueue` | | the queue with a bound on the elements dropped |
| `TimerOps` | `Timer.hpp`, `TimerOneshot.hpp` | setters and `next_event` as operators on records, modulo the word |
| `Timers` | `Timer.hpp` | one periodic timer, a clock, and any sequence of setters and polls |
| `Scheduler`, `MCScheduler` | `Scheduler.hpp` | `execute`, cut at each read of the clock, each event fetched, each source change and each service, which may call any setter of a source; composes `Queue`, whose actions it takes as part of its own, and `TimerOps` |
| `SchedulerProofs` | | proofs about `Queue` and `Scheduler` |
| `TimeBase`, `TimeBaseProofs` | `vx/spr.h`, `time.cpp` | reads of the halves are two actions, with clock ticks in between; proofs |
| `Location` | `vx/location.h`, row access of `vx/vector.h` | each access to a synapse memory is an action; both PPUs |
| `Mailbox`, `MCMailbox`, `MailboxProofs` | `mailbox.cpp` | `memory` from `mailbox_base` on, including some bytes past the end; `head` is the write head; each call of `mailbox_write_string` is a step, `calls` is what the running function still has to call, `ret` and `part` are the sums it has so far; proofs |
| `TestProgram` | `unittest.cpp`, `testing.cpp`, `crt.s`, `initdeinit.cpp`, `crt_shutdown.s` | from reset to the exit code, with an interrupt possible after any step |
| `ProgramMemory` | `malloc.cpp`, `stack_guards.cpp`, `isr.h`, linker script `elf32nux.x`, stack pointer of `crt.s` | `frames` is the stack, `next_alloc` the static variable of `malloc()`, which takes two steps so that an interrupt fits in between |
| `Runtime`, `RuntimeProofs` | the two above | composes them: bodies of tests call, allocate and are interrupted; a trap exits; a restart keeps the heap; proofs about memory and runtime |
| `VectorElements` | vector classes, `vector_if`, `vector_convert`, `vector_math`, `vector_row_math`, `vector_round_stochastic` | each function on one element of a vector; the vector unit's instructions (external) are at its head |
| `Fractions` | `vx/frac.h` | the operators of `frac8_t` and `frac16_t` |
| `VectorRows` | `vector_row*`, `vector_half_row*` | rows as records of even and odd vectors, half rows, conversions |
| `VectorUnit` | the three above | calls each function with each argument; the properties are the reference definitions |
| `GlobalAddress` | `vx/globaladdress.h` | the address as a record, every constructor, conversion, class and operator; the language's or bit by bit (`Or`) |
| `SoftUart` | `uart.cpp`, `vx/uart.h` | a word becomes a line of levels with durations; `Received` is a receiver of its own (external) |
| `Numerics` | `exp.cpp`, `vx/fxdpt.h`, `random.cpp`, `bitformatting.cpp`, `helper.h`, `vx/time.h` | each function as an operator on words, cut where C++ cuts them |
| `ChipMemory` | `vx/vector.h`, `syn.h`, `correlation.h`, `correlation.cpp`, `reset_neurons.h` | rows of a memory as vectors; each access function as an operator on the memory; `Arrivals` is what the omnibus may see of a write |
| `LibraryCalls`, `MCLibraryCalls` | the five above | one call of any of these functions with any of the sampled arguments, and the laws their results obey |
| `LibraryProofs` | | proofs about `VectorUnit`, `LibraryCalls` and `Location` |
| `TimersProofs` | | proofs about `Timers` |

Conventions. An operator whose comment begins with "Mistake:" is a plausible
error in the action that follows it; no specification uses it. It is there to
show that the properties would notice (`PROJECT.json` says which one does).
Variables under the heading "history" exist for the properties only. Constants
whose comment begins with "bound:" limit the state space and have no
counterpart in the code.

Notable modelling decisions:

- *Barrier.* The memory is not cleared before the constructors run: flags,
  parity and sense of an object start with any word of `Image`. The host sets
  `begin` only when all constructors have run: it boots both processors
  first and reaches the words by several bus transactions later. `log2` and
  `pow` are of an external library; the assumption says what the barrier needs.
- *Scheduler.* A service runs in one step because nothing of the scheduler runs
  during it; the clock may tick any number of times between two steps, so
  services and polls take any time.
- *One-shot timers.* `set_deadline` and `set_window` are called by services, alone or
  together, also on a timer that has fired or whose event is queued: the scheduler's
  model has them, for what counts is how their events reach the services.
- *Timers.* `TimerHangs` is the case in which the loop of `next_event` never
  reaches the time it was given; the models state it as a step that ends the
  timer rather than leave it out.
- *Time base.* While the library's code runs, at most `MaxGap` ticks pass
  between two of its reads; the counter starts at every value.
- *Location.* A program may write its own row whenever it is not in the call.
- *Mailbox.* A function for a number or a vector makes its calls one after the other,
  and the host may look in between; nothing else of the program runs. The text of
  the smallest number is a literal in the code and a constant here (`LowestText`),
  with the assumption that it reads as that number (`LiteralAssumption`).
  The functions that read copy into `buffer`, which the next call
  forgets. A destination behind the mailbox (`behind`), as in the external
  memory, is compared with its end like any other, so nothing is copied.
- *Memory.* Addresses count units of eight bytes. The build is the one with a
  red zone (`LIBNUX_STACK_REDZONE`). Where the variable `p` of `malloc` lies in
  its frame, and whether `next_alloc` is loaded again for the update, are choices
  of the compiler, and both are left open. Sizes are not rounded, as in the code.
- *Runtime.* Functions, allocations and service routines happen in the bodies
  of tests only; the runtime itself needs no stack worth mentioning. An
  interrupt that nobody serves may come after any step, in `exit` as well.
- *Library calls.* The functions have no state, so one call is one step and its
  arguments and result are the state. An operator stands for the whole function.
- *UART.* The line is the sequence of levels with their durations; each sleep
  is late by up to `Late` cycles, as `TimeBase` shows it may be. The receiver
  begins with the falling edge and samples in the middle of each bit.
- *Chip rows.* `set_weights` has no `sync`, in contrast to the other functions that
  write rows: the omnibus may see any of the row's words late. The vector unit
  sees its own writes in order.
- *Test program.* What `start` returns is in r3, which need not survive
  the call of `__call_destructors`, whether or not there are any to call. Any subset of checks
  may fail, any action may be set at any
  point of a case. An interrupt restarts at the reset vector with the static
  variables as they are, for the linker script places the undefined handler
  there and no code clears `.data` or `.bss`.

## Runs

Twelve runs; nine must pass, three show a disagreement and must fail.

| run | instance | what it shows |
|---|---|---|
| `barrier` | 5 agents, 3 flags per parity, 5 calls each, memory image all ones | `BarrierSafe`, `FlagsTruthful`; implements `RoundBarrier`; `AllFinish` |
| `queue` | 4 slots, 2 elements, at most 3 drops | implements `LossyQueue`; debug values agree |
| `timers` | words of 4 bits, clock to 18, 4 events | `PeriodsAccounted`, `SteadyTimer`, `FreshDeadline` |
| `scheduler` | 2 periodic timers, 1 one-shot timer, queue of 2, clock to 7, stop times 4 and 7, one change by a service | earliest deadline first and a timer's events in order (`ServiceOrder`), events accounted, one service per setting of a one-shot timer (`RunsAsSet`), sources drained, `execute` returns |
| `timebase` | 16 x 3 values, offset 3, arguments 1, 5, 6 and 14 (= -2), gap up to 2 | `SleepsOnTime`: neither short nor long; `now` is off by one carry at most; calls return |
| `location` | weights 0, 7, 32; 2 columns | row restored; `LocationLearned`: who learns the right answer when |
| `mailbox` | 3 bytes, 9 more past the end, base 2, integers of 3 bits, reads of 1 and 2 bytes | text kept without gaps and read back, the sums of results tell the head (`ReturnsCountHead`), numbers read back |
| `runtime` | 2 tests, room for 3, at most 2 checks a case, at most 1 restart; 6 units for heap and stack, frames of 1 and 2, service routines of 3 with a margin of 2, objects of 1 and 4 | verdicts, completeness, exit codes with stack overflows; heap and stack |
| `calls` | all words of 8 bits as first argument, sampled second arguments and 16-bit words, rows of 8 elements; addresses of 14 bits; UART words of 4 bits; fixed point with 8 bits after the point; rows of two words | arithmetic, rounding, selection, row layout; UART, addresses, numerics, chip rows |
| `scheduler_missed` | 1 timer | *violated:* periods after the last poll are not counted as missed |
| `timebase_torn` | as `timebase` | *violated:* `now` returns the time of a moment of the call |
| `mailbox_full` | 4 bytes | *violated:* text stays in the mailbox |

Why the bounds are enough:

- **barrier.** Five is the smallest number above a power of two with three rounds of
  notifications: chains of one, two and three hops exist and some agents are
  reached twice. Sense and parity together repeat every four calls, so the
  fifth meets the flags of the first. With a memory image of ones, any flag
  that the constructor failed to clear looks like a notification. The proofs
  cover every number and every image.
- **queue.** Four slots let the writer wrap around several times with three drops, and
  the read position cross the array's end in both directions. `MaxOverflow`
  (in `MCQueue`) only ends TLC's search; `Queue` itself counts without a bound and
  the proof covers every size.
- **timers.** The word has 16 values and the periods 0, 2, 4 and 9 make schedules that
  fit, end at the word's edge and wrap around; the clock wraps around once. The
  proofs cover every size of the word and all settings.
- **scheduler.** Both timers and the one-shot timer together are due for more than two
  events in one fetch, so the queue drops; the second `execute` finds events of
  the first one. The clock does not reach its word's end: wrap-around is the
  business of `timers`. The proofs cover every number of timers, every queue, word,
  clock and schedule, those that wrap around included; that `execute` returns is
  for the run alone.
- **timebase.** Each phase of the counter is an initial state, both halves wrap around,
  and the arguments lie below the offset, above it, and are negative. The proofs
  cover every size of the halves; that calls return is for the run alone.
- **location.** The two test values and one that is neither; one column is probed, the other
  stands for the rest. The proof covers every set of weights and columns.
- **mailbox.** Three bytes are filled by two calls, so that each call is cut off
  at each of its positions; the smallest number, -1, 0 and the largest are
  written, and vectors that are cut off after a sign and after a comma. Direct writes and reads start before, at and after the end. `Beyond` is
  as large as the longest overrun the text bound allows. The proofs cover every
  size, base, width and text.
- **runtime.** Two tests and a restart register three times and exceed the
  room, or fit exactly when the restart comes early; two checks give a mixed
  case. A second object of four units does not fit, one of one unit does until
  the stack is in the way; the frame of a service routine exceeds the margin by one unit, as
  136 bytes exceed 128; a frame of two units is beyond what the trap handler
  takes for an overflow, one of one unit is not. The proofs cover all values.
- **calls.** TLC's integers have 32 bits. The scalar shift to the left of 16-bit
  fractions (words of 32 bits) is therefore left to the 8-bit instance, and the
  second factor of an unsigned product of 16 bits has 15. `Quarter` is 64 on the
  chip; with 2, half rows have four elements, and every element of a longer
  row lies like one of these. The memories of the address space keep the order
  of their bits, so each has its neighbours and its gaps; every byte of the small
  ones is an argument, of the DRAM those around powers of two. A UART word has a
  bit inside, one at each end and one beyond the configured width. xorshift32 is
  linear, so seeds of one bit say what it does to all. Fixed-point arguments
  cover the range in steps of 1/256, with all integers and halves. The proofs cover
  all words of 16 bits, every number of random words, all sizes of rows,
  memories and addresses, all masks, seeds, arrays and measurements; only the UART
  and the exponentials are for the run alone.

`TypeOK` of `DisseminationBarrier`, `Queue`, `Scheduler`, `Location`, `TimeBase` and
`Timers` is a theorem; their runs spend their properties on the others.

## Fairness and deadlock

- **barrier.** Weak fairness of each agent's program and of the host's write of each
  `begin` word: the processors have separate clocks and nothing in the code can
  stop one of them except its own spinning, in which case it is disabled; the
  host script writes both words unconditionally. Finished programs stutter
  (`Stop`), so a deadlock would be a real one, and the run checks for it.
- **scheduler, time base.** Weak fairness of the clock tick and of the program's step: the counter is
  hardware, the processor executes. A service is assumed to return.
- The other specifications state no fairness; their properties are safety
  properties.

Four configurations disable the deadlock check because the system really
stops: the two mailbox models end at their bound of text, the runtime ends
in `exit`, and the timers' clock ends at `MaxClock`.

## Proofs

TLAPS checks the theorems listed in `PROJECT.json`, for all values of the
constants that satisfy the named assumptions. There is nothing taken on trust.

**Barrier** (`DisseminationBarrierProofs`; `BarrierAssumption`: at least one
agent, `Pow2` doubles, the last power but one is below N and the last one reaches
it, i.e. `log2` rounds up). `BarrierSafe` is not inductive: that an agent may
leave follows from what it has learned round by round, and that from what the
flags mean. The inductive invariant adds

- `BootInv`: nobody begins before all are constructed, so no constructor
  erases a notification;
- `ObjectInv`: parity and sense are functions of the number of calls, pointers
  lead to agent i + 2^k;
- `FlagInv`: every flag holds the sense of the last notification its one writer
  has stored in that parity;
- `KnowInv`: an agent past k rounds knows that the 2^k agents before it
  on the ring, itself included, have entered this call.

The heart is the step of `Spin`: the flag's value leaves open several calls of
its writer (same parity and sense every four calls), `BarrierSafe` confines the writer to
one call before or after, and so the flag was written in this call
(`SenseTells`); by `KnowInv` the writer knew 2^k agents, together they are
2^(k+1). At the end 2^NumFlags >= N agents are all. `BarrierProperty`,
`NotificationsKept` and the `Refinement` of `RoundBarrier` follow.

**Queue** (first part of `SchedulerProofs`; `QueueAssumption`). The invariant
`QueueInv` is `QueueTypeOK` with `DebugValuesAgree` and that the reachable slots hold
elements, never garbage. Lemmas say what each member function does to
`Contents`: `Append`, `Tail` of `Append` on a full queue, `Tail`, an update, an
exchange, or nothing. `QueueRefinement` shows that `Queue` implements `LossyQueue`.

**Scheduler** (`SchedulerProofs`; `SchedulerAssumption`, which says that events
are sources with deadlines and that settings are words, and the assumptions of
queue and timers). Every step of the scheduler is one of its queue or leaves it
alone (`UsesQueue`), so the queue is as sound, and the same lossy queue, as
there. None of the scheduler's properties is inductive; the invariant `IInv` adds to
types and `QueueInv`

- `FetchInv`: the sources in front of the one at hand have no due event, and after
  the last one none has; this is `SourcesDrained` before it is complete;
- `EarliestInv`: between the sort and the run the oldest element has the earliest
  deadline, which the search and the swap establish (`EarliestFound`);
- `OrderInv`, as long as no service has set a timer: a timer whose schedule does
  not wrap around has moved over a number of its periods (`OnPeriod`), and its
  queued deadlines are all different, later than the last one that was run and not
  later than the last one emitted (`InOrder`). It has to speak of the queue as a
  set, for the swaps leave no order in it;
- `SetInv`: what a one-shot timer has emitted and is about to emit is no more than the
  times it was set. With the counts of its events `RunsAsSet` follows
  (`OneshotsRunAsSet`).

What the queue's functions do to the events of a source is one relation: what
is there afterwards comes from different positions before (`Moved`: an
injection of positions). Counts and order follow from it, the counts by
cardinality (`MovedCount`), the order because it is about different positions
only (`MovedOrder`). `AccountsEvents` further needs that the sum over all sources
grows by one if one of them does (`TotalGrows`, by induction on the sources).
`RunInOrder` then follows from both `EarliestInv` and `OrderInv`.

**Mailbox** (`MailboxProofs`; `MailboxAssumption`: a base from 2 to 16, integers of
an even number of values, texts of bytes other than null; `LiteralAssumption`, which
`SourceLiteral` shows to be right for the program's numbers). `TextKept` has to know where the head
is: at the end of the text while that is inside the mailbox, and past the
mailbox only if the text is at least as long (`HeadInv`). The lemma `HowMuch` says
how much of a text is written, also when it is cut off or the head is past the end.
Between two strings the head is ahead of what the program was told by the sums that
the running function holds (`CountInv`), and only the first of the calls that are
left may have written a part of its strings, the sign (`CallsInv`).
`NumbersReadBack` is about `itoa`: `DigitsExist` and `ValuesExist` show that the
recursive functions exist, `ValueOfAppend` that one more digit multiplies the
value by the base, and `ItoaReads`, by induction on the number, that the digits read
as it and do not begin with a zero.

**Location** (last part of `LibraryProofs`; `LocationAssumption`: 0 and 32 are weights and
the probed column is a column). The invariant says what the own row, the copy
and each read hold at each program point (`RowInv`, `OwnReadInv`), and that an
undisturbed call has read the other memory unchanged (`OtherReadInv`). From it:
the row is restored, the call always claims success, the top PPU is always
right, and either one is right unless disturbed.

**Time base** (`TimeBaseProofs`; `TimeBaseAssumption`: the lower half is even
in size and more than four gaps long, and the arguments keep clear of the ends
of `int32_t` by the offset and two gaps). The invariant says that the counter,
`gap` cycles ago, had the upper half that was read (`ReadInv`), and that there
is a number `since`, not much smaller than the time of the call, by which
`start` and the counter differ modulo the lower half (`StartInv`). A wrong upper
half thus cannot matter to `sleep_cycles`: the difference it compares narrows to
`since`, which a failed poll bounds from above (`SleepNotTooLong`) and a
successful one from below (`SleepLongEnough`). For `now`, at most one carry
fits into a gap (`CarryBounded`).

**Timers** (`TimersProofs`; `TimeRangeAssumption`, `ArgumentsAreWords`).
`PeriodsAccounted` and `SteadyTimer` do not hold by themselves: the invariant
adds the number of turns of the word by which a product differs from the
member that stores it (`Accounted`), and, for a schedule that fits and is left
alone, how many of its periods `lastRun` has moved over (`OnSchedule`). The
lemma `OnTime` is about the loop of `next_event`: as long as the schedule goes on no
sum wraps around, the period that ends the schedule would end the loop, and the
loop ends with the first one that does (`LoopTurns`, by well-foundedness of the
naturals). Freshness of the events follows from the same lemma.

**Heap and stack** (first part of `RuntimeProofs`; `ProgramMemoryAssumption`: the program, the
margin and two units fit below the mailbox). The stack pointer alone is no
invariant, for a return has to lead back to a legal one: `StackInv` says that
there is a level for every frame, each its frame below the one before, and only
those of service routines are in front of the limit. For the heap, `CallsInv`
says where each call of `malloc` in progress is going to put its object, and that
an inner call does not begin in front of an outer one, and `ObjectsInv` that no object
reaches behind that. From it: all objects are in the heap, and they overlap only
if a service routine has allocated one of them in the middle of an outer call.

**Runtime** (`RuntimeProofs`; the assumptions of both parts and that 12 fits into
r3). Every step of the composition is a step of `ProgramMemory` or leaves it
alone (`UsesMemory`), so heap and stack are as sound as there. The invariant of the test
program says which tests are registered at each point, that the completed
cases of this boot are those in front of the loop variable, that the failures
of the present case are the difference of counter and offset (`Progress`), and
what r3 holds on the way to `exit` (`Exits`): the result until the first destructor
or the return from their call, anything after that. `CasesJudged` adds the
cardinality of the set of failed cases; `TestsRun` counts by a bijection
between cases and registrations; `ExitCodesAreHonest` follows from both.

**Library calls** (`LibraryProofs`; the assumptions of the modules about the functions).
Here a step is a call, so the invariants are inductive by themselves and all the
work is in what a function returns for any argument. `FunctionOf` and `WhichAction`
lead from the last call to its arguments; each function then has its own lemmas.

- *Arithmetic* (`ArithmeticInvariant`). `NarrowKeeps` says that a number that fits is
  itself as a word, `Products` how large a product of signed words is: divided by
  the scale, only the square of the smallest number does not fit (`ProductScaled`).
  A shift splits the word at a bit (`ShiftFactors`): what is above is divided or cut
  off, what is below keeps its place (`FracShiftedLeft`, `ShiftExact`). That the
  product of `pow` may be cut off after each factor is `ProductCutOff`.
- *Rounding* (`RoundingInvariant`). The word is k * j + m with k the power that is
  rounded to. `RoundedTo` is the result for the upper bits d of a random number: k * j
  where m + d < k, and the next multiple, if there is one, otherwise. `CarryingWords`
  counts the random numbers of the second kind by a bijection with an interval.
- *Rows* (`RowsInvariant`, `ChipAccessInvariant`). Where element i of a row is depends
  on i \div 2 and i % 2 (`Place`), in a half row on which side of `Quarter` it is
  (`HalfPlace`). In a chip's memory the vectors of two rows are different (`RowsApart`),
  and a word of the omnibus is four entries of a vector (`OmnibusAsVector`); what the
  omnibus sees of a write is the old or the new entry (`OldOrNew`), the new one where
  all the row's words have arrived (`AllArrived`). `Sampled`
  is recursive; that all its values are the first moment's is `SampledOnce`, by
  induction on the reads.
- *Addresses* (`AddressInvariant`). `Or` is built bit by bit. `OrIs` says that a number
  with the right bits is the result, `LowerBits` that bit n and those below make up the
  lower n + 1, and with both `OrParts`: for a multiple of a power of two and a number below
  it, "or" is the sum, also where both have the lowest bit of the multiple, as
  `ExtMemDRAM` has. Bases, sizes and carries are then arithmetic on
  five powers of two (`Sizes`, `BaseAligned`, `BaseFits`).
- *Generators* (`GeneratorsInvariant`, in `NumbersInvariant`). A word is a set of bits, and adding a shifted word
  to itself twice shifts it by twice as much (`LeftTwice`), until all bits are out of the
  word (`ShiftedOut`): so each of the three shifts is undone by more of its kind.
  `SoonerOver` rests on the order of words (`GreaterTransitive`), not on the numbers drawn.
- *Helpers* (`HelpersInvariant`, in `NumbersInvariant`). How often a value is found at all is how often it is found
  from its first place on (`AmountFromFirst`); the last place, which the loop
  leaves out, is the first one only of a value that is there once (`MostFrequent`). The
  loops over measurements are recursive functions (`LoopExists`); after m rounds the sum
  is between m times the shortest and m times the longest duration, and
  fits into the word (`AverageBetween`).

**Induction.** The theorems on induction in the provers' library take an operator as a
parameter, which no prover at hand can instantiate. `NumberLemmas` therefore
states them for sets (`Smallest`, `StrongInduction`, `Induction`: a property of numbers
is the set of those that have it), proved from the well-foundedness of
the naturals; existence and values of the recursive functions of the models are
shown with these, powers of two among them (`TwoToDoubles`).

Only model-checked:

- the liveness properties (`AllFinish`, `ExecuteReturns`, `CallsReturn`), which
  need ENABLED and fairness;
- `ExponentialLaws`: how near the series come to an exponential is said in numbers,
  which are for the width the run has (a point after fewer bits is less precise), about
  the constants of a table;
- `WordsArrive`: what the receiver flattens is a fold over sequences, which the library
  defines by recursion over sets of indices and these provers cannot unfold. Also,
  the property is about a receiver whose clock may drift by a bounded number of
  cycles per word, so it is false for constants outside of those the run names.

`SoftUart` takes the community modules by name (`LOCAL Seqs == INSTANCE SequencesExt`), since
their definitions would otherwise be visible a second time in the proofs. For the
same reason `Numerics` has its own `First`, and loops as recursive functions.

## Where code and documentation differ

Shown by a run that must fail:

1. `Timer.hpp:80`: `next_event` returns early from the end of the schedule on;
   periods since the last poll before are not "missed" periods (`Timer.hpp:16`).
2. `vx/spr.h:43`: the upper half is read once, first; after a carry the result
   is 2^32 cycles early (`vx/time.h:24`, "current absolute time"). `sleep_cycles` is immune.
3. `mailbox.cpp:78`: a terminator that did not fit moves the head past the end,
   after which text is written behind the mailbox.

Met while modelling, without a run of their own. (Where such a difference is
within reach of a property, the property leaves the case out and its comment says so:
weights and masks of 128 and more, the result in r3 during the destructors.)

*Memory and runtime*

- `malloc.cpp:32`: a service routine that allocates while the program is
  between the checks and the update of `next_alloc` gets the same memory, or its
  own allocation is lost if the compiler has kept the old value.
- `malloc.cpp:34`: sizes are not rounded up, so later objects may not be
  aligned; line 30 compares the start of an object with the stack, not its end.
- `crt.s:51`: the result of `start` is in r3 while the destructors are called, which
  may change it, and then it is not the exit code (`crt_shutdown.s:5`, "We expect the
  exit code of a program to be placed in r3 prior to calling exit").
- `isr.h:36`: a service routine's frame of 136 bytes is longer than the 128 in
  front of `stack_redzone` (`elf32nux.x:157`), so it may reach into the program.
- `stack_guards.cpp:31`: "return ENOMEM=12 on stack overflow" is done for frames
  of up to 32 bytes; a larger one that does not fit is reported as 1.
- `unittest.cpp:23`: `test_shutdown` from within a failing case under
  `test_action_shutdown` exits with 0 if no earlier case failed.

*Scheduling, time and location*

- `TimerOneshot.hpp:73`: a window longer than the deadline wraps around and the
  timer waits for almost a turn of the clock. Line 63: `set_window` alone on a timer
  that has fired emits its old deadline again, which `RunsAsSet` counts as set.
- `Scheduler.hpp:184`: `execute` compares times without regard to wrap-around
  and runs past a stop time if a service spans it.
- `Scheduler.hpp`: `flush_queue` calls a member that `Queue` does not have.
- `vx/location.h:10`: the note on concurrent execution names the same function
  only; writing weights on the other PPU disturbs it just as well.
- `time.cpp:11`: arguments of `sleep_cycles` within a few cycles of the largest `int32_t` may
  sleep for a turn of the counter; `Cycles` excludes them.

*Mailbox and UART*

- `mailbox.cpp:72`: text that fills the mailbox exactly is not null-terminated.
- `mailbox.cpp:44`: `mailbox_read` compares the destination with the end of
  the mailbox; the source is never checked, and a destination in the external
  memory gets nothing. It and `mailbox_write` return twice the offset plus the
  bytes moved.
- `vx/uart.h:96`: the object keeps a reference to its configuration.
- `vx/uart.h:60`: a `std::vector<bool>` is allocated for each word, and
  `free` does nothing, so a program that sends long enough exhausts its heap. The
  parity of a word that is wider than configured counts the bits that are cut off.

*Addresses and numbers*

- `globaladdress.h:185`, `357`: conversion to `bool` is false for every address
  of the external DRAM, for it does not look at that part.
- `globaladdress.h:446`: `is_extmem_dram` uses `extmem_size`, so most of the DRAM
  is not recognised; line 451: `is_sram` is true in the gap behind a memory.
- `exp.cpp:20`: `exp_6` is written to "avoid overflow problems"; its products
  overflow for |x| between about 0.7 and 1, and from 1 on the integer part is cut off.
- `exp.cpp:48`: the table of `exp_6b` has 22 entries; x beyond 11 reads past it,
  and below -11 the result is about -1. `exp_n` divides unsigned for negative x.
- Vector shifts to the right by the width or more give 0 for negative numbers too
  (`vector_frac_sat_8.h:120`, "arithmetic shift"); a `frac8`
  shifted left by 9 or more passes its word of double width and may change sign.
- `vector_math.h`: `pow` of a fractional row with exponent 0 gives the smallest
  step, not one.
- `vector_row_math.h:45`: `saturate_weight` compares unsigned elements as signed ones:
  128 and more become 0 (lines 32 and 47, "[0,64)", "set >63 to 63").
- `vector.h:89`, `reset_neurons.h:17`: masks are compared as signed bytes: 128 and
  more choose nothing (`vector.h:80`, "values > 0 indicate usage"; `reset_neurons.h:9`,
  a `uint8_t` "larger than zero").
- `syn.h:26`: `set_weights` has no `sync`, so a read by the omnibus may come before
  the write; nothing says that it may.
- `parallel_rng.h`: `parallel_rng_rand` for half rows misses a `typename` and
  cannot be instantiated. `spikes.cpp:10`: `isi * 250` is narrowed.

## What is not modelled

| part | why |
|---|---|
| `set_service` of the event sources | services are not told apart; an event points to its timer's service, so it runs what is set when it is run |
| registers in `isr.h` | which ones a service routine misses depends on the compiler |
| the stack protector's canary, `__cxa_pure_virtual` | undefined writes and calls would have to be assumed first; both end in `exit` with a constant |
| sections of the external memories | data of the linker |
| comparison of whole vectors, `fxv.h`'s hand-written loads | instruction sequences without a decision |
| conversions of fractions from and to float | floating point |
| `parallel_rng.h`, quality of random numbers | registers of the chip; statistics |
| spikes, synchronisation, single words on the omnibus | stores and instructions that touch no state of the library |
| chip revisions | constants |
| what the test framework writes as text | left to `Mailbox` |
| Python bindings, examples, build | no behaviour of the library |

## Plan

Done: barrier, queue, timers, scheduler, time base, location, mailbox with its
reads, test program, heap and stack and their composition, vector elements and
rows, addresses, UART, numerics, chip rows; proofs of barrier, queue, scheduler,
location, time base, timers, mailbox, heap and stack, runtime, arithmetic,
rounding, rows, chip access, addresses, generators and helpers.

What would come next:

1. **The UART**, with recursive functions on sequences in the place of folds and
   with what its clocks have to keep as an assumption, so that its law can be proved too.
2. **Services as values** in the scheduler, so that `set_service` meets queued events.
3. **Two programs.** The barrier, `get_location` and a mailbox each in one
   composition of both PPUs.
