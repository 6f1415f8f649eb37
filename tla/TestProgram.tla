----------------------------- MODULE TestProgram -----------------------------
(***************************************************************************)
(* A program on one PPU from reset to the exit code the host reads: the    *)
(* runtime of src/nux_runtime runs constructors, start(), destructors and  *)
(* exit(); the constructors register the test cases of                     *)
(* src/libnux/vx/testing.cpp; start() runs them all, and they count their  *)
(* checks in src/libnux/vx/unittest.cpp.                                   *)
(*                                                                         *)
(* An interrupt without a service routine branches to _isr_undefined,      *)
(* which the linker script places at the reset vector: the program starts  *)
(* again, and its static variables keep their values, for nobody loads     *)
(* them again.                                                             *)
(***************************************************************************)
EXTENDS Integers, Sequences, FiniteSets

CONSTANTS NumTests,         \* TEST() objects of the program
          MaxTests,         \* max_num_tests: 32
          DestructorCounts, \* how many functions .fini_array may have
          Codes,            \* values r3 may have
          MaxChecks,        \* bound: checks in a test case
          MaxRestarts       \* bound: interrupts

ASSUME TestProgramAssumption ==
  /\ NumTests \in Nat /\ MaxTests \in Nat /\ MaxChecks \in Nat /\ MaxRestarts \in Nat
  /\ DestructorCounts \subseteq Nat
  /\ {0, 1} \subseteq Codes

Tests == 1 .. NumTests

VARIABLES pc,          \* where the program is
          next,        \* loop variable of the runtime and of call_all()
          r3,          \* the register that passes a result
          destructors, \* functions in .fini_array
          exitCode,    \* the word above the stack; << >> before exit()
          \* static variables:
          creators,    \* TestFactory::creators up to TestFactory::id
          passed, failed,           \* num_passed, num_failed
          casesPassed, casesFailed, \* num_testcases_passed, num_testcases_failed
          passedOffset, failedOffset,
          action,      \* test_action
          \* history:
          done,        \* the completed test cases and their failing checks
          failures,    \* failing checks of the present test case
          boots,       \* Len(done) at the last reset, and how many there were
          way          \* how the program came to exit()

counters == <<passed, failed, casesPassed, casesFailed, passedOffset, failedOffset>>
history  == <<done, failures, boots, way>>
vars == <<pc, next, r3, destructors, exitCode, creators, counters, action, history>>

Locations == {"reset", "construct", "call_all", "case", "summary", "destroy",
              "exit", "stopped"}

TypeOK ==
  /\ pc \in Locations
  /\ next \in Nat
  /\ r3 \in Codes /\ exitCode \in {<< >>} \cup {<<c>> : c \in Codes}
  /\ destructors \in DestructorCounts
  /\ creators \in Seq(Tests) /\ Len(creators) <= MaxTests
  /\ \A count \in {passed, failed, casesPassed, casesFailed} : count \in Nat
  /\ passedOffset \in 0 .. passed /\ failedOffset \in 0 .. failed
  /\ action \in {"warning", "shutdown"}
  /\ done \in Seq([test : Tests, failures : 0 .. MaxChecks])
  /\ failures \in 0 .. MaxChecks
  /\ boots \in [from : 0 .. Len(done), count : 1 .. MaxRestarts + 1]
  /\ way \in {"none", "registration", "check", "shutdown", "return", "overflow"}

\* The program is loaded: static variables have their initial values.
Init == /\ pc = "reset" /\ next = 0
        /\ r3 \in Codes /\ exitCode = << >>
        /\ destructors \in DestructorCounts
        /\ creators = << >>
        /\ passed = 0 /\ failed = 0
        /\ casesPassed = 0 /\ casesFailed = 0
        /\ passedOffset = 0 /\ failedOffset = 0
        /\ action = "warning"
        /\ done = << >> /\ failures = 0
        /\ boots = [from |-> 0, count |-> 1]
        /\ way = "none"

-----------------------------------------------------------------------------

\* __init: set the stack pointer, call __call_constructors
Start == /\ pc = "reset"
         /\ pc' = "construct" /\ next' = 1
         /\ UNCHANGED <<r3, destructors, exitCode, creators, counters, action, history>>

\* exit(code) is called.
CallExit(code, how) == /\ pc' = "exit"
                       /\ r3' = code
                       /\ way' = how

\* Mistake: the bound is checked one too late.
RegisterOneMore ==
  /\ pc = "construct" /\ next <= NumTests
  /\ IF Len(creators) > MaxTests
     THEN CallExit(1, "registration") /\ UNCHANGED <<creators, next>>
     ELSE /\ creators' = Append(creators, next)
          /\ next' = next + 1
          /\ UNCHANGED <<pc, r3, way>>
  /\ UNCHANGED <<destructors, exitCode, counters, action, done, failures, boots>>

\* The constructor of a TEST() object: register_test()
Register ==
  /\ pc = "construct" /\ next <= NumTests
  /\ IF Len(creators) = MaxTests
     THEN CallExit(1, "registration") /\ UNCHANGED <<creators, next>>
     ELSE /\ creators' = Append(creators, next)
          /\ next' = next + 1
          /\ UNCHANGED <<pc, r3, way>>
  /\ UNCHANGED <<destructors, exitCode, counters, action, done, failures, boots>>

\* start() is called, and calls RUN_ALL_TESTS().
CallStart == /\ pc = "construct" /\ next > NumTests
             /\ pc' = "call_all" /\ next' = 1
             /\ UNCHANGED <<r3, destructors, exitCode, creators, counters, action, history>>

\* Mistake: the failures of earlier test cases are not set off.
TestcaseBeginHalf ==
  /\ pc = "call_all" /\ next <= Len(creators)
  /\ pc' = "case"
  /\ passedOffset' = passed
  /\ failures' = 0
  /\ UNCHANGED <<next, r3, destructors, exitCode, creators, passed, failed, casesPassed,
                 casesFailed, failedOffset, action, done, boots, way>>

\* testcase_begin()
TestcaseBegin ==
  /\ pc = "call_all" /\ next <= Len(creators)
  /\ pc' = "case"
  /\ passedOffset' = passed /\ failedOffset' = failed
  /\ failures' = 0
  /\ UNCHANGED <<next, r3, destructors, exitCode, creators, passed, failed, casesPassed,
                 casesFailed, action, done, boots, way>>

\* There is room for another check in the test case.
MoreChecks == passed - passedOffset + failures < MaxChecks

\* LIBNUX_TEST_PASSED
CheckPasses == /\ pc = "case" /\ MoreChecks
               /\ passed' = passed + 1
               /\ UNCHANGED <<pc, next, r3, destructors, exitCode, creators, failed, casesPassed,
                              casesFailed, passedOffset, failedOffset, action, history>>

\* test_shutdown()
TestShutdown(how) == CallExit(IF casesFailed # 0 THEN 1 ELSE 0, how)

\* LIBNUX_TEST_FAILED
CheckFails ==
  /\ pc = "case" /\ MoreChecks
  /\ failed' = failed + 1
  /\ failures' = failures + 1
  /\ IF action = "shutdown" THEN TestShutdown("check") ELSE UNCHANGED <<pc, r3, way>>
  /\ UNCHANGED <<next, destructors, exitCode, creators, passed, casesPassed, casesFailed,
                 passedOffset, failedOffset, action, done, boots>>

\* test_set_action()
TestSetAction(to) == /\ pc = "case"
                     /\ action' = to
                     /\ UNCHANGED <<pc, next, r3, destructors, exitCode, creators, counters, history>>

\* testcase_end(), and call_all() goes on to the next test
TestcaseEnd ==
  /\ pc = "case"
  /\ IF failed - failedOffset = 0
     THEN casesPassed' = casesPassed + 1 /\ UNCHANGED casesFailed
     ELSE casesFailed' = casesFailed + 1 /\ UNCHANGED casesPassed
  /\ done' = Append(done, [test |-> creators[next], failures |-> failures])
  /\ failures' = 0
  /\ next' = next + 1
  /\ pc' = "call_all"
  /\ UNCHANGED <<r3, destructors, exitCode, creators, passed, failed, passedOffset,
                 failedOffset, action, boots, way>>

\* Mistake: call_all() ends one test early.
SummaryEarly == /\ pc = "call_all" /\ next >= Len(creators)
                /\ pc' = "summary"
                /\ UNCHANGED <<next, r3, destructors, exitCode, creators, counters, action, history>>

\* call_all() has run all tests: test_summary()
Summary == /\ pc = "call_all" /\ next > Len(creators)
           /\ pc' = "summary"
           /\ UNCHANGED <<next, r3, destructors, exitCode, creators, counters, action, history>>

\* Mistake: the result tells whether a case has passed.
ReturnPassed == /\ pc = "summary"
                /\ r3' = IF casesPassed # 0 THEN 0 ELSE 1
                /\ way' = "return"
                /\ pc' = "destroy" /\ next' = 1
                /\ UNCHANGED <<destructors, exitCode, creators, counters, action, done, failures,
                               boots>>

\* start() returns what RUN_ALL_TESTS() returns.
ReturnResult == /\ pc = "summary"
                /\ r3' = IF casesFailed # 0 THEN 1 ELSE 0
                /\ way' = "return"
                /\ pc' = "destroy" /\ next' = 1
                /\ UNCHANGED <<destructors, exitCode, creators, counters, action, done, failures,
                               boots>>

\* start() ends with a call of test_shutdown().
ShutDown == /\ pc = "summary"
            /\ TestShutdown("shutdown")
            /\ UNCHANGED <<next, destructors, exitCode, creators, counters, action, done, failures,
                           boots>>

\* __call_destructors calls a function, which need not preserve r3.
Destroy == /\ pc = "destroy" /\ next <= destructors
           /\ r3' \in Codes
           /\ next' = next + 1
           /\ UNCHANGED <<pc, destructors, exitCode, creators, counters, action, history>>

\* __call_destructors returns, which need not preserve r3 either, and exit is called
\* with what is in r3.
EndDestroy == /\ pc = "destroy" /\ next > destructors
              /\ pc' = "exit"
              /\ r3' \in Codes
              /\ UNCHANGED <<next, destructors, exitCode, creators, counters, action, history>>

\* exit stores r3 for the host and waits forever.
Exit == /\ pc = "exit"
        /\ exitCode' = <<r3>>
        /\ pc' = "stopped"
        /\ UNCHANGED <<next, r3, destructors, creators, counters, action, history>>

\* An interrupt, also while the program waits in exit: the program begins anew.
Interrupt == /\ boots.count <= MaxRestarts
             /\ boots' = [from |-> Len(done), count |-> boots.count + 1]
             /\ pc' = "reset" /\ next' = 0
             /\ r3' \in Codes
             /\ failures' = 0 /\ way' = "none"
             /\ UNCHANGED <<destructors, exitCode, creators, counters, action, done>>

Step == \/ Start \/ Register \/ CallStart
        \/ TestcaseBegin \/ CheckPasses \/ CheckFails
        \/ \E to \in {"warning", "shutdown"} : TestSetAction(to)
        \/ TestcaseEnd \/ Summary
        \/ ReturnResult \/ ShutDown
        \/ Destroy \/ EndDestroy \/ Exit

Next == Step \/ Interrupt

Spec == Init /\ [][Next]_vars

-----------------------------------------------------------------------------

\* The completed test cases with a failing check, since the program was loaded.
FailedCases == {n \in DOMAIN done : done[n].failures > 0}

\* The verdict on a test case depends on its own checks only: not on those of
\* earlier cases, nor on those of a case that an interrupt has cut short, whose
\* counts are still in num_failed.
CasesJudgedAlone == /\ casesFailed = Cardinality(FailedCases)
                    /\ casesPassed = Len(done) - casesFailed

\* When the summary is written, every test of the program has run since the
\* last reset: as often as it was registered, which after interrupts is more
\* than once.
EveryTestRuns ==
  pc = "summary" =>
    \A t \in Tests :
      LET runs == {n \in boots.from + 1 .. Len(done) : done[n].test = t}
          registrations == {n \in DOMAIN creators : creators[n] = t}
      IN  Cardinality(runs) = Cardinality(registrations) /\ runs # {}

\* What the completed test cases since the program was loaded amount to
Verdict == IF FailedCases = {} THEN 0 ELSE 1

\* The exit code the host reads is the verdict if the program ends with
\* test_shutdown(), and 1 if there were too many tests; if start() returns, it
\* returns the verdict. (Between that return and exit() it may be lost, although
\* crt_shutdown.s:5 expects it in r3. The code means nothing if a failing check
\* shuts the program down: the failure of its own test case is not counted yet.)
ExitCodeHonest ==
  /\ pc = "stopped" /\ way = "registration" => exitCode = <<1>>
  /\ pc = "stopped" /\ way = "shutdown" => exitCode = <<Verdict>>
  /\ pc = "destroy" /\ next = 1 => r3 = Verdict
=============================================================================
