---------------------------- MODULE MCScheduler ----------------------------
(***************************************************************************)
(* Instances of the scheduler for TLC.                                     *)
(***************************************************************************)
EXTENDS Scheduler

\* first deadline, period, number of periods
ShortAndLong == {<<1, 2, 3>>, <<0, 3, 2>>}
OneSchedule  == {<<1, 3, 2>>}

\* deadline, window
NearAndFar == {<<3, 2>>, <<6, 0>>}
NoShots    == {}
=============================================================================
