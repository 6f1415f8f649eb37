----------------------------- MODULE MCMailbox -----------------------------
(***************************************************************************)
(* Instances of the mailbox for TLC.                                       *)
(***************************************************************************)
EXTENDS Mailbox

\* "", "0", "10"
ShortStrings == {<<>>, <<Digit0>>, <<Digit0 + 1, Digit0>>}
TwoVectors   == {<<-1, 0>>, <<0, 3>>}
TwoBlocks    == {<<0>>, <<0, 0>>}
\* "100"
Lowest       == <<Digit0 + 1, Digit0, Digit0>>
SomeNumbers  == {IntMin, -1, 0, 3}
Nothing      == {}
=============================================================================
