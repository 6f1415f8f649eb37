---------------------------- MODULE MCLibraryCalls ----------------------------
(***************************************************************************)
(* Words around zero, the ends of both ranges, and the steps between; every*)
(* byte of scaled memories, every kind of word on the UART's line, and     *)
(* rows of two words with masks on both sides of the sign.                 *)
(***************************************************************************)
EXTENDS LibraryCalls

MCSamples8 == {0, 1, 2, 3, 31, 63, 64, 65, 100, 126, 127, 128, 129, 191, 192, 254, 255}
MCSamples16 == {0, 1, 2, 3, 127, 128, 255, 256, 257, 8191, 16384, 32766, 32767,
                32768, 32769, 49152, 49153, 65279, 65280, 65407, 65534, 65535}
MCRowSteps == {1, 37, 4099, 32771}

MCUartConfigurations == [width : 1 .. 3, parity : {"NONE", "EVEN", "ODD"},
                         stop_bits : 1 .. 2, inverted : BOOLEAN]
MCUartTexts == {<<a, b>> : a, b \in 0 .. 7} \cup {<< >>}

\* Both ends of the DRAM and of each of its parts that differ in one bit
MCDramSamples == UNION {{2^k - 1, 2^k, 2^k + 1} : k \in 0 .. DramBits + 2}

\* Every bit on its own (xorshift32 is linear), none, and all
MCSeeds32 == {{i} : i \in WordBits32} \cup {{}, WordBits32, {0, 3, 7, 12, 13, 20, 31}}
MCCutoffs == {{i} : i \in {20, 28, 29, 30, 31}} \cup {{30, 31}, WordBits32}

MCMeasurements == {<<<<0, a>>, <<5, b>>, <<30, c>>>> : a, b, c \in {0, 1, 5, 7, 9, 30, 31}}
MCArrays == UNION {[1 .. n -> 1 .. 3] : n \in 1 .. 4}

MCChipVectors == {[i \in Entries |-> (c[1] * i + c[2]) % 256] :
                    c \in {<<0, 0>>, <<1, 0>>, <<1, 124>>, <<255, 1>>}}
MCMoments == {<<a, a + 1, a + 2, a + 3>> : a \in 0 .. 3}
=============================================================================
