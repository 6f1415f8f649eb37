----------------------------- MODULE LibraryCalls -----------------------------
(***************************************************************************)
(* A program that calls the functions of libnux that only compute, one at  *)
(* a time: those of VectorUnit, and those of the modules of addresses, of  *)
(* the UART, of the numerical helpers and of the memories of the chip.     *)
(***************************************************************************)
EXTENDS VectorUnit, GlobalAddress, SoftUart, Numerics, ChipMemory

CONSTANTS UartConfigurations, \* width, parity, stop bits and polarity
          UartTexts,          \* sequences of words that are sent
          MaxSum,             \* bound: bytes added to an address
          DramSamples,        \* bound: offsets into the external DRAM
          Seeds32,            \* seeds of xorshift32: sets of bits
          Cutoffs,            \* cutoffs of draw_poisson(): sets of bits
          TimeBits,           \* of the times that are measured
          Measurements,       \* measured pairs of times
          Arrays,             \* arguments of find_max_amount()
          ChipVectors,        \* vectors of bytes, values as well as masks
          Moments             \* moments of four reads, one after the other

ASSUME CallsAssumption == /\ MaxSum \in Nat
                          /\ DramSamples \subseteq Nat
                          /\ ChipVectors \subseteq [Entries -> 0 .. 255]
ASSUME NumbersAssumption == /\ Seeds32 \subseteq SUBSET WordBits32
                            /\ TimeBits \in Nat
                            /\ Measurements \subseteq Seq(Nat \X Nat) \ {<< >>}
                            /\ Arrays \subseteq Seq(Nat) \ {<< >>}

\* How much can be late in a word: none of the sleeps, every one, or the first ones
Lateness == {[i \in 1 .. WordBits + 4 |-> IF i <= n THEN Late ELSE 0] : n \in 0 .. WordBits + 4}

SendWords ==
  /\ call = Idle
  /\ \E config \in UartConfigurations, words \in UartTexts, late \in Lateness :
       Called([function |-> "uart", config |-> config, words |-> words,
               result |-> Received(config, Levels(Line(config, words, late)))])

SendText ==
  /\ call = Idle
  /\ \E config \in UartConfigurations, text \in UartTexts, size \in 1 .. 3 :
       /\ \A n \in DOMAIN text : text[n] # 0
       /\ LET line == printf(config, text, size, [i \in 1 .. WordBits + 4 |-> 0])
          IN  Called([function |-> "printf", config |-> config, words |-> text, size |-> size,
                      result |-> Received(config, Levels(line))])

Memories == {"top", "bottom", "extmem", "dram"}

\* The bytes of a memory an address is made for
MemorySize(memory) == 4 * (CASE memory \in Ppus -> sram_size
                             [] memory = "extmem" -> extmem_size
                             [] memory = "dram" -> extmem_dram_size)
OffsetsIn(memory) == IF memory = "dram" THEN DramSamples ELSE 0 .. MemorySize(memory) - 1

\* from_relative() and addition, and what comes of it for either PPU
Address ==
  /\ call = Idle
  /\ \E memory \in Memories, ppu \in Ppus, sum \in 0 .. MaxSum :
       \E bytes \in OffsetsIn(memory) :
         /\ bytes + sum < MemorySize(memory)
         /\ LET a == PlusBytes(from_relative(memory, bytes), sum)
                ptr == Pointer(a)
            IN  Called([function |-> "address", memory |-> memory, ppu |-> ppu, a |-> a,
                        bytes |-> bytes + sum,
                        result |->
                          [sum    |-> Plus2(from_relative(memory, bytes), from_global(0, sum)),
                           global |-> to_global_omnibus_byte(a),
                           scalar |-> IF memory \in Ppus THEN to_scalar_addr(to_sram(a), ppu)
                                      ELSE to_ext_scalar_addr(ptr, memory),
                           vector |-> IF memory \in Ppus THEN to_vector_addr(to_sram(a))
                                      ELSE to_fxviox_addr(ptr, memory),
                           near   |-> IF memory \in Ppus THEN is_local(to_sram(a), ppu) ELSE FALSE,
                           valid  |-> IF memory \in Ppus THEN sram_valid(to_sram(a))
                                      ELSE ext_valid(ptr, memory)]])

\* The kinds of memory any address is taken for
Classify ==
  /\ call = Idle
  /\ \E addr \in 0 .. TwoTo[AddressBits] - 1 :
       LET a == from_global(addr, 0)
       IN  Called([function |-> "classify", a |-> addr,
                   result |-> {k \in {"sram", "extmem", "dram"} :
                                 CASE k = "sram"   -> is_sram(a)
                                   [] k = "extmem" -> is_extmem(a)
                                   [] k = "dram"   -> is_extmem_dram(a)}])

\* The exponentials, those of the series where they are within its range
Exponential ==
  /\ call = Idle
  /\ \E x \in 1 - 11 * INV_SCALE .. 9 * INV_SCALE :
       Called([function |-> "exp", a |-> x,
               result |-> [exp_6b |-> <<exp_6b(x - 1), exp_6b(x)>>,
                           exp_6  |-> exp_6(x),
                           exp_n  |-> exp_n(x, 6),
                           narrow |-> fxdpt_32_to_16_bits(x)]])

Draw ==
  /\ call = Idle
  /\ \/ \E seed \in Seeds32 :
          Called([function |-> "xorshift", seed |-> seed, result |-> xorshift32(seed)])
     \/ \E seed \in Seeds32, cutoff \in Cutoffs :
          Called([function |-> "poisson", seed |-> seed, cutoff |-> cutoff,
                  result |-> draw_poisson(seed, cutoff, 3, 8)])
     \/ \E seed \in 0 .. TwoTo[12] - 1 :
          Called([function |-> "lcg", a |-> seed, result |-> random_lcg(seed)])

Help ==
  /\ call = Idle
  /\ \/ \E b \in SUBSET (0 .. 7) :
          Called([function |-> "reverse", byte |-> b, result |-> reverse_byte(b)])
     \/ \E a, b \in 0 .. 15 :
          Called([function |-> "diff", a |-> a, b |-> b, result |-> abs_diff(a, b)])
     \/ \E array \in Arrays :
          Called([function |-> "amount", array |-> array, result |-> find_max_amount(array)])
     \/ \E times \in Measurements :
          Called([function |-> "times", times |-> times,
                  result |-> [average |-> average(TimeBits, times),
                              max     |-> max_time(TimeBits, times),
                              min     |-> min_time(TimeBits, times)]])

\* A memory whose bytes all differ
Numbered == [index \in VectorIndices |-> [i \in Entries |-> 1 + index * VectorBytes + i]]

\* A row is written in one of the ways there are, and read in all of them.
Written(way, memory, values, mask, row) ==
  CASE way = "row"     -> set_row_via_vector(memory, values, row)
    [] way = "masked"  -> set_row_via_vector_masked(memory, values, mask, row)
    [] way = "weights" -> set_weights(memory, <<values.even, values.odd>>, row)
    [] way = "vectors" -> set_vector(set_vector(memory, values.even, 2 * row),
                                     values.odd, 2 * row + 1)

ReadRow(memory, omnibus, row) ==
  [vector  |-> get_row_via_vector(memory, row),
   omnibus |-> get_row_via_omnibus(omnibus, row),
   weights |-> get_weights(memory, row),
   halves  |-> <<get_vector(memory, 2 * row), get_vector(memory, 2 * row + 1)>>]

AccessRow ==
  /\ call = Idle
  /\ \E row \in 0 .. ChipRows - 1, way \in {"row", "masked", "weights", "vectors"},
        even, odd, mask_even, mask_odd \in ChipVectors :
       LET values == [even |-> even, odd |-> odd]
           mask   == [even |-> mask_even, odd |-> mask_odd]
           memory == Written(way, Numbered, values, mask, row)
       IN  /\ way # "masked" => mask_even = even /\ mask_odd = odd
           /\ \E arrived \in Arrivals(way # "weights", row) :
                LET omnibus == Arriving(Numbered, memory, arrived)
                IN  Called([function |-> "access", row |-> row, way |-> way,
                            values |-> values, mask |-> mask,
                            reset |-> reset_neurons(mask_even, mask_odd),
                            result |-> [r \in 0 .. ChipRows - 1 |->
                                          ReadRow(memory, omnibus, r)]])

Correlate ==
  /\ call = Idle
  /\ \E moments \in Moments, row \in 0 .. ChipRows - 1 :
       Called([function |-> "correlation", row |-> row, moments |-> moments,
               result |-> get_correlation(moments),
               causal |-> get_causal_correlation(moments),
               acausal |-> get_acausal_correlation(moments),
               reset |-> reset_correlation(row), all |-> reset_all_correlations])

CallsNext == \/ VectorNext
             \/ SendWords \/ SendText \/ Address \/ Classify
             \/ Exponential \/ Draw \/ Help
             \/ AccessRow \/ Correlate

CallsSpec == CallInit /\ [][CallsNext]_call

-----------------------------------------------------------------------------

\* A receiver that reads each bit in the middle of its time receives the words
\* that were sent (uart.cpp:43), one after the other without a pause, as long as
\* the configuration has a stop bit and the sleeps of a word are not late by half
\* a bit altogether. A word that is wider than the configuration is cut off, and
\* one that is not comes with its parity. Of a text that is printed, as much arrives
\* as fits into the buffer together with a null character (uart.cpp:85).
WordsArrive ==
  IsCall("uart") \/ IsCall("printf") =>
    LET config == call.config
        length == Len(call.words)
    IN  /\ Len(call.result) =
             IF IsCall("printf") /\ call.size <= length THEN call.size - 1 ELSE length
        /\ \A n \in DOMAIN call.result :
             LET word == call.words[n]
                 got  == call.result[n]
                 ones == Cardinality({i \in 0 .. config.width - 1 : BitOf(got.data, i) = 1})
             IN  /\ got.data = word % 2^config.width
                 /\ word < 2^config.width =>
                      /\ config.parity = "EVEN" => (ones + got.parity) % 2 = 0
                      /\ config.parity = "ODD" => (ones + got.parity) % 2 = 1

\* Where the bytes of a memory are for the scalar unit of a PPU: the hardware's
\* view, as the linker script (elf32nux.x:2) and the table in globaladdress.h:47
\* have it. No two bytes are at the same place.
ScalarPlace(memory, bytes, ppu) ==
  CASE memory = ppu -> bytes
    [] memory \in Ppus \ {ppu} ->
         TwoTo[AddressBits-1] + 4 * (IF memory = "top" THEN sram_top ELSE sram_bot) + bytes
    [] memory = "extmem" -> TwoTo[AddressBits-2] + bytes
    [] memory = "dram"   -> TwoTo[AddressBits-2] + TwoTo[DramBits+2] + bytes

\* An address made from an offset, also with bytes added to it that carry into
\* the next word, means the byte with that offset: for the omnibus, for the scalar
\* unit of the PPU that owns the memory and of the other one, and for the vector
\* unit, which reaches external memories in units of 16 bytes. An address of a
\* PPU's memory or of the external one is valid and near exactly where it should
\* be. (The DRAM's addresses are not: see the README.)
AddressesMeanBytes ==
  IsCall("address") =>
    LET memory == call.memory
        bytes  == call.bytes
        base   == CASE memory = "top" -> sram_top [] memory = "bottom" -> sram_bot
                    [] memory = "extmem" -> extmem [] memory = "dram" -> extmem_dram
        r      == call.result
    IN  /\ call.a = from_global(base, bytes) /\ r.sum = call.a
        /\ r.global = 4 * base + bytes
        /\ r.scalar = ScalarPlace(memory, bytes, call.ppu)
        /\ memory \in Ppus => r.vector = bytes /\ (r.near <=> memory = call.ppu)
        /\ memory = "extmem" => r.vector = TwoTo[AddressBits-1] + bytes \div 16
        /\ memory = "dram" =>
             r.vector = TwoTo[AddressBits-1] + TwoTo[DramBits-2] + bytes \div 16
        /\ memory # "dram" => r.valid

\* No address is taken for two kinds of memory (is_sram and its kind,
\* globaladdress.h:437), and each byte of the PPUs' memories and of the external
\* one is taken for what it is.
KindsAreDisjoint ==
  IsCall("classify") =>
    LET in(base, size) == base <= call.a /\ call.a < base + size
    IN  /\ \A k, l \in call.result : k = l
        /\ in(sram_top, sram_size) \/ in(sram_bot, sram_size) => call.result = {"sram"}
        /\ in(extmem, extmem_size) => call.result = {"extmem"}
        /\ "dram" \in call.result => in(extmem_dram, extmem_dram_size)

\* Both, for the run.
AddressesAreExact == AddressesMeanBytes /\ KindsAreDisjoint

\* The table and the series of exp_6b() fit together (exp.cpp:73): between two
\* integers it is between their exponentials, and from one number to the next, also
\* where x changes from one integer to the other, it never falls by more than one
\* part in 256. exp_6() and exp_6(-x) are inverse to each other, to one part in 64,
\* where no product overflows (|x| < 0.7), exp_n() agrees with it for positive x
\* there, and at integers both are the exact sum. A narrowed number that fits
\* is exact (fxdpt.h:25).
ExponentialLaws ==
  IsCall("exp") =>
    LET x == call.a
        k == x \div INV_SCALE
        r == call.result
        e == r.exp_6b[2]
        before == r.exp_6b[1]
        sum(i) == 120 + 120 * i + 60 * i^2 + 20 * i^3 + 5 * i^4 + i^5
        near(v, w, bound) == v - w <= bound /\ w - v <= bound
    IN  /\ IntegerPower(k) <= e /\ e <= IntegerPower(k + 1)
        /\ before - e <= 1 + e \div 256
        /\ 10 * x < 7 * INV_SCALE /\ -10 * x < 7 * INV_SCALE =>
             /\ near(r.exp_6 * exp_6(-x), INV_SCALE^2, INV_SCALE^2 \div 64)
             /\ x >= 0 => near(r.exp_n, r.exp_6, 4)
        /\ x % INV_SCALE = 0 /\ k \in -2 .. 2 =>
             /\ near(120 * r.exp_6, sum(k) * INV_SCALE, 5 * 120)
             /\ k >= 0 => near(r.exp_n, r.exp_6, 4)
        /\ LET v == Quotient(x, INV_SCALE \div 16)
           IN  -(2^(FracBits-1)) <= v /\ v < 2^(FracBits-1) => r.narrow = v

\* The numbers of the generators come back to every seed (random.cpp:5, 28): each
\* can be undone, so that xorshift32() never reaches zero from another seed and
\* no two seeds of random_lcg() lead to the same number (2245 is inverse to 1549). A draw of draw_poisson()
\* is over sooner for a larger cutoff, and what is drawn is the number of steps
\* of the generator above the cutoff.
GeneratorsInvertible ==
  /\ IsCall("xorshift") =>
       LET shifted(a, n) == Xor(a, Left(a, n))
           second == shifted(shifted(shifted(call.result, 5), 10), 20)
           first  == Xor(second, Right(second, 17))
       IN  /\ shifted(shifted(first, 13), 26) = call.seed
           /\ (call.result = {}) = (call.seed = {})
  /\ IsCall("lcg") => (2245 * (call.result - 863)) % TwoTo[12] = call.a
  /\ IsCall("poisson") => \A cutoff \in Cutoffs :
       LET other == draw_poisson(call.seed, cutoff, 3, 8)
       IN  other.found /\ Greater(call.cutoff, cutoff) =>
             call.result.found /\ call.result.t <= other.t

\* Reversing a byte mirrors its bits (bitformatting.cpp:6); the difference of two
\* unsigned numbers is that of the larger and the smaller one (helper.h:10); the
\* most frequent value of an array is never less frequent than another one
\* (helper.h:20), although its last place is not looked at; the shortest, the
\* average and the longest of measured durations are in this order, also when the
\* clock wraps around within one of them, if their sum fits into the word (time.h:76).
HelpersKeepLaws ==
  /\ IsCall("reverse") => call.result = {7 - i : i \in call.byte}
  /\ IsCall("diff") => call.result \in {call.a - call.b, call.b - call.a} \cap Nat
  /\ IsCall("amount") =>
       LET amount(v) == Cardinality({i \in DOMAIN call.array : call.array[i] = v})
       IN  \A i \in DOMAIN call.array : amount(call.array[i]) <= amount(call.result)
  /\ IsCall("times") /\ Len(call.times) * call.result.max < TwoTo[TimeBits] =>
       /\ call.result.min <= call.result.average
       /\ call.result.average <= call.result.max

\* Both, for the run.
NumbersKeepLaws == GeneratorsInvertible /\ HelpersKeepLaws

\* What is read of row r after a write, element by element
ReadAsWritten(access, r) ==
  LET got == access.result[r]
      old == [even |-> Numbered[2 * r], odd |-> Numbered[2 * r + 1]]
  IN  /\ got.weights = <<got.vector.even, got.vector.odd>>
      /\ got.halves = got.weights
      /\ access.way # "weights" => got.omnibus = got.vector
      /\ \A parity \in {"even", "odd"}, i \in Entries :
           LET value == got.vector[parity][i]
               mask  == access.mask[parity][i]
               used  == access.way = "masked" => mask > 0
           IN  /\ got.omnibus[parity][i] \in {value, old[parity][i]}
               /\ r # access.row => value = old[parity][i]
               /\ r = access.row /\ (access.way = "masked" => mask < 128) =>
                    value = IF used THEN access.values[parity][i] ELSE old[parity][i]
               /\ mask < 128 => (<<parity, i>> \in access.reset <=> mask > 0)

\* Whichever way a row is written, all ways to read it agree, element by element
\* (vector.h:60, 128, syn.h:26), but for the omnibus after set_weights(), which may
\* still return what a word was. The other rows keep what they had. Of a mask's
\* bytes below 128, those above zero, and no others, write their columns
\* (vector.h:80) and reset their neurons (reset_neurons.h:9). (A byte of 128 or more
\* does neither, although the masks are uint8_t and the documentation says "> 0".)
RowAccessesAgree ==
  IsCall("access") => \A r \in 0 .. ChipRows - 1 : ReadAsWritten(call, r)

\* All four vectors of get_correlation() are from the moment of its first read,
\* although the hardware goes on between the reads (correlation.h:24), and resetting
\* all correlations resets those of every row, as often as one row's (correlation.cpp:5).
CorrelationOfOneMoment ==
  IsCall("correlation") =>
    /\ \A reads \in {call.result, call.causal, call.acausal} :
         \A half \in DOMAIN reads : reads[half] = call.moments[1]
    /\ call.reset \subseteq call.all /\ call.all = VectorIndices

\* Both, for the run.
ChipAccessesAgree == RowAccessesAgree /\ CorrelationOfOneMoment
=============================================================================
