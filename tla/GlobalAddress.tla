---------------------------- MODULE GlobalAddress ----------------------------
(***************************************************************************)
(* class GlobalAddress of src/include/libnux/vx/globaladdress.h: one       *)
(* address for every byte of both PPUs' memories and of the two external   *)
(* ones, and what it is for the scalar and the vector unit of either PPU.  *)
(*                                                                         *)
(* An address counts words of four bytes. The constants are the bits that  *)
(* tell the memories apart; in the program they are 32, 25, 12, 15 and 26. *)
(***************************************************************************)
EXTENDS PowersOfTwo

CONSTANTS AddressBits, \* of omnibus_address and byte_address
          PpuBit,      \* set in the addresses of the PPUs' memories
          SramBits,    \* a PPU's memory has 2^SramBits words
          ExtMemBits,  \* the external memory has 2^ExtMemBits words
          DramBits     \* the external DRAM has 2^DramBits words

ASSUME GlobalAddressAssumption ==
  /\ {AddressBits, PpuBit, SramBits, ExtMemBits, DramBits} \subseteq Nat
  /\ 4 < SramBits + 2 /\ SramBits < ExtMemBits /\ ExtMemBits < PpuBit - 2
  /\ PpuBit < DramBits /\ DramBits < AddressBits - 4

\* enum class PPUOnDLS
Ppus == {"top", "bottom"}

Wrapped(v) == v % TwoTo[AddressBits]

\* The operator of the language, bit by bit, for an address in words of four bytes
\* as well as for one in bytes
Bit(v, n) == (v \div TwoTo[n]) % 2
Or(a, b) == LET lowest[n \in 0 .. AddressBits + 2] ==
                  IF n = 0 THEN 0
                  ELSE lowest[n-1] + (IF Bit(a, n-1) = 1 \/ Bit(b, n-1) = 1
                                      THEN TwoTo[n-1] ELSE 0)
            IN  lowest[AddressBits + 2]

\* struct AddressSpace
sram_top    == TwoTo[PpuBit] + TwoTo[PpuBit-2]
sram_bot    == sram_top + TwoTo[PpuBit-1]
extmem      == TwoTo[AddressBits-1]
extmem_dram == extmem + TwoTo[DramBits]
sram_size        == TwoTo[SramBits]
extmem_size      == TwoTo[ExtMemBits]
extmem_dram_size == TwoTo[DramBits]

\* The base addresses of dls.tcc
extmem_data_base      == TwoTo[AddressBits-2]
extmem_dram_data_base == extmem_data_base + TwoTo[DramBits+2]
dls_extmem_base       == TwoTo[AddressBits-1]
dls_extmem_dram_base  == dls_extmem_base + TwoTo[DramBits-2]
ppu_omnibus_chip      == TwoTo[AddressBits-1]

-----------------------------------------------------------------------------

from_global(address, bytes) == [addr |-> Wrapped(address + bytes \div 4), offset |-> bytes % 4]

\* operator+ and operator+= on two addresses
Plus2(a, b) == [addr   |-> Wrapped(a.addr + b.addr + (a.offset + b.offset) \div 4),
                offset |-> (a.offset + b.offset) % 4]

\* Mistake: no carry from the offset into the word's address.
PlusBytesNoCarry(a, bytes) == [addr   |-> Wrapped(a.addr + bytes \div 4),
                               offset |-> Wrapped(a.offset + bytes) % 4]

\* operator+ and operator+= on bytes
PlusBytes(a, bytes) == LET sum == Wrapped(a.offset + bytes)
                       IN  [addr |-> Wrapped(a.addr + sum \div 4), offset |-> sum % 4]

\* from_relative(): a memory's base address with the offset put into it
Relative(base, bytes) == [addr |-> Or(bytes \div 4, base), offset |-> bytes % 4]

from_relative(memory, bytes) ==
  Relative(CASE memory = "top"    -> sram_top
             [] memory = "bottom" -> sram_bot
             [] memory = "extmem" -> extmem
             [] memory = "dram"   -> extmem_dram, bytes)

to_global_omnibus_byte(a) == Or(4 * a.addr, a.offset)

\* The pointer that ExtMemBase and SRAM keep: a byte address of AddressBits bits
Pointer(a) == Or(Wrapped(4 * a.addr), a.offset)

\* ExtMemBase, with the bases of ExtMem and ExtMemDRAM
to_fxviox_addr(ptr, memory) ==
  Or(ptr \div 16, IF memory = "dram" THEN dls_extmem_dram_base ELSE dls_extmem_base)
to_ext_scalar_addr(ptr, memory) ==
  Or(ptr, IF memory = "dram" THEN extmem_dram_data_base ELSE extmem_data_base)
ext_valid(ptr, memory) ==
  ptr < Wrapped(4 * (IF memory = "dram" THEN extmem_dram_size ELSE extmem_size))

\* SRAM
to_sram(a) == [ptr |-> Pointer(a), me |-> IF a.addr < sram_bot THEN "top" ELSE "bottom"]

LocalPart(ptr) == ptr % TwoTo[SramBits+2]
to_vector_addr(s) == LocalPart(s.ptr)

is_local(s, me) == s.me = me

to_scalar_addr(s, ppu) == IF ppu = s.me THEN LocalPart(s.ptr) ELSE Or(s.ptr, ppu_omnibus_chip)

sram_valid(s) == \E base \in {sram_top, sram_bot} :
                   Wrapped(4 * base) <= s.ptr /\ s.ptr < Wrapped(4 * (base + sram_size))

\* The kinds of memory an address is taken for. The size that is_extmem_dram()
\* uses is that of the external memory, and is_sram() does not look between the
\* two memories.
is_extmem(a)      == extmem <= a.addr /\ a.addr < extmem + extmem_size
is_extmem_dram(a) == extmem_dram <= a.addr /\ a.addr < extmem_dram + extmem_size
is_sram(a)        == sram_top <= a.addr /\ a.addr < sram_bot + sram_size
=============================================================================
