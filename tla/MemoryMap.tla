------------------------------ MODULE MemoryMap ------------------------------
(***************************************************************************)
(* memory/routing.py: virtual addresses to regions and offsets.  Addresses *)
(* are integers of any size, as Python's are; the two regions are          *)
(* constants, so that small ones can be checked.                           *)
(***************************************************************************)
EXTENDS Integers

CONSTANTS Mem1Base, Mem1Size,   \* MEM1_BASE, MEM1_SIZE
          Mem2Base, Mem2Size    \* MEM2_BASE, MEM2_SIZE

\* 0x80000000 + 24 MB is below 0x90000000
ASSUME RegionsAssumption ==
  /\ {Mem1Base, Mem2Base} \subseteq Nat
  /\ {Mem1Size, Mem2Size} \subseteq Nat \ {0}
  /\ Mem1Base + Mem1Size <= Mem2Base

Region == {"MEM1", "MEM2"}
Base(r) == IF r = "MEM1" THEN Mem1Base ELSE Mem2Base
RegionSize(r) == IF r = "MEM1" THEN Mem1Size ELSE Mem2Size
End(r) == Base(r) + RegionSize(r)

Holds(r, addr) == Base(r) <= addr /\ addr < End(r)

\* what route() returns, as a set: empty when it raises
Routes(addr, size) ==
  {[region |-> r, offset |-> addr - Base(r), size |-> End(r) - addr] :
     r \in {q \in Region : size > 0 /\ Holds(q, addr) /\ addr + size <= End(q)}}

IsValid(addr, size) == Routes(addr, size) # {}
=============================================================================
