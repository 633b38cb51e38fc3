----------------------------- MODULE MemorySearch -----------------------------
(***************************************************************************)
(* search_mem of tools/memory_tools.py: a region is read chunk by chunk,   *)
(* and the end of each chunk is kept to find what straddles the boundary,  *)
(* while the game, which is not paused, goes on writing.                   *)
(*                                                                         *)
(* Every byte is read once: read holds it, so prev_tail is the last tail   *)
(* bytes of read before the cursor.  hits is the list of results as a bag: *)
(* how often each offset is reported.  lasting is a history variable.      *)
(* Operators commented "Mutant" are faulty variants of the definition that *)
(* follows them; no specification uses them.                               *)
(***************************************************************************)
EXTENDS MemoryMap, Sequences

CONSTANTS Byte,         \* the values of a byte
          Chunk,        \* CHUNK
          MaxPattern    \* bound: the longest pattern searched for

\* CHUNK is 4 MB; a pattern is at most one byte longer
ASSUME ChunkAssumption == /\ {Chunk, MaxPattern} \subseteq Nat \ {0}
                          /\ MaxPattern - 1 <= Chunk

VARIABLES region,    \* the region searched
          mem,       \* its contents, by offset
          pattern,   \* pat
          cursor,
          tail,      \* len(prev_tail)
          read,      \* the bytes read, by offset
          hits,      \* how often each offset is in the list returned
          lasting    \* the offsets at which the pattern has been all along

vars == <<region, mem, pattern, cursor, tail, read, hits, lasting>>

Size == RegionSize(region)
Offset == 0..(Size - 1)
Patterns == UNION {[1..n -> Byte] : n \in 1..MaxPattern}

\* the pattern is at offset v of the bytes m
Occurs(m, v) == /\ v + Len(pattern) <= Size
                /\ \A k \in 1..Len(pattern) : m[v + k - 1] = pattern[k]

Init == /\ region \in Region
        /\ mem \in [Offset -> Byte]
        /\ pattern \in Patterns
        /\ cursor = 0 /\ tail = 0
        /\ read = mem
        /\ hits = [v \in Offset |-> 0]
        /\ lasting = {v \in Offset : Occurs(mem, v)}

\* Mutant: the last chunk is read in full length
ChunkLengthFixed == Chunk

ChunkLength == IF Size - cursor < Chunk THEN Size - cursor ELSE Chunk

ReadChunk == [v \in Offset |-> IF cursor <= v /\ v < cursor + ChunkLength
                                 THEN mem[v] ELSE read[v]]

\* what is found in prev_tail + chunk
Found == {v \in (cursor - tail)..(cursor + ChunkLength - Len(pattern)) :
            Occurs(ReadChunk, v)}

\* Mutant: nothing is kept
KeptNone(n) == 0

\* Mutant: as many bytes are kept as the pattern has
KeptWhole(n) == IF Len(pattern) < n THEN Len(pattern) ELSE n

\* chunk[-overlap:], at most the chunk itself
Kept(n) == IF Len(pattern) - 1 < n THEN Len(pattern) - 1 ELSE n

\* _read raises unless the chunk is routed
Scan == /\ cursor < Size
        /\ IsValid(Base(region) + cursor, ChunkLength)
        /\ read' = ReadChunk
        /\ hits' = [v \in Offset |-> hits[v] + IF v \in Found THEN 1 ELSE 0]
        /\ tail' = Kept(ChunkLength)
        /\ cursor' = cursor + ChunkLength
        /\ UNCHANGED <<region, mem, pattern, lasting>>

\* the game (external) writes a byte
GameWrites(v, b) == /\ mem' = [mem EXCEPT ![v] = b]
                    /\ lasting' = {u \in lasting : Occurs(mem', u)}
                    /\ UNCHANGED <<region, pattern, cursor, tail, read, hits>>

Next == Scan \/ \E v \in Offset, b \in Byte : GameWrites(v, b)

Spec == Init /\ [][Next]_vars

\* search_mem is one sequential loop
FairSpec == Spec /\ WF_vars(Scan)

-----------------------------------------------------------------------------
(* Properties                                                              *)

TypeOK == /\ region \in Region
          /\ mem \in [Offset -> Byte]
          /\ pattern \in Patterns
          /\ cursor \in 0..Size
          /\ tail \in 0..(Len(pattern) - 1)
          /\ read \in [Offset -> Byte]
          /\ hits \in [Offset -> Nat]
          /\ lasting \subseteq Offset

\* search_mem_tool, "Find every occurrence": each occurrence in the bytes read
\* is reported once, wherever the chunks end, and nothing else is.
ReportsEachOnce ==
  \A v \in Offset :
    hits[v] = IF v + Len(pattern) <= cursor /\ Occurs(read, v) THEN 1 ELSE 0

\* The game may write during the search: what was in memory all along is found.
FindsLasting ==
  \A v \in lasting : v + Len(pattern) <= cursor => hits[v] = 1

\* The search reads the whole region and never an address that route() refuses.
SearchEnds == <>(cursor = Size)
=============================================================================
