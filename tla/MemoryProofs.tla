----------------------------- MODULE MemoryProofs -----------------------------
(***************************************************************************)
(* Proofs about MemoryMap and MemorySearch, for regions, chunks, patterns  *)
(* and memories of any size.                                               *)
(***************************************************************************)
EXTENDS MemorySearch, TLAPS

\* route() never lets a range out of the region it names: first and last byte
\* are in it, at the offset returned, and the available size covers the range.
THEOREM RouteStaysInside ==
  ASSUME NEW addr \in Int, NEW size \in Int, NEW r \in Routes(addr, size)
  PROVE  /\ size > 0
         /\ r.offset \in 0..(RegionSize(r.region) - 1)
         /\ Base(r.region) + r.offset = addr
         /\ size <= r.size /\ r.offset + r.size = RegionSize(r.region)
  BY RegionsAssumption DEF Routes, Region, Base, RegionSize, End, Holds

\* route() is a function of its arguments: the regions do not overlap.
THEOREM RouteIsUnique ==
  ASSUME NEW addr \in Int, NEW size \in Int,
         NEW r \in Routes(addr, size), NEW q \in Routes(addr, size)
  PROVE  r = q
  BY RegionsAssumption DEF Routes, Region, Base, RegionSize, End, Holds

-----------------------------------------------------------------------------
\* The bytes kept are all that an occurrence still to be found can start in.
TailCovers == cursor < Size =>
                tail = IF Len(pattern) - 1 < cursor THEN Len(pattern) - 1 ELSE cursor

\* What has been there all along was there when it was read.
LastingRead ==
  \A v \in lasting :
    /\ Occurs(mem, v)
    /\ \A k \in 1..Len(pattern) : v + k - 1 < cursor => read[v + k - 1] = pattern[k]

SearchInv == TypeOK /\ TailCovers /\ ReportsEachOnce /\ LastingRead

\* The length of a pattern is positive and at most MaxPattern.
LEMMA PatternLength ==
  ASSUME NEW p \in Patterns
  PROVE  /\ Len(p) \in Nat \ {0} /\ Len(p) <= MaxPattern
         /\ p \in [1..Len(p) -> Byte]
<1>1. PICK n \in 1..MaxPattern : p \in [1..n -> Byte]
  BY DEF Patterns
<1>2. n \in Nat /\ n > 0 /\ n <= MaxPattern
  BY ChunkAssumption
<1>3. p \in Seq(Byte) /\ Len(p) = n
  BY <1>1, <1>2
<1> QED BY <1>1, <1>2, <1>3

\* The size of a region is positive.
LEMMA SizeIsPositive ==
  ASSUME region \in Region PROVE Size \in Nat \ {0}
  BY RegionsAssumption DEF Size, RegionSize, Region

\* A chunk is not empty, fits in a chunk and in what is left of the region.
LEMMA ChunkFits ==
  ASSUME TypeOK, cursor < Size
  PROVE  /\ ChunkLength \in Nat \ {0} /\ ChunkLength <= Chunk
         /\ cursor + ChunkLength <= Size
         /\ cursor + ChunkLength < Size => ChunkLength = Chunk
<1>1. Size \in Nat \ {0} /\ cursor \in Nat
  BY SizeIsPositive DEF TypeOK
<1> QED BY <1>1, ChunkAssumption DEF ChunkLength

\* Every chunk is routed: the search never raises in the middle of a region.
THEOREM ChunksAreRouted ==
  ASSUME TypeOK, cursor < Size
  PROVE  IsValid(Base(region) + cursor, ChunkLength)
<1>1. region \in Region /\ cursor \in Nat
  BY SizeIsPositive DEF TypeOK
<1>2. Base(region) \in Nat /\ RegionSize(region) \in Nat
  BY <1>1, RegionsAssumption DEF Base, RegionSize, Region
<1>3. /\ ChunkLength > 0
      /\ Holds(region, Base(region) + cursor)
      /\ Base(region) + cursor + ChunkLength <= End(region)
  BY <1>1, <1>2, ChunkFits DEF Holds, End, Size
<1> QED BY <1>1, <1>3 DEF IsValid, Routes

\* The invariant holds when the search starts.
LEMMA SearchInit == Init => SearchInv
<1> SUFFICES ASSUME Init PROVE SearchInv
  OBVIOUS
<1>1. Size \in Nat \ {0}
  BY SizeIsPositive DEF Init
<1>2. Len(pattern) \in Nat \ {0}
  BY PatternLength DEF Init
<1>3. TypeOK
  BY <1>1, <1>2 DEF Init, TypeOK, Offset
<1>4. TailCovers
  BY <1>1, <1>2 DEF Init, TailCovers
<1>5. ReportsEachOnce
  BY <1>1, <1>2 DEF Init, ReportsEachOnce, Offset
<1>6. LastingRead
  BY <1>1, <1>2 DEF Init, LastingRead, Occurs, Offset
<1> QED BY <1>3, <1>4, <1>5, <1>6 DEF SearchInv

\* A step of the game changes neither what was read nor what was reported.
LEMMA GamePreserves ==
  ASSUME SearchInv, NEW w \in Offset, NEW b \in Byte, GameWrites(w, b)
  PROVE  SearchInv'
<1>1. /\ UNCHANGED <<region, pattern, cursor, tail, read, hits>>
      /\ mem' \in [Offset -> Byte]
      /\ lasting' \subseteq lasting
      /\ \A v \in lasting' : Occurs(mem', v)
  BY DEF GameWrites, SearchInv, TypeOK
<1>2. TypeOK'
  BY <1>1 DEF SearchInv, TypeOK, Offset, Size
<1>3. TailCovers' /\ ReportsEachOnce'
  BY <1>1 DEF SearchInv, TailCovers, ReportsEachOnce, Size, Offset, Occurs
<1>4. LastingRead'
  BY <1>1 DEF SearchInv, LastingRead, Occurs, Size
<1> QED BY <1>2, <1>3, <1>4 DEF SearchInv

\* Scanning a chunk finds what ends in it, also what starts in the bytes kept,
\* and nothing that has been found before.
LEMMA ScanPreserves ==
  ASSUME SearchInv, Scan
  PROVE  SearchInv'
<1> DEFINE P == Len(pattern)
           n == ChunkLength
<1>1. /\ Size \in Nat \ {0} /\ cursor \in Nat /\ cursor < Size
      /\ n \in Nat \ {0} /\ cursor + n <= Size
      /\ cursor + n < Size => n = Chunk
  BY SizeIsPositive, ChunkFits DEF SearchInv, TypeOK, Scan
<1>2. P \in Nat \ {0} /\ P - 1 <= Chunk /\ Chunk \in Nat
  BY PatternLength, ChunkAssumption DEF SearchInv, TypeOK
<1>3. /\ UNCHANGED <<region, mem, pattern, lasting>>
      /\ read' = ReadChunk /\ cursor' = cursor + n
      /\ tail' = IF P - 1 < n THEN P - 1 ELSE n
      /\ hits' = [v \in Offset |-> hits[v] + IF v \in Found THEN 1 ELSE 0]
      /\ Size' = Size /\ Offset' = Offset
  BY DEF Scan, Kept, Size, Offset
<1>4. \A v \in Offset : ReadChunk[v] = IF cursor <= v /\ v < cursor + n
                                         THEN mem[v] ELSE read[v]
  BY DEF ReadChunk
<1>5. TypeOK'
  <2>1. read' \in [Offset -> Byte]
    BY <1>3 DEF ReadChunk, SearchInv, TypeOK
  <2>2. hits' \in [Offset -> Nat]
    BY <1>3 DEF SearchInv, TypeOK
  <2>3. cursor' \in 0..Size /\ tail' \in 0..(P - 1)
    BY <1>1, <1>2, <1>3
  <2> QED BY <1>3, <2>1, <2>2, <2>3 DEF SearchInv, TypeOK
<1>6. TailCovers'
  BY <1>1, <1>2, <1>3 DEF TailCovers
<1>7. ReportsEachOnce'
  <2> SUFFICES ASSUME NEW v \in Offset
               PROVE  hits'[v] = IF v + P <= cursor + n /\ Occurs(ReadChunk, v)
                                   THEN 1 ELSE 0
    BY <1>3 DEF ReportsEachOnce, Occurs
  <2>1. /\ hits'[v] = hits[v] + IF v \in Found THEN 1 ELSE 0
        /\ hits[v] = IF v + P <= cursor /\ Occurs(read, v) THEN 1 ELSE 0
        /\ v \in Nat
    BY <1>1, <1>3 DEF SearchInv, ReportsEachOnce, Offset
  <2>2. /\ tail = IF P - 1 < cursor THEN P - 1 ELSE cursor
        /\ tail \in Nat
    BY <1>1, <1>2 DEF SearchInv, TailCovers
  <2>3. v \in Found <=> /\ cursor < v + P /\ v + P <= cursor + n
                        /\ Occurs(ReadChunk, v)
    BY <1>1, <1>2, <2>1, <2>2 DEF Found
  <2>4. CASE v + P <= cursor
    <3>1. ASSUME NEW k \in 1..P PROVE ReadChunk[v + k - 1] = read[v + k - 1]
      <4>1. v + k - 1 \in Offset /\ ~(cursor <= v + k - 1)
        BY <1>1, <1>2, <2>1, <2>4 DEF Offset
      <4> QED BY <1>4, <4>1
    <3>2. Occurs(ReadChunk, v) <=> Occurs(read, v)
      BY <3>1 DEF Occurs
    <3> QED BY <1>1, <1>2, <2>1, <2>3, <2>4, <3>2
  <2>5. CASE ~(v + P <= cursor)
    <3>1. hits[v] = 0
      BY <2>1, <2>5
    <3>2. cursor < v + P
      BY <1>1, <1>2, <2>1, <2>5
    <3> QED BY <2>1, <2>3, <3>1, <3>2
  <2> QED BY <2>4, <2>5
<1>8. LastingRead'
  <2> SUFFICES ASSUME NEW v \in lasting
               PROVE  /\ Occurs(mem, v)
                      /\ \A k \in 1..P : v + k - 1 < cursor + n =>
                           ReadChunk[v + k - 1] = pattern[k]
    BY <1>3 DEF LastingRead, Occurs
  <2>1. Occurs(mem, v) /\ v \in Offset
    BY DEF SearchInv, LastingRead, TypeOK
  <2>2. ASSUME NEW k \in 1..P, v + k - 1 < cursor + n
        PROVE  ReadChunk[v + k - 1] = pattern[k]
    <3>1. v + k - 1 \in Offset
      BY <1>1, <1>2, <2>1 DEF Occurs, Offset
    <3>2. mem[v + k - 1] = pattern[k]
      BY <2>1 DEF Occurs
    <3>3. v + k - 1 < cursor => read[v + k - 1] = pattern[k]
      BY DEF SearchInv, LastingRead
    <3>4. v + k - 1 \in Int
      BY <3>1 DEF Offset
    <3> QED BY <1>1, <1>4, <2>2, <3>1, <3>2, <3>3, <3>4
  <2> QED BY <2>1, <2>2
<1> QED BY <1>5, <1>6, <1>7, <1>8 DEF SearchInv

\* What has been there all along and has been passed is reported once.
LEMMA LastingIsFound == SearchInv => FindsLasting
<1> SUFFICES ASSUME SearchInv, NEW v \in lasting, v + Len(pattern) <= cursor
             PROVE  hits[v] = 1
  BY DEF FindsLasting
<1>1. Size \in Nat /\ cursor \in 0..Size /\ v \in 0..(Size - 1)
  BY SizeIsPositive DEF SearchInv, TypeOK, Offset
<1>2. Len(pattern) \in Nat \ {0}
  BY PatternLength DEF SearchInv, TypeOK
<1>3. ASSUME NEW k \in 1..Len(pattern) PROVE read[v + k - 1] = pattern[k]
  <2>1. v + k - 1 < cursor
    BY <1>1, <1>2
  <2> QED BY <2>1 DEF SearchInv, LastingRead
<1>4. Occurs(read, v)
  BY <1>1, <1>2, <1>3 DEF Occurs
<1> QED BY <1>4 DEF SearchInv, TypeOK, ReportsEachOnce

\* search_mem reports each occurrence in the bytes it reads once, and finds all
\* that has been in memory throughout, for regions, chunks and patterns of any
\* size, as long as a pattern is at most one byte longer than a chunk.
THEOREM SearchIsExact == Spec => [](TypeOK /\ ReportsEachOnce /\ FindsLasting)
<1>1. SearchInv /\ [Next]_vars => SearchInv'
  <2> SUFFICES ASSUME SearchInv, [Next]_vars PROVE SearchInv'
    OBVIOUS
  <2>1. CASE Scan
    BY <2>1, ScanPreserves
  <2>2. CASE \E v \in Offset, b \in Byte : GameWrites(v, b)
    BY <2>2, GamePreserves
  <2>3. CASE UNCHANGED vars
    BY <2>3 DEF vars, SearchInv, TypeOK, TailCovers, ReportsEachOnce, LastingRead,
                Offset, Size, Occurs
  <2> QED BY <2>1, <2>2, <2>3 DEF Next
<1>2. SearchInv => TypeOK /\ ReportsEachOnce /\ FindsLasting
  BY LastingIsFound DEF SearchInv
<1> QED BY <1>1, <1>2, SearchInit, PTL DEF Spec

-----------------------------------------------------------------------------
\* The next chunk, if there is one, is routed.
NextIsRouted == cursor < Size => IsValid(Base(region) + cursor, ChunkLength)

\* search_mem never stops with an exception in the middle of a region: the chunk
\* it is about to read is one that route() accepts, the last, shorter one included.
THEOREM SearchNeverRaises == Spec => [](TypeOK /\ NextIsRouted)
<1>1. TypeOK => NextIsRouted
  BY ChunksAreRouted DEF NextIsRouted
<1> QED BY <1>1, SearchIsExact, PTL

\* The loop is on its way to the end of the region, whatever the game does: a step
\* that does not move the cursor forward is one of the game, and takes nothing
\* back from what has been read and reported.
THEOREM SearchAdvances ==
  Spec => [][ \/ cursor < cursor' /\ cursor' <= Size
              \/ UNCHANGED <<cursor, read, hits>> ]_vars
<1>1. TypeOK /\ [Next]_vars => [ \/ cursor < cursor' /\ cursor' <= Size
                                 \/ UNCHANGED <<cursor, read, hits>> ]_vars
  <2> SUFFICES ASSUME TypeOK, Next
               PROVE  \/ cursor < cursor' /\ cursor' <= Size
                      \/ UNCHANGED <<cursor, read, hits>>
    OBVIOUS
  <2>1. CASE Scan
    <3>1. ChunkLength \in Nat \ {0} /\ cursor + ChunkLength <= Size
      BY <2>1, ChunkFits DEF Scan
    <3>2. cursor \in Nat /\ Size \in Nat
      BY SizeIsPositive DEF TypeOK
    <3> QED BY <2>1, <3>1, <3>2 DEF Scan
  <2>2. CASE \E v \in Offset, b \in Byte : GameWrites(v, b)
    BY <2>2 DEF GameWrites
  <2> QED BY <2>1, <2>2 DEF Next
<1> QED BY <1>1, SearchIsExact, PTL DEF Spec
=============================================================================
