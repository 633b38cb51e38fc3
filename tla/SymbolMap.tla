------------------------------ MODULE SymbolMap ------------------------------
(***************************************************************************)
(* symbol_map.py: the map that names addresses.  A file is the sequence of *)
(* symbols its well-formed lines denote; malformed lines are skipped.      *)
(* load() replaces both indexes under the lock, and lookup() runs under    *)
(* it, so each is one step.                                                *)
(* Operators commented "Mutant" are faulty variants of the definition that *)
(* follows them; no specification uses them.                               *)
(***************************************************************************)
EXTENDS Integers, Sequences, FiniteSets

CONSTANTS Symbol,     \* the symbols of map files: [addr, size, name]
          MaxLines    \* bound: the longest map file

\* int(s, 16) also accepts a sign
ASSUME SymbolAssumption == Symbol \subseteq [addr : Int, size : Int, name : STRING]
ASSUME MaxLinesAssumption == MaxLines \in Nat

VARIABLES symbols,   \* _symbols, and with it _sorted_addrs
          exact,     \* _exact: start address to symbol
          file       \* history: the lines of the map that is loaded

symVars == <<symbols, exact, file>>

SymInit == symbols = <<>> /\ exact = <<>> /\ file = <<>>

Files == UNION {[1..n -> Symbol] : n \in 0..MaxLines}

\* _parse_text keeps the first line of each address and name
Kept(lines) == {i \in DOMAIN lines : \A j \in 1..(i - 1) :
                  <<lines[j].addr, lines[j].name>> # <<lines[i].addr, lines[i].name>>}

\* the stable sort by (addr, -size)
Before(lines, i, j) == \/ lines[i].addr < lines[j].addr
                       \/ /\ lines[i].addr = lines[j].addr
                          /\ \/ lines[i].size > lines[j].size
                             \/ lines[i].size = lines[j].size /\ i < j

\* the one order in which load() may leave the lines, as positions in the file
Orders(lines) ==
  LET K == Kept(lines) IN
    {p \in [1..Cardinality(K) -> K] :
       /\ \A i \in K : \E k \in DOMAIN p : p[k] = i
       /\ \A k \in DOMAIN p : \A l \in DOMAIN p : k < l => Before(lines, p[k], p[l])}

\* {s.addr: s for s in syms}: of several symbols at an address the last one stays
LastAt(syms) ==
  [a \in {syms[k].addr : k \in DOMAIN syms} |->
     syms[CHOOSE k \in DOMAIN syms :
            syms[k].addr = a /\ \A l \in DOMAIN syms : syms[l].addr = a => l <= k]]

\* load(): at start-up from the environment, later by reload_symbol_map_tool.
\* A file that cannot be read raises before anything is replaced; symbols and index
\* are replaced together, under the lock.
Load(lines) == /\ \E p \in Orders(lines) : symbols' = [k \in DOMAIN p |-> lines[p[k]]]
               /\ exact' = LastAt(symbols')
               /\ file' = lines

\* "a <= addr < a + max(s, 1)"
Contains(s, addr) == /\ s.addr <= addr
                     /\ addr < s.addr + IF s.size > 0 THEN s.size ELSE 1

\* bisect_right(_sorted_addrs, addr): how many symbols start at or before addr
Bisect(addr) == CHOOSE i \in 0..Len(symbols) :
                  /\ \A k \in 1..i : symbols[k].addr <= addr
                  /\ \A k \in (i + 1)..Len(symbols) : symbols[k].addr > addr

\* Mutant: the symbol found is not asked whether it reaches addr
LookupNearest(addr) ==
  IF addr \in DOMAIN exact THEN {exact[addr]}
  ELSE {symbols[i] : i \in {Bisect(addr)} \ {0}}

\* Mutant: the end of a symbol is taken for its last address but one
LookupShort(addr) ==
  IF addr \in DOMAIN exact THEN {exact[addr]}
  ELSE {symbols[i] : i \in {k \in {Bisect(addr)} \ {0} : Contains(symbols[k], addr + 1)}}

\* lookup(), as a set: empty for None
Lookup(addr) ==
  IF addr \in DOMAIN exact THEN {exact[addr]}
  ELSE {symbols[i] : i \in {k \in {Bisect(addr)} \ {0} : Contains(symbols[k], addr)}}

-----------------------------------------------------------------------------
(* Properties                                                              *)

\* the symbols of the map that is loaded
Listed == {file[i] : i \in Kept(file)}

\* the addresses at which a lookup can change its answer
Probes == UNION {(s.addr - 1)..(s.addr + (IF s.size > 0 THEN s.size ELSE 1)) : s \in Symbol}

SymTypeOK == /\ file \in Files
             /\ symbols \in Seq(Listed)
             /\ DOMAIN exact = {s.addr : s \in Listed}
             /\ \A a \in DOMAIN exact : exact[a] \in Listed

\* resolve_addr_tool, "to its enclosing symbol": an address is never named after
\* a symbol that does not contain it, or that another symbol's start separates
\* from it, whatever the order and the duplicates of the file.
NamesNearest ==
  \A a \in Probes : \A s \in Lookup(a) :
    /\ s \in Listed /\ Contains(s, a)
    /\ \A t \in Listed : ~(s.addr < t.addr /\ t.addr <= a)

\* lookup, "None if no symbol contains it": in a map whose symbols do not
\* overlap every address of a symbol is found.
Disjoint == \A s \in Listed : \A t \in Listed :
              s # t => \A a \in Probes : ~(Contains(s, a) /\ Contains(t, a))

FindsDisjoint ==
  Disjoint => \A s \in Listed : \A a \in Probes : Contains(s, a) => Lookup(a) = {s}

\* The same docstring without the restriction to maps without overlap: an
\* enclosing symbol is not found behind a symbol nested in it.
FindsEnclosing ==
  \A s \in Listed : \A a \in Probes : Contains(s, a) => Lookup(a) # {}
=============================================================================
