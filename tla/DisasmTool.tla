------------------------------ MODULE DisasmTool ------------------------------
(***************************************************************************)
(* tools/disasm_tools.py: the disassembler with the symbol map.  disasm()  *)
(* adds to each instruction that has a target a comment that names it; the *)
(* map may be reloaded between calls.                                      *)
(***************************************************************************)
EXTENDS SymbolMap, Disassembler

CONSTANT MaxAnnotated   \* bound: lines of the map while code is disassembled

ASSUME MaxAnnotatedAssumption == MaxAnnotated \in Nat

vars == <<symVars, codeVars>>

Init == SymInit /\ DisasmInit

\* imm_value or ea; the branch_target that has precedence is printed by capstone
Target == {p.value : p \in pair} \cup ea

\* _annotate_targets
Comment == UNION {Lookup(t) : t \in Target}

\* reload_symbol_map_tool between two calls: the next one begins with the new map,
\* and has something left to decode; once code was decoded the map is a short one
Reload == /\ count < MaxInsns
          /\ \E lines \in Files : /\ count > 0 => Len(lines) <= MaxAnnotated
                                 /\ Load(lines)
          /\ Disasm

Decode == /\ Len(file) <= MaxAnnotated
          /\ DisasmNext
          /\ UNCHANGED symVars

Next == Reload \/ Decode

Spec == Init /\ [][Next]_vars
-----------------------------------------------------------------------------
(* Properties                                                              *)

\* "Attach a `comment` field naming the symbol that a labeled target resolves to":
\* the symbol contains the address the CPU accesses, or the value it builds (for
\* subi d, d, 0x8000 what is 0x10000 above it), under the conditions of EaIsTheCpus
\* and PairIsTheValue.
CommentIsRight ==
  [][\A s \in Comment' :
       /\ \A x \in accessed' : x.uses \cap written = {} => Contains(s, x.addr)
       /\ \A p \in pair' : p.reg \notin unseen' => Contains(s, Shown(p, cpu'[p.reg]))]_vars

TypeOK == SymTypeOK /\ DisasmTypeOK
==============================================================================
