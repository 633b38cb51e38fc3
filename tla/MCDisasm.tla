------------------------------- MODULE MCDisasm -------------------------------
(* DisasmTool with half words of two bits and addresses below 16.           *)
EXTENDS DisasmTool

\* symbols that share a start or a name, contain one another, have no size, or end
\* behind the last address
MCSymbol == {[addr |-> 4, size |-> 4, name |-> "f"], [addr |-> 4, size |-> 2, name |-> "f"],
             [addr |-> 4, size |-> 1, name |-> "g"], [addr |-> 6, size |-> 0, name |-> "f"],
             [addr |-> 13, size |-> 4, name |-> "h"]}
=============================================================================
