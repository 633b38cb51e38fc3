----------------------------- MODULE Disassembler -----------------------------
(***************************************************************************)
(* disasm/ppc.py: what is said about instructions before they run, next to *)
(* the CPU that then runs them.  One disasm() call decodes a straight line *)
(* of code; trace_until is a series of calls, each for one instruction.    *)
(* capstone and the CPU are external: an instruction is the registers it   *)
(* uses and its 16-bit field, which the operand string shows as a signed   *)
(* or as an unsigned number.                                               *)
(*                                                                         *)
(* A step decodes the next instruction and runs it: cpu, accessed, written *)
(* and unseen are the reference and the history, the rest is the code's.   *)
(* Operators commented "Mutant" are faulty variants of the definition that *)
(* follows them; no specification uses them.                               *)
(***************************************************************************)
EXTENDS Integers

CONSTANTS Half,      \* 2^16, how many values a half word has
          Sign,      \* 2^15, the first half word with the sign bit
          Reg,       \* the general registers
          Imm,       \* bound: the 16-bit fields of instructions
          Value,     \* bound: register values at first, loaded or computed
          MaxInsns   \* bound: instructions decoded

Word == Half * Half

ASSUME HalfAssumption == Sign \in Nat \ {0} /\ Half = 2 * Sign
ASSUME RegAssumption == Reg \cap {"0", "f"} = {}
ASSUME ImmAssumption == Imm \subseteq 0..(Half - 1)
ASSUME ValueAssumption == Value \subseteq 0..(Word - 1)
ASSUME MaxInsnsAssumption == MaxInsns \in Nat

NoHigh == -1   \* no lis is pending

VARIABLES
  \* the disassembler
  known,     \* did get_gprs succeed?
  gprs,      \* the snapshot it returned
  pending,   \* pending: register to the high half of its lis
  ea,        \* the effective address of the last instruction, as a set
  pair,      \* its imm_value, as a set, with its mnemonic, register and immediate
  count,     \* instructions decoded
  \* the CPU, and history
  cpu,       \* the registers
  accessed,  \* the address the last instruction accessed, as a set
  written,   \* registers written since the snapshot
  unseen     \* registers written since their lis in a way the scan overlooks

codeVars == <<known, gprs, pending, ea, pair, count, cpu, accessed, written, unseen>>

DisasmInit == /\ known \in BOOLEAN
              /\ cpu \in [Reg -> Value] /\ gprs = cpu
              /\ pending = [r \in Reg |-> NoHigh]
              /\ ea = {} /\ pair = {} /\ count = 0
              /\ accessed = {} /\ written = {} /\ unseen = {}

\* disasm(pc, n, with_gprs), on a halted CPU: a new snapshot and a new scan
Disasm == /\ known' \in BOOLEAN /\ gprs' = cpu
          /\ pending' = [r \in Reg |-> NoHigh]
          /\ ea' = {} /\ pair' = {} /\ accessed' = {} /\ written' = {} /\ unseen' = {}
          /\ UNCHANGED <<count, cpu>>

-----------------------------------------------------------------------------
(* Numbers                                                                 *)

\* the signed value of a 16-bit field, by the architecture
Signed(x) == IF x < Sign THEN x ELSE x - Half

\* how capstone may print a field
Printed(x) == {x, Signed(x)}

\* Mutant: 0x8000 itself is not extended
SignExtendAbove(n) == IF Sign < n /\ n < Half THEN n - Half ELSE n

\* "positive unsigned 16-bit value with the high bit set"
SignExtend(n) == IF 0 < n /\ n < Half /\ Sign <= n THEN n - Half ELSE n

\* the value of a base register in a register file; "0" is the number
Base(file, a) == IF a = "0" THEN 0 ELSE file[a]

-----------------------------------------------------------------------------
(* Steps of the scan, with the instruction each decodes                    *)

\* the CPU writes the registers W, which hold any value then; the scan sees the
\* first operand only
Writes(W, first, v) ==
  /\ cpu' = [r \in Reg |-> IF r \in W THEN v ELSE cpu[r]]
  /\ written' = written \cup W
  /\ unseen' = unseen \cup (W \ {first})
  /\ count < MaxInsns /\ count' = count + 1
  /\ UNCHANGED <<known, gprs>>

\* any other instruction ends the lis of its first operand, be it written or not
Forget(first) == pending' = [r \in Reg |-> IF r = first THEN NoHigh ELSE pending[r]]

\* lis d, n: the high half of a 32-bit immediate
Lis(d, x, n) ==
  /\ n \in Printed(x)
  /\ cpu' = [cpu EXCEPT ![d] = x * Half]
  /\ pending' = [pending EXCEPT ![d] = IF n < 0 THEN n + Half ELSE n]
  /\ written' = written \cup {d} /\ unseen' = unseen \ {d}
  /\ ea' = {} /\ accessed' = {} /\ pair' = {}
  /\ count < MaxInsns /\ count' = count + 1
  /\ UNCHANGED <<known, gprs>>

\* the end of a pair: addi d, d or subi d, d or ori d, d; any other addi, subi
\* or ori is passed over, although it writes d
Combine(mnem, d, s, n, v) ==
  IF d = s /\ pending[d] # NoHigh
    THEN /\ pair' = {[op |-> mnem, reg |-> d, imm |-> n, value |-> v]}
         /\ pending' = [pending EXCEPT ![d] = NoHigh]
         /\ unseen' = unseen
    ELSE /\ pair' = {} /\ pending' = pending /\ unseen' = unseen \cup {d}

Arithmetic(d, v) ==
  /\ cpu' = [cpu EXCEPT ![d] = v]
  /\ written' = written \cup {d}
  /\ ea' = {} /\ accessed' = {}
  /\ count < MaxInsns /\ count' = count + 1
  /\ UNCHANGED <<known, gprs>>

AddImm(d, s, x, n) ==
  /\ n \in Printed(x)
  /\ Combine("addi", d, s, n, (pending[d] * Half + SignExtend(n)) % Word)
  /\ Arithmetic(d, (cpu[s] + Signed(x)) % Word)

\* subi d, s, n is addi d, s, -n: its operand is the magnitude of a negative field,
\* 0x8000 included, which the code takes for -0x8000 before it negates it
SubImm(d, s, n) ==
  /\ n \in Imm \cap 1..Sign
  /\ Combine("subi", d, s, n, (pending[d] * Half - SignExtend(n)) % Word)
  /\ Arithmetic(d, (cpu[s] - n) % Word)

\* Mutant: the immediate of ori is sign-extended like that of addi
OrImmSigned(d, s, x) ==
  /\ Combine("ori", d, s, x, (pending[d] * Half + SignExtend(x)) % Word)
  /\ \E v \in IF cpu[s] \in {h * Half : h \in 0..(Half - 1)} THEN {cpu[s] + x} ELSE Value :
       Arithmetic(d, v)

\* bits or'ed into an empty low half are added; otherwise any value may result
OrImm(d, s, x) ==
  /\ Combine("ori", d, s, x, pending[d] * Half + x)
  /\ \E v \in IF cpu[s] \in {h * Half : h \in 0..(Half - 1)} THEN {cpu[s] + x} ELSE Value :
       Arithmetic(d, v)

\* "& 0xFFFFFFFF"
Address(sum) == sum % Word

Accesses(form, addr, uses) ==
  accessed' = {[form |-> form, addr |-> Address(addr), uses |-> uses \ {"0"}]}

\* Mutant: a load or store leaves the lis of its first operand pending
AccessKeepsPending(first, a, x, n, W, v) ==
  /\ n \in Printed(x)
  /\ Accesses("displacement", Base(cpu, a) + Signed(x), {a})
  /\ ea' = IF known THEN {Address(Base(gprs, a) + SignExtend(n))} ELSE {}
  /\ Writes(W, first, v)
  /\ pending' = pending /\ pair' = {}

\* a load or store with displacement: first is "f" for a floating-point
\* register; an update form also writes the base, lmw several registers
Access(first, a, x, n, W, v) ==
  /\ n \in Printed(x)
  /\ Accesses("displacement", Base(cpu, a) + Signed(x), {a})
  /\ ea' = IF known THEN {Address(Base(gprs, a) + SignExtend(n))} ELSE {}
  /\ Writes(W, first, v)
  /\ Forget(first) /\ pair' = {}

\* the indexed form
AccessIndexed(first, a, b, W, v) ==
  /\ Accesses("indexed", Base(cpu, a) + cpu[b], {a, b})
  /\ ea' = IF known THEN {Address(Base(gprs, a) + gprs[b])} ELSE {}
  /\ Writes(W, first, v)
  /\ Forget(first) /\ pair' = {}

\* psq_l and psq_st: two more operands follow the base, so no ea is found
AccessQuantized(a, x, W, v) ==
  /\ Accesses("quantized", Base(cpu, a) + Signed(x), {a})
  /\ ea' = {}
  /\ Writes(W, "f", v)
  /\ Forget("f") /\ pair' = {}

\* any other instruction, with first the first of several operands: a compare
\* writes nothing, logic and li write first
Other(first, W, v) ==
  /\ Writes(W, first, v)
  /\ Forget(first)
  /\ ea' = {} /\ accessed' = {} /\ pair' = {}

\* an operand string without a comma names no first register: mflr d writes d,
\* b nothing, and after bl the callee has written what it liked
Plain(W, v) == Other("f", W, v)

-----------------------------------------------------------------------------
First == Reg \cup {"f"}
Bases == Reg \cup {"0"}
Accessible(first, a) == {{}, Reg} \cup {S \cap Reg : S \in {{first}, {a}, {first, a}}}

DisasmNext ==
  \/ Disasm
  \/ \E d \in Reg, x \in Imm : \E n \in Printed(x) : Lis(d, x, n)
  \/ \E d \in Reg, s \in Reg, x \in Imm : \/ \E n \in Printed(x) : AddImm(d, s, x, n)
                                          \/ SubImm(d, s, x)
                                          \/ OrImm(d, s, x)
  \/ \E first \in First, a \in Bases, v \in Value : \E W \in Accessible(first, a) :
       \/ \E x \in Imm : \E n \in Printed(x) : Access(first, a, x, n, W, v)
       \/ \E b \in Reg : AccessIndexed(first, a, b, W, v)
       \/ first = "f" /\ \E x \in Imm : AccessQuantized(a, x, W, v)
  \/ \E first \in Reg, v \in Value : \E W \in {{}, {first}} : Other(first, W, v)
  \/ \E W \in SUBSET Reg, v \in Value : Plain(W, v)

-----------------------------------------------------------------------------
(* Properties                                                              *)

DisasmTypeOK ==
  /\ known \in BOOLEAN
  /\ cpu \in [Reg -> 0..(Word - 1)] /\ gprs \in [Reg -> 0..(Word - 1)]
  /\ pending \in [Reg -> {NoHigh} \cup 0..(Half - 1)]
  /\ ea \subseteq 0..(Word - 1)
  /\ accessed \subseteq [form : {"displacement", "indexed", "quantized"},
                       addr : 0..(Word - 1), uses : SUBSET Reg]
  /\ pair \subseteq [op : {"addi", "subi", "ori"}, reg : Reg, imm : Int,
                    value : 0..(Word - 1)]
  /\ count \in 0..MaxInsns
  /\ written \subseteq Reg /\ unseen \subseteq Reg

\* compute_effective_address: as long as nothing has written the registers an
\* instruction uses since they were read, its ea is the address the CPU accesses,
\* however the displacement is printed, and across 0 and 2^32; only the loads and
\* stores of paired singles are given none.
EaIsTheCpus ==
  [][\A x \in accessed' : known' /\ x.uses \cap written = {} =>
       ea' = IF x.form = "quantized" THEN {} ELSE {x.addr}]_codeVars

\* What imm_value says when the register holds v: v, except for subi d, d, 0x8000.
\* There the code negates what it has made negative, and is 0x10000 too high.
Shown(p, v) == IF p.op = "subi" /\ p.imm = Sign THEN (v + Half) % Word ELSE v

\* post_process_imm_load_pairs, "the resolved 32-bit value": an imm_value is what
\* the register holds after the instruction (0x10000 more for subi d, d, 0x8000),
\* unless a write that the scan does not see came between: addi from another
\* register, an update form, lmw, mflr, or a call.
PairIsTheValue ==
  \A p \in pair : p.reg \notin unseen => p.value = Shown(p, cpu[p.reg])

\* The same docstring, "with no clobbering write to Rx between", to the letter.
PairIsNeverStale == \A p \in pair : p.value = Shown(p, cpu[p.reg])

\* "The resolved 32-bit value", to the letter: subi d, d, 0x8000 included.
PairIsExact == \A p \in pair : p.reg \notin unseen => p.value = cpu[p.reg]
=============================================================================
