----------------------------- MODULE DisasmProofs -----------------------------
(***************************************************************************)
(* Proofs about Disassembler, SymbolMap and DisasmTool: for half words of  *)
(* any width, any registers, and maps of any symbols in any order, the     *)
(* addresses and values that disasm() shows are the CPU's, and the names   *)
(* it gives them are those of symbols that contain them.                   *)
(***************************************************************************)
EXTENDS DisasmTool, WellFoundedInduction, FiniteSetTheorems, SequenceTheorems, TLAPS

-----------------------------------------------------------------------------
(* Half words and words                                                    *)

\* A high half and a low half make a word.
LEMMA Halves ==
  /\ Half \in Nat \ {0} /\ Sign \in 1..(Half - 1)
  /\ Word \in Nat \ {0}
  /\ \A h \in 0..(Half - 1), x \in 0..(Half - 1) : h * Half + x \in 0..(Word - 1)
  <1>1. Half \in Nat \ {0} /\ Sign \in 1..(Half - 1)
    BY HalfAssumption
  <1>2. Word \in Nat \ {0}
    BY <1>1 DEF Word
  <1>3. ASSUME NEW h \in 0..(Half - 1), NEW x \in 0..(Half - 1)
        PROVE  h * Half + x \in 0..(Word - 1)
    <2>1. (Half - 1 - h) * Half \in Nat /\ h * Half \in Nat
      BY <1>1
    <2>2. (Half - 1 - h) * Half = Word - Half - h * Half
      BY <1>1 DEF Word
    <2> QED BY <1>1, <1>2, <2>1, <2>2
  <1> QED BY <1>1, <1>2, <1>3

\* What is taken modulo 2^32 is a word.
LEMMA Wraps == \A n \in Int : n % Word \in 0..(Word - 1)
  BY Halves

\* Going round 2^32 once.
LEMMA Around ==
  ASSUME NEW n \in 0..(Word - 1)
  PROVE  n % Word = n /\ (n + Word) % Word = n /\ (n - Word) % Word = n
  <1>1. Word \in Nat \ {0}
    BY Halves
  <1> QED BY <1>1

\* What subi d, d, 0x8000 shows: adding half of a half word, where the CPU
\* subtracts it, is a half word too much.
LEMMA HalfTooHigh ==
  ASSUME NEW h \in 0..(Half - 1)
  PROVE  (h * Half + Sign) % Word = (((h * Half - Sign) % Word) + Half) % Word
  <1>1. Word \in Nat \ {0} /\ h * Half \in Nat /\ Sign \in 1..(Half - 1) /\ Half = 2 * Sign
    BY Halves, HalfAssumption
  <1>2. h * Half + Sign \in 0..(Word - 1)
    BY Halves
  <1>3. (h * Half + Sign) % Word = h * Half + Sign
    BY <1>2, Around
  <1>4. CASE h = 0
    <2>1. Word - Sign \in 0..(Word - 1) /\ Sign \in 0..(Word - 1) /\ h * Half = 0
      BY <1>1, <1>2, <1>4
    <2>2. (Word - Sign - Word) % Word = Word - Sign /\ (Sign + Word) % Word = Sign
      BY <2>1, Around
    <2>3. Word - Sign - Word = h * Half - Sign /\ Word - Sign + Half = Sign + Word
      BY <1>1, <2>1
    <2> QED BY <1>3, <2>1, <2>2, <2>3
  <1>5. CASE h # 0
    <2>1. h * Half >= Half
      <3>1. (h - 1) * Half \in Nat /\ (h - 1) * Half = h * Half - Half
        BY <1>5, Halves
      <3> QED BY <1>1, <3>1
    <2>2. h * Half - Sign \in 0..(Word - 1)
      BY <1>1, <1>2, <2>1
    <2>3. (h * Half - Sign) % Word = h * Half - Sign
      BY <2>2, Around
    <2>4. h * Half - Sign + Half = h * Half + Sign
      BY <1>1
    <2> QED BY <1>3, <2>3, <2>4
  <1> QED BY <1>4, <1>5

\* The scan gives every field the value the CPU gives it, in whichever of its
\* two forms capstone prints it.
LEMMA FieldIsSigned ==
  ASSUME NEW x \in 0..(Half - 1), NEW n \in Printed(x)
  PROVE  SignExtend(n) = Signed(x) /\ Signed(x) \in Int
  BY Halves, HalfAssumption DEF Printed, SignExtend, Signed

\* The high half of a lis is its field, however it is printed.
LEMMA HighHalf ==
  ASSUME NEW x \in 0..(Half - 1), NEW n \in Printed(x)
  PROVE  (IF n < 0 THEN n + Half ELSE n) = x
  BY Halves, HalfAssumption DEF Printed, Signed

-----------------------------------------------------------------------------
(* The scan and the CPU                                                    *)

\* What makes PairIsTheValue true: a pending high half is the register's value,
\* and the snapshot holds for the registers not written since.  At most one of
\* the two kinds of target is there, and of each at most one.
Tracks ==
  /\ \A r \in Reg : r \notin written => gprs[r] = cpu[r]
  /\ \A r \in Reg : pending[r] # NoHigh /\ r \notin unseen => cpu[r] = pending[r] * Half

OneTarget ==
  /\ pair = {} \/ (ea = {} /\ accessed = {})
  /\ \A p \in pair : \A q \in pair : p = q
  /\ count = 0 => pair = {} /\ ea = {}
  /\ ea # {} => known

CodeInv == DisasmTypeOK /\ Tracks /\ PairIsTheValue /\ OneTarget

\* A new scan, before anything is decoded.
LEMMA CodeInit == DisasmInit => CodeInv
  <1> SUFFICES ASSUME DisasmInit PROVE CodeInv
    OBVIOUS
  <1>1. cpu \in [Reg -> 0..(Word - 1)] /\ known \in BOOLEAN
    BY ValueAssumption DEF DisasmInit
  <1>2. pending \in [Reg -> {NoHigh} \cup 0..(Half - 1)] /\ count \in 0..MaxInsns
    BY MaxInsnsAssumption DEF DisasmInit
  <1>3. DisasmTypeOK
    BY <1>1, <1>2 DEF DisasmInit, DisasmTypeOK
  <1> QED BY <1>3 DEF DisasmInit, CodeInv, Tracks, PairIsTheValue, OneTarget

\* disasm() takes a new snapshot and forgets what it has seen.
LEMMA DisasmTracks == CodeInv /\ Disasm => CodeInv'
  <1> SUFFICES ASSUME CodeInv, Disasm PROVE CodeInv'
    OBVIOUS
  <1>1. known' \in BOOLEAN /\ pending' \in [Reg -> {NoHigh} \cup 0..(Half - 1)]
    BY DEF Disasm
  <1>2. DisasmTypeOK'
    BY <1>1 DEF CodeInv, Disasm, DisasmTypeOK
  <1> QED BY <1>2 DEF CodeInv, Disasm, Tracks, PairIsTheValue, OneTarget

\* lis: from here on the high half is pending.
LEMMA LisTracks ==
  ASSUME CodeInv, NEW d \in Reg, NEW x \in Imm, NEW n \in Printed(x), Lis(d, x, n)
  PROVE  CodeInv'
  <1> USE DEF CodeInv
  <1>1. x \in 0..(Half - 1)
    BY ImmAssumption
  <1>2. (IF n < 0 THEN n + Half ELSE n) = x
    BY <1>1, HighHalf
  <1>3. pending' = [pending EXCEPT ![d] = x]
    BY <1>2 DEF Lis
  <1>4. x * Half \in 0..(Word - 1)
    <2>1. x * Half + 0 \in 0..(Word - 1)
      BY <1>1, Halves
    <2> QED BY <2>1, <1>1, Halves
  <1>5. DisasmTypeOK'
    <2>1. count' \in 0..MaxInsns
      BY MaxInsnsAssumption DEF Lis, DisasmTypeOK
    <2> QED BY <1>1, <1>3, <1>4, <2>1 DEF Lis, DisasmTypeOK
  <1>6. Tracks'
    BY <1>1, <1>3 DEF Lis, Tracks, DisasmTypeOK
  <1>7. OneTarget'
    BY MaxInsnsAssumption DEF Lis, OneTarget, DisasmTypeOK
  <1> QED BY <1>5, <1>6, <1>7 DEF Lis, PairIsTheValue

\* The second half: u is what the code computes from the pending high half, v
\* what the register holds then.
LEMMA PairTracks ==
  ASSUME CodeInv, NEW d \in Reg, NEW s \in Reg, NEW mnem \in {"addi", "subi", "ori"},
         NEW n \in Int, NEW u, NEW v \in 0..(Word - 1),
         d = s /\ pending[d] # NoHigh => u \in 0..(Word - 1),
         d = s /\ pending[d] # NoHigh /\ d \notin unseen =>
           u = IF mnem = "subi" /\ n = Sign THEN (v + Half) % Word ELSE v,
         Combine(mnem, d, s, n, u), Arithmetic(d, v)
  PROVE  CodeInv'
  <1> USE DEF CodeInv
  <1>1. count' \in 0..MaxInsns /\ count' # 0
    BY MaxInsnsAssumption DEF Arithmetic, DisasmTypeOK
  <1>2. cpu' \in [Reg -> 0..(Word - 1)]
    BY DEF Arithmetic, DisasmTypeOK
  <1>3. CASE d = s /\ pending[d] # NoHigh
    <2>1. pair' = {[op |-> mnem, reg |-> d, imm |-> n, value |-> u]} /\ unseen' = unseen
          /\ pending' = [pending EXCEPT ![d] = NoHigh]
      BY <1>3 DEF Combine
    <2>2. DisasmTypeOK'
      BY <1>1, <1>2, <1>3, <2>1 DEF Arithmetic, DisasmTypeOK
    <2>3. Tracks'
      BY <2>1 DEF Arithmetic, Tracks, DisasmTypeOK
    <2>4. PairIsTheValue'
      BY <1>3, <2>1 DEF Arithmetic, PairIsTheValue, Shown, DisasmTypeOK
    <2> QED BY <1>1, <2>1, <2>2, <2>3, <2>4 DEF Arithmetic, OneTarget
  <1>4. CASE ~(d = s /\ pending[d] # NoHigh)
    <2>1. pair' = {} /\ unseen' = unseen \cup {d} /\ pending' = pending
      BY <1>4 DEF Combine
    <2>2. DisasmTypeOK'
      BY <1>1, <1>2, <2>1 DEF Arithmetic, DisasmTypeOK
    <2>3. Tracks'
      BY <2>1 DEF Arithmetic, Tracks, DisasmTypeOK
    <2> QED BY <1>1, <2>1, <2>2, <2>3 DEF Arithmetic, OneTarget, PairIsTheValue
  <1> QED BY <1>3, <1>4

\* addi: the sum is the CPU's, for the high half is exactly its register.
LEMMA AddImmTracks ==
  ASSUME CodeInv, NEW d \in Reg, NEW s \in Reg, NEW x \in Imm, NEW n \in Printed(x),
         AddImm(d, s, x, n)
  PROVE  CodeInv'
  <1> DEFINE u == (pending[d] * Half + SignExtend(n)) % Word
             v == (cpu[s] + Signed(x)) % Word
  <1>1. x \in 0..(Half - 1)
    BY ImmAssumption
  <1>2. SignExtend(n) = Signed(x) /\ Signed(x) \in Int
    BY <1>1, FieldIsSigned
  <1>3. cpu[s] \in Int /\ pending[d] \in Int
    BY Halves DEF CodeInv, DisasmTypeOK, NoHigh
  <1>4. v \in 0..(Word - 1) /\ u \in 0..(Word - 1)
    <2>1. cpu[s] + Signed(x) \in Int /\ pending[d] * Half + SignExtend(n) \in Int
      BY <1>2, <1>3, Halves
    <2> QED BY <2>1, Wraps
  <1>5. d = s /\ pending[d] # NoHigh /\ d \notin unseen => u = v
    BY <1>2 DEF CodeInv, Tracks
  <1>6. Combine("addi", d, s, n, u) /\ Arithmetic(d, v)
    BY DEF AddImm
  <1>7. n \in Int
    BY <1>1, Halves DEF Printed, Signed
  <1> HIDE DEF u, v
  <1> QED BY <1>4, <1>5, <1>6, <1>7, PairTracks

\* subi: the same with the negated immediate, except for 0x8000.
LEMMA SubImmTracks ==
  ASSUME CodeInv, NEW d \in Reg, NEW s \in Reg, NEW n \in Imm, SubImm(d, s, n)
  PROVE  CodeInv'
  <1> DEFINE u == (pending[d] * Half - SignExtend(n)) % Word
             v == (cpu[s] - n) % Word
  <1>1. n \in 1..Sign /\ SignExtend(n) = IF n = Sign THEN -Sign ELSE n
    BY HalfAssumption, Halves DEF SubImm, SignExtend
  <1>2. cpu[s] \in Int /\ pending[d] \in Int
    BY Halves DEF CodeInv, DisasmTypeOK, NoHigh
  <1>3. v \in 0..(Word - 1) /\ u \in 0..(Word - 1)
    <2>1. cpu[s] - n \in Int /\ pending[d] * Half - SignExtend(n) \in Int
      BY <1>1, <1>2, Halves
    <2> QED BY <2>1, Wraps
  <1>4. d = s /\ pending[d] # NoHigh /\ d \notin unseen =>
          u = IF n = Sign THEN (v + Half) % Word ELSE v
    <2> SUFFICES ASSUME d = s, pending[d] # NoHigh, d \notin unseen
                 PROVE  u = IF n = Sign THEN (v + Half) % Word ELSE v
      OBVIOUS
    <2>1. cpu[s] = pending[d] * Half /\ pending[d] \in 0..(Half - 1)
      BY DEF CodeInv, Tracks, DisasmTypeOK
    <2>2. CASE n = Sign
      <3>1. u = (pending[d] * Half + Sign) % Word
        <4>1. pending[d] * Half - SignExtend(n) = pending[d] * Half + Sign
          BY <1>1, <1>2, <2>2, Halves
        <4> QED BY <4>1
      <3>2. v = (pending[d] * Half - Sign) % Word
        BY <2>1, <2>2
      <3> HIDE DEF u, v
      <3> QED BY <2>1, <2>2, <3>1, <3>2, HalfTooHigh
    <2>3. CASE n # Sign
      BY <1>1, <2>1, <2>3
    <2> QED BY <2>2, <2>3
  <1>5. Combine("subi", d, s, n, u) /\ Arithmetic(d, v)
    BY DEF SubImm
  <1>6. n \in Int
    BY <1>1, Halves
  <1> HIDE DEF u, v
  <1> QED BY <1>3, <1>4, <1>5, <1>6, PairTracks

\* ori: the low half of a register that a lis has just filled is empty.
LEMMA OrImmTracks ==
  ASSUME CodeInv, NEW d \in Reg, NEW s \in Reg, NEW x \in Imm, OrImm(d, s, x)
  PROVE  CodeInv'
  <1> DEFINE u == pending[d] * Half + x
             V == IF cpu[s] \in {h * Half : h \in 0..(Half - 1)} THEN {cpu[s] + x} ELSE Value
  <1>1. x \in 0..(Half - 1)
    BY ImmAssumption
  <1>2. pending[d] # NoHigh => pending[d] \in 0..(Half - 1)
    BY DEF CodeInv, DisasmTypeOK
  <1>3. pending[d] # NoHigh => u \in 0..(Word - 1)
    BY <1>1, <1>2, Halves
  <1>4. PICK v \in V : Arithmetic(d, v)
    BY DEF OrImm
  <1>5. v \in 0..(Word - 1)
    <2>1. CASE cpu[s] \in {h * Half : h \in 0..(Half - 1)}
      <3>1. PICK h \in 0..(Half - 1) : cpu[s] = h * Half
        BY <2>1
      <3>2. h * Half + x \in 0..(Word - 1)
        BY <1>1, Halves
      <3> QED BY <1>4, <2>1, <3>1, <3>2
    <2>2. CASE cpu[s] \notin {h * Half : h \in 0..(Half - 1)}
      BY <1>4, <2>2, ValueAssumption
    <2> QED BY <2>1, <2>2
  <1>6. d = s /\ pending[d] # NoHigh /\ d \notin unseen => u = v
    <2> SUFFICES ASSUME d = s, pending[d] # NoHigh, d \notin unseen PROVE u = v
      OBVIOUS
    <2>1. cpu[s] = pending[d] * Half
      BY DEF CodeInv, Tracks
    <2>2. cpu[s] \in {h * Half : h \in 0..(Half - 1)}
      BY <1>2, <2>1
    <2> QED BY <1>4, <2>1, <2>2
  <1>7. Combine("ori", d, s, x, u)
    BY DEF OrImm
  <1>8. x \in Int
    BY <1>1, Halves
  <1> HIDE DEF u, V
  <1> QED BY <1>3, <1>4, <1>5, <1>6, <1>7, <1>8, PairTracks

\* All other instructions: what they write, other than their first operand, the
\* scan does not see.
Accessed == [form : {"displacement", "indexed", "quantized"},
             addr : 0..(Word - 1), uses : SUBSET Reg]

LEMMA WritesTrack ==
  ASSUME CodeInv, NEW first, NEW W \in SUBSET Reg, NEW v \in Value,
         Writes(W, first, v), Forget(first), pair' = {},
         ea' \subseteq 0..(Word - 1), ea' # {} => known,
         accessed' \subseteq Accessed
  PROVE  CodeInv'
  <1> USE DEF CodeInv
  <1>1. count' \in 0..MaxInsns /\ count' # 0
    BY MaxInsnsAssumption DEF Writes, DisasmTypeOK
  <1>2. cpu' \in [Reg -> 0..(Word - 1)]
    BY ValueAssumption DEF Writes, DisasmTypeOK
  <1>3. pending' \in [Reg -> {NoHigh} \cup 0..(Half - 1)]
    BY DEF Forget, DisasmTypeOK
  <1>4. DisasmTypeOK'
    BY <1>1, <1>2, <1>3 DEF Writes, DisasmTypeOK, Accessed
  <1>5. Tracks'
    BY DEF Writes, Forget, Tracks, DisasmTypeOK
  <1>6. ea' # {} => known'
    BY DEF Writes
  <1> QED BY <1>1, <1>4, <1>5, <1>6 DEF PairIsTheValue, OneTarget

\* A base register, or the number 0, holds a word.
LEMMA BaseIsWord ==
  ASSUME NEW f \in [Reg -> 0..(Word - 1)], NEW a \in Bases
  PROVE  Base(f, a) \in 0..(Word - 1) /\ {a} \ {"0"} \subseteq Reg
  BY Halves, RegAssumption DEF Base, Bases

LEMMA AccessTracks ==
  ASSUME CodeInv, NEW first \in First, NEW a \in Bases, NEW x \in Imm, NEW n \in Printed(x),
         NEW W \in SUBSET Reg, NEW v \in Value, Access(first, a, x, n, W, v)
  PROVE  CodeInv'
  <1>1. SignExtend(n) = Signed(x) /\ Signed(x) \in Int
    BY ImmAssumption, FieldIsSigned
  <1>2. /\ Base(cpu, a) \in 0..(Word - 1) /\ Base(gprs, a) \in 0..(Word - 1)
        /\ {a} \ {"0"} \subseteq Reg
    BY BaseIsWord DEF CodeInv, DisasmTypeOK
  <1>3. /\ Address(Base(cpu, a) + Signed(x)) \in 0..(Word - 1)
        /\ Address(Base(gprs, a) + SignExtend(n)) \in 0..(Word - 1)
    BY <1>1, <1>2, Wraps, Halves DEF Address
  <1>4. accessed' \subseteq Accessed
    BY <1>2, <1>3 DEF Access, Accesses, Accessed
  <1>5. ea' \subseteq 0..(Word - 1)
    BY <1>3 DEF Access
  <1>6. ea' # {} => known
    BY DEF Access
  <1> QED BY <1>4, <1>5, <1>6, WritesTrack DEF Access

LEMMA AccessIndexedTracks ==
  ASSUME CodeInv, NEW first \in First, NEW a \in Bases, NEW b \in Reg,
         NEW W \in SUBSET Reg, NEW v \in Value, AccessIndexed(first, a, b, W, v)
  PROVE  CodeInv'
  <1>1. /\ Base(cpu, a) \in 0..(Word - 1) /\ Base(gprs, a) \in 0..(Word - 1)
        /\ {a, b} \ {"0"} \subseteq Reg
    BY BaseIsWord DEF CodeInv, DisasmTypeOK
  <1>2. cpu[b] \in Int /\ gprs[b] \in Int
    BY Halves DEF CodeInv, DisasmTypeOK
  <1>3. /\ Address(Base(cpu, a) + cpu[b]) \in 0..(Word - 1)
        /\ Address(Base(gprs, a) + gprs[b]) \in 0..(Word - 1)
    BY <1>1, <1>2, Wraps, Halves DEF Address
  <1>4. accessed' \subseteq Accessed
    BY <1>1, <1>3 DEF AccessIndexed, Accesses, Accessed
  <1>5. ea' \subseteq 0..(Word - 1)
    BY <1>3 DEF AccessIndexed
  <1>6. ea' # {} => known
    BY DEF AccessIndexed
  <1> QED BY <1>4, <1>5, <1>6, WritesTrack DEF AccessIndexed

LEMMA AccessQuantizedTracks ==
  ASSUME CodeInv, NEW a \in Bases, NEW x \in Imm, NEW W \in SUBSET Reg, NEW v \in Value,
         AccessQuantized(a, x, W, v)
  PROVE  CodeInv'
  <1>1. Signed(x) \in Int
    BY ImmAssumption, Halves DEF Signed
  <1>2. Base(cpu, a) \in 0..(Word - 1) /\ {a} \ {"0"} \subseteq Reg
    BY BaseIsWord DEF CodeInv, DisasmTypeOK
  <1>3. Address(Base(cpu, a) + Signed(x)) \in 0..(Word - 1)
    BY <1>1, <1>2, Wraps, Halves DEF Address
  <1>4. accessed' \subseteq Accessed
    BY <1>2, <1>3 DEF AccessQuantized, Accesses, Accessed
  <1> QED BY <1>4, WritesTrack DEF AccessQuantized

LEMMA OtherTracks ==
  ASSUME CodeInv, NEW first, NEW W \in SUBSET Reg, NEW v \in Value, Other(first, W, v)
  PROVE  CodeInv'
  BY WritesTrack DEF Other

\* Every instruction, and every new call of disasm(), keeps the scan on track.
LEMMA CodeStep == CodeInv /\ [DisasmNext]_codeVars => CodeInv'
  <1> SUFFICES ASSUME CodeInv, [DisasmNext]_codeVars PROVE CodeInv'
    OBVIOUS
  <1>1. CASE UNCHANGED codeVars
    BY <1>1 DEF codeVars, CodeInv, DisasmTypeOK, Tracks, PairIsTheValue, OneTarget
  <1>2. CASE Disasm
    BY <1>2, DisasmTracks
  <1>3. CASE \E d \in Reg, x \in Imm : \E n \in Printed(x) : Lis(d, x, n)
    BY <1>3, LisTracks
  <1>4. ASSUME NEW d \in Reg, NEW s \in Reg, NEW x \in Imm,
               \/ \E n \in Printed(x) : AddImm(d, s, x, n)
               \/ SubImm(d, s, x)
               \/ OrImm(d, s, x)
        PROVE  CodeInv'
    BY <1>4, AddImmTracks, SubImmTracks, OrImmTracks
  <1>5. ASSUME NEW first \in First, NEW a \in Bases, NEW v \in Value,
               NEW W \in Accessible(first, a),
               \/ \E x \in Imm : \E n \in Printed(x) : Access(first, a, x, n, W, v)
               \/ \E b \in Reg : AccessIndexed(first, a, b, W, v)
               \/ \E x \in Imm : AccessQuantized(a, x, W, v)
        PROVE  CodeInv'
    <2>1. W \in SUBSET Reg
      BY DEF Accessible
    <2> QED BY <1>5, <2>1, AccessTracks, AccessIndexedTracks, AccessQuantizedTracks
  <1>6. ASSUME NEW first \in Reg, NEW v \in Value, NEW W \in {{}, {first}}, Other(first, W, v)
        PROVE  CodeInv'
    BY <1>6, OtherTracks
  <1>7. ASSUME NEW W \in SUBSET Reg, NEW v \in Value, Plain(W, v)
        PROVE  CodeInv'
    BY <1>7, OtherTracks DEF Plain
  <1> QED BY <1>1, <1>2, <1>3, <1>4, <1>5, <1>6, <1>7 DEF DisasmNext

\* The ea of an instruction is where the CPU goes, if its registers still hold
\* what the snapshot says, and its operands end with the base.
Ea(x) == IF x.form = "quantized" THEN {} ELSE {x.addr}
EaStep == \A x \in accessed' : known' /\ x.uses \cap written = {} => ea' = Ea(x)

LEMMA EaIsRight == CodeInv /\ DisasmNext => EaStep
  <1> SUFFICES ASSUME CodeInv, DisasmNext, NEW x \in accessed', known',
                      x.uses \cap written = {}
               PROVE  ea' = Ea(x)
    BY DEF EaStep
  <1>1. ASSUME NEW a \in Bases, a \in x.uses \/ a = "0"
        PROVE  Base(cpu, a) = Base(gprs, a)
    BY <1>1, RegAssumption DEF Base, Bases, CodeInv, Tracks
  <1>2. ASSUME NEW first \in First, NEW a \in Bases, NEW y \in Imm, NEW n \in Printed(y),
               NEW W, NEW v, Access(first, a, y, n, W, v)
        PROVE  ea' = Ea(x)
    <2>1. SignExtend(n) = Signed(y)
      BY ImmAssumption, FieldIsSigned
    <2>2. /\ x.addr = Address(Base(cpu, a) + Signed(y)) /\ x.uses = {a} \ {"0"}
          /\ x.form = "displacement"
      BY <1>2 DEF Access, Accesses
    <2>3. Base(cpu, a) = Base(gprs, a)
      BY <1>1, <2>2
    <2>4. ea' = {Address(Base(gprs, a) + SignExtend(n))}
      BY <1>2 DEF Access, Writes
    <2> QED BY <2>1, <2>2, <2>3, <2>4 DEF Ea
  <1>3. ASSUME NEW first \in First, NEW a \in Bases, NEW b \in Reg,
               NEW W, NEW v, AccessIndexed(first, a, b, W, v)
        PROVE  ea' = Ea(x)
    <2>1. /\ x.addr = Address(Base(cpu, a) + cpu[b]) /\ x.uses = {a, b} \ {"0"}
          /\ x.form = "indexed"
      BY <1>3 DEF AccessIndexed, Accesses
    <2>2. Base(cpu, a) = Base(gprs, a)
      BY <1>1, <2>1
    <2>3. cpu[b] = gprs[b]
      BY <2>1, RegAssumption DEF CodeInv, Tracks
    <2>4. ea' = {Address(Base(gprs, a) + gprs[b])}
      BY <1>3 DEF AccessIndexed, Writes
    <2> QED BY <2>1, <2>2, <2>3, <2>4 DEF Ea
  <1>4. CASE Disasm
    BY <1>4 DEF Disasm
  <1>5. CASE \E d \in Reg, y \in Imm : \E n \in Printed(y) : Lis(d, y, n)
    BY <1>5 DEF Lis
  <1>6. ASSUME NEW d, NEW s, NEW y,
               \/ \E n \in Printed(y) : AddImm(d, s, y, n)
               \/ SubImm(d, s, y)
               \/ OrImm(d, s, y)
        PROVE  ea' = Ea(x)
    BY <1>6 DEF AddImm, SubImm, OrImm, Arithmetic
  <1>7. ASSUME NEW first, NEW W, NEW v, Other(first, W, v)
        PROVE  ea' = Ea(x)
    BY <1>7 DEF Other
  <1>8. ASSUME NEW a, NEW y, NEW W, NEW v, AccessQuantized(a, y, W, v)
        PROVE  ea' = Ea(x)
    BY <1>8 DEF AccessQuantized, Accesses, Ea
  <1> QED BY <1>2, <1>3, <1>4, <1>5, <1>6, <1>7, <1>8 DEF DisasmNext, Plain

-----------------------------------------------------------------------------
(* The map                                                                 *)

\* A set of naturals has a least element.
LEMMA Least ==
  ASSUME NEW T \in SUBSET Nat, NEW e \in T
  PROVE  \E i \in T : \A j \in T : i <= j
  <1> DEFINE R == {ss \in Nat \X Nat : ss[1] < ss[2]}
  <1>1. IsWellFoundedOn(R, Nat)
    BY NatLessThanWellFounded DEF OpToRel
  <1>2. PICK i \in T : \A j \in T : ~(<<j, i>> \in R)
    <2> HIDE DEF R
    <2> QED BY <1>1, WFMin, Zenon
  <1>3. ASSUME NEW j \in T PROVE i <= j
    <2>1. i \in Nat /\ j \in Nat
      OBVIOUS
    <2>2. j < i => <<j, i>> \in R
      BY <2>1
    <2> QED BY <1>2, <2>1, <2>2
  <1> QED BY <1>3

\* What lookup() relies on: the symbols are those of the file, sorted by address,
\* and the exact index holds one for every start.
MapInv ==
  /\ file \in Files
  /\ symbols \in Seq(Listed)
  /\ \A s \in Listed : \E k \in 1..Len(symbols) : symbols[k] = s
  /\ \A k \in 1..Len(symbols) : \A l \in 1..Len(symbols) :
       k < l => symbols[k].addr <= symbols[l].addr
  /\ DOMAIN exact = {s.addr : s \in Listed}
  /\ \A a \in DOMAIN exact : exact[a] \in Listed /\ exact[a].addr = a

\* A symbol of the file is a symbol.
LEMMA ListedSymbol ==
  ASSUME file \in Files, NEW s \in Listed
  PROVE  s \in Symbol /\ s.addr \in Int /\ s.size \in Int
  <1>1. PICK n \in 0..MaxLines : file \in [1..n -> Symbol]
    BY DEF Files
  <1>2. s \in Symbol
    BY <1>1 DEF Listed, Kept
  <1> QED BY <1>2, SymbolAssumption

\* The loaded symbols are in order of their addresses.
LEMMA SymbolsSorted ==
  ASSUME MapInv
  PROVE  \A k, l \in 1..Len(symbols) : k < l => symbols[k].addr <= symbols[l].addr
  BY DEF MapInv

\* bisect_right: everything up to the position starts at or before the address,
\* everything behind it later.
LEMMA BisectSplits ==
  ASSUME MapInv, NEW a \in Int
  PROVE  /\ Bisect(a) \in 0..Len(symbols)
         /\ \A k \in 1..Bisect(a) : symbols[k].addr <= a
         /\ \A k \in (Bisect(a) + 1)..Len(symbols) : symbols[k].addr > a
  <1> DEFINE n == Len(symbols)
             T == {i \in 0..n : \A k \in (i + 1)..n : symbols[k].addr > a}
  <1>1. n \in Nat /\ \A k \in 1..n : symbols[k] \in Listed
    BY LenProperties, ElementOfSeq DEF MapInv
  <1>2. \A k \in 1..n : symbols[k].addr \in Int
    BY <1>1, ListedSymbol DEF MapInv
  <1>3. n \in T /\ T \subseteq Nat
    BY <1>1
  <1>4. PICK i \in T : \A j \in T : i <= j
    <2> HIDE DEF T, n
    <2> QED BY <1>3, Least
  <1>5. \A k \in 1..i : symbols[k].addr <= a
    <2> SUFFICES ASSUME NEW k \in 1..i PROVE symbols[k].addr <= a
      OBVIOUS
    <2>1. i \in 1..n /\ k \in 1..n
      BY <1>1
    <2>2. i - 1 \notin T
      <3>1. i - 1 \in T => i <= i - 1
        BY <1>4
      <3> HIDE DEF T
      <3> QED BY <2>1, <3>1, <1>1
    <2>3. symbols[i].addr <= a
      BY <1>1, <1>2, <2>1, <2>2
    <2>4. symbols[k].addr <= symbols[i].addr
      <3>1. CASE k = i
        BY <1>2, <2>1, <3>1
      <3>2. CASE k < i
        BY <2>1, <3>2, SymbolsSorted
      <3> HIDE DEF T
      <3> QED BY <1>1, <2>1, <3>1, <3>2
    <2> QED BY <1>2, <2>1, <2>3, <2>4
  <1>6. \E j \in 0..Len(symbols) :
           /\ \A k \in 1..j : symbols[k].addr <= a
           /\ \A k \in (j + 1)..Len(symbols) : symbols[k].addr > a
    BY <1>1, <1>4, <1>5
  <1> QED BY <1>6 DEF Bisect

\* The exact index has, for every start of a sequence of symbols, one of them.
LEMMA LastAtIsThere ==
  ASSUME NEW syms, Len(syms) \in Nat, DOMAIN syms = 1..Len(syms),
         NEW a \in {syms[k].addr : k \in DOMAIN syms}
  PROVE  \E k \in DOMAIN syms : LastAt(syms)[a] = syms[k] /\ syms[k].addr = a
  <1> DEFINE n == Len(syms)
             T == {i \in 0..n : \A l \in 1..n : syms[l].addr = a => l <= i}
  <1>1. n \in T /\ T \subseteq Nat
    OBVIOUS
  <1>2. PICK i \in T : \A j \in T : i <= j
    <2> HIDE DEF T, n
    <2> QED BY <1>1, Least
  <1>3. PICK k \in 1..n : syms[k].addr = a
    OBVIOUS
  <1>4. i \in 1..n
    BY <1>3
  <1>5. syms[i].addr = a
    <2> SUFFICES ASSUME syms[i].addr # a PROVE FALSE
      OBVIOUS
    <2>1. \A l \in 1..n : syms[l].addr = a => l <= i /\ l # i
      OBVIOUS
    <2>2. \A l \in 1..n : syms[l].addr = a => l <= i - 1
      BY <1>4, <2>1
    <2>3. i - 1 \in T
      BY <1>4, <2>2
    <2>4. i <= i - 1
      BY <1>2, <2>3
    <2> QED BY <1>4, <2>4
  <1>6. \E m \in DOMAIN syms : syms[m].addr = a /\ \A l \in DOMAIN syms : syms[l].addr = a => l <= m
    BY <1>4, <1>5
  <1> DEFINE c == CHOOSE m \in DOMAIN syms :
                    syms[m].addr = a /\ \A l \in DOMAIN syms : syms[l].addr = a => l <= m
  <1>7. c \in DOMAIN syms /\ syms[c].addr = a
    <2> HIDE DEF T, n
    <2> QED BY <1>6, Zenon
  <1>8. LastAt(syms)[a] = syms[c]
    BY DEF LastAt
  <1> HIDE DEF c
  <1> QED BY <1>7, <1>8

\* load() sorts the file, loses no symbol of it and adds none.
LEMMA LoadSorts == ASSUME NEW lines \in Files, Load(lines) PROVE MapInv'
  <1> DEFINE K == Kept(lines)
             N == Cardinality(K)
  <1>1. PICK n \in 0..MaxLines : lines \in [1..n -> Symbol]
    BY DEF Files
  <1>2. K \subseteq 1..n /\ n \in Nat
    BY <1>1, MaxLinesAssumption DEF Kept
  <1>3. N \in Nat
    <2>1. IsFiniteSet(K)
      <3> HIDE DEF K
      <3>1. IsFiniteSet(1..n)
        BY <1>2, FS_Interval
      <3> QED BY <1>2, <3>1, FS_Subset
    <2> HIDE DEF K
    <2> QED BY <2>1, FS_CardinalityType
  <1>4. PICK p \in Orders(lines) : symbols' = [k \in DOMAIN p |-> lines[p[k]]]
    BY DEF Load
  <1>5. /\ p \in [1..N -> K]
        /\ \A i \in K : \E k \in DOMAIN p : p[k] = i
        /\ \A k \in DOMAIN p : \A l \in DOMAIN p : k < l => Before(lines, p[k], p[l])
    BY <1>4 DEF Orders
  <1>6. file' = lines /\ Listed' = {lines[i] : i \in K}
    BY DEF Load, Listed
  <1> HIDE DEF K, N
  <1>7. symbols' = [k \in 1..N |-> lines[p[k]]] /\ \A k \in 1..N : p[k] \in K
    BY <1>4, <1>5
  <1>8. symbols' \in Seq(Listed') /\ Len(symbols') = N /\ DOMAIN symbols' = 1..N
    <2>1. symbols' \in [1..N -> Listed']
      BY <1>6, <1>7
    <2>2. symbols' \in Seq(Listed')
      BY <1>3, <2>1, SeqDef
    <2> QED BY <1>3, <2>1, <2>2, LenProperties
  <1>9. \A s \in Listed' : \E k \in 1..N : symbols'[k] = s
    BY <1>5, <1>6, <1>7
  <1>10. ASSUME NEW k \in 1..N, NEW l \in 1..N, k < l
         PROVE  symbols'[k].addr <= symbols'[l].addr
    <2>1. Before(lines, p[k], p[l])
      BY <1>5, <1>10
    <2>2. lines[p[k]].addr \in Int /\ lines[p[l]].addr \in Int
      <3>1. p[k] \in 1..n /\ p[l] \in 1..n
        BY <1>2, <1>7
      <3>2. lines[p[k]] \in Symbol /\ lines[p[l]] \in Symbol
        BY <1>1, <3>1
      <3> QED BY <3>2, SymbolAssumption
    <2> QED BY <1>7, <2>1, <2>2 DEF Before
  <1>11. {symbols'[k].addr : k \in DOMAIN symbols'} = {s.addr : s \in Listed'}
    BY <1>8, <1>9, ElementOfSeq
  <1>12. exact' = LastAt(symbols')
    BY DEF Load
  <1>13. DOMAIN exact' = {s.addr : s \in Listed'}
    BY <1>11, <1>12 DEF LastAt
  <1>14. \A a \in DOMAIN exact' : exact'[a] \in Listed' /\ exact'[a].addr = a
    <2> TAKE a \in DOMAIN exact'
    <2>1. PICK k \in DOMAIN symbols' : exact'[a] = symbols'[k] /\ symbols'[k].addr = a
      BY <1>3, <1>8, <1>11, <1>12, <1>13, LastAtIsThere
    <2> QED BY <1>8, <2>1, ElementOfSeq
  <1> QED BY <1>6, <1>8, <1>9, <1>10, <1>13, <1>14 DEF MapInv

\* An empty map.
LEMMA MapInit == SymInit => MapInv
  <1> SUFFICES ASSUME SymInit PROVE MapInv
    OBVIOUS
  <1>1. file \in Files
    BY MaxLinesAssumption DEF SymInit, Files
  <1>2. Listed = {}
    BY DEF SymInit, Listed, Kept
  <1>3. symbols \in Seq(Listed) /\ Len(symbols) = 0
    BY EmptySeq DEF SymInit
  <1>4. DOMAIN exact = {}
    BY DEF SymInit
  <1> QED BY <1>1, <1>2, <1>3, <1>4 DEF MapInv

\* What lookup() returns is the last symbol that starts at or before the
\* address, and contains it.
LEMMA LookupContains ==
  ASSUME MapInv, NEW a \in Int, NEW s \in Lookup(a)
  PROVE  /\ s \in Listed /\ Contains(s, a)
         /\ \A t \in Listed : ~(s.addr < t.addr /\ t.addr <= a)
  <1>1. \A t \in Listed : t.addr \in Int /\ t.size \in Int
    BY ListedSymbol DEF MapInv
  <1>2. CASE a \in DOMAIN exact
    <2>1. s = exact[a]
      BY <1>2 DEF Lookup
    <2>2. s \in Listed /\ s.addr = a
      BY <1>2, <2>1 DEF MapInv
    <2> QED BY <1>1, <2>2 DEF Contains
  <1>3. CASE a \notin DOMAIN exact
    <2>1. PICK i \in {Bisect(a)} \ {0} : s = symbols[i] /\ Contains(symbols[i], a)
      BY <1>3 DEF Lookup
    <2>2. /\ i \in 1..Len(symbols) /\ Len(symbols) \in Nat
          /\ \A k \in (i + 1)..Len(symbols) : symbols[k].addr > a
      <3>1. Len(symbols) \in Nat
        BY LenProperties DEF MapInv
      <3>2. /\ i \in 0..Len(symbols) /\ i # 0
            /\ \A k \in (i + 1)..Len(symbols) : symbols[k].addr > a
        BY <2>1, BisectSplits, Zenon
      <3> QED BY <3>1, <3>2
    <2>3. s \in Listed
      BY <2>1, <2>2, ElementOfSeq DEF MapInv
    <2>4. ASSUME NEW t \in Listed, s.addr < t.addr, t.addr <= a PROVE FALSE
      <3>1. PICK k \in 1..Len(symbols) : symbols[k] = t
        BY DEF MapInv
      <3>2. ~(k < i)
        <4>1. k < i => symbols[k].addr <= symbols[i].addr
          BY <2>2, <3>1, SymbolsSorted
        <4> QED BY <1>1, <2>1, <2>3, <2>4, <3>1, <4>1
      <3>4. k # i
        BY <1>1, <2>1, <2>3, <2>4, <3>1
      <3>3. symbols[k].addr > a
        BY <2>2, <3>1, <3>2, <3>4
      <3> QED BY <1>1, <2>4, <3>1, <3>3
    <2> QED BY <2>1, <2>3, <2>4
  <1> QED BY <1>2, <1>3

\* The addresses that are tried are integers, and every start is one.
LEMMA ProbesAreInts ==
  ASSUME MapInv
  PROVE  Probes \subseteq Int /\ \A s \in Listed : s.addr \in Probes
  <1>1. Probes \subseteq Int
    BY SymbolAssumption DEF Probes
  <1>2. ASSUME NEW s \in Listed PROVE s.addr \in Probes
    <2>1. s \in Symbol /\ s.addr \in Int /\ s.size \in Int
      BY ListedSymbol DEF MapInv
    <2>2. s.addr \in (s.addr - 1)..(s.addr + (IF s.size > 0 THEN s.size ELSE 1))
      BY <2>1
    <2> QED BY <2>1, <2>2 DEF Probes
  <1> QED BY <1>1, <1>2

LEMMA MapNames == MapInv => NamesNearest
  BY LookupContains, ProbesAreInts DEF NamesNearest

\* Without overlap the last symbol that starts at or before an address is the
\* only one that can contain it.
LEMMA MapFinds == MapInv => FindsDisjoint
  <1> SUFFICES ASSUME MapInv, Disjoint, NEW s \in Listed, NEW a \in Probes, Contains(s, a)
               PROVE  Lookup(a) = {s}
    BY DEF FindsDisjoint
  <1>1. \A t \in Listed : t.addr \in Int /\ t.size \in Int
    BY ListedSymbol DEF MapInv
  <1>2. a \in Int
    BY ProbesAreInts
  <1>3. CASE a \in DOMAIN exact
    <2>1. exact[a] \in Listed /\ exact[a].addr = a
      BY <1>3 DEF MapInv
    <2>2. Contains(exact[a], a)
      BY <1>1, <1>2, <2>1 DEF Contains
    <2>3. exact[a] = s
      BY <2>1, <2>2 DEF Disjoint
    <2> QED BY <1>3, <2>3 DEF Lookup
  <1>4. CASE a \notin DOMAIN exact
    <2> DEFINE i == Bisect(a)
    <2>1. /\ i \in 0..Len(symbols) /\ Len(symbols) \in Nat
          /\ \A k \in 1..i : symbols[k].addr <= a
          /\ \A k \in (i + 1)..Len(symbols) : symbols[k].addr > a
      BY <1>2, BisectSplits, LenProperties DEF MapInv
    <2> HIDE DEF i
    <2>2. PICK k \in 1..Len(symbols) : symbols[k] = s
      BY DEF MapInv
    <2>3. s.addr <= a
      BY DEF Contains
    <2>4. k <= i
      BY <1>1, <1>2, <2>1, <2>2, <2>3
    <2>5. i \in 1..Len(symbols) /\ symbols[i] \in Listed
      BY <2>1, <2>2, <2>4, ElementOfSeq DEF MapInv
    <2>6. s.addr <= symbols[i].addr /\ symbols[i].addr <= a
      <3>1. k < i => symbols[k].addr <= symbols[i].addr
        BY <2>2, <2>5 DEF MapInv
      <3>2. k = i \/ k < i
        BY <2>1, <2>2, <2>4
      <3> QED BY <1>1, <2>1, <2>2, <2>5, <3>1, <3>2
    <2>7. /\ Contains(s, symbols[i].addr) /\ Contains(symbols[i], symbols[i].addr)
          /\ symbols[i].addr \in Probes
      BY <1>1, <1>2, <2>5, <2>6, ProbesAreInts DEF Contains
    <2>8. symbols[i] = s
      BY <2>5, <2>7 DEF Disjoint
    <2>9. {x \in {i} \ {0} : Contains(symbols[x], a)} = {i}
      BY <2>5, <2>8
    <2> QED BY <1>4, <2>8, <2>9 DEF Lookup, i
  <1> QED BY <1>3, <1>4

-----------------------------------------------------------------------------
(* The two together                                                        *)

ToolInv == MapInv /\ CodeInv

LEMMA ToolInit == Init => ToolInv
  BY MapInit, CodeInit DEF Init, ToolInv

LEMMA ToolStep == ToolInv /\ [Next]_vars => ToolInv'
  <1> SUFFICES ASSUME MapInv, CodeInv, [Next]_vars PROVE MapInv' /\ CodeInv'
    BY DEF ToolInv
  <1>1. UNCHANGED symVars => MapInv'
    BY DEF symVars, MapInv, Listed, Kept
  <1>2. [DisasmNext]_codeVars => CodeInv'
    BY CodeStep
  <1>3. CASE UNCHANGED vars
    BY <1>1, <1>2, <1>3 DEF vars
  <1>4. CASE Reload
    BY <1>4, LoadSorts, DisasmTracks DEF Reload
  <1>5. CASE Decode
    BY <1>1, <1>2, <1>5 DEF Decode
  <1> QED BY <1>3, <1>4, <1>5 DEF Next

\* Whatever is loaded and decoded, registers, snapshot, pending halves and
\* targets are words, and the map is made of the file's symbols.  With that, the
\* value disasm() gives for a pair of instructions is the register's, and for
\* subi d, d, 0x8000 exactly a half word, 0x10000, above it.
THEOREM PairsAreValues == Spec => [](TypeOK /\ PairIsTheValue)
  <1>1. ToolInv => TypeOK /\ PairIsTheValue
    BY DEF ToolInv, CodeInv, MapInv, TypeOK, SymTypeOK
  <1> QED BY <1>1, ToolInit, ToolStep, PTL DEF Spec

\* Names are those of symbols that contain the address, with no other symbol's
\* start between; and in maps without overlap no address of a symbol is missed:
\* for files of any symbols in any order.
THEOREM NamesAreRight == Spec => [](NamesNearest /\ FindsDisjoint)
  <1>1. ToolInv => NamesNearest /\ FindsDisjoint
    BY MapNames, MapFinds DEF ToolInv
  <1> QED BY <1>1, ToolInit, ToolStep, PTL DEF Spec

\* The effective address disasm() shows is the one the CPU accesses, as long as
\* the registers hold what was read: for half words of any width, base registers
\* of any value, and either way of printing a displacement.
THEOREM EffectiveAddressIsRight == Spec => EaIsTheCpus
  <1>1. Reload => EaStep
    BY DEF Reload, Disasm, EaStep
  <1>2. ToolInv /\ [Next]_vars => [EaStep]_codeVars
    BY <1>1, EaIsRight DEF ToolInv, Next, Decode, vars
  <1>3. ToolInv /\ [Next]_vars =>
          [\A x \in accessed' : known' /\ x.uses \cap written = {} =>
             ea' = IF x.form = "quantized" THEN {} ELSE {x.addr}]_codeVars
    BY <1>2 DEF EaStep, Ea
  <1> QED BY <1>3, ToolInit, ToolStep, PTL DEF Spec, EaIsTheCpus

\* LookupContains as a formula, of which the next state can be spoken too.
NamesContain == \A a \in Int : \A s \in Lookup(a) : Contains(s, a)

\* The comment of an instruction names a symbol that contains the address the
\* CPU accesses, or the value it builds (for subi d, d, 0x8000 what is 0x10000
\* above it): for every map, nested ones included.
THEOREM CommentsAreRight == Spec => CommentIsRight
  <1> DEFINE Right ==
        \A s \in Comment' :
          /\ \A x \in accessed' : x.uses \cap written = {} => Contains(s, x.addr)
          /\ \A p \in pair' : p.reg \notin unseen' => Contains(s, Shown(p, cpu'[p.reg]))
  <1>1. MapInv => NamesContain
    BY LookupContains DEF NamesContain
  <1>2. MapInv' => NamesContain'
    BY <1>1, PTL
  <1>3. ASSUME ToolInv, ToolInv', Next PROVE Right
    <2> SUFFICES ASSUME NEW s \in Comment' PROVE
          /\ \A x \in accessed' : x.uses \cap written = {} => Contains(s, x.addr)
          /\ \A p \in pair' : p.reg \notin unseen' => Contains(s, Shown(p, cpu'[p.reg]))
      OBVIOUS
    <2>1. PICK t \in {p.value : p \in pair'} \cup ea' : s \in Lookup(t)'
      BY DEF Comment, Target
    <2>2. ASSUME Reload PROVE FALSE
      <3>1. pair' = {} /\ ea' = {}
        BY <2>2 DEF Reload, Disasm
      <3> QED BY <2>1, <3>1
    <2>3. DisasmNext
      BY <1>3, <2>2 DEF Next, Decode
    <2>4. t \in Int
      <3>1. ea' \subseteq 0..(Word - 1) /\ \A p \in pair' : p.value \in 0..(Word - 1)
        BY <1>3 DEF ToolInv, CodeInv, DisasmTypeOK
      <3>2. t \in 0..(Word - 1)
        BY <3>1
      <3> QED BY <3>2, Halves
    <2>5. Contains(s, t)
      BY <1>2, <1>3, <2>1, <2>4 DEF NamesContain, ToolInv, Contains
    <2>6. ASSUME NEW x \in accessed', x.uses \cap written = {} PROVE Contains(s, x.addr)
      <3>1. pair' = {} /\ t \in ea'
        BY <1>3, <2>1, <2>6 DEF ToolInv, CodeInv, OneTarget
      <3>2. known'
        BY <1>3, <3>1 DEF ToolInv, CodeInv, OneTarget
      <3>3. ea' = {x.addr}
        BY <1>3, <2>3, <2>6, <3>1, <3>2, EaIsRight DEF EaStep, Ea, ToolInv
      <3> QED BY <2>5, <3>1, <3>3
    <2>7. ASSUME NEW p \in pair', p.reg \notin unseen' PROVE Contains(s, Shown(p, cpu'[p.reg]))
      <3>1. ea' = {} /\ \A q \in pair' : q = p
        BY <1>3, <2>7 DEF ToolInv, CodeInv, OneTarget
      <3>2. t = p.value
        BY <2>1, <3>1
      <3>3. p.value = Shown(p, cpu'[p.reg])
        BY <1>3, <2>7 DEF ToolInv, CodeInv, PairIsTheValue, Shown
      <3> QED BY <2>5, <3>2, <3>3
    <2> QED BY <2>6, <2>7
  <1>4. ToolInv /\ ToolInv' /\ [Next]_vars => [Right]_vars
    BY <1>3
  <1> QED BY <1>4, ToolInit, ToolStep, PTL DEF Spec, CommentIsRight

=============================================================================
