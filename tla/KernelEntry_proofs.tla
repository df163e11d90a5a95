-------------------------- MODULE KernelEntry_proofs --------------------------
(***************************************************************************)
(* Proofs about KernelEntry, for page tables of every size and every       *)
(* address space they divide.                                              *)
(*                                                                         *)
(* Of the page tables: only the last entry of the PML4 ever leads to the   *)
(* new table, and not before it is cleared, so that the lower half never   *)
(* sees it.  Of the jump: no instruction writes to an argument that is     *)
(* still to be read.                                                       *)
(***************************************************************************)
EXTENDS KernelEntry, SequenceTheorems, TLAPS

(* What the statements have done so far.                                    *)
Mapped ==
  /\ pml4[0] = "low"
  /\ \A e \in Index : pml4[e] = "high" => e = Entries - 1 /\ pc > 4
  /\ \A e \in Index : pml3.low[e] # Junk /\ pml3.other[e] # Junk
  /\ pc > 1 => wp = FALSE
  /\ pc > 2 => pml4[Half] = "low"
  /\ pc > 3 => \A e \in Index : pml3.high[e] # Junk
  /\ pc > 4 => pml4[Entries - 1] = "high"
  /\ pc > 5 => pml3.high[Entries - 2] = pml3.low[0]
  /\ pc > 6 => pml3.high[Entries - 1] = pml3.low[1]

PagingIInv == TypeOK /\ Mapped

(* The registers that are cleared, in the order of the instructions.        *)
Order == << "rax", "rbx", "rcx", "rdx", "rsi", "r9", "r10", "r11", "r12", "r13",
            "r14", "r15" >>

(* What the instructions have done so far.                                  *)
Executed ==
  /\ registers["r8"] = "entry" /\ registers["rbp"] = "rest"
  /\ instruction = 1 => registers["rcx"] = "struct"
  /\ instruction <= 2 => registers["rdx"] = "stack"
  /\ instruction > 1 => registers["rdi"] = "struct"
  /\ instruction > 2 => registers["rsp"] = "stack"
  /\ \A n \in 1 .. 12 : n + 2 < instruction => registers[Order[n]] = "zero"
  /\ rip # "none" => rip = "entry" /\ instruction > 14

JumpIInv == Jump!TypeOK /\ Executed

EntryIInv == PagingIInv /\ JumpIInv

-----------------------------------------------------------------------------
(* The statements and the instructions, one by one.                         *)
LEMMA StatementsAre ==
  /\ Len(Statements) = 6 /\ DOMAIN Statements = 1 .. 6
  /\ AtStatement("unprotect") <=> pc = 1 /\ pc' = pc + 1
  /\ AtStatement("mirror") <=> pc = 2 /\ pc' = pc + 1
  /\ AtStatement("clear") <=> pc = 3 /\ pc' = pc + 1
  /\ AtStatement("link") <=> pc = 4 /\ pc' = pc + 1
  /\ AtStatement("copyFirst") <=> pc = 5 /\ pc' = pc + 1
  /\ AtStatement("copySecond") <=> pc = 6 /\ pc' = pc + 1
  BY DEF Statements, AtStatement

LEMMA ProgramIs ==
  /\ Len(Jump!Program) = 14
  /\ Jump!Program[1] = Jump!Mov("rdi", "rcx")
  /\ Jump!Program[2] = Jump!Mov("rsp", "rdx")
  /\ \A n \in 3 .. 14 : Jump!Program[n] = Jump!Xor(Order[n - 2], Order[n - 2])
  <1> DEFINE a == <<"rax", "rbx", "rcx", "rdx", "rsi">>
             b == <<"r9", "r10", "r11", "r12", "r13", "r14", "r15">>
             A == Jump!Clear(a)
             B == Jump!Clear(b)
             S == { Jump!Mov(q, r) : q, r \in Jump!Registers }
                    \cup { Jump!Xor(r, r) : r \in Jump!Registers }
  <1>1. /\ A \in Seq(S) /\ Len(A) = 5
        /\ \A n \in 1 .. 5 : A[n] = Jump!Xor(a[n], a[n])
    BY DEF Jump!Clear, Jump!Registers
  <1>2. /\ B \in Seq(S) /\ Len(B) = 7
        /\ \A n \in 1 .. 7 : B[n] = Jump!Xor(b[n], b[n])
    BY DEF Jump!Clear, Jump!Registers
  <1> HIDE DEF A, B
  <1>3. \A n \in 1 .. 12 : Order[n] = IF n <= 5 THEN a[n] ELSE b[n - 5]
    BY DEF Order
  <1> HIDE DEF a, b
  <1> DEFINE M == << Jump!Mov("rdi", "rcx"), Jump!Mov("rsp", "rdx") >>
  <1>6. /\ M \in Seq(S) /\ Len(M) = 2
        /\ M[1] = Jump!Mov("rdi", "rcx") /\ M[2] = Jump!Mov("rsp", "rdx")
    BY DEF Jump!Registers
  <1> HIDE DEF M, S
  <1> DEFINE C == A \o B
  <1>4. /\ C \in Seq(S) /\ Len(C) = 12
        /\ \A n \in 1 .. 12 : C[n] = IF n <= 5 THEN A[n] ELSE B[n - 5]
    <2>1. /\ C \in Seq(S) /\ Len(C) = Len(A) + Len(B)
          /\ \A n \in 1 .. Len(A) + Len(B) : C[n] = IF n <= Len(A) THEN A[n] ELSE B[n - Len(A)]
      BY <1>1, <1>2, ConcatProperties
    <2> HIDE DEF C
    <2> QED
      BY <1>1, <1>2, <2>1
  <1> HIDE DEF C
  <1>5. \A n \in 1 .. 12 : C[n] = Jump!Xor(Order[n], Order[n])
    <2>1. ASSUME NEW n \in 1 .. 12 PROVE C[n] = Jump!Xor(Order[n], Order[n])
      <3>1. CASE n \in 1 .. 5
        BY <1>1, <1>3, <1>4, <3>1
      <3>2. CASE n \in 6 .. 12
        <4>1. n - 5 \in 1 .. 7
          BY <3>2
        <4> QED
          BY <1>2, <1>3, <1>4, <3>2, <4>1
      <3> QED
        BY <3>1, <3>2
    <2> QED
      BY <2>1
  <1>7. Jump!Program = M \o C
    BY DEF Jump!Program, Jump!Moves, Jump!Clears, M, C, A, B, a, b
  <1>8. Len(M \o C) = 14 /\ (M \o C)[1] = M[1] /\ (M \o C)[2] = M[2]
        /\ \A n \in 3 .. 14 : (M \o C)[n] = C[n - 2]
    <2> DEFINE P == M \o C
    <2>1. /\ P \in Seq(S) /\ Len(P) = Len(M) + Len(C)
          /\ \A n \in 1 .. Len(M) + Len(C) : P[n] = IF n <= Len(M) THEN M[n] ELSE C[n - Len(M)]
      BY <1>4, <1>6, ConcatProperties
    <2> HIDE DEF P
    <2>2. Len(P) = 14 /\ P[1] = M[1] /\ P[2] = M[2] /\ \A n \in 3 .. 14 : P[n] = C[n - 2]
      BY <1>4, <1>6, <2>1
    <2> QED
      BY <2>2 DEF P
  <1>9. \A n \in 3 .. 14 : n - 2 \in 1 .. 12
    OBVIOUS
  <1> QED
    BY <1>5, <1>6, <1>7, <1>8, <1>9

-----------------------------------------------------------------------------
(* An address is a number of tables and the index in one.                   *)
LEMMA Quotient ==
  \A e \in Nat \ {0}, q \in Nat : \A r \in 0 .. e - 1 :
    (q * e + r) \div e = q /\ (q * e + r) % e = r
  BY SMT

(* The sizes of the tables and of the address space.                        *)
LEMMA Sizes ==
  /\ Entries \in Nat /\ Entries >= 4 /\ Half \in Nat /\ 2 * Half = Entries
  /\ AddressSpace \in Nat /\ HighBase = AddressSpace - 2
  /\ \E c \in Nat \ {0} : AddressSpace = (c * Entries) * Entries
  <1>1. /\ Entries \in Nat /\ Entries >= 4 /\ Entries % 2 = 0
        /\ AddressSpace % (Entries * Entries) = 0 /\ HighBase = AddressSpace - 2
        /\ AddressSpace \in Nat /\ HighBase \in Nat
    BY HigherHalfAssumption, KernelAddressAssumption
  <1>2. Half \in Nat /\ 2 * Half = Entries
    BY <1>1 DEF Half
  <1>3. \A e \in Nat \ {0}, s \in Nat : s % e = 0 => s = (s \div e) * e /\ s \div e \in Nat
    BY SMT
  <1> DEFINE e2 == Entries * Entries
             c == AddressSpace \div e2
  <1>4. e2 \in Nat \ {0}
    <2>1. \A e \in Nat : e >= 4 => e * e \in Nat \ {0}
      BY SMT
    <2> QED
      BY <1>1, <2>1
  <1>5. AddressSpace = c * e2 /\ c \in Nat
    BY <1>1, <1>3, <1>4
  <1> HIDE DEF c
  <1>6. c # 0
    BY <1>1, <1>4, <1>5
  <1>7. c * (Entries * Entries) = (c * Entries) * Entries
    <2>1. \A x, y \in Nat : x * (y * y) = (x * y) * y
      BY SMT
    <2> QED
      BY <1>1, <1>5, <2>1
  <1> QED
    BY <1>1, <1>2, <1>5, <1>6, <1>7

(* What holds before the first statement and the first instruction.         *)
LEMMA PagingInit == EntryInit => PagingIInv
  <1> SUFFICES ASSUME EntryInit PROVE PagingIInv
    OBVIOUS
  <1>1. wp \in BOOLEAN /\ pc = 1 /\ pml4 \in [Index -> { "none", "low", "other" }] /\ pml4[0] = "low"
    BY DEF EntryInit, Init
  <1>2. PICK low \in [Index -> Index \cup { Absent }] :
          /\ \A e \in Index : low[e] \in { e, Absent }
          /\ pml3 = [low |-> low, other |-> [e \in Index |-> Entries + e],
                     high |-> [e \in Index |-> Junk]]
    BY DEF EntryInit, Init
  <1> DEFINE Value == Index \cup (Entries .. 2 * Entries - 1) \cup { Absent, Junk }
  <1>3. /\ low \in [Index -> Value] /\ [e \in Index |-> Junk] \in [Index -> Value]
        /\ \A e \in Index : low[e] # Junk
    BY <1>2, Sizes DEF Index, Absent, Junk
  <1>4. /\ \A e \in Index : Entries + e \in Value /\ Entries + e # Junk
        /\ [e \in Index |-> Entries + e] \in [Index -> Value]
    BY Sizes DEF Index, Junk
  <1> HIDE DEF Value
  <1>5. pml3 \in [Tables -> [Index -> Value]]
    BY <1>2, <1>3, <1>4 DEF Tables
  <1>6. TypeOK
    BY <1>1, <1>5, StatementsAre DEF TypeOK, Tables, Value
  <1>7. Mapped
    BY <1>1, <1>2, <1>3, <1>4 DEF Mapped
  <1> QED
    BY <1>6, <1>7 DEF PagingIInv

(* The entries that are written are five of a table.                        *)
LEMMA EntriesWritten ==
  /\ { 0, 1, Half, Entries - 2, Entries - 1 } \subseteq Index
  /\ 0 < Half /\ Half < Entries - 1 /\ Entries - 2 # Entries - 1
  /\ Source(Entries - 2) = 0 /\ Source(Entries - 1) = 1
  BY Sizes DEF Index, Source

(* One statement after the other.                                           *)
LEMMA PagingStep == PagingIInv /\ Next => PagingIInv'
  <1> SUFFICES ASSUME PagingIInv, Next PROVE PagingIInv'
    OBVIOUS
  <1> DEFINE Value == Index \cup (Entries .. 2 * Entries - 1) \cup { Absent, Junk }
  <1>0. /\ wp \in BOOLEAN /\ pc \in 1 .. 7
        /\ pml4 \in [Index -> Tables \cup { "none" }] /\ pml3 \in [Tables -> [Index -> Value]]
        /\ Mapped /\ Absent # Junk /\ Absent \in Value
    BY StatementsAre DEF PagingIInv, TypeOK, Absent, Junk
  <1> HIDE DEF Value
  <1>1. SUFFICES /\ wp' \in BOOLEAN /\ pc' \in 1 .. 7 /\ Mapped'
                 /\ pml4' \in [Index -> Tables \cup { "none" }]
                 /\ pml3' \in [Tables -> [Index -> Value]]
    BY StatementsAre DEF PagingIInv, TypeOK, Value
  <1>2. CASE Unprotect
    <2>1. pc = 1 /\ pc' = 2 /\ wp' = FALSE /\ pml4' = pml4 /\ pml3' = pml3
      BY <1>2, StatementsAre DEF Unprotect
    <2>2. Mapped'
      BY <1>0, <2>1 DEF Mapped
    <2>3. wp' \in BOOLEAN
      BY <2>1
    <2>4. pc' \in 1 .. 7
      BY <2>1
    <2>5. pml4' \in [Index -> Tables \cup { "none" }] /\ pml3' \in [Tables -> [Index -> Value]]
      BY <1>0, <2>1
    <2> QED
      BY <2>2, <2>3, <2>4, <2>5
  <1>3. CASE Mirror
    BY <1>0, <1>3, StatementsAre, EntriesWritten DEF Mirror, Mapped
  <1>4. CASE Clear
    BY <1>0, <1>4, StatementsAre, EntriesWritten DEF Clear, Mapped, Tables
  <1>5. CASE Link
    <2>1. /\ pc = 4 /\ pc' = 5 /\ wp' = wp /\ pml3' = pml3
          /\ pml4' = [pml4 EXCEPT ![Entries - 1] = "high"]
      BY <1>5, StatementsAre DEF Link
    <2>2. /\ pml4' \in [Index -> Tables \cup { "none" }] /\ pml4'[Entries - 1] = "high"
          /\ \A e \in Index : e # Entries - 1 => pml4'[e] = pml4[e]
      BY <1>0, <2>1, EntriesWritten DEF Tables
    <2>3. 0 # Entries - 1 /\ Half # Entries - 1 /\ 0 \in Index /\ Half \in Index
      BY Sizes, EntriesWritten
    <2>4. Mapped'
      BY <1>0, <2>1, <2>2, <2>3 DEF Mapped
    <2> QED
      BY <1>0, <2>1, <2>2, <2>4
  <1>6. CASE Copy("copyFirst", Entries - 2)
    <2>1. pml3[pml4[0]][Source(Entries - 2)] = pml3.low[0]
      BY <1>0, EntriesWritten DEF Mapped
    <2>2. pml3' = [pml3 EXCEPT !.high[Entries - 2] = pml3.low[0]] /\ UNCHANGED <<wp, pml4>>
          /\ pc = 5 /\ pc' = 6
      BY <1>6, <2>1, StatementsAre DEF Copy
    <2>3. pml3.low[0] \in Value /\ pml3.low[0] # Junk
      BY <1>0, EntriesWritten DEF Mapped, Tables
    <2> QED
      BY <1>0, <2>2, <2>3, EntriesWritten DEF Mapped, Tables
  <1>7. CASE Copy("copySecond", Entries - 1)
    <2>1. pml3[pml4[0]][Source(Entries - 1)] = pml3.low[1]
      BY <1>0, EntriesWritten DEF Mapped
    <2>2. pml3' = [pml3 EXCEPT !.high[Entries - 1] = pml3.low[1]] /\ UNCHANGED <<wp, pml4>>
          /\ pc = 6 /\ pc' = 7
      BY <1>7, <2>1, StatementsAre DEF Copy
    <2>3. pml3.low[1] \in Value /\ pml3.low[1] # Junk
      BY <1>0, EntriesWritten DEF Mapped, Tables
    <2> QED
      BY <1>0, <2>2, <2>3, EntriesWritten DEF Mapped, Tables
  <1> QED
    BY <1>2, <1>3, <1>4, <1>5, <1>6, <1>7 DEF Next

-----------------------------------------------------------------------------
(* What an instruction moves, and that an exclusive or of a register with   *)
(* itself is zero.                                                          *)
LEMMA Moved ==
  ASSUME NEW q, NEW r, q # r
  PROVE  Jump!Result(Jump!Mov(q, r)) = registers[r] /\ Jump!Mov(q, r).to = q
  <1>1. Jump!Mov(q, r).op = "mov" /\ Jump!Mov(q, r).to = q /\ Jump!Mov(q, r).from = r
    BY DEF Jump!Mov
  <1>2. "mov" # "xor"
    OBVIOUS
  <1>3. Jump!Result(Jump!Mov(q, r)) = registers[r]
    BY <1>1, <1>2 DEF Jump!Result
  <1> QED
    BY <1>1, <1>3

LEMMA Cleared ==
  ASSUME NEW r
  PROVE  Jump!Result(Jump!Xor(r, r)) = "zero" /\ Jump!Xor(r, r).to = r
  <1>1. Jump!Xor(r, r).op = "xor" /\ Jump!Xor(r, r).to = r /\ Jump!Xor(r, r).from = r
    BY DEF Jump!Xor
  <1>2. Jump!Result(Jump!Xor(r, r)) = "zero"
    BY <1>1 DEF Jump!Result
  <1> QED
    BY <1>1, <1>2

(* Every register but four is cleared, the arguments' after they are moved. *)
LEMMA OrderIs ==
  /\ \A n \in 1 .. 12 : Order[n] \in Jump!Registers \ { "rdi", "rsp", "rbp", "r8" }
  /\ \A n \in 1 .. 12 : Order[n] = "rcx" => n = 3
  /\ \A n \in 1 .. 12 : Order[n] = "rdx" => n = 4
  /\ \A r \in Jump!Registers \ { "rdi", "rsp", "rbp", "r8" } : \E n \in 1 .. 12 : Order[n] = r
  BY DEF Order, Jump!Registers

LEMMA JumpInit == EntryInit => JumpIInv
  <1> SUFFICES ASSUME EntryInit PROVE JumpIInv
    OBVIOUS
  <1>1. /\ registers = [r \in Jump!Registers |->
                          IF r \in DOMAIN Jump!Arguments THEN Jump!Arguments[r] ELSE "rest"]
        /\ instruction = 1 /\ rip = "none"
    BY DEF EntryInit, Jump!Init
  <1>2. /\ DOMAIN Jump!Arguments = { "rcx", "rdx", "r8" }
        /\ Jump!Arguments["rcx"] = "struct" /\ Jump!Arguments["rdx"] = "stack"
        /\ Jump!Arguments["r8"] = "entry"
    BY DEF Jump!Arguments
  <1>3. /\ registers \in [Jump!Registers -> Jump!Values]
        /\ registers["rcx"] = "struct" /\ registers["rdx"] = "stack" /\ registers["r8"] = "entry"
        /\ registers["rbp"] = "rest"
    BY <1>1, <1>2 DEF Jump!Registers, Jump!Values
  <1> QED
    BY <1>1, <1>3, ProgramIs DEF JumpIInv, Jump!TypeOK, Executed

(* One instruction after the other.                                         *)
LEMMA JumpStep == JumpIInv /\ Jump!Next => JumpIInv'
  <1> SUFFICES ASSUME JumpIInv, Jump!Next PROVE JumpIInv'
    OBVIOUS
  <1>0. /\ registers \in [Jump!Registers -> Jump!Values] /\ instruction \in 1 .. 15
        /\ rip \in Jump!Values \cup { "none" } /\ Executed
    BY ProgramIs DEF JumpIInv, Jump!TypeOK
  <1>1. SUFFICES /\ registers' \in [Jump!Registers -> Jump!Values] /\ instruction' \in 1 .. 15
                 /\ rip' \in Jump!Values \cup { "none" } /\ Executed'
    BY ProgramIs DEF JumpIInv, Jump!TypeOK
  <1>2. /\ { "rdi", "rsp", "rcx", "rdx", "r8", "rbp" } \subseteq Jump!Registers
        /\ { "struct", "stack", "entry", "zero" } \subseteq Jump!Values
    BY DEF Jump!Registers, Jump!Values
  <1>3. CASE Jump!Execute
    <2>0. instruction \in 1 .. 14 /\ instruction' = instruction + 1 /\ rip' = rip
      BY <1>0, <1>3, ProgramIs DEF Jump!Execute
    <2>1. CASE instruction = 1
      <3>1. registers' = [registers EXCEPT !["rdi"] = "struct"]
        <4>1. /\ Jump!Result(Jump!Mov("rdi", "rcx")) = registers["rcx"]
              /\ Jump!Mov("rdi", "rcx").to = "rdi"
          BY Moved
        <4>2. registers' = [registers EXCEPT !["rdi"] = registers["rcx"]]
          BY <1>3, <2>1, <4>1, ProgramIs DEF Jump!Execute
        <4> QED
          BY <1>0, <2>1, <4>2 DEF Executed
      <3> QED
        BY <1>0, <1>2, <2>0, <2>1, <3>1, OrderIs DEF Executed
    <2>2. CASE instruction = 2
      <3>1. registers' = [registers EXCEPT !["rsp"] = "stack"]
        <4>1. /\ Jump!Result(Jump!Mov("rsp", "rdx")) = registers["rdx"]
              /\ Jump!Mov("rsp", "rdx").to = "rsp"
          BY Moved
        <4>2. registers' = [registers EXCEPT !["rsp"] = registers["rdx"]]
          BY <1>3, <2>2, <4>1, ProgramIs DEF Jump!Execute
        <4>3. registers["rdx"] = "stack"
          <5>1. instruction <= 2
            BY <2>2
          <5> QED
            BY <1>0, <5>1 DEF Executed
        <4> QED
          BY <4>2, <4>3
      <3> QED
        BY <1>0, <1>2, <2>0, <2>2, <3>1, OrderIs DEF Executed
    <2>3. CASE instruction > 2
      <3>1. PICK m \in 1 .. 12 : m + 2 = instruction
        BY <2>0, <2>3
      <3>2. registers' = [registers EXCEPT ![Order[m]] = "zero"]
        <4>1. Jump!Program[instruction] = Jump!Xor(Order[m], Order[m])
          BY <2>0, <2>3, <3>1, ProgramIs
        <4> QED
          BY <1>3, <4>1, Cleared DEF Jump!Execute
      <3>3. /\ Order[m] \in Jump!Registers \ { "rdi", "rsp", "r8", "rbp" }
            /\ registers'[Order[m]] = "zero"
        BY <1>0, <3>2, OrderIs
      <3>4. registers' \in [Jump!Registers -> Jump!Values]
        BY <1>0, <1>2, <3>2, <3>3
      <3>5. /\ registers'["rdi"] = "struct" /\ registers'["rsp"] = "stack"
            /\ registers'["r8"] = "entry" /\ registers'["rbp"] = "rest"
        BY <1>0, <1>2, <2>3, <3>2, <3>3 DEF Executed
      <3>6. ASSUME NEW n \in 1 .. 12, n + 2 < instruction' PROVE registers'[Order[n]] = "zero"
        <4>1. CASE n = m
          BY <3>3, <4>1
        <4>2. CASE n # m
          <5>1. n + 2 < instruction
            BY <2>0, <3>1, <3>6, <4>2
          <5> QED
            BY <1>0, <3>2, <5>1, OrderIs DEF Executed
        <4> QED
          BY <4>1, <4>2
      <3>7. Executed'
        BY <1>0, <2>0, <2>3, <3>5, <3>6 DEF Executed
      <3> QED
        BY <1>0, <2>0, <3>4, <3>7
    <2> QED
      BY <2>0, <2>1, <2>2, <2>3
  <1>4. CASE Jump!Jump
    <2>1. instruction > 14 /\ rip' = registers["r8"] /\ UNCHANGED <<registers, instruction>>
      BY <1>4, ProgramIs DEF Jump!Jump
    <2> QED
      BY <1>0, <1>2, <2>1 DEF Executed
  <1> QED
    BY <1>3, <1>4 DEF Jump!Next

-----------------------------------------------------------------------------
(* Every step of the two preserves what is known of both.                   *)
THEOREM EntryInvariance == EntrySpec => []EntryIInv
  <1>1. EntryInit => EntryIInv
    BY PagingInit, JumpInit DEF EntryIInv
  <1>2. UNCHANGED vars /\ PagingIInv => PagingIInv'
    BY DEF vars, PagingIInv, TypeOK, Mapped
  <1>3. UNCHANGED jump /\ JumpIInv => JumpIInv'
    BY DEF jump, JumpIInv, Jump!TypeOK, Executed
  <1>4. EntryIInv /\ [EntryNext]_entryVars => EntryIInv'
    BY <1>2, <1>3, PagingStep, JumpStep
    DEF EntryIInv, EntryNext, MapHigherHalf, JumpToKernel, Started, entryVars
  <1> QED
    BY <1>1, <1>4, PTL DEF EntrySpec

(* Every variable has the values it is declared for.                        *)
THEOREM EntryTypeCorrect == EntrySpec => []EntryTypeOK
  <1>1. EntryIInv => EntryTypeOK
    BY DEF EntryIInv, PagingIInv, JumpIInv, EntryTypeOK
  <1> QED
    BY <1>1, EntryInvariance, PTL

(* The kernel is entered at its entry point, with the struct in rdi and its *)
(* own stack; rbp still holds what the loader left there and r8 the entry   *)
(* point, which src/README.md:49 does not say, and the others are zero.     *)
THEOREM TheArgumentsArrive == EntrySpec => []ArgumentsArrive
  <1>1. EntryIInv => ArgumentsArrive
    <2> SUFFICES ASSUME EntryIInv, rip # "none" PROVE ArgumentsArrive
      BY DEF ArgumentsArrive, Jump!ArgumentsArrive
    <2>0. Executed /\ instruction \in Nat /\ instruction > 14 /\ rip = "entry"
      BY ProgramIs DEF EntryIInv, JumpIInv, Jump!TypeOK, Executed
    <2>1. ASSUME NEW r \in Jump!Registers \ { "rdi", "rsp", "rbp", "r8" }
          PROVE  registers[r] = "zero"
      <3>1. PICK n \in 1 .. 12 : Order[n] = r
        BY OrderIs
      <3> QED
        BY <2>0, <3>1 DEF Executed
    <2> QED
      BY <2>0, <2>1 DEF Executed, ArgumentsArrive, Jump!ArgumentsArrive
  <1> QED
    BY <1>1, EntryInvariance, PTL

-----------------------------------------------------------------------------
(* The number of an address's table, and its index in it.                   *)
LEMMA IndexIs ==
  ASSUME NEW a \in Int
  PROVE  (a \div Entries) % Entries \in Index /\ a % Entries \in Index
  <1>1. \A e \in Nat \ {0}, x \in Int : x \div e \in Int /\ x % e \in 0 .. e - 1
    BY SMT
  <1>2. Entries \in Nat \ {0}
    BY Sizes
  <1>3. a \div Entries \in Int
    BY <1>1, <1>2
  <1> QED
    BY <1>1, <1>2, <1>3 DEF Index

(* The lower half is what the first half of the PML4 leads to.              *)
LEMMA LowerIndexIs ==
  ASSUME NEW a \in LowerHalf
  PROVE  (a \div Entries) % Entries \in 0 .. Half - 1
  <1>1. \A e \in Nat \ {0}, h \in Nat, x \in Nat : x < h * e => x \div e \in 0 .. h - 1
    BY SMT
  <1>2. Entries \in Nat \ {0} /\ Half \in Nat /\ Half < Entries
    BY Sizes
  <1>3. a \in Nat /\ a < Half * Entries
    <2>1. \A x, y \in Nat : x * y \in Int
      BY SMT
    <2> QED
      BY <1>2, <2>1 DEF LowerHalf
  <1>4. a \div Entries \in 0 .. Half - 1
    BY <1>1, <1>2, <1>3
  <1>5. \A e \in Nat \ {0} : \A x \in 0 .. e - 1 : x % e = x
    BY SMT
  <1> QED
    BY <1>2, <1>4, <1>5

(* What a statement changes is not in the lower half, or is not reached.    *)
LEMMA Usable ==
  PagingIInv /\ PagingIInv' /\ [Next]_vars
    => [LowerHalfKept /\ NoJunk' /\ WrittenUnprotected]_vars
  <1> SUFFICES ASSUME PagingIInv, PagingIInv', Next
               PROVE  LowerHalfKept /\ NoJunk' /\ WrittenUnprotected
    OBVIOUS
  <1> DEFINE Value == Index \cup (Entries .. 2 * Entries - 1) \cup { Absent, Junk }
  <1>0. /\ pml4 \in [Index -> Tables \cup { "none" }] /\ pml3 \in [Tables -> [Index -> Value]]
        /\ Mapped /\ Absent # Junk
    BY DEF PagingIInv, TypeOK, Absent, Junk
  <1>1. /\ pml4' \in [Index -> Tables \cup { "none" }] /\ pml3' \in [Tables -> [Index -> Value]]
        /\ Mapped'
    BY DEF PagingIInv, TypeOK
  <1> HIDE DEF Value
  <1>2. /\ \A e \in 0 .. Half - 1 : pml4'[e] = pml4[e] /\ pml4[e] # "high" /\ e \in Index
        /\ pml3'.low = pml3.low /\ pml3'.other = pml3.other
    <2>1. \A e \in 0 .. Half - 1 : e \in Index /\ e # Half /\ e # Entries - 1
      BY Sizes DEF Index
    <2>2. \A e \in 0 .. Half - 1 : pml4[e] # "high"
      BY <1>0, <2>1 DEF Mapped
    <2>3. \A e \in 0 .. Half - 1 : pml4'[e] = pml4[e]
      BY <1>0, <2>1 DEF Next, Unprotect, Mirror, Clear, Link, Copy
    <2>4. pml3'.low = pml3.low /\ pml3'.other = pml3.other
      BY <1>0 DEF Next, Unprotect, Mirror, Clear, Link, Copy, Tables
    <2> QED
      BY <2>1, <2>2, <2>3, <2>4
  <1>3. LowerHalfKept
    <2> SUFFICES ASSUME NEW a \in LowerHalf PROVE Translate(a)' = Translate(a)
      BY DEF LowerHalfKept
    <2> DEFINE q == (a \div Entries) % Entries
    <2>1. q \in 0 .. Half - 1
      BY LowerIndexIs
    <2> HIDE DEF q
    <2>2. /\ pml4'[q] = pml4[q] /\ pml4[q] \in { "low", "other", "none" }
      BY <1>0, <1>2, <2>1 DEF Tables
    <2> QED
      BY <1>2, <2>2 DEF Translate, q
  <1>4. NoJunk'
    <2> SUFFICES ASSUME NEW a \in LowerHalf \cup UpperHalf PROVE (Translate(a) # Junk)'
      BY DEF NoJunk
    <2> DEFINE q == (a \div Entries) % Entries
               r == a % Entries
    <2>1. q \in Index /\ r \in Index
      BY IndexIs DEF LowerHalf, UpperHalf
    <2> HIDE DEF q, r
    <2>2. pml4'[q] = "high" => pml3'.high[r] # Junk
      <3>1. pml4'[q] = "high" => pc' > 4
        BY <1>1, <2>1 DEF Mapped
      <3>2. pc' \in Nat
        BY StatementsAre DEF PagingIInv, TypeOK
      <3>3. pc' > 4 => pml3'.high[r] # Junk
        BY <1>1, <2>1, <3>2 DEF Mapped
      <3> QED
        BY <3>1, <3>3
    <2>3. pml3'.low[r] # Junk /\ pml3'.other[r] # Junk
      BY <1>1, <2>1 DEF Mapped
    <2>4. pml4'[q] \in { "low", "other", "high", "none" }
      BY <1>1, <2>1 DEF Tables
    <2> QED
      BY <1>0, <2>2, <2>3, <2>4 DEF Translate, q, r
  <1>5. WrittenUnprotected
    <2>1. wp => pc = 1
      <3>1. pc > 1 => wp = FALSE
        BY <1>0 DEF Mapped
      <3>2. pc \in 1 .. 7
        BY StatementsAre DEF PagingIInv, TypeOK
      <3>3. ~(pc > 1) => pc = 1
        BY <3>2
      <3> QED
        BY <3>1, <3>3
    <2>2. pc = 1 => UNCHANGED <<pml4, pml3>>
      BY StatementsAre DEF Next, Unprotect, Mirror, Clear, Link, Copy
    <2> QED
      BY <2>1, <2>2 DEF WrittenUnprotected
  <1> QED
    BY <1>3, <1>4, <1>5

(* No statement disturbs what is running on the tables: the lower half does *)
(* not change, no stale entry is ever reached, and what may be protected is *)
(* not written to.                                                          *)
THEOREM TablesRemainUsable == EntrySpec => TablesStayUsable
  <1>1. [EntryNext]_entryVars => [Next]_vars
    BY DEF EntryNext, MapHigherHalf, JumpToKernel, Started, entryVars
  <1>2. EntryIInv => PagingIInv
    BY DEF EntryIInv
  <1>3. EntryIInv /\ EntryIInv' /\ [EntryNext]_entryVars
          => [LowerHalfKept /\ NoJunk' /\ WrittenUnprotected]_vars
    BY <1>1, Usable DEF EntryIInv
  <1> QED
    BY <1>3, EntryInvariance, PTL DEF EntrySpec, TablesStayUsable

-----------------------------------------------------------------------------
(* An address of table j is found at its index there.                       *)
LEMMA TranslateAt ==
  \A t \in Nat : \A j, r \in Index :
    Translate((t * Entries + j) * Entries + r)
      = IF pml4[j] = "none" THEN Absent ELSE pml3[pml4[j]][r]
  <1> SUFFICES ASSUME NEW t \in Nat, NEW j \in Index, NEW r \in Index
               PROVE  Translate((t * Entries + j) * Entries + r)
                        = IF pml4[j] = "none" THEN Absent ELSE pml3[pml4[j]][r]
    OBVIOUS
  <1> DEFINE q == t * Entries + j
  <1>1. Entries \in Nat \ {0} /\ j \in 0 .. Entries - 1 /\ r \in 0 .. Entries - 1 /\ j \in Nat
    BY Sizes DEF Index
  <1>2. t * Entries \in Nat
    <2>1. \A x, y \in Nat : x * y \in Nat
      BY SMT
    <2> QED
      BY <1>1, <2>1
  <1>3. q \in Nat /\ q % Entries = j
    BY <1>1, <1>2, Quotient
  <1> HIDE DEF q
  <1>4. (q * Entries + r) \div Entries = q /\ (q * Entries + r) % Entries = r
    BY <1>1, <1>3, Quotient
  <1>5. Translate(q * Entries + r) = IF pml4[j] = "none" THEN Absent ELSE pml3[pml4[j]][r]
    BY <1>3, <1>4 DEF Translate
  <1> QED
    BY <1>5 DEF q

(* Where the addresses of a kernel, and those of memory in the middle of    *)
(* the address space, are in the tables.                                    *)
LEMMA Places ==
  \E t \in Nat :
    /\ AddressSpace - 2 = (t * Entries + (Entries - 1)) * Entries + (Entries - 2)
    /\ AddressSpace - 1 = (t * Entries + (Entries - 1)) * Entries + (Entries - 1)
    /\ \A a \in Index : AddressSpace - Half * Entries + a = (t * Entries + Half) * Entries + a
    /\ \A a \in Index : a = (0 * Entries + 0) * Entries + a
    /\ 2 * Entries <= AddressSpace
  <1>1. PICK c \in Nat \ {0} : AddressSpace = (c * Entries) * Entries
    BY Sizes
  <1>2. c - 1 \in Nat
    BY <1>1
  <1> DEFINE t == c - 1
  <1>3. \A e, x \in Nat :
          /\ ((x + 1) * e) * e - 2 = (x * e + (e - 1)) * e + (e - 2)
          /\ ((x + 1) * e) * e - 1 = (x * e + (e - 1)) * e + (e - 1)
    BY SMT
  <1>4. \A h, x \in Nat : \A a \in Nat :
          ((x + 1) * (2 * h)) * (2 * h) - h * (2 * h) + a = (x * (2 * h) + h) * (2 * h) + a
    BY SMT
  <1>5. \A e, x \in Nat : e >= 4 => 2 * e <= ((x + 1) * e) * e
    BY SMT
  <1> QED
    <2>1. t \in Nat /\ c = t + 1 /\ AddressSpace = ((t + 1) * Entries) * Entries
      BY <1>1, <1>2
    <2> HIDE DEF t
    <2>2. Entries \in Nat /\ Half \in Nat /\ Entries = 2 * Half /\ Entries >= 4
      BY Sizes
    <2>3. \A a \in Index : AddressSpace - Half * Entries + a = (t * Entries + Half) * Entries + a
      BY <1>4, <2>1, <2>2 DEF Index
    <2>4. \A a \in Index : a = (0 * Entries + 0) * Entries + a
      BY <2>2 DEF Index
    <2> QED
      BY <1>3, <1>5, <2>1, <2>2, <2>3, <2>4

(* Once the tables are written, a kernel is found where it was loaded.      *)
THEOREM TheKernelIsWhereItWasLoaded == EntrySpec => []KernelIsWhereItWasLoaded
  <1>1. EntryIInv => KernelIsWhereItWasLoaded
    <2> SUFFICES ASSUME EntryIInv, pc > 6 PROVE
          /\ \A a \in HighBase .. AddressSpace - 1 : Translate(a) = pml3.low[LoadAddress(a)]
          /\ \A a \in Index : /\ Translate(a) = pml3.low[LoadAddress(a)]
                              /\ Translate(AddressSpace - Half * Entries + a) = pml3.low[a]
      BY StatementsAre DEF KernelIsWhereItWasLoaded
    <2>0. /\ pml4[0] = "low" /\ pml4[Half] = "low" /\ pml4[Entries - 1] = "high"
          /\ pml3.high[Entries - 2] = pml3.low[0] /\ pml3.high[Entries - 1] = pml3.low[1]
      <3>1. pc \in Nat
        BY StatementsAre DEF EntryIInv, PagingIInv, TypeOK
      <3> QED
        BY <3>1 DEF EntryIInv, PagingIInv, Mapped
    <2>1. PICK t \in Nat :
            /\ AddressSpace - 2 = (t * Entries + (Entries - 1)) * Entries + (Entries - 2)
            /\ AddressSpace - 1 = (t * Entries + (Entries - 1)) * Entries + (Entries - 1)
            /\ \A a \in Index :
                 AddressSpace - Half * Entries + a = (t * Entries + Half) * Entries + a
            /\ \A a \in Index : a = (0 * Entries + 0) * Entries + a
            /\ 2 * Entries <= AddressSpace
      BY Places
    <2>2. /\ Translate(AddressSpace - 2) = pml3.low[0]
          /\ Translate(AddressSpace - 1) = pml3.low[1]
      BY <2>0, <2>1, TranslateAt, EntriesWritten
    <2>3. /\ LoadAddress(AddressSpace - 2) = 0 /\ LoadAddress(AddressSpace - 1) = 1
          /\ \A a \in HighBase .. AddressSpace - 1 : a \in { AddressSpace - 2, AddressSpace - 1 }
      <3>1. \A n \in Nat : n >= 8 => 0 % n = 0 /\ 1 % n = 1
        BY SMT
      <3>2. AddressSpace \in Nat /\ AddressSpace >= 8 /\ HighBase = AddressSpace - 2
        BY <2>1, Sizes
      <3>3. 2 * (AddressSpace - 2) >= AddressSpace /\ 2 * (AddressSpace - 1) >= AddressSpace
            /\ AddressSpace - 2 - HighBase = 0 /\ AddressSpace - 1 - HighBase = 1
        BY <3>2
      <3> QED
        BY <3>1, <3>2, <3>3 DEF LoadAddress
    <2>4. ASSUME NEW a \in Index
          PROVE  /\ Translate(a) = pml3.low[LoadAddress(a)]
                 /\ Translate(AddressSpace - Half * Entries + a) = pml3.low[a]
      <3>1. LoadAddress(a) = a
        <4>1. ~(2 * a >= AddressSpace)
          BY <2>1, Sizes DEF Index
        <4> QED
          BY <4>1 DEF LoadAddress
      <3>2. Translate((0 * Entries + 0) * Entries + a) = pml3.low[a]
        BY <2>0, TranslateAt, EntriesWritten
      <3>3. Translate((t * Entries + Half) * Entries + a) = pml3.low[a]
        BY <2>0, TranslateAt, EntriesWritten
      <3> QED
        BY <2>1, <3>1, <3>2, <3>3
    <2> QED
      BY <2>2, <2>3, <2>4
  <1> QED
    BY <1>1, EntryInvariance, PTL
=============================================================================
