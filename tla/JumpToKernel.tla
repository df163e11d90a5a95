----------------------------- MODULE JumpToKernel -----------------------------
(***************************************************************************)
(* JumpToKernel (src/Loader/Origami.asm), an instruction at a time: what   *)
(* the registers hold when the kernel starts.  It is called with its       *)
(* arguments in rcx, rdx and r8, and whatever the loader left elsewhere.   *)
(***************************************************************************)
EXTENDS Naturals, Sequences

Arguments == [rcx |-> "struct", rdx |-> "stack", r8 |-> "entry"]

Registers == { "rax", "rbx", "rcx", "rdx", "rsi", "rdi", "rbp", "rsp", "r8",
               "r9", "r10", "r11", "r12", "r13", "r14", "r15" }

Values == { "zero", "rest", "struct", "stack", "entry" }

VARIABLES
  registers,  \* what each holds; "rest" is anything but an argument
  pc,         \* the number of the next instruction
  rip         \* where the jump leads

vars == <<registers, pc, rip>>

Init ==
  /\ registers = [r \in Registers |-> IF r \in DOMAIN Arguments THEN Arguments[r] ELSE "rest"]
  /\ pc = 1
  /\ rip = "none"

-----------------------------------------------------------------------------
Mov(to, from)  == [op |-> "mov", to |-> to, from |-> from]
Xor(to, from)  == [op |-> "xor", to |-> to, from |-> from]
Clear(names)   == [n \in DOMAIN names |-> Xor(names[n], names[n])]

Moves  == << Mov("rdi", "rcx"), Mov("rsp", "rdx") >>
Clears == Clear(<<"rax", "rbx", "rcx", "rdx", "rsi">>)
            \o Clear(<<"r9", "r10", "r11", "r12", "r13", "r14", "r15">>)

(* Slips: the arguments are moved after the registers are cleared, and one  *)
(* is cleared with another.                                                 *)
ClearsFirst == Clears \o Moves
MixedUp     == Moves \o << Xor("rax", "rdi") >> \o Tail(Clears)
Program     == Moves \o Clears

Result(instruction) ==
  LET a == registers[instruction.to]
      b == registers[instruction.from]
  IN  CASE instruction.op = "mov" -> b
        [] instruction.to = instruction.from -> "zero"
        [] instruction.to # instruction.from /\ a = "zero" -> b
        [] OTHER -> "mixed"

Execute ==
  /\ pc <= Len(Program)
  /\ registers' = [registers EXCEPT ![Program[pc].to] = Result(Program[pc])]
  /\ pc' = pc + 1
  /\ UNCHANGED rip

Jump ==
  /\ pc > Len(Program) /\ rip = "none"
  /\ rip' = registers["r8"]
  /\ UNCHANGED <<registers, pc>>

Next == Execute \/ Jump

Spec == Init /\ [][Next]_vars

-----------------------------------------------------------------------------
TypeOK ==
  /\ registers \in [Registers -> Values]
  /\ pc \in 1 .. Len(Program) + 1
  /\ rip \in Values \cup { "none" }

(* The kernel is entered where LoadOrigamiKernel says, with the struct in    *)
(* rdi and its own stack: no argument is overwritten before it is used.      *)
(* The other registers are zero, except two: rbp is as the loader left it,   *)
(* and r8 holds the entry point.  src/README.md:49 promises the kernel zero  *)
(* in these two as well; Origami.asm clears neither.                         *)
ArgumentsArrive ==
  rip # "none" =>
    /\ rip = "entry" /\ registers["rdi"] = "struct" /\ registers["rsp"] = "stack"
    /\ registers["rbp"] = "rest" /\ registers["r8"] = "entry"
    /\ \A r \in Registers \ { "rdi", "rsp", "rbp", "r8" } : registers[r] = "zero"
=============================================================================
