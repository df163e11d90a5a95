------------------------------ MODULE HigherHalf ------------------------------
(***************************************************************************)
(* The higher half (src/Loader/Origami.c): how the loader extends the      *)
(* page tables it is running on, one statement after the other, while the  *)
(* firmware's events go on running on them.                                *)
(*                                                                         *)
(* The unit of an address is a gigabyte, what an entry of a PML3 maps.     *)
(* Below a PML3 nothing is changed, so an entry of one is the number of    *)
(* the gigabyte it leads to.  A table has Entries entries, 512 on the      *)
(* machine, and an address has one index into the PML4 and one into a PML3.*)
(***************************************************************************)
EXTENDS KernelAddress, Sequences

CONSTANT Entries

ASSUME HigherHalfAssumption ==
  /\ Entries \in Nat /\ Entries >= 4 /\ Entries % 2 = 0
  /\ AddressSpace % (Entries * Entries) = 0
  /\ HighBase = AddressSpace - 2

Index  == 0 .. Entries - 1
Half   == Entries \div 2
Absent == -1
Junk   == -2   \* what is in a page that has just been allocated

(* Tables of the firmware, the one the loader allocates, and no table. *)
Tables == { "low", "other", "high" }

VARIABLES
  wp,    \* CR0.WP: are tables that are read-only protected?
  pml4,  \* the PML3 each entry of the PML4 leads to, or "none"
  pml3,  \* the gigabyte each entry of each PML3 leads to
  pc     \* the number of the next statement

vars == <<wp, pml4, pml3, pc>>

(* The firmware maps memory to itself: the first table maps the lowest      *)
(* gigabytes, as many of them as there are.                                 *)
Init ==
  /\ wp \in BOOLEAN
  /\ pml4 \in { f \in [Index -> { "none", "low", "other" }] : f[0] = "low" }
  /\ \E low \in { f \in [Index -> Index \cup { Absent }] : \A e \in Index : f[e] \in { e, Absent } } :
        pml3 = [low |-> low, other |-> [e \in Index |-> Entries + e],
                high |-> [e \in Index |-> Junk]]
  /\ pc = 1

-----------------------------------------------------------------------------
(* A slip: the table is linked before it is cleared. *)
LinkedUncleared == <<"unprotect", "mirror", "link", "clear", "copyFirst", "copySecond">>
Statements      == <<"unprotect", "mirror", "clear", "link", "copyFirst", "copySecond">>

AtStatement(name) == pc \in DOMAIN Statements /\ Statements[pc] = name /\ pc' = pc + 1

(* Cr0.Bits.WP = 0 *)
Unprotect ==
  /\ AtStatement("unprotect")
  /\ wp' = FALSE
  /\ UNCHANGED <<pml4, pml3>>

(* Pml4[256] = Pml4[0] *)
Mirror ==
  /\ AtStatement("mirror")
  /\ pml4' = [pml4 EXCEPT ![Half] = pml4[0]]
  /\ UNCHANGED <<wp, pml3>>

(* SetMem(Pml3High, EFI_PAGE_SIZE, 0), after the page is allocated. *)
Clear ==
  /\ AtStatement("clear")
  /\ pml3' = [pml3 EXCEPT !.high = [e \in Index |-> Absent]]
  /\ UNCHANGED <<wp, pml4>>

(* Pml4[511] = Pml3High | 3 *)
Link ==
  /\ AtStatement("link")
  /\ pml4' = [pml4 EXCEPT ![Entries - 1] = "high"]
  /\ UNCHANGED <<wp, pml3>>

(* Pml3High[510] = Pml3Low[0], Pml3High[511] = Pml3Low[1]; the slip is to   *)
(* exchange the two, which is the order of a table that grows downwards.    *)
SourceDownwards(e) == Entries - 1 - e
Source(e) == e - (Entries - 2)

Copy(name, e) ==
  /\ AtStatement(name)
  /\ pml3' = [pml3 EXCEPT !.high[e] = pml3[pml4[0]][Source(e)]]
  /\ UNCHANGED <<wp, pml4>>

Next ==
  \/ Unprotect \/ Mirror \/ Clear \/ Link
  \/ Copy("copyFirst", Entries - 2) \/ Copy("copySecond", Entries - 1)

Spec == Init /\ [][Next]_vars

-----------------------------------------------------------------------------
(* What the processor finds at an address; the PML4 repeats in the addresses *)
(* beyond it, of which only the highest are used.                            *)
Translate(address) ==
  LET table == pml4[(address \div Entries) % Entries]
  IN  IF table = "none" THEN Absent ELSE pml3[table][address % Entries]

LowerHalf == 0 .. Half * Entries - 1
UpperHalf == AddressSpace - Half * Entries .. AddressSpace - 1

TypeOK ==
  /\ wp \in BOOLEAN
  /\ pml4 \in [Index -> Tables \cup { "none" }]
  /\ pml3 \in [Tables -> [Index -> Index \cup (Entries .. 2 * Entries - 1) \cup { Absent, Junk }]]
  /\ pc \in 1 .. Len(Statements) + 1

(* The machine runs on the tables being changed, and an interrupt may come   *)
(* between any two statements: all that the firmware and the loader use in   *)
(* the lower half stays where it was, nothing leads to what was in the new   *)
(* table's page before, and tables that may be protected are not written to. *)
LowerHalfKept      == \A a \in LowerHalf : Translate(a)' = Translate(a)
NoJunk             == \A a \in LowerHalf \cup UpperHalf : Translate(a) # Junk
WrittenUnprotected == wp => UNCHANGED <<pml4, pml3>>

TablesStayUsable == [][LowerHalfKept /\ NoJunk' /\ WrittenUnprotected]_vars

(* A kernel linked to the highest two gigabytes, or to the lowest ones, is   *)
(* found where LoadElf put it, and memory is found from the middle of the    *)
(* address space as well.                                                    *)
KernelIsWhereItWasLoaded ==
  pc > Len(Statements) =>
    /\ \A a \in HighBase .. AddressSpace - 1 : Translate(a) = pml3.low[LoadAddress(a)]
    /\ \A a \in Index : /\ Translate(a) = pml3.low[LoadAddress(a)]
                        /\ Translate(AddressSpace - Half * Entries + a) = pml3.low[a]
=============================================================================
