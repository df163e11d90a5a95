------------------------------ MODULE MemoryCopy ------------------------------
(***************************************************************************)
(* CopyMem (libedk2's BaseMemoryLib), which the copy of the RSDP is made   *)
(* with: words of eight bytes where both buffers are aligned to them, of   *)
(* four where they are aligned to those, and bytes, in the direction that  *)
(* a source overlapping its destination calls for.                         *)
(*                                                                         *)
(* A byte of memory holds the address it was at when the call was made.    *)
(***************************************************************************)
EXTENDS Integers

CONSTANTS
  MemorySize,  \* the number of bytes
  MaxLength    \* bound: Length

ASSUME MemoryCopyAssumption == MemorySize \in Nat /\ MaxLength \in Nat

Addresses == 0 .. MemorySize - 1

VARIABLES
  target, source, length,  \* DestinationBuffer, SourceBuffer and Length
  word,                    \* the size of the words they are copied in
  done,                    \* how many bytes have been copied
  memory,                  \* what each byte holds
  pc                       \* "call", "copy" or "returned"

call == <<target, source, length>>
vars == <<call, word, done, memory, pc>>

Init ==
  /\ target \in Addresses /\ source \in Addresses
  /\ length \in 0 .. MaxLength
  /\ target + length <= MemorySize /\ source + length <= MemorySize
  /\ word = 1
  /\ done = 0
  /\ memory = [a \in Addresses |-> a]
  /\ pc = "call"

-----------------------------------------------------------------------------
Aligned(w) == target % w = 0 /\ source % w = 0

WordSize ==
  IF Aligned(8) /\ length >= 8 THEN 8 ELSE IF Aligned(4) /\ length >= 4 THEN 4 ELSE 1

(* Nothing to copy, or nowhere to copy it. *)
CopyNothing ==
  /\ pc = "call"
  /\ length = 0 \/ target = source
  /\ pc' = "returned"
  /\ UNCHANGED <<call, word, done, memory>>

Begin ==
  /\ pc = "call"
  /\ length > 0 /\ target # source
  /\ word' = WordSize
  /\ pc' = "copy"
  /\ UNCHANGED <<call, done, memory>>

(* A slip: a word is counted whatever is copied. *)
CopyCountingWords(offset, size) ==
  /\ memory' = [a \in Addresses |->
                  IF a \in target + offset .. target + offset + size - 1
                    THEN memory[source + (a - target)] ELSE memory[a]]
  /\ done' = done + word
  /\ UNCHANGED <<call, word, pc>>

(* Copy what is at an offset of the buffers. *)
Copy(offset, size) ==
  /\ memory' = [a \in Addresses |->
                  IF a \in target + offset .. target + offset + size - 1
                    THEN memory[source + (a - target)] ELSE memory[a]]
  /\ done' = done + size
  /\ UNCHANGED <<call, word, pc>>

left == length - done

(* A slip: the direction that destroys an overlapping source. *)
IsBefore == target > source
IsAfter  == target < source

(* Upwards, the bytes that do not fill a word come last ... *)
Upwards ==
  /\ pc = "copy" /\ IsAfter /\ left > 0
  /\ Copy(done, IF left >= word THEN word ELSE 1)

(* ... and downwards, first. *)
Downwards ==
  /\ pc = "copy" /\ ~IsAfter /\ left > 0
  /\ LET size == IF left % word = 0 THEN word ELSE 1
     IN  Copy(left - size, size)

Return ==
  /\ pc = "copy" /\ left = 0
  /\ pc' = "returned"
  /\ UNCHANGED <<call, word, done, memory>>

Terminated == pc = "returned" /\ UNCHANGED vars

Next == CopyNothing \/ Begin \/ Upwards \/ Downwards \/ Return \/ Terminated

Spec == Init /\ [][Next]_vars

-----------------------------------------------------------------------------
TypeOK ==
  /\ target \in Addresses /\ source \in Addresses
  /\ length \in 0 .. MaxLength
  /\ target + length <= MemorySize /\ source + length <= MemorySize
  /\ word \in { 1, 4, 8 }
  /\ done \in 0 .. length
  /\ memory \in [Addresses -> Addresses]
  /\ pc \in { "call", "copy", "returned" }

(* "it must handle the case where SourceBuffer overlaps DestinationBuffer"   *)
(* (CopyMemWrapper.c): the destination is what the source was, and nothing   *)
(* else is written to.                                                       *)
CopyIsExact ==
  pc = "returned" =>
    \A a \in Addresses :
       memory[a] = IF a \in target .. target + length - 1 THEN source + (a - target) ELSE a

(* No byte outside the destination is written to. *)
RestUntouched ==
  \A a \in Addresses : a \notin target .. target + length - 1 => memory[a] = a

-----------------------------------------------------------------------------
(* Why: what has been copied is what it should be, and what has not been     *)
(* copied is still in the source.                                            *)
Copied == IF IsAfter THEN 0 .. done - 1 ELSE left .. length - 1

CopyInvariant ==
  /\ TypeOK
  /\ RestUntouched
  /\ pc = "call" => done = 0 /\ word = 1
  /\ pc = "returned" => target = source \/ left = 0
  /\ \A k \in 0 .. length - 1 :
        memory[target + k] = IF k \in Copied THEN source + k ELSE target + k
=============================================================================
