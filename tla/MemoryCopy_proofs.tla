-------------------------- MODULE MemoryCopy_proofs ---------------------------
(***************************************************************************)
(* The copy is exact for buffers of every length, alignment and overlap.   *)
(*                                                                         *)
(* The inductive invariant is CopyInvariant.  A byte that is still to be   *)
(* copied may have been overwritten only if it lies in the destination, at *)
(* an offset already copied; the direction is chosen so that it does not:  *)
(* upwards it lies further up, downwards no further up.                    *)
(***************************************************************************)
EXTENDS MemoryCopy, TLAPS

(* What a word, or the single byte that fills one up, has in common. *)
LEMMA SizeFits ==
  ASSUME NEW w \in { 1, 4, 8 }, NEW n \in Nat \ {0}
  PROVE  /\ LET s == IF n >= w THEN w ELSE 1 IN s \in 1 .. n
         /\ LET s == IF n % w = 0 THEN w ELSE 1 IN s \in 1 .. n
  <1>1. n % 4 = 0 => n >= 4
    BY SMT
  <1>2. n % 8 = 0 => n >= 8
    BY SMT
  <1>3. n % w = 0 => n >= w
    BY <1>1, <1>2
  <1> QED BY <1>3

(* Copying at an offset whose source has not been overwritten: each byte of  *)
(* the destination there becomes what the source was, and no other changes.  *)
LEMMA CopyIsLocal ==
  ASSUME CopyInvariant,
         NEW offset \in 0 .. length - 1, NEW size \in 1 .. length - offset,
         Copy(offset, size),
         \A k \in offset .. offset + size - 1 : memory[source + k] = source + k
  PROVE  /\ memory' \in [Addresses -> Addresses]
         /\ \A k \in offset .. offset + size - 1 : memory'[target + k] = source + k
         /\ \A k \in 0 .. length - 1 :
               k \notin offset .. offset + size - 1 => memory'[target + k] = memory[target + k]
         /\ RestUntouched'
  <1> DEFINE Written == target + offset .. target + offset + size - 1
  <1>1. /\ MemorySize \in Nat /\ target \in Nat /\ source \in Nat /\ length \in Nat
        /\ target + length <= MemorySize /\ source + length <= MemorySize
        /\ memory \in [Addresses -> Addresses]
    BY MemoryCopyAssumption DEF CopyInvariant, TypeOK, Addresses
  <1>2. /\ memory' = [a \in Addresses |->
                        IF a \in Written THEN memory[source + (a - target)] ELSE memory[a]]
        /\ target' = target /\ length' = length
    BY DEF Copy, call
  <1>3. \A a \in Written : a \in Addresses /\ source + (a - target) \in Addresses
    BY <1>1 DEF Addresses
  <1>4. memory' \in [Addresses -> Addresses]
    BY <1>1, <1>2, <1>3
  <1>5. ASSUME NEW k \in offset .. offset + size - 1
        PROVE  memory'[target + k] = source + k
    <2>1. target + k \in Written /\ target + k \in Addresses
          /\ source + ((target + k) - target) = source + k
      BY <1>1 DEF Addresses
    <2>2. memory'[target + k] = memory[source + ((target + k) - target)]
      BY <1>2, <2>1
    <2> QED BY <2>1, <2>2
  <1>6. ASSUME NEW k \in 0 .. length - 1, k \notin offset .. offset + size - 1
        PROVE  memory'[target + k] = memory[target + k]
    <2>1. target + k \notin Written /\ target + k \in Addresses
      BY <1>1, <1>6 DEF Addresses
    <2> QED BY <1>2, <2>1
  <1>7. RestUntouched'
    <2>1. ASSUME NEW a \in Addresses, a \notin target .. target + length - 1
          PROVE  memory'[a] = a
      <3>1. a \notin Written
        BY <1>1, <2>1 DEF Addresses
      <3>2. memory[a] = a
        BY <2>1 DEF CopyInvariant, RestUntouched
      <3> QED BY <1>2, <3>1, <3>2
    <2> QED BY <1>2, <2>1 DEF RestUntouched, Addresses
  <1> QED BY <1>4, <1>5, <1>6, <1>7

LEMMA Initially == Init => CopyInvariant
  <1> SUFFICES ASSUME Init PROVE CopyInvariant
    OBVIOUS
  <1>1. TypeOK
    BY MemoryCopyAssumption DEF Init, TypeOK, Addresses
  <1>2. \A a \in Addresses : memory[a] = a
    BY DEF Init
  <1>3. Copied = {}
    BY MemoryCopyAssumption DEF Init, Copied, IsAfter, left, Addresses
  <1>4. ASSUME NEW k \in 0 .. length - 1
        PROVE  memory[target + k] = IF k \in Copied THEN source + k ELSE target + k
    <2>1. target + k \in Addresses
      BY MemoryCopyAssumption DEF Init, Addresses
    <2> QED BY <1>2, <1>3, <2>1
  <1> QED BY <1>1, <1>2, <1>4 DEF Init, CopyInvariant, RestUntouched

(* Upwards, the source of what is copied lies outside the destination or     *)
(* further up in it, where nothing has been copied yet.                      *)
LEMMA UpwardsStep == CopyInvariant /\ Upwards => CopyInvariant'
  <1> SUFFICES ASSUME CopyInvariant, Upwards PROVE CopyInvariant'
    OBVIOUS
  <1> DEFINE size == IF left >= word THEN word ELSE 1
  <1>1. /\ MemorySize \in Nat /\ MaxLength \in Nat
        /\ target \in Nat /\ source \in Nat /\ length \in Nat /\ done \in 0 .. length
        /\ word \in { 1, 4, 8 } /\ length <= MaxLength
        /\ target + length <= MemorySize /\ source + length <= MemorySize
        /\ left \in Nat \ {0} /\ left = length - done
        /\ target < source /\ Copied = 0 .. done - 1
    BY MemoryCopyAssumption DEF CopyInvariant, TypeOK, Addresses, Upwards, left, Copied, IsAfter
  <1>2. size \in 1 .. left
    BY <1>1, SizeFits
  <1>3. Copy(done, size) /\ pc = "copy"
    BY DEF Upwards
  <1> HIDE DEF size
  <1>4. ASSUME NEW k \in done .. done + size - 1
        PROVE  memory[source + k] = source + k
    <2>1. source + k \in Addresses /\ k \in 0 .. length - 1
      BY <1>1, <1>2 DEF Addresses
    <2>2. CASE source + k \notin target .. target + length - 1
      BY <2>1, <2>2 DEF CopyInvariant, RestUntouched
    <2>3. CASE source + k \in target .. target + length - 1
      <3> DEFINE j == source + k - target
      <3>1. j \in 0 .. length - 1 /\ j \notin 0 .. done - 1 /\ target + j = source + k
        BY <1>1, <1>2, <2>3
      <3>2. memory[target + j] = target + j
        BY <1>1, <3>1 DEF CopyInvariant
      <3> QED BY <3>1, <3>2
    <2> QED BY <2>2, <2>3
  <1>5. /\ memory' \in [Addresses -> Addresses]
        /\ \A k \in done .. done + size - 1 : memory'[target + k] = source + k
        /\ \A k \in 0 .. length - 1 :
              k \notin done .. done + size - 1 => memory'[target + k] = memory[target + k]
        /\ RestUntouched'
    <2>1. done \in 0 .. length - 1 /\ size \in 1 .. length - done
      BY <1>1, <1>2
    <2> QED BY <1>3, <1>4, <2>1, CopyIsLocal
  <1>6. /\ done' = done + size
        /\ target' = target /\ source' = source /\ length' = length
        /\ word' = word /\ pc' = "copy"
    BY <1>3 DEF Copy, call
  <1>7. TypeOK'
    BY <1>1, <1>2, <1>5, <1>6 DEF CopyInvariant, TypeOK
  <1>8. Copied' = 0 .. done + size - 1
    <2>1. IsAfter'
      BY <1>1, <1>6 DEF IsAfter
    <2>2. Copied' = 0 .. done' - 1
      BY <2>1 DEF Copied
    <2> QED BY <1>1, <1>2, <1>6, <2>2
  <1>9. ASSUME NEW k \in 0 .. length - 1
        PROVE  memory'[target + k] = IF k \in 0 .. done + size - 1 THEN source + k ELSE target + k
    <2>1. CASE k \in done .. done + size - 1
      BY <1>1, <1>2, <1>5, <2>1
    <2>2. CASE k \notin done .. done + size - 1
      <3>1. memory'[target + k] = memory[target + k]
        BY <1>5, <2>2
      <3>2. memory[target + k] = IF k \in 0 .. done - 1 THEN source + k ELSE target + k
        BY <1>1 DEF CopyInvariant
      <3>3. k \in 0 .. done + size - 1 <=> k \in 0 .. done - 1
        BY <1>1, <1>2, <2>2
      <3> QED BY <3>1, <3>2, <3>3
    <2> QED BY <2>1, <2>2
  <1> QED BY <1>5, <1>6, <1>7, <1>8, <1>9 DEF CopyInvariant

(* Downwards, it lies outside the destination, or no further up in it than   *)
(* where it is copied to, and nothing has been copied so far down.           *)
LEMMA DownwardsStep == CopyInvariant /\ Downwards => CopyInvariant'
  <1> SUFFICES ASSUME CopyInvariant, Downwards PROVE CopyInvariant'
    OBVIOUS
  <1> DEFINE size == IF left % word = 0 THEN word ELSE 1
  <1>1. /\ MemorySize \in Nat /\ MaxLength \in Nat
        /\ target \in Nat /\ source \in Nat /\ length \in Nat /\ done \in 0 .. length
        /\ word \in { 1, 4, 8 } /\ length <= MaxLength
        /\ target + length <= MemorySize /\ source + length <= MemorySize
        /\ left \in Nat \ {0} /\ left = length - done
        /\ source <= target /\ Copied = left .. length - 1
    BY MemoryCopyAssumption DEF CopyInvariant, TypeOK, Addresses, Downwards, left, Copied, IsAfter
  <1>2. size \in 1 .. left
    BY <1>1, SizeFits
  <1>3. Copy(left - size, size) /\ pc = "copy"
    BY DEF Downwards
  <1> HIDE DEF size
  <1>4. ASSUME NEW k \in left - size .. left - size + size - 1
        PROVE  memory[source + k] = source + k
    <2>1. source + k \in Addresses /\ k \in 0 .. length - 1
      BY <1>1, <1>2 DEF Addresses
    <2>2. CASE source + k \notin target .. target + length - 1
      BY <2>1, <2>2 DEF CopyInvariant, RestUntouched
    <2>3. CASE source + k \in target .. target + length - 1
      <3> DEFINE j == source + k - target
      <3>1. j \in 0 .. length - 1 /\ j \notin left .. length - 1 /\ target + j = source + k
        BY <1>1, <1>2, <2>3
      <3>2. memory[target + j] = target + j
        BY <1>1, <3>1 DEF CopyInvariant
      <3> QED BY <3>1, <3>2
    <2> QED BY <2>2, <2>3
  <1>5. /\ memory' \in [Addresses -> Addresses]
        /\ \A k \in left - size .. left - size + size - 1 : memory'[target + k] = source + k
        /\ \A k \in 0 .. length - 1 :
              k \notin left - size .. left - size + size - 1 => memory'[target + k] = memory[target + k]
        /\ RestUntouched'
    <2>1. left - size \in 0 .. length - 1 /\ size \in 1 .. length - (left - size)
      BY <1>1, <1>2
    <2> QED BY <1>3, <1>4, <2>1, CopyIsLocal
  <1>6. /\ done' = done + size
        /\ target' = target /\ source' = source /\ length' = length
        /\ word' = word /\ pc' = "copy"
    BY <1>3 DEF Copy, call
  <1>7. TypeOK'
    BY <1>1, <1>2, <1>5, <1>6 DEF CopyInvariant, TypeOK
  <1>8. Copied' = left - size .. length - 1
    BY <1>1, <1>2, <1>6 DEF Copied, IsAfter, left
  <1>9. ASSUME NEW k \in 0 .. length - 1
        PROVE  memory'[target + k] = IF k \in left - size .. length - 1 THEN source + k ELSE target + k
    <2>1. CASE k \in left - size .. left - size + size - 1
      BY <1>1, <1>2, <1>5, <2>1
    <2>2. CASE k \notin left - size .. left - size + size - 1
      <3>1. memory'[target + k] = memory[target + k]
        BY <1>5, <2>2
      <3>2. memory[target + k] = IF k \in left .. length - 1 THEN source + k ELSE target + k
        BY <1>1 DEF CopyInvariant
      <3>3. k \in left - size .. length - 1 <=> k \in left .. length - 1
        BY <1>1, <1>2, <2>2
      <3> QED BY <3>1, <3>2, <3>3
    <2> QED BY <2>1, <2>2
  <1> QED BY <1>5, <1>6, <1>7, <1>8, <1>9 DEF CopyInvariant

LEMMA Inductive == CopyInvariant /\ [Next]_vars => CopyInvariant'
  <1> SUFFICES ASSUME CopyInvariant, [Next]_vars PROVE CopyInvariant'
    OBVIOUS
  <1> USE DEF CopyInvariant, TypeOK, RestUntouched, Copied, IsAfter, left, call
  <1>1. CASE CopyNothing
    BY <1>1 DEF CopyNothing
  <1>2. CASE Begin
    BY <1>2 DEF Begin, WordSize
  <1>3. CASE Upwards
    BY <1>3, UpwardsStep
  <1>4. CASE Downwards
    BY <1>4, DownwardsStep
  <1>5. CASE Return
    BY <1>5 DEF Return
  <1>6. CASE UNCHANGED vars
    BY <1>6 DEF vars
  <1> QED BY <1>1, <1>2, <1>3, <1>4, <1>5, <1>6 DEF Next, Terminated

LEMMA InvariantHolds == Spec => []CopyInvariant
  BY Initially, Inductive, PTL DEF Spec

(* The counters of CopyMem stay within its buffers, and it writes and reads   *)
(* nothing that is not there, whatever the buffers.                          *)
THEOREM TypeCorrect == Spec => []TypeOK
  <1>1. CopyInvariant => TypeOK
    BY DEF CopyInvariant
  <1> QED BY <1>1, InvariantHolds, PTL

(* CopyMem copies exactly, for buffers of every length and alignment that     *)
(* overlap in whatever way, and writes to nothing else: the copy of the RSDP  *)
(* is the RSDP.                                                              *)
THEOREM CopyIsCorrect == Spec => []CopyIsExact
  <1>1. CopyInvariant => CopyIsExact
    <2> SUFFICES ASSUME CopyInvariant, pc = "returned", NEW a \in Addresses
                 PROVE  memory[a] = IF a \in target .. target + length - 1
                                      THEN source + (a - target) ELSE a
      BY DEF CopyIsExact
    <2> DEFINE k == a - target
    <2>1. CASE a \notin target .. target + length - 1
      BY <2>1 DEF CopyInvariant, RestUntouched
    <2>2. CASE a \in target .. target + length - 1
      <3>1. k \in 0 .. length - 1 /\ target + k = a
        BY <2>2 DEF CopyInvariant, TypeOK, Addresses
      <3>2. memory[a] = IF k \in Copied THEN source + k ELSE target + k
        BY <3>1 DEF CopyInvariant
      <3>3. CASE target = source
        BY <2>2, <3>2, <3>3
      <3>4. CASE left = 0
        BY <2>2, <3>1, <3>2, <3>4 DEF CopyInvariant, TypeOK, Copied, left
      <3> QED BY <3>3, <3>4 DEF CopyInvariant
    <2> QED BY <2>1, <2>2
  <1> QED BY <1>1, InvariantHolds, PTL

(* CopyMem writes no byte outside its destination. *)
THEOREM NothingElseIsWritten == Spec => []RestUntouched
  <1>1. CopyInvariant => RestUntouched
    BY DEF CopyInvariant
  <1> QED BY <1>1, InvariantHolds, PTL

-----------------------------------------------------------------------------
(* What is left to do: at most one step for each byte, and those around.    *)
StepsLeft == left + [call |-> 2, copy |-> 1, returned |-> 0][pc]

(* The copy ends, whatever the size of its words: no step of either loop is *)
(* one that copies nothing (CopyMem.c:34-146).                              *)
THEOREM CopyRunsDown ==
  Spec => /\ [](StepsLeft \in 0 .. length + 2)
          /\ [][StepsLeft' < StepsLeft]_vars
  <1>1. CopyInvariant => StepsLeft \in 0 .. length + 2
    BY MemoryCopyAssumption DEF CopyInvariant, TypeOK, StepsLeft, left
  <1>2. CopyInvariant /\ [Next]_vars => [StepsLeft' < StepsLeft]_vars
    <2> SUFFICES ASSUME CopyInvariant, Next, ~UNCHANGED vars PROVE StepsLeft' < StepsLeft
      OBVIOUS
    <2>1. /\ length \in Nat /\ done \in 0 .. length /\ word \in { 1, 4, 8 }
          /\ pc = "call" => done = 0
      BY MemoryCopyAssumption DEF CopyInvariant, TypeOK
    <2>2. CASE CopyNothing \/ Begin \/ Return
      BY <2>1, <2>2 DEF CopyNothing, Begin, Return, call, StepsLeft, left
    <2>3. CASE Upwards
      BY <2>1, <2>3 DEF Upwards, Copy, call, StepsLeft, left
    <2>4. CASE Downwards
      <3> DEFINE size == IF left % word = 0 THEN word ELSE 1
      <3>1. size \in { 1, 4, 8 } /\ Copy(left - size, size) /\ pc = "copy"
        BY <2>1, <2>4 DEF Downwards
      <3> HIDE DEF size
      <3> QED
        BY <2>1, <3>1 DEF Copy, call, StepsLeft, left
    <2> QED
      BY <2>2, <2>3, <2>4 DEF Next, Terminated
  <1> QED
    BY <1>1, <1>2, InvariantHolds, PTL DEF Spec
=============================================================================
