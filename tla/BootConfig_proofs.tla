-------------------------- MODULE BootConfig_proofs --------------------------
(***************************************************************************)
(* Proofs about BootConfig, for every set of configuration files.          *)
(*                                                                         *)
(* The entry is compared with what the lines read so far describe: one     *)
(* more line changes the description as parsing it changes the entry       *)
(* (DescriptionGrows), as long as no copy of a string was lost.            *)
(***************************************************************************)
EXTENDS BootConfig, WellFoundedInduction, TLAPS

(* The lines that were parsed. *)
Parsed == IF pc = "parse" THEN pos - 1 ELSE pos

(* What holds of the handles and the status at each place of the program.   *)
Staged ==
  /\ pc \in { "locate", "openVolume", "check", "prompt", "returned" } => open = {}
  /\ pc \notin { "close", "returned" } => status = "success"
  /\ pc = "prompt" => entry.path # Null
  /\ pc = "returned" /\ status = "success" => entry.path # Null

(* The line in the buffer, and what an entry has once it was named.         *)
Filled ==
  /\ pc = "parse" => pos # 0 /\ line = Seen(pos)
  /\ entry.path # Null => entry.fs
  /\ entry.name # Null => entry.fs
  /\ ~lost /\ entry.fs => entry.name # Null

IInv == TypeOK /\ Staged /\ Filled /\ EntryIsDescribed

-----------------------------------------------------------------------------
(* Naturals have a least element in every set of them that is not empty.    *)
LEMMA Least ==
  ASSUME NEW S \in SUBSET Nat, S # {}
  PROVE  \E x \in S : \A y \in S : x <= y
  <1>1. PICK x \in S : \A y \in S : ~(<<y, x>> \in OpToRel(<, Nat))
    BY NatLessThanWellFounded, WFMin
  <1>2. \A y \in S : ~(y < x)
    <2> TAKE y \in S
    <2> DEFINE p == <<y, x>>
    <2>1. p \in Nat \X Nat /\ p[1] = y /\ p[2] = x
      OBVIOUS
    <2>2. ~(p \in OpToRel(<, Nat))
      BY <1>1
    <2> HIDE DEF p
    <2> QED
      BY <2>1, <2>2 DEF OpToRel
  <1> HIDE <1>1
  <1> QED
    BY <1>2

(* Min of FiniteSetsExt is that element. *)
LEMMA MinIsLeast ==
  ASSUME NEW S \in SUBSET Nat, S # {}
  PROVE  Min(S) \in S /\ \A y \in S : Min(S) <= y
  BY Least DEF Min

(* Max is the least of the upper bounds, which a bounded set contains.      *)
LEMMA MaxIsGreatest ==
  ASSUME NEW n \in Nat, NEW S \in SUBSET (1 .. n), S # {}
  PROVE  Max(S) \in S /\ \A y \in S : y <= Max(S)
  <1> DEFINE B == { b \in Nat : \A y \in S : y <= b }
  <1>1. PICK b \in B : \A c \in B : b <= c
    <2>1. n \in B /\ B \in SUBSET Nat
      BY DEF B
    <2> HIDE DEF B
    <2> QED
      BY <2>1, Least
  <1>2. b \in S
    <2> SUFFICES ASSUME b \notin S PROVE FALSE
      OBVIOUS
    <2>1. b \in Nat /\ (\A y \in S : y <= b /\ y # b)
      BY <1>1
    <2>2. PICK y \in S : TRUE
      OBVIOUS
    <2>3. y \in 1 .. n /\ b - 1 \in Nat
      BY <2>1, <2>2
    <2>4. b - 1 \in B
      BY <2>1, <2>3
    <2>5. b <= b - 1
      BY <1>1, <2>4
    <2> QED
      BY <2>1, <2>5
  <1> QED
    BY <1>1, <1>2 DEF Max

(* An element known to be the least or the greatest is Min or Max.          *)
LEMMA MinMaxAre ==
  ASSUME NEW S \in SUBSET Nat, NEW m \in S
  PROVE  /\ (\A y \in S : m <= y) => Min(S) = m
         /\ (\A y \in S : y <= m) => Max(S) = m
  <1>1. ASSUME \A y \in S : m <= y PROVE Min(S) = m
    <2>1. Min(S) \in S /\ \A y \in S : Min(S) <= y
      BY <1>1 DEF Min
    <2>2. m \in Nat /\ Min(S) \in Nat /\ m <= Min(S) /\ Min(S) <= m
      BY <1>1, <2>1
    <2> QED
      BY <2>2
  <1>2. ASSUME \A y \in S : y <= m PROVE Max(S) = m
    <2>1. Max(S) \in S /\ \A y \in S : y <= Max(S)
      BY <1>2 DEF Max
    <2>2. m \in Nat /\ Max(S) \in Nat /\ m <= Max(S) /\ Max(S) <= m
      BY <1>2, <2>1
    <2> QED
      BY <2>2
  <1> QED
    BY <1>1, <1>2

-----------------------------------------------------------------------------
(* The parts of Described, by name.                                         *)
Entries(ls) == { i \in DOMAIN ls : ls[i].kind = "entry" }

OptionsAfter(ls, kind, after) == { i \in DOMAIN ls : ls[i].kind = kind /\ i > after }

LastTextOf(ls, is, default) == IF is = {} THEN default ELSE ls[Max(is)].text

Traced(ls, after) == \E i \in OptionsAfter(ls, "tracing", after) : ls[i].text = "yes"

LEMMA DescribedInParts ==
  ASSUME NEW ls
  PROVE  Described(ls) =
           IF Entries(ls) = {}
             THEN NoEntry
             ELSE [fs      |-> TRUE,
                   name    |-> ls[Max(Entries(ls))].text,
                   path    |-> LastTextOf(ls, OptionsAfter(ls, "path", Min(Entries(ls))), Null),
                   cmdline |-> LastTextOf(ls, OptionsAfter(ls, "cmdline", Max(Entries(ls))), Empty),
                   tracing |-> Traced(ls, Min(Entries(ls)))]
  BY DEF Described, Entries, OptionsAfter, LastTextOf, Traced

(* The first n of a sequence of lines.                                      *)
Upto(s, n) == [i \in 1 .. n |-> s[i]]

(* What parsing the line l makes of the entry d.                            *)
After(d, l) ==
  IF l.kind = "entry"
    THEN [fs |-> TRUE, name |-> l.text, path |-> d.path, cmdline |-> Empty,
          tracing |-> d.tracing]
    ELSE IF ~d.fs THEN NoEntry
    ELSE [fs      |-> TRUE,
          name    |-> d.name,
          path    |-> IF l.kind = "path" THEN l.text ELSE d.path,
          cmdline |-> IF l.kind = "cmdline" THEN l.text ELSE d.cmdline,
          tracing |-> d.tracing \/ (l.kind = "tracing" /\ l.text = "yes")]

(* The last text of a kind after one more line: the line's, if it is of the *)
(* kind, and the one before otherwise.                                      *)
LEMMA LastTextGrows ==
  \A s, kind, default : \A n \in Nat : \A after \in 1 .. n :
    LastTextOf(Upto(s, n + 1), OptionsAfter(Upto(s, n + 1), kind, after), default) =
      IF s[n + 1].kind = kind
        THEN s[n + 1].text
        ELSE LastTextOf(Upto(s, n), OptionsAfter(Upto(s, n), kind, after), default)
  <1> TAKE s, kind, default
  <1> TAKE n \in Nat
  <1> TAKE after \in 1 .. n
  <1> DEFINE A == OptionsAfter(Upto(s, n), kind, after)
             B == OptionsAfter(Upto(s, n + 1), kind, after)
  <1>0. A \in SUBSET (1 .. n) /\ B \in SUBSET (1 .. n + 1) /\ n + 1 \in Nat
    BY DEF OptionsAfter, Upto
  <1>1. B = IF s[n + 1].kind = kind THEN A \cup { n + 1 } ELSE A
    BY DEF OptionsAfter, Upto
  <1> HIDE DEF A, B
  <1>2. CASE s[n + 1].kind = kind
    <2>1. n + 1 \in B /\ \A y \in B : y <= n + 1
      BY <1>0, <1>1, <1>2
    <2>2. Max(B) = n + 1
      BY <1>0, <2>1, MinMaxAre
    <2> QED
      BY <2>1, <2>2, <1>2 DEF LastTextOf, Upto, B
  <1>3. CASE s[n + 1].kind # kind
    <2>1. A = B
      BY <1>1, <1>3
    <2>2. A # {} => Upto(s, n + 1)[Max(A)] = Upto(s, n)[Max(A)]
      <3>1. \A i \in 1 .. n : Upto(s, n + 1)[i] = Upto(s, n)[i]
        BY DEF Upto
      <3>2. A # {} => Max(A) \in A
        BY <1>0, MaxIsGreatest
      <3> QED
        BY <1>0, <3>1, <3>2
    <2>3. LastTextOf(Upto(s, n + 1), B, default) = LastTextOf(Upto(s, n), A, default)
      BY <2>1, <2>2 DEF LastTextOf
    <2> QED
      BY <2>3, <1>3 DEF A, B
  <1> QED
    BY <1>2, <1>3

(* One more line does to the description what After does to the entry.      *)
LEMMA DescriptionGrows ==
  ASSUME NEW s, NEW n \in Nat
  PROVE  Described(Upto(s, n + 1)) = After(Described(Upto(s, n)), s[n + 1])
  <1> DEFINE S == Upto(s, n)
             T == Upto(s, n + 1)
             l == s[n + 1]
             E == Entries(S)
             F == Entries(T)
  <1> SUFFICES Described(T) = After(Described(S), l)
    OBVIOUS
  <1>0. /\ E \in SUBSET (1 .. n) /\ F \in SUBSET (1 .. n + 1) /\ n + 1 \in Nat
        /\ F = IF l.kind = "entry" THEN E \cup { n + 1 } ELSE E
        /\ DOMAIN S = 1 .. n /\ DOMAIN T = 1 .. n + 1
        /\ \A i \in 1 .. n : T[i] = S[i]
        /\ T[n + 1] = l
    BY DEF Entries, Upto
  <1>1. E # {} => Min(E) \in 1 .. n /\ Max(E) \in 1 .. n
    <2>1. E \in SUBSET Nat
      BY <1>0
    <2> HIDE DEF E
    <2> QED
      BY <1>0, <2>1, MaxIsGreatest, MinIsLeast
  <1>2. CASE l.kind = "entry"
    <2>1. Max(F) = n + 1
      <3>1. n + 1 \in F /\ F \in SUBSET Nat /\ \A y \in F : y <= n + 1
        BY <1>0, <1>2
      <3> HIDE DEF F
      <3> QED
        BY <3>1, MinMaxAre
    <2>2. F # {} /\ OptionsAfter(T, "cmdline", Max(F)) = {}
      BY <1>0, <1>2, <2>1 DEF OptionsAfter
    <2>3. Described(T) =
            [fs      |-> TRUE,
             name    |-> l.text,
             path    |-> LastTextOf(T, OptionsAfter(T, "path", Min(F)), Null),
             cmdline |-> Empty,
             tracing |-> Traced(T, Min(F))]
      BY <1>0, <2>1, <2>2, DescribedInParts DEF LastTextOf
    <2>4. CASE E = {}
      <3>1. Min(F) = n + 1
        BY <1>0, <1>2, <2>4, MinMaxAre
      <3>2. OptionsAfter(T, "path", Min(F)) = {} /\ Traced(T, Min(F)) = FALSE
        BY <1>0, <3>1 DEF OptionsAfter, Traced
      <3>3. Described(S) = NoEntry
        BY <2>4, DescribedInParts
      <3> HIDE DEF S, T, l, E, F
      <3>4. After(NoEntry, l) = [fs |-> TRUE, name |-> l.text, path |-> Null,
                                 cmdline |-> Empty, tracing |-> FALSE]
        BY <1>2 DEF After, NoEntry
      <3>5. LastTextOf(T, OptionsAfter(T, "path", Min(F)), Null) = Null
        BY <3>2 DEF LastTextOf
      <3> QED
        BY <2>3, <3>2, <3>3, <3>4, <3>5
    <2>5. CASE E # {}
      <3>1. Min(F) = Min(E)
        <4>1. Min(E) \in E /\ \A y \in E : Min(E) <= y
          BY <1>0, <2>5, MinIsLeast
        <4>2. Min(E) \in F /\ F \in SUBSET Nat /\ \A y \in F : Min(E) <= y
          BY <1>0, <1>1, <1>2, <2>5, <4>1
        <4> HIDE DEF E, F
        <4> QED
          BY <4>2, MinMaxAre
      <3>2. LastTextOf(T, OptionsAfter(T, "path", Min(F)), Null) =
              LastTextOf(S, OptionsAfter(S, "path", Min(E)), Null)
        BY <1>1, <1>2, <2>5, <3>1, LastTextGrows
      <3>3. OptionsAfter(T, "tracing", Min(F)) = OptionsAfter(S, "tracing", Min(E))
        BY <1>0, <1>2, <3>1 DEF OptionsAfter
      <3>4. Traced(T, Min(F)) = Traced(S, Min(E))
        BY <1>0, <3>3 DEF OptionsAfter, Traced
      <3>5. Described(S) =
              [fs      |-> TRUE,
               name    |-> S[Max(E)].text,
               path    |-> LastTextOf(S, OptionsAfter(S, "path", Min(E)), Null),
               cmdline |-> LastTextOf(S, OptionsAfter(S, "cmdline", Max(E)), Empty),
               tracing |-> Traced(S, Min(E))]
        BY <2>5, DescribedInParts
      <3> HIDE DEF S, T, l, E, F
      <3>6. /\ Described(S).path = LastTextOf(S, OptionsAfter(S, "path", Min(E)), Null)
            /\ Described(S).tracing = Traced(S, Min(E))
        BY <3>5
      <3>7. After(Described(S), l) =
              [fs |-> TRUE, name |-> l.text, path |-> Described(S).path,
               cmdline |-> Empty, tracing |-> Described(S).tracing]
        BY <1>2 DEF After
      <3> QED
        BY <2>3, <3>2, <3>4, <3>6, <3>7
    <2> QED
      BY <2>4, <2>5
  <1>3. CASE l.kind # "entry" /\ E = {}
    <2>1. Described(S) = NoEntry /\ Described(T) = NoEntry
      BY <1>0, <1>3, DescribedInParts
    <2> QED
      BY <1>3, <2>1 DEF After, NoEntry
  <1>4. CASE l.kind # "entry" /\ E # {}
    <2>1. F = E /\ T[Max(E)] = S[Max(E)]
      BY <1>0, <1>1, <1>4
    <2>0. Min(E) \in 1 .. n /\ Max(E) \in 1 .. n
      BY <1>1, <1>4
    <2>2. LastTextOf(T, OptionsAfter(T, "path", Min(E)), Null) =
            IF l.kind = "path" THEN l.text
            ELSE LastTextOf(S, OptionsAfter(S, "path", Min(E)), Null)
      BY <2>0, LastTextGrows
    <2>7. LastTextOf(T, OptionsAfter(T, "cmdline", Max(E)), Empty) =
            IF l.kind = "cmdline" THEN l.text
            ELSE LastTextOf(S, OptionsAfter(S, "cmdline", Max(E)), Empty)
      BY <2>0, LastTextGrows
    <2>3. OptionsAfter(T, "tracing", Min(E)) =
            IF l.kind = "tracing" THEN OptionsAfter(S, "tracing", Min(E)) \cup { n + 1 }
            ELSE OptionsAfter(S, "tracing", Min(E))
      BY <1>0, <1>1, <1>4 DEF OptionsAfter
    <2>4. Traced(T, Min(E)) =
            (Traced(S, Min(E)) \/ (l.kind = "tracing" /\ l.text = "yes"))
      BY <1>0, <2>3 DEF OptionsAfter, Traced
    <2>5. Described(S) =
            [fs      |-> TRUE,
             name    |-> S[Max(E)].text,
             path    |-> LastTextOf(S, OptionsAfter(S, "path", Min(E)), Null),
             cmdline |-> LastTextOf(S, OptionsAfter(S, "cmdline", Max(E)), Empty),
             tracing |-> Traced(S, Min(E))]
      BY <1>4, DescribedInParts
    <2>6. Described(T) =
            [fs      |-> TRUE,
             name    |-> S[Max(E)].text,
             path    |-> LastTextOf(T, OptionsAfter(T, "path", Min(E)), Null),
             cmdline |-> LastTextOf(T, OptionsAfter(T, "cmdline", Max(E)), Empty),
             tracing |-> Traced(T, Min(E))]
      BY <1>4, <2>1, DescribedInParts
    <2> HIDE DEF S, T, l, E, F
    <2>8. /\ Described(S).fs = TRUE
          /\ Described(S).name = S[Max(E)].text
          /\ Described(S).path = LastTextOf(S, OptionsAfter(S, "path", Min(E)), Null)
          /\ Described(S).cmdline = LastTextOf(S, OptionsAfter(S, "cmdline", Max(E)), Empty)
          /\ Described(S).tracing = Traced(S, Min(E))
      BY <2>5
    <2>9. After(Described(S), l) =
            [fs      |-> TRUE,
             name    |-> Described(S).name,
             path    |-> IF l.kind = "path" THEN l.text ELSE Described(S).path,
             cmdline |-> IF l.kind = "cmdline" THEN l.text ELSE Described(S).cmdline,
             tracing |-> Described(S).tracing \/ (l.kind = "tracing" /\ l.text = "yes")]
      BY <1>4, <2>8 DEF After
    <2> QED
      BY <2>2, <2>4, <2>6, <2>7, <2>8, <2>9
  <1> QED
    BY <1>2, <1>3, <1>4
-----------------------------------------------------------------------------
EntryType ==
  [fs : BOOLEAN, name : Texts \cup { Null, Empty }, path : Texts \cup { Null },
   cmdline : Texts \cup { Null, Empty }, tracing : BOOLEAN]

(* The lines of a file are lines, whichever way they are read.              *)
LEMMA SeenType ==
  ASSUME file \in Files
  PROVE  /\ Len(file.lines) \in Nat
         /\ \A i \in 1 .. Len(file.lines) :
              Seen(i) \in [kind : Kinds, text : Texts \cup { Empty }]
  <1>1. file.lines \in Seq(Line)
    BY BootConfigAssumption
  <1>2. ASSUME NEW i \in 1 .. Len(file.lines)
        PROVE  Seen(i) \in [kind : Kinds, text : Texts \cup { Empty }]
    <2>1. file.lines[i] \in Line
      BY <1>1, <1>2
    <2> QED
      BY <2>1 DEF Seen, Line, NoLine, Kinds
  <1> QED
    BY <1>1, <1>2

(* The texts are neither of the two strings the program tells from them.    *)
LEMMA TextsAreTexts == Null \notin Texts /\ Empty \notin Texts /\ Null # Empty
  BY BootConfigAssumption DEF Null, Empty

LEMMA TwoPaths == Len(ConfigPaths) = 2 /\ DOMAIN ConfigPaths = 1 .. 2
  BY DEF ConfigPaths

(* What the search begins with.                                             *)
LEMMA InitIInv == Init => IInv
  <1> SUFFICES ASSUME Init PROVE IInv
    OBVIOUS
  <1>1. TypeOK
    <2>1. NoLine \in [kind : Kinds, text : Texts \cup { Empty }]
      BY DEF NoLine, Kinds
    <2>2. NoEntry \in EntryType
      BY DEF NoEntry, EntryType
    <2>3. pos \in 0 .. Len(file.lines)
      BY SeenType DEF Init
    <2> QED
      <3>1. line \in [kind : Kinds, text : Texts \cup { Empty }] /\ entry \in EntryType
        BY <2>1, <2>2 DEF Init
      <3>2. path \in 1 .. Len(ConfigPaths) + 1
        <4>1. 1 \in 1 .. 2 + 1
          OBVIOUS
        <4> QED
          BY <4>1, TwoPaths DEF Init
      <3>3. /\ open \subseteq { "root", "config" } /\ pc = "locate" /\ status = "success"
            /\ file \in Files /\ ascii \in BOOLEAN /\ lost \in BOOLEAN
        BY DEF Init
      <3> QED
        BY <2>3, <3>1, <3>2, <3>3 DEF TypeOK, EntryType
  <1>2. Staged /\ Filled
    BY DEF Init, Staged, Filled, NoEntry
  <1>3. Entries([i \in 1 .. 0 |-> Seen(i)]) = {}
    BY DEF Entries
  <1>4. EntryIsDescribed
    BY <1>3, DescribedInParts DEF Init, EntryIsDescribed
  <1> QED
    BY <1>1, <1>2, <1>4 DEF IInv

LEMMA TypeStep == TypeOK /\ [Next]_vars => TypeOK'
  <1> SUFFICES ASSUME TypeOK, [Next]_vars PROVE TypeOK'
    OBVIOUS
  <1>0. /\ file \in Files /\ path \in 1 .. 3 /\ open \subseteq { "root", "config" }
        /\ pos \in 0 .. Len(file.lines) /\ Len(file.lines) \in Nat /\ ascii \in BOOLEAN
        /\ line \in [kind : Kinds, text : Texts \cup { Empty }]
        /\ entry \in EntryType
        /\ lost \in BOOLEAN
        /\ status \in { "success", "deviceError", "notFound", "bufferTooSmall",
                        "invalidParameter" }
        /\ pc \in { "locate", "openVolume", "openConfig", "read", "parse", "close",
                    "check", "prompt", "returned" }
    BY SeenType, TwoPaths DEF TypeOK, EntryType
  <1> DEFINE Goal ==
        /\ file' = file /\ path' \in 1 .. 3 /\ open' \subseteq { "root", "config" }
        /\ pos' \in 0 .. Len(file.lines) /\ ascii' \in BOOLEAN
        /\ line' \in [kind : Kinds, text : Texts \cup { Empty }]
        /\ entry' \in EntryType
        /\ lost' \in BOOLEAN
        /\ status' \in { "success", "deviceError", "notFound", "bufferTooSmall",
                         "invalidParameter" }
        /\ pc' \in { "locate", "openVolume", "openConfig", "read", "parse", "close",
                     "check", "prompt", "returned" }
  <1> SUFFICES Goal
    BY <1>0, TwoPaths DEF TypeOK, EntryType
  <1>1. CASE Locate \/ OpenVolume
    BY <1>0, <1>1 DEF Locate, OpenVolume, Fail
  <1>2. CASE OpenConfig
    <2>1. path' \in 1 .. 3
      BY <1>0, <1>2, TwoPaths DEF OpenConfig
    <2> QED
      BY <1>0, <1>2, <2>1 DEF OpenConfig, Fail
  <1>3. CASE EndOfFile
    BY <1>0, <1>3 DEF EndOfFile
  <1>4. CASE ReadLine
    <2>1. pos + 1 \in 1 .. Len(file.lines) /\ ascii' \in BOOLEAN
      BY <1>0, <1>4, BootConfigAssumption DEF ReadLine, ReadAsAscii
    <2> QED
      BY <1>0, <1>4, <2>1, SeenType DEF ReadLine, Fail
  <1>5. CASE ParseEntry
    <2>1. PICK copy \in Texts \cup { Empty, Null } :
            /\ CopyString(line.text, copy)
            /\ entry' = [entry EXCEPT !.fs = TRUE, !.name = copy, !.cmdline = Empty]
      BY <1>5 DEF ParseEntry
    <2>2. entry' \in EntryType
      BY <1>0, <2>1 DEF EntryType
    <2> QED
      BY <1>0, <1>5, <2>1, <2>2 DEF ParseEntry, CopyString
  <1>6. CASE ParsePath
    <2>1. PICK copy \in Texts \cup { Null } :
            /\ CopyString(line.text, copy)
            /\ entry' = [entry EXCEPT !.path = copy]
      BY <1>6 DEF ParsePath
    <2>2. entry' \in EntryType
      BY <1>0, <2>1 DEF EntryType
    <2> QED
      BY <1>0, <1>6, <2>1, <2>2 DEF ParsePath, CopyString
  <1>7. CASE ParseCmdline
    <2>1. PICK copy \in Texts \cup { Null } :
            /\ CopyString(line.text, copy)
            /\ entry' = [entry EXCEPT !.cmdline = copy]
      BY <1>7 DEF ParseCmdline
    <2>2. entry' \in EntryType
      BY <1>0, <2>1 DEF EntryType
    <2> QED
      BY <1>0, <1>7, <2>1, <2>2 DEF ParseCmdline, CopyString
  <1>8. CASE ParseTracing
    <2>1. [entry EXCEPT !.tracing = TRUE] \in EntryType
      BY <1>0 DEF EntryType
    <2> QED
      BY <1>0, <1>8, <2>1 DEF ParseTracing
  <1>9. CASE Ignore \/ Close \/ CheckEntry \/ Prompt
    BY <1>0, <1>9 DEF Ignore, Close, CheckEntry, Prompt
  <1>10. CASE UNCHANGED vars
    BY <1>0, <1>10 DEF vars, TypeOK
  <1> QED
    BY <1>1, <1>2, <1>3, <1>4, <1>5, <1>6, <1>7, <1>8, <1>9, <1>10
    DEF Next, Step, Terminated

-----------------------------------------------------------------------------
(* The entry has what the code takes for granted of it, and what is read    *)
(* is what is parsed.                                                       *)
LEMMA FilledStep == TypeOK /\ Filled /\ Staged /\ [Next]_vars => Filled'
  <1> SUFFICES ASSUME TypeOK, Filled, Staged, [Next]_vars PROVE Filled'
    OBVIOUS
  <1>0. /\ entry \in EntryType /\ line.text \in Texts \cup { Empty } /\ lost \in BOOLEAN
        /\ line.kind = "path" => line.text # Null
        /\ line.text # Null
    BY TextsAreTexts DEF TypeOK, EntryType
  <1>1. CASE Locate \/ OpenVolume \/ OpenConfig \/ EndOfFile \/ Close \/ CheckEntry \/ Prompt
    BY <1>1 DEF Filled, Locate, OpenVolume, OpenConfig, EndOfFile, Close, CheckEntry,
       Prompt, Fail
  <1>2. CASE ReadLine
    <2>1. /\ pc' = "parse" => pos' = pos + 1 /\ line' = Seen(pos + 1) /\ pos \in Nat
          /\ file' = file /\ entry' = entry /\ lost' = lost
      BY <1>2, SeenType DEF ReadLine, Fail, TypeOK
    <2>2. pc' = "parse" => line' = Seen(pos)'
      BY <2>1 DEF Seen, ReadAsAscii
    <2>3. pc' = "parse" => pos' # 0
      BY <2>1
    <2> QED
      BY <2>1, <2>2, <2>3 DEF Filled
  <1>3. CASE ParseEntry
    <2>1. PICK copy \in Texts \cup { Empty, Null } :
            /\ CopyString(line.text, copy)
            /\ entry' = [entry EXCEPT !.fs = TRUE, !.name = copy, !.cmdline = Empty]
      BY <1>3 DEF ParseEntry
    <2>2. entry'.fs = TRUE /\ entry'.name = copy
      BY <1>0, <2>1 DEF EntryType
    <2> QED
      BY <1>0, <1>3, <2>1, <2>2 DEF Filled, ParseEntry, CopyString
  <1>4. CASE ParsePath
    <2>1. PICK copy \in Texts \cup { Null } :
            /\ CopyString(line.text, copy)
            /\ entry' = [entry EXCEPT !.path = copy]
      BY <1>4 DEF ParsePath
    <2>2. entry'.fs = entry.fs /\ entry'.name = entry.name
      BY <1>0, <2>1 DEF EntryType
    <2> QED
      BY <1>0, <1>4, <2>1, <2>2 DEF Filled, ParsePath, CopyString, Option
  <1>5. CASE ParseCmdline
    <2>1. PICK copy \in Texts \cup { Null } :
            /\ CopyString(line.text, copy)
            /\ entry' = [entry EXCEPT !.cmdline = copy]
      BY <1>5 DEF ParseCmdline
    <2>2. entry'.fs = entry.fs /\ entry'.name = entry.name /\ entry'.path = entry.path
      BY <1>0, <2>1 DEF EntryType
    <2> QED
      BY <1>0, <1>5, <2>1, <2>2 DEF Filled, ParseCmdline, CopyString
  <1>6. CASE ParseTracing
    <2>1. entry'.fs = entry.fs /\ entry'.name = entry.name /\ entry'.path = entry.path
      BY <1>0, <1>6 DEF EntryType, ParseTracing
    <2> QED
      BY <1>6, <2>1 DEF Filled, ParseTracing
  <1>7. CASE Ignore
    BY <1>7 DEF Filled, Ignore
  <1>8. CASE UNCHANGED vars
    BY <1>8 DEF Filled, vars, Seen, ReadAsAscii
  <1> QED
    BY <1>1, <1>2, <1>3, <1>4, <1>5, <1>6, <1>7, <1>8 DEF Next, Step, Terminated

(* Only Close leads on, once the handles are closed.                        *)
LEMMA StagedStep == TypeOK /\ Staged /\ [Next]_vars => Staged'
  <1> SUFFICES ASSUME TypeOK, Staged, [Next]_vars PROVE Staged'
    OBVIOUS
  <1>1. CASE Locate \/ OpenVolume \/ OpenConfig
    BY <1>1 DEF Staged, Locate, OpenVolume, OpenConfig, Fail
  <1>2. CASE EndOfFile \/ ReadLine
    BY <1>2 DEF Staged, EndOfFile, ReadLine, Fail
  <1>3. CASE ParseEntry \/ ParsePath \/ ParseCmdline \/ ParseTracing \/ Ignore
    BY <1>3 DEF Staged, ParseEntry, ParsePath, ParseCmdline, ParseTracing, Ignore
  <1>4. CASE Close \/ CheckEntry \/ Prompt
    BY <1>4 DEF Staged, Close, CheckEntry, Prompt
  <1>5. CASE UNCHANGED vars
    BY <1>5 DEF Staged, vars
  <1> QED
    BY <1>1, <1>2, <1>3, <1>4, <1>5 DEF Next, Step, Terminated

-----------------------------------------------------------------------------
(* The lines as they are seen, as one sequence.                             *)
SeenLines == [i \in 1 .. Len(file.lines) |-> Seen(i)]

LEMMA SeenUpto ==
  ASSUME file \in Files, NEW n \in 0 .. Len(file.lines)
  PROVE  /\ [i \in 1 .. n |-> Seen(i)] = Upto(SeenLines, n)
         /\ n # 0 => SeenLines[n] = Seen(n)
  BY SeenType DEF SeenLines, Upto

(* Without an entry line nothing is described.                              *)
LEMMA NothingDescribed ==
  ASSUME NEW ls
  PROVE  ~Described(ls).fs => Described(ls) = NoEntry
  BY DescribedInParts

(* Parsing a line without losing a copy makes of the entry what the line    *)
(* makes of the description.                                                *)
LEMMA ParsedEntry ==
  ASSUME TypeOK, Filled, EntryIsDescribed, pc = "parse", pc' = "read",
         UNCHANGED <<file, pos>>, ~lost' => ~lost /\ entry' = After(entry, line)
  PROVE  EntryIsDescribed'
  <1> SUFFICES ASSUME ~lost'
               PROVE  entry' = Described([i \in 1 .. pos |-> Seen(i)]')
    BY DEF EntryIsDescribed
  <1>1. /\ file \in Files /\ Len(file.lines) \in Nat
        /\ pos \in 1 .. Len(file.lines) /\ pos - 1 \in 0 .. Len(file.lines)
        /\ pos - 1 \in Nat /\ (pos - 1) + 1 = pos
    BY SeenType DEF TypeOK, Filled
  <1>2. [i \in 1 .. pos |-> Seen(i)]' = [i \in 1 .. pos |-> Seen(i)]
    BY DEF Seen, ReadAsAscii
  <1>3. entry = Described(Upto(SeenLines, pos - 1))
    BY <1>1, SeenUpto DEF EntryIsDescribed
  <1>4. line = SeenLines[pos]
    BY <1>1, SeenUpto DEF Filled
  <1>5. Described(Upto(SeenLines, pos)) = After(entry, line)
    BY <1>1, <1>3, <1>4, DescriptionGrows
  <1> QED
    BY <1>1, <1>2, <1>5, SeenUpto

(* What the code does to the entry is After, field by field.                *)
LEMMA DescribedStep ==
  TypeOK /\ Filled /\ Staged /\ EntryIsDescribed /\ [Next]_vars => EntryIsDescribed'
  <1> SUFFICES ASSUME TypeOK, Filled, Staged, EntryIsDescribed, [Next]_vars
               PROVE  EntryIsDescribed'
    OBVIOUS
  <1>0. /\ entry \in EntryType /\ line.text \in Texts \cup { Empty } /\ lost \in BOOLEAN
        /\ line.text # Null
        /\ pos \in Nat
    BY SeenType, TextsAreTexts DEF TypeOK, EntryType
  <1>1. CASE UNCHANGED <<file, entry, lost>> /\ Parsed' = Parsed
    <2>1. [i \in 1 .. Parsed |-> Seen(i)]' = [i \in 1 .. Parsed |-> Seen(i)]
      BY <1>1 DEF Seen, ReadAsAscii
    <2> QED
      BY <1>1, <2>1 DEF EntryIsDescribed, Parsed
  <1>2. CASE Locate \/ OpenVolume \/ OpenConfig \/ EndOfFile \/ Close \/ CheckEntry \/ Prompt
    BY <1>1, <1>2 DEF Parsed, Locate, OpenVolume, OpenConfig, EndOfFile, Close, CheckEntry,
       Prompt, Fail
  <1>3. CASE ReadLine
    BY <1>0, <1>1, <1>3 DEF Parsed, ReadLine, Fail
  <1>4. CASE ParseEntry
    <2>1. PICK copy \in Texts \cup { Empty, Null } :
            /\ CopyString(line.text, copy)
            /\ entry' = [entry EXCEPT !.fs = TRUE, !.name = copy, !.cmdline = Empty]
      BY <1>4 DEF ParseEntry
    <2>2. ~lost' => ~lost /\ copy = line.text
      BY <1>0, <2>1 DEF CopyString
    <2>3. ~lost' => entry' = After(entry, line)
      <3>1. entry' = [fs |-> TRUE, name |-> copy, path |-> entry.path,
                          cmdline |-> Empty, tracing |-> entry.tracing]
        BY <1>0, <2>1 DEF EntryType
      <3> QED
        BY <1>0, <1>4, <2>2, <3>1 DEF After, ParseEntry
    <2> QED
      BY <1>4, <2>2, <2>3, ParsedEntry DEF ParseEntry
  <1>5. CASE ParsePath
    <2>1. PICK copy \in Texts \cup { Null } :
            /\ CopyString(line.text, copy)
            /\ entry' = [entry EXCEPT !.path = copy]
      BY <1>5 DEF ParsePath
    <2>2. ~lost' => ~lost /\ copy = line.text
      BY <1>0, <2>1 DEF CopyString
    <2>3. ~lost' => entry' = After(entry, line)
      <3>1. entry' = [fs |-> entry.fs, name |-> entry.name, path |-> copy,
                          cmdline |-> entry.cmdline, tracing |-> entry.tracing]
        BY <1>0, <2>1 DEF EntryType
      <3>2. entry.fs = TRUE /\ entry.tracing \in BOOLEAN /\ line.kind = "path"
        BY <1>0, <1>5 DEF EntryType, ParsePath, Option, Filled
      <3> QED
        BY <2>2, <3>1, <3>2 DEF After
    <2> QED
      BY <1>5, <2>2, <2>3, ParsedEntry DEF ParsePath
  <1>6. CASE ParseCmdline
    <2>1. PICK copy \in Texts \cup { Null } :
            /\ CopyString(line.text, copy)
            /\ entry' = [entry EXCEPT !.cmdline = copy]
      BY <1>6 DEF ParseCmdline
    <2>2. ~lost' => ~lost /\ copy = line.text
      BY <1>0, <2>1 DEF CopyString
    <2>3. ~lost' => entry' = After(entry, line)
      <3>1. entry' = [fs |-> entry.fs, name |-> entry.name, path |-> entry.path,
                          cmdline |-> copy, tracing |-> entry.tracing]
        BY <1>0, <2>1 DEF EntryType
      <3>2. entry.fs = TRUE /\ entry.tracing \in BOOLEAN /\ line.kind = "cmdline"
        BY <1>0, <1>6 DEF EntryType, ParseCmdline, Option, Filled
      <3> QED
        BY <2>2, <3>1, <3>2 DEF After
    <2> QED
      BY <1>6, <2>2, <2>3, ParsedEntry DEF ParseCmdline
  <1>7. CASE ParseTracing
    <2>1. entry' = After(entry, line)
      <3>1. entry' = [fs |-> entry.fs, name |-> entry.name, path |-> entry.path,
                          cmdline |-> entry.cmdline, tracing |-> entry.tracing \/ line.text = "yes"]
        BY <1>0, <1>7 DEF EntryType, ParseTracing
      <3> QED
        BY <1>0, <1>7, <3>1 DEF After, ParseTracing, Option, Filled, EntryType
    <2> QED
      BY <1>7, <2>1, ParsedEntry DEF ParseTracing
  <1>8. CASE Ignore
    <2>1. ~lost => entry.fs \/ entry = NoEntry
      BY NothingDescribed DEF EntryIsDescribed
    <2>2. ~lost => entry' = After(entry, line)
      <3>1. CASE line.kind = "other" /\ entry.fs
        BY <1>0, <1>8, <3>1 DEF After, EntryType, Ignore
      <3>2. CASE line.kind = "other" /\ ~entry.fs
        BY <1>8, <2>1, <3>2 DEF After, Ignore
      <3>3. CASE line.kind # "entry" /\ ~Option
        BY <1>8, <2>1, <3>3 DEF After, Ignore, Option, Filled
      <3> QED
        BY <1>8, <3>1, <3>2, <3>3 DEF Ignore
    <2> QED
      BY <1>8, <2>2, ParsedEntry DEF Ignore
  <1>9. CASE UNCHANGED vars
    BY <1>1, <1>9 DEF vars, Parsed
  <1> QED
    BY <1>2, <1>3, <1>4, <1>5, <1>6, <1>7, <1>8, <1>9 DEF Next, Step, Terminated

-----------------------------------------------------------------------------
LEMMA NextIInv == IInv /\ [Next]_vars => IInv'
  BY TypeStep, StagedStep, FilledStep, DescribedStep DEF IInv

(* What GetBootEntry and LoadBootEntry have done so far holds after every   *)
(* call and every line.                                                     *)
THEOREM Invariance == Spec => []IInv
  <1> QED
    BY InitIInv, NextIInv, PTL DEF Spec

(* Every variable keeps to its type: GetBootEntry never reads past the file *)
(* or the configuration paths.                                              *)
THEOREM TypeCorrect == Spec => []TypeOK
  <1>1. IInv => TypeOK
    BY DEF IInv
  <1> QED
    BY <1>1, Invariance, PTL

(* For every file, in either encoding, the entry is at every time what the  *)
(* lines read so far describe, unless a copy of a string was lost.          *)
THEOREM EntryFollowsTheFile == Spec => []EntryIsDescribed
  <1>1. IInv => EntryIsDescribed
    BY DEF IInv
  <1> QED
    BY <1>1, Invariance, PTL

(* A boot goes on with a file system and a path only, whatever the file     *)
(* says and whichever allocation fails.                                     *)
THEOREM SuccessIsBootable == Spec => []BootableOnSuccess
  <1>1. IInv => BootableOnSuccess
    BY DEF IInv, Staged, Filled, BootableOnSuccess
  <1> QED
    BY <1>1, Invariance, PTL

(* Whichever call fails, GetBootEntry returns with no file open.            *)
THEOREM NoHandleIsLeft == Spec => []HandlesClosed
  <1>1. IInv => HandlesClosed
    BY DEF IInv, Staged, HandlesClosed
  <1> QED
    BY <1>1, Invariance, PTL

-----------------------------------------------------------------------------
(* What is left to do: two steps for each line that was not read, one for   *)
(* each path that was not tried, and the steps after each step.             *)
StepsAfter ==
  [locate |-> 7, openVolume |-> 6, openConfig |-> 5, parse |-> 5, read |-> 4, close |-> 3,
   check |-> 2, prompt |-> 1, returned |-> 0]

StepsLeft == 2 * (Len(file.lines) - pos) + (3 - path) + StepsAfter[pc]

(* The ranges of the counters, for what follows.                             *)
LEMMA ParserStands ==
  ASSUME IInv
  PROVE  /\ Len(file.lines) \in Nat /\ pos \in 0 .. Len(file.lines) /\ path \in 1 .. 3
         /\ pc \in DOMAIN StepsAfter
  BY BootConfigAssumption, TwoPaths DEF IInv, TypeOK, StepsAfter

(* Each step of GetBootEntry leaves less to do.                             *)
LEMMA ParsingFalls == IInv /\ Step => StepsLeft' < StepsLeft
  <1> SUFFICES ASSUME IInv, Step PROVE StepsLeft' < StepsLeft
    OBVIOUS
  <1>1. Len(file.lines) \in Nat /\ pos \in 0 .. Len(file.lines) /\ path \in 1 .. 3
    BY ParserStands
  <1>2. CASE Locate \/ OpenVolume \/ EndOfFile \/ Close \/ CheckEntry \/ Prompt
    <2>1. UNCHANGED <<file, pos, path>>
      BY <1>2 DEF Locate, OpenVolume, EndOfFile, Close, CheckEntry, Prompt
    <2>2. StepsAfter[pc'] < StepsAfter[pc] /\ {StepsAfter[pc], StepsAfter[pc']} \subseteq Nat
      BY <1>2 DEF Locate, OpenVolume, EndOfFile, Close, CheckEntry, Prompt, Fail, StepsAfter
    <2> QED
      BY <1>1, <2>1, <2>2 DEF StepsLeft
  <1>3. CASE OpenConfig
    <2>1. UNCHANGED <<file, pos>>
      BY <1>3 DEF OpenConfig
    <2>2. /\ pc = "openConfig"
          /\ \/ pc' \in { "read", "close" } /\ path' = path
             \/ pc' = "openConfig" /\ path' = path + 1
      BY <1>3 DEF OpenConfig, Fail
    <2>3. /\ StepsAfter[pc] = 5
          /\ \/ StepsAfter[pc'] \in { 3, 4 } /\ path' = path
             \/ StepsAfter[pc'] = 5 /\ path' = path + 1
      BY <2>2 DEF StepsAfter
    <2> QED
      BY <1>1, <2>1, <2>3 DEF StepsLeft
  <1>4. CASE ReadLine
    <2>1. /\ pc = "read" /\ UNCHANGED <<file, path>>
          /\ \/ pc' = "parse" /\ pos' = pos + 1
             \/ pc' = "close" /\ pos' = pos
      BY <1>4 DEF ReadLine, Fail
    <2>2. /\ StepsAfter[pc] = 4
          /\ \/ StepsAfter[pc'] = 5 /\ pos' = pos + 1
             \/ StepsAfter[pc'] = 3 /\ pos' = pos
      BY <2>1 DEF StepsAfter
    <2> QED
      BY <1>1, <2>1, <2>2 DEF StepsLeft
  <1>5. CASE ParseEntry \/ ParsePath \/ ParseCmdline \/ ParseTracing \/ Ignore
    <2>1. pc = "parse" /\ pc' = "read" /\ UNCHANGED <<file, pos, path>>
      BY <1>5 DEF ParseEntry, ParsePath, ParseCmdline, ParseTracing, Ignore
    <2> QED
      BY <1>1, <2>1 DEF StepsLeft, StepsAfter
  <1> QED
    BY <1>2, <1>3, <1>4, <1>5 DEF Step

(* The safety half of ParsingEnds: GetBootEntry has no more to do at first  *)
(* than twice the number of lines and nine steps (BootConfig.c:26-128), and *)
(* each step leaves less, whatever the file says and whichever call fails.  *)
THEOREM ParsingRunsDown ==
  Spec => /\ [](StepsLeft \in 0 .. 2 * Len(file.lines) + 9)
          /\ [][StepsLeft' < StepsLeft]_vars
  <1>1. IInv => StepsLeft \in 0 .. 2 * Len(file.lines) + 9
    <2> SUFFICES ASSUME IInv PROVE StepsLeft \in 0 .. 2 * Len(file.lines) + 9
      OBVIOUS
    <2>1. StepsAfter[pc] \in 0 .. 7
      BY ParserStands DEF StepsAfter
    <2>2. Len(file.lines) - pos \in 0 .. Len(file.lines) /\ 3 - path \in 0 .. 2
      BY ParserStands
    <2>3. ASSUME NEW n \in Nat, NEW a \in 0 .. n, NEW b \in 0 .. 2, NEW c \in 0 .. 7
          PROVE  2 * a + b + c \in 0 .. 2 * n + 9
      OBVIOUS
    <2> QED
      BY ParserStands, <2>1, <2>2, <2>3 DEF StepsLeft
  <1>2. IInv /\ [Next]_vars => [StepsLeft' < StepsLeft]_vars
    BY ParsingFalls DEF Next, Terminated
  <1> QED
    BY <1>1, <1>2, Invariance, PTL DEF Spec
=============================================================================
