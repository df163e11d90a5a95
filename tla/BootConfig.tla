------------------------------ MODULE BootConfig ------------------------------
(***************************************************************************)
(* GetBootEntry and LoadBootEntry (src/Config/BootConfig.c): the search    *)
(* for origami.cfg, its lines one after the other, and the global boot     *)
(* entry they fill in.                                                     *)
(*                                                                         *)
(* A line is what the parser tells apart: the kind of its first characters *)
(* and the text after ':' or '='.  What a line of two-byte characters      *)
(* looks like when it is read byte by byte is in Seen.                     *)
(***************************************************************************)
EXTENDS Naturals, Sequences, FiniteSetsExt

CONSTANTS
  Files,  \* the configuration files: an encoding and a sequence of lines
  Texts   \* what may follow ':' or '='

Null  == "null"    \* a null pointer
Empty == "empty"   \* L""

Kinds   == { "entry", "path", "cmdline", "tracing", "other" }
Lengths == { "short", "medium", "long" }

(* The lengths the reader tells apart, in characters.  LineSize is 255, and *)
(* FileHandleReadLine takes it for bytes: up to 126 characters fit.  The    *)
(* buffer holds 254, so that a "long" line would fit it.  A "medium" one    *)
(* fits unless each of its bytes is taken for a character.                  *)
Line == [kind : Kinds, text : Texts, length : Lengths]

ASSUME BootConfigAssumption ==
  /\ "yes" \in Texts
  /\ { Null, Empty } \cap Texts = {}
  /\ \A f \in Files : f.ucs2 \in BOOLEAN /\ f.lines \in Seq(Line)

ConfigPaths == << "origami.cfg", "boot\\origami.cfg" >>

VARIABLES
  file,    \* the configuration file
  pc,      \* what is done next
  path,    \* i, the configuration path tried next
  open,    \* the file handles that are open
  pos,     \* how many lines were read
  ascii,   \* Ascii, after the last read
  line,    \* Line
  entry,   \* gEntry
  status,  \* Status
  lost     \* did a CopyString return NULL?

vars == <<file, pc, path, open, pos, ascii, line, entry, status, lost>>

NoEntry == [fs |-> FALSE, name |-> Null, path |-> Null, cmdline |-> Null,
            tracing |-> FALSE]

NoLine == [kind |-> "other", text |-> Empty]

Init ==
  /\ file \in Files
  /\ pc = "locate"
  /\ path = 1
  /\ open = {}
  /\ pos = 0
  /\ ascii = TRUE
  /\ line = NoLine
  /\ entry = NoEntry
  /\ status = "success"
  /\ lost = FALSE

-----------------------------------------------------------------------------
(* CHECK_STATUS: in LoadBootEntry an error goes to the end, where what is   *)
(* open is closed.                                                          *)
FailWithoutClosing(s) ==   \* a slip: return in place of goto end
  /\ status' = s
  /\ pc' = "returned"

Fail(s) ==
  /\ status' = s
  /\ pc' = "close"

(* GetBootEntry: the file system the loader was started from. *)
Locate ==
  /\ pc = "locate"
  /\ \/ pc' = "openVolume" /\ UNCHANGED status
     \/ pc' = "returned" /\ status' = "deviceError"
  /\ UNCHANGED <<file, path, open, pos, ascii, line, entry, lost>>

OpenVolume ==
  /\ pc = "openVolume"
  /\ \/ pc' = "openConfig" /\ open' = { "root" } /\ UNCHANGED status
     \/ Fail("deviceError") /\ UNCHANGED open
  /\ UNCHANGED <<file, path, pos, ascii, line, entry, lost>>

(* A slip: i <= ARRAY_SIZE(ConfigPaths). *)
OpenConfigPastTheEnd ==
  /\ pc = "openConfig"
  /\ \/ /\ path <= Len(ConfigPaths) + 1
        /\ \/ pc' = "read" /\ open' = open \cup { "config" } /\ UNCHANGED path
           \/ path' = path + 1 /\ UNCHANGED <<pc, open>>
        /\ UNCHANGED status
     \/ /\ path > Len(ConfigPaths) + 1
        /\ Fail("notFound")
        /\ UNCHANGED <<path, open>>
  /\ UNCHANGED <<file, pos, ascii, line, entry, lost>>

(* The paths are tried in order; any error means there is no such file.     *)
OpenConfig ==
  /\ pc = "openConfig"
  /\ \/ /\ path \in DOMAIN ConfigPaths
        /\ \/ pc' = "read" /\ open' = open \cup { "config" } /\ UNCHANGED path
           \/ path' = path + 1 /\ UNCHANGED <<pc, open>>
        /\ UNCHANGED status
     \/ /\ path \notin DOMAIN ConfigPaths
        /\ Fail("notFound")
        /\ UNCHANGED <<path, open>>
  /\ UNCHANGED <<file, pos, ascii, line, entry, lost>>

-----------------------------------------------------------------------------
(* FileHandleReadLine sets Ascii when it reads the file's first characters, *)
(* and goes by its value after that; the loop makes it TRUE every time.     *)
ReadAsAscii(i) == ~file.ucs2 \/ i > 1

(* The line i as it ends up in Line.  Read byte by byte, a two-byte         *)
(* character is one character and a NUL, which ends the string: of the      *)
(* second line only the first character is left.  All later ones begin with *)
(* the NUL that ended the line before.                                      *)
Seen(i) ==
  LET l == file.lines[i] IN
  IF ReadAsAscii(i) /\ file.ucs2
    THEN IF i = 2 /\ l.kind = "entry" THEN [kind |-> "entry", text |-> Empty]
                                      ELSE NoLine
    ELSE [kind |-> l.kind, text |-> l.text]

Fits(i) ==
  file.lines[i].length \in
    IF ReadAsAscii(i) /\ file.ucs2 THEN { "short" } ELSE { "short", "medium" }

(* FileHandleEof: the loop ends. *)
EndOfFile ==
  /\ pc = "read"
  /\ pos = Len(file.lines)
  /\ pc' = "close"
  /\ UNCHANGED <<file, path, open, pos, ascii, line, entry, status, lost>>

(* A slip: the status is not looked at.  A line that does not fit leaves the *)
(* buffer empty and the file's position where it was.                       *)
ReadLineUnchecked ==
  /\ pc = "read"
  /\ pos < Len(file.lines)
  /\ ascii' = ReadAsAscii(pos + 1)
  /\ pc' = "parse"
  /\ IF Fits(pos + 1)
       THEN pos' = pos + 1 /\ line' = Seen(pos + 1)
       ELSE line' = NoLine /\ UNCHANGED pos
  /\ UNCHANGED <<file, path, open, entry, status, lost>>

(* FileHandleReadLine: the line, no room for it, or an error of the device. *)
(* The byte that is left of a two-byte file after its last line is read as  *)
(* one more, empty line; it is ignored and left out here.                   *)
ReadLine ==
  /\ pc = "read"
  /\ pos < Len(file.lines)
  /\ ascii' = ReadAsAscii(pos + 1)
  /\ \/ /\ Fits(pos + 1)
        /\ pos' = pos + 1
        /\ line' = Seen(pos + 1)
        /\ pc' = "parse"
        /\ UNCHANGED status
     \/ /\ ~Fits(pos + 1)
        /\ Fail("bufferTooSmall")
        /\ UNCHANGED <<pos, line>>
     \/ Fail("deviceError") /\ UNCHANGED <<pos, line>>
  /\ UNCHANGED <<file, path, open, entry, lost>>

(* CopyString: the text, or NULL when there is no memory for it. *)
CopyString(text, copy) ==
  /\ copy \in { text, Null }
  /\ lost' = (lost \/ copy = Null)

(* A slip: a new entry begins without a path. *)
ParseEntryAnew ==
  /\ pc = "parse"
  /\ line.kind = "entry"
  /\ \E copy \in Texts \cup { Empty, Null } :
        /\ CopyString(line.text, copy)
        /\ entry' = [entry EXCEPT !.fs = TRUE, !.name = copy, !.path = Null,
                                  !.cmdline = Empty]
  /\ pc' = "read"
  /\ UNCHANGED <<file, path, open, pos, ascii, line, status>>

(* ":Name": the name and an empty command line; the path and the tracing of *)
(* the entry before stay.                                                   *)
ParseEntry ==
  /\ pc = "parse"
  /\ line.kind = "entry"
  /\ \E copy \in Texts \cup { Empty, Null } :
        /\ CopyString(line.text, copy)
        /\ entry' = [entry EXCEPT !.fs = TRUE, !.name = copy, !.cmdline = Empty]
  /\ pc' = "read"
  /\ UNCHANGED <<file, path, open, pos, ascii, line, status>>

(* if(Entry->Name == NULL) continue: options need an entry; the slip is to  *)
(* accept them without one.                                                 *)
AnyOption == line.kind # "entry"
Option    == line.kind # "entry" /\ entry.name # Null

ParsePath ==
  /\ pc = "parse"
  /\ Option /\ line.kind = "path"
  /\ \E copy \in Texts \cup { Null } :
        /\ CopyString(line.text, copy)
        /\ entry' = [entry EXCEPT !.path = copy]
  /\ pc' = "read"
  /\ UNCHANGED <<file, path, open, pos, ascii, line, status>>

ParseCmdline ==
  /\ pc = "parse"
  /\ Option /\ line.kind = "cmdline"
  /\ \E copy \in Texts \cup { Null } :
        /\ CopyString(line.text, copy)
        /\ entry' = [entry EXCEPT !.cmdline = copy]
  /\ pc' = "read"
  /\ UNCHANGED <<file, path, open, pos, ascii, line, status>>

(* Tracing is turned on and never off. *)
ParseTracing ==
  /\ pc = "parse"
  /\ Option /\ line.kind = "tracing"
  /\ entry' = IF line.text = "yes" THEN [entry EXCEPT !.tracing = TRUE] ELSE entry
  /\ pc' = "read"
  /\ UNCHANGED <<file, path, open, pos, ascii, line, status, lost>>

Ignore ==
  /\ pc = "parse"
  /\ line.kind = "other" \/ (line.kind # "entry" /\ ~Option)
  /\ pc' = "read"
  /\ UNCHANGED <<file, path, open, pos, ascii, line, entry, status, lost>>

-----------------------------------------------------------------------------
(* end: the handles are closed, and GetBootEntry gives up on an error.      *)
Close ==
  /\ pc = "close"
  /\ open' = {}
  /\ pc' = IF status = "success" THEN "check" ELSE "returned"
  /\ UNCHANGED <<file, path, pos, ascii, line, entry, status, lost>>

(* ASSERT_EXPR(gEntry.Path != NULL), and the prompt of KeyWait. *)
CheckEntry ==
  /\ pc = "check"
  /\ \/ entry.path = Null /\ status' = "invalidParameter" /\ pc' = "returned"
     \/ entry.path # Null /\ UNCHANGED status
        /\ pc' = IF entry.tracing THEN "prompt" ELSE "returned"
  /\ UNCHANGED <<file, path, open, pos, ascii, line, entry, lost>>

Prompt ==
  /\ pc = "prompt"
  /\ pc' = "returned"
  /\ UNCHANGED <<file, path, open, pos, ascii, line, entry, status, lost>>

Terminated == pc = "returned" /\ UNCHANGED vars

Step ==
  \/ Locate \/ OpenVolume \/ OpenConfig \/ EndOfFile \/ ReadLine
  \/ ParseEntry \/ ParsePath \/ ParseCmdline \/ ParseTracing \/ Ignore
  \/ Close \/ CheckEntry \/ Prompt

Next == Step \/ Terminated

Spec == Init /\ [][Next]_vars

(* One thread, and no call that waits but for the prompt, which somebody    *)
(* answers.                                                                 *)
FairSpec == Spec /\ WF_vars(Step)

-----------------------------------------------------------------------------
TypeOK ==
  /\ file \in Files
  /\ pc \in { "locate", "openVolume", "openConfig", "read", "parse", "close",
              "check", "prompt", "returned" }
  /\ path \in 1 .. Len(ConfigPaths) + 1
  /\ open \subseteq { "root", "config" }
  /\ pos \in 0 .. Len(file.lines)
  /\ ascii \in BOOLEAN
  /\ line \in [kind : Kinds, text : Texts \cup { Empty }]
  /\ entry \in [fs : BOOLEAN, name : Texts \cup { Null, Empty },
                path : Texts \cup { Null }, cmdline : Texts \cup { Null, Empty },
                tracing : BOOLEAN]
  /\ status \in { "success", "deviceError", "notFound", "bufferTooSmall",
                  "invalidParameter" }
  /\ lost \in BOOLEAN

(* The entry a sequence of lines describes.  Options before the first entry *)
(* line do not count; the last name wins; the command line is that of the   *)
(* last entry, while the path and the tracing may come from any of them.    *)
Described(ls) ==
  LET entries == { i \in DOMAIN ls : ls[i].kind = "entry" }
      Options(kind, after) ==
        { i \in DOMAIN ls : ls[i].kind = kind /\ i > after }
      LastText(is, default) == IF is = {} THEN default ELSE ls[Max(is)].text
  IN IF entries = {}
       THEN NoEntry
       ELSE [fs      |-> TRUE,
             name    |-> ls[Max(entries)].text,
             path    |-> LastText(Options("path", Min(entries)), Null),
             cmdline |-> LastText(Options("cmdline", Max(entries)), Empty),
             tracing |-> \E i \in Options("tracing", Min(entries)) : ls[i].text = "yes"]

(* The entry is at every time what the lines read so far describe, and at   *)
(* the end what the file does, unless memory runs out.                      *)
EntryIsDescribed ==
  LET done == IF pc = "parse" THEN pos - 1 ELSE pos IN
  ~lost => entry = Described([i \in 1 .. done |-> Seen(i)])

(* A boot that goes on has what LoadOrigamiKernel takes for granted: a file *)
(* system to open and the path of a kernel, memory or no memory.            *)
BootableOnSuccess ==
  pc = "returned" /\ status = "success" => entry.fs /\ entry.path # Null

(* However LoadBootEntry ends, it leaves no file open. *)
HandlesClosed == pc \in { "check", "prompt", "returned" } => open = {}

(* Every file is read to an end. *)
ParsingEnds == <>(pc = "returned")

(* What a comment of FileHandleReadLine asks for, and the code does not do  *)
(* (libedk2/Library/UefiFileHandleLib/UefiFileHandleLib.c).                 *)

(* "This should be maintained and not changed for all operations with the   *)
(* same file": a file is read in the encoding its first characters tell.    *)
EncodingIsKept == pc = "parse" => ascii = ~file.ucs2
=============================================================================
