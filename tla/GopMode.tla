------------------------------- MODULE GopMode --------------------------------
(***************************************************************************)
(* SelectBestGopMode (src/util/misc.c) and what the loader tells the       *)
(* kernel of its result (src/Loader/Origami.c).  Every call to the         *)
(* firmware may fail.                                                      *)
(***************************************************************************)
EXTENDS Integers, Sequences

CONSTANTS
  Mode,      \* [usable, width, height, scanline]: the modes there are
  MaxModes,  \* bound: MaxMode
  Sizes,     \* [width, height]: *Width and *Height; the loader passes zeros
  MaxUintn   \* MAX_UINTN

ASSUME GopModeAssumption ==
  /\ MaxModes \in Nat \ {0} /\ MaxUintn \in Nat
  /\ Sizes \subseteq [width : 0 .. MaxUintn, height : 0 .. MaxUintn]
  /\ Mode \subseteq [usable : BOOLEAN, width : 1 .. MaxUintn - 1,
                     height : 1 .. MaxUintn - 1, scanline : 1 .. MaxUintn - 1]

VARIABLES
  modes,     \* what QueryMode tells of each mode
  current,   \* GOP->Mode->Mode
  request,   \* *Width and *Height on entry
  call,      \* the next call
  i,         \* the mode to be looked at
  good,      \* GoodOption
  best,      \* BestWidth, BestHeight
  output,    \* *Width, *Height and *Scanline; "none" before they are set
  reported,  \* the ORIGAMI_FRAMEBUFFER
  outcome    \* Status

given   == <<modes, request>>
gopVars == <<given, current, call, i, good, best, output, reported, outcome>>

Nothing == [width |-> 0, height |-> 0, pitch |-> 0]

GopInit ==
  /\ \E n \in 1 .. MaxModes : modes \in [1 .. n -> Mode] /\ current \in 1 .. n
  /\ request \in Sizes
  /\ call = "locate"
  /\ i = 1
  /\ good = current
  /\ best = [width |-> 0, height |-> 0]
  /\ output = Nothing
  /\ reported = Nothing
  /\ outcome = "success"

-----------------------------------------------------------------------------
GiveUp == outcome' = "error" /\ call' = "returned"

Wanted(n) == IF n = 0 THEN MaxUintn ELSE n

Width  == Wanted(request.width)
Height == Wanted(request.height)

LocateProtocol ==
  /\ call = "locate"
  /\ (call' = "query" /\ UNCHANGED outcome) \/ GiveUp
  /\ UNCHANGED <<given, current, i, good, best, output, reported>>

(* Slips: no test of the format, none for a smaller mode, and modes counted *)
(* from zero.                                                               *)
AnyFormat(m)    == TRUE
NeverSmaller(m) == FALSE
TakeIndex(m)    == good' = i - 1 /\ best' = [width |-> m.width, height |-> m.height]

IsUsable(m)  == m.usable   \* PixelBlueGreenRedReserved8BitPerColor
IsExact(m)   == m.width = Width /\ m.height = Height
IsTooBig(m)  == m.width > Width /\ m.height > Height
IsSmaller(m) == m.width < best.width /\ m.height < best.height
Take(m)      == good' = i /\ best' = [width |-> m.width, height |-> m.height]

(* One turn of the loop. *)
QueryMode ==
  /\ call = "query" /\ i <= Len(modes)
  /\ LET m == modes[i]
     IN  \/ /\ IsUsable(m) /\ IsExact(m)
            /\ good' = i /\ call' = "set"
            /\ UNCHANGED <<i, best, outcome>>
         \/ /\ ~IsUsable(m) \/ (~IsExact(m) /\ (IsTooBig(m) \/ IsSmaller(m)))
            /\ i' = i + 1
            /\ UNCHANGED <<call, good, best, outcome>>
         \/ /\ IsUsable(m) /\ ~IsExact(m) /\ ~IsTooBig(m) /\ ~IsSmaller(m)
            /\ Take(m)
            /\ i' = i + 1
            /\ UNCHANGED <<call, outcome>>
         \/ GiveUp /\ UNCHANGED <<i, good, best>>
  /\ UNCHANGED <<given, current, output, reported>>

SearchEnds ==
  /\ call = "query" /\ i > Len(modes)
  /\ call' = "set"
  /\ UNCHANGED <<given, current, i, good, best, output, reported, outcome>>

(* A slip: the status of SetMode is not looked at. *)
SetModeUnchecked ==
  /\ call = "set"
  /\ current' \in { good, current }
  /\ call' = "output"
  /\ UNCHANGED <<given, i, good, best, output, reported, outcome>>

SetMode ==
  /\ call = "set"
  /\ \/ current' = good /\ call' = "output" /\ UNCHANGED outcome
     \/ GiveUp /\ UNCHANGED current
  /\ UNCHANGED <<given, i, good, best, output, reported>>

(* *Width is the vertical resolution and *Height the horizontal one, and    *)
(* *Scanline counts pixels.                                                 *)
Outputs(m) == [width |-> m.height, height |-> m.width, pitch |-> m.scanline]

SetOutputs ==
  /\ call = "output"
  /\ output' = Outputs(modes[current])
  /\ call' = "report"
  /\ UNCHANGED <<given, current, i, good, best, reported, outcome>>

(* The fields of an ORIGAMI_FRAMEBUFFER have 16 bits. *)
FieldValues == 65536

Report ==
  /\ call = "report"
  /\ reported' = [field \in DOMAIN output |-> output[field] % FieldValues]
  /\ call' = "returned"
  /\ UNCHANGED <<given, current, i, good, best, output, outcome>>

Finished == call = "returned" /\ UNCHANGED gopVars

GopNext ==
  \/ LocateProtocol \/ QueryMode \/ SearchEnds \/ SetMode \/ SetOutputs \/ Report
  \/ Finished

GopSpec == GopInit /\ [][GopNext]_gopVars

-----------------------------------------------------------------------------
GopTypeOK ==
  /\ modes \in Seq(Mode) /\ Len(modes) \in 1 .. MaxModes
  /\ request \in Sizes
  /\ current \in DOMAIN modes /\ good \in DOMAIN modes
  /\ call \in { "locate", "query", "set", "output", "report", "returned" }
  /\ i \in 1 .. Len(modes) + 1
  /\ best \in [width : 0 .. MaxUintn - 1, height : 0 .. MaxUintn - 1]
  /\ output \in [DOMAIN Nothing -> 0 .. MaxUintn - 1]
  /\ reported \in [DOMAIN Nothing -> 0 .. FieldValues - 1]
  /\ outcome \in { "success", "error" }

Ready == call = "returned" /\ outcome = "success"

UsableModes == { j \in DOMAIN modes : modes[j].usable }

(* A mode of exactly the size asked for is set when there is one, whatever   *)
(* was seen before it or comes after it.                                     *)
Asked(j) == modes[j].width = Width /\ modes[j].height = Height

ExactModeWins ==
  Ready /\ (\E j \in UsableModes : Asked(j)) => Asked(current) /\ current \in UsableModes

(* When of any two modes one is larger both ways, as a list of one aspect    *)
(* ratio is, the largest is set, in whatever order the firmware lists them.  *)
Larger(j, k) == modes[j].width > modes[k].width /\ modes[j].height > modes[k].height

IsChain == \A j, k \in UsableModes : j = k \/ Larger(j, k) \/ Larger(k, j)

LargestOfAChain ==
  Ready /\ UsableModes # {} /\ request = [width |-> 0, height |-> 0] /\ IsChain
    => \A j \in UsableModes : j = current \/ Larger(current, j)

(* Unless every usable mode is larger both ways than asked for, a usable one *)
(* is set: the kernel is told of 32 bits per pixel.                          *)
UsableModeIsSet ==
  Ready /\ (\E j \in UsableModes : ~IsTooBig(modes[j])) => modes[current].usable

(* On a list of modes of which some are larger one way and smaller the       *)
(* other, the candidate may shrink one way from mode to mode, so that the   *)
(* order of the list counts.  But nothing that could have replaced the mode *)
(* that is set comes after it: what does is too big, or smaller both ways.  *)
NothingBetterFollows ==
  Ready /\ (\A j \in UsableModes : ~Asked(j)) =>
    \A j \in UsableModes : j > current => IsTooBig(modes[j]) \/ Larger(current, j)

(* Which mode is chosen. *)
ModeIsChosen ==
  ExactModeWins /\ LargestOfAChain /\ UsableModeIsSet /\ NothingBetterFollows

(* The firmware is never put into a mode of another format, nor into one     *)
(* larger both ways than asked for: when there is no other, or a call fails *)
(* half-way through the list, the machine stays in the mode it was in.      *)
OnlyFittingModesAreSet ==
  [][current' # current => /\ modes[current'].usable
                           /\ ~IsTooBig(modes[current'])]_gopVars

(* The three numbers the kernel is told are those of one mode, the one the   *)
(* machine is in, and that is the one the search settled on, although they  *)
(* are read from the firmware after SetMode and not from the list.  What    *)
(* Outputs makes of a mode, and the 16 bits of a field, are the code's; that *)
(* Outputs is not what a framebuffer's fields mean is the next property.    *)
ReportIsOfTheModeSet ==
  Ready =>
    /\ current = good
    /\ reported = [f \in DOMAIN Nothing |-> Outputs(modes[good])[f] % FieldValues]

-----------------------------------------------------------------------------
(* What the header and the test kernel say, and the code does not do.  The  *)
(* width of an origami_framebuffer is the width of the mode                 *)
(* (spec/origami.h), and its pitch is the length of a line in bytes: the    *)
(* kernel divides it by the size of a pixel (tests/kernel.c).  On a mode    *)
(* that is not square neither holds.                                        *)
BytesPerPixel == 4

WidthOrPitchIsRight ==
  Ready => \/ reported.width = modes[current].width
           \/ reported.pitch = BytesPerPixel * modes[current].scanline
=============================================================================
