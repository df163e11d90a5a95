-------------------------------- MODULE Menu ---------------------------------
(***************************************************************************)
(* EfiMain (src/main.c), the menu SplashScreen (src/Menu/Splash.c) and the *)
(* prompts KeyWait (src/util/misc.c): everything that reads the keyboard.  *)
(* They share the console's buffer of keystrokes, which the user fills at  *)
(* any time.                                                               *)
(*                                                                         *)
(* GetBootEntry and LoadOrigamiKernel are reduced to what the menu sees:   *)
(* they prompt when tracing is on, and fail or go on.                      *)
(***************************************************************************)
EXTENDS Naturals, Sequences, SequencesExt

CONSTANTS
  MaxKeys,    \* bound: the keystrokes the console buffers
  ClearsKey   \* does ReadKeyStroke clear the key when none is waiting?

ASSUME MenuAssumption == MaxKeys \in Nat \ { 0 } /\ ClearsKey \in BOOLEAN

(* The keys the menu tells apart, by ScanCode first and UnicodeChar second: *)
(* "other" is any other key, and no key at all.                             *)
Keys == { "esc", "enter", "other" }

VARIABLES
  pc,       \* what runs: the menu, a prompt, one of the two calls, ...
  resume,   \* where a prompt goes on
  tracing,  \* gEntry.Tracing
  key,      \* the local variable Key of SplashScreen
  buffer,   \* the keystrokes the console holds
  typed,    \* the keys pressed while the menu was shown, but for the
            \* Enter of a boot that has begun
  fresh,    \* was a key pressed since the last prompt was shown?
  failed    \* does the keyboard only report errors any more?

vars == <<pc, resume, tracing, key, buffer, typed, fresh, failed>>

console == <<buffer, typed, fresh, failed>>

Ended == { "deadLoop", "reset", "kernel" }
Shown == { "firstRead", "loop" }   \* the menu is on the screen

Init ==
  /\ pc = "constructors"
  /\ resume = "none"
  /\ tracing = FALSE
  /\ key \in Keys       \* not initialised: whatever is on the stack
  /\ buffer \in { << >>, << "enter" >>, << "esc" >> }
  /\ typed = {}
  /\ fresh = FALSE
  /\ failed = FALSE

-----------------------------------------------------------------------------
(* ConIn->ReadKeyStroke(&Key): the first key in the buffer.  Without one    *)
(* (or with an error) the key is cleared or left as it was, which is up to  *)
(* the firmware; the menu looks at the key and not at the status.           *)
ReadKeyStroke ==
  IF buffer # << >> /\ ~failed
    THEN key' = Head(buffer) /\ buffer' = Tail(buffer)
    ELSE key' = (IF ClearsKey THEN "other" ELSE key) /\ UNCHANGED buffer

(* The constructors EfiMain calls; one that fails ends in the dead loop.    *)
Constructors ==
  /\ pc = "constructors"
  /\ pc' \in { "splash", "deadLoop" }
  /\ UNCHANGED <<resume, tracing, key, console>>

(* The menu is shown and the keys typed before that are dropped; the slip   *)
(* would be to obey them.                                                   *)
SplashKeepingKeys ==
  /\ pc = "splash"
  /\ typed' = {}
  /\ pc' = "firstRead"
  /\ UNCHANGED <<resume, tracing, key, buffer, fresh, failed>>

Splash ==
  /\ pc = "splash"
  /\ buffer' = << >>
  /\ typed' = {}
  /\ pc' = "firstRead"
  /\ UNCHANGED <<resume, tracing, key, fresh, failed>>

FirstRead ==
  /\ pc = "firstRead"
  /\ ReadKeyStroke
  /\ pc' = "loop"
  /\ UNCHANGED <<resume, tracing, typed, fresh, failed>>

(* A slip: the buffer is cleared before every read. *)
PollMenuResetting ==
  /\ pc = "loop"
  /\ key = "other"
  /\ buffer' = << >>
  /\ UNCHANGED <<pc, resume, tracing, key, typed, fresh, failed>>

(* while(Key.ScanCode != SCAN_ESC): without Enter the next key is read.     *)
PollMenu ==
  /\ pc = "loop"
  /\ key = "other"
  /\ ReadKeyStroke
  /\ UNCHANGED <<pc, resume, tracing, typed, fresh, failed>>

EnterMenu ==
  /\ pc = "loop"
  /\ key = "enter"
  /\ pc' = "bootEntry"
  /\ typed' = typed \ { "enter" }   \* each boot takes an Enter of its own
  /\ UNCHANGED <<resume, tracing, key, buffer, fresh, failed>>

(* gRT->ResetSystem *)
ResetSystem ==
  /\ pc = "loop"
  /\ key = "esc"
  /\ pc' = "reset"
  /\ UNCHANGED <<resume, tracing, key, console>>

(* GetBootEntry: the entry turns tracing on or not; an error leaves the     *)
(* loop, and EfiMain ignores the status of SplashScreen.                    *)
BootEntry ==
  /\ pc = "bootEntry"
  /\ \/ tracing' = FALSE /\ pc' = "load" /\ UNCHANGED resume
     \/ tracing' = TRUE /\ pc' = "prompt" /\ resume' = "load"
     \/ tracing' \in BOOLEAN /\ pc' = "deadLoop" /\ UNCHANGED resume
  /\ UNCHANGED <<key, console>>

(* LoadOrigamiKernel: any number of prompts, then the kernel or an error.   *)
Load ==
  /\ pc = "load"
  /\ \/ pc' \in { "kernel", "deadLoop" } /\ UNCHANGED resume
     \/ tracing /\ pc' = "prompt" /\ resume' = "load"
  /\ UNCHANGED <<tracing, key, console>>

-----------------------------------------------------------------------------
(* KeyWait: the prompt, and the keys typed before it are dropped; the slip  *)
(* would be to take them for an answer.                                     *)
PromptKeepingKeys ==
  /\ pc = "prompt"
  /\ fresh' = FALSE
  /\ pc' = "poll"
  /\ UNCHANGED <<resume, tracing, key, buffer, typed, failed>>

Prompt ==
  /\ pc = "prompt"
  /\ buffer' = << >>
  /\ fresh' = FALSE
  /\ pc' = "poll"
  /\ UNCHANGED <<resume, tracing, key, typed, failed>>

(* A key ends the wait, and so does any error but EFI_NOT_READY; the rest   *)
(* of the buffer is dropped.                                                *)
Answer ==
  /\ pc = "poll"
  /\ buffer # << >> \/ failed
  /\ buffer' = << >>
  /\ pc' = resume
  /\ UNCHANGED <<resume, tracing, key, typed, fresh, failed>>

-----------------------------------------------------------------------------
(* The user: a key that does not fit the buffer is lost. *)
Press(k) ==
  /\ pc \notin Ended
  /\ Len(buffer) < MaxKeys
  /\ buffer' = Append(buffer, k)
  /\ typed' = IF pc \in Shown THEN typed \cup { k } ELSE typed
  /\ fresh' = TRUE
  /\ UNCHANGED <<pc, resume, tracing, key, failed>>

KeyboardFails ==
  /\ pc \notin Ended
  /\ ~failed
  /\ failed' = TRUE
  /\ UNCHANGED <<pc, resume, tracing, key, buffer, typed, fresh>>

Terminated == pc \in Ended /\ UNCHANGED vars

Step ==
  \/ Constructors \/ Splash \/ FirstRead \/ PollMenu \/ EnterMenu \/ ResetSystem
  \/ BootEntry \/ Load \/ Prompt \/ Answer

Next == Step \/ (\E k \in Keys : Press(k)) \/ KeyboardFails \/ Terminated

Spec == Init /\ [][Next]_vars

(* The program is the only thread and its loops poll, so a step it can take *)
(* is taken, and whoever is prompted answers in the end.                    *)
FairSpec ==
  /\ Spec
  /\ WF_vars(Step)
  /\ WF_vars(pc = "poll" /\ \E k \in Keys : Press(k))

-----------------------------------------------------------------------------
TypeOK ==
  /\ pc \in { "constructors", "splash", "firstRead", "loop", "bootEntry",
              "load", "prompt", "poll" } \cup Ended
  /\ resume \in { "none", "load" }
  /\ tracing \in BOOLEAN
  /\ key \in Keys
  /\ buffer \in BoundedSeq(Keys, MaxKeys)
  /\ typed \subseteq Keys
  /\ fresh \in BOOLEAN
  /\ failed \in BOOLEAN

(* "Press Enter to boot", "Press ESC to reset the machine"                  *)
(* (src/Menu/Splash.c): nothing is booted unless Enter was pressed while    *)
(* the menu was shown, once for each boot, and the machine is not reset     *)
(* unless ESC was.                                                          *)
ActsOnRequest ==
  [][/\ pc = "loop" /\ pc' = "bootEntry" => "enter" \in typed
     /\ pc' = "reset" => "esc" \in typed']_vars

(* While the keyboard works, a prompt is never answered by a key typed      *)
(* ahead of it.                                                             *)
PromptAnsweredAfresh ==
  [][pc = "poll" /\ pc' # "poll" => fresh \/ failed]_vars

(* Enter or ESC pressed in the menu is acted upon, however many other keys  *)
(* wait before it, unless the keyboard fails first.                         *)
KeyIsActedUpon ==
  pc \in Shown /\ (\E i \in DOMAIN buffer : buffer[i] # "other")
    ~> pc \in { "bootEntry", "reset" } \/ failed
=============================================================================
