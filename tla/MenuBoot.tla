------------------------------- MODULE MenuBoot -------------------------------
(***************************************************************************)
(* The menu with the boot configuration it calls for: what GetBootEntry    *)
(* does when Enter is pressed, in place of the step BootEntry that         *)
(* Menu.tla has for it.  The two share the prompt at the end of            *)
(* GetBootEntry, the tracing of the entry and the status; the keyboard     *)
(* goes on meanwhile.                                                      *)
(***************************************************************************)
EXTENDS Menu

CONSTANTS Files, Texts

VARIABLES file, step, path, open, pos, ascii, line, entry, status, lost

menu     == vars
config   == <<file, step, path, open, pos, ascii, line, entry, status, lost>>
bootVars == <<menu, config>>

Config == INSTANCE BootConfig WITH pc <- step

ASSUME MenuBootAssumption == Config!BootConfigAssumption

BootInit == Init /\ Config!Init

-----------------------------------------------------------------------------
(* The menu's own steps. *)
MenuStep ==
  /\ \/ Constructors \/ Splash \/ FirstRead \/ PollMenu
     \/ EnterMenu \/ ResetSystem \/ Load \/ Prompt \/ Answer
  /\ UNCHANGED config

(* A step of GetBootEntry up to its prompt. *)
ConfigStep ==
  /\ pc = "bootEntry"
  /\ step # "prompt" /\ Config!Step
  /\ UNCHANGED menu

(* GetBootEntry's KeyWait, after which it returns; the slip is a prompt that *)
(* does not know it.                                                         *)
AskWithoutReturn ==
  /\ pc = "bootEntry"
  /\ Config!Prompt
  /\ tracing' = entry.tracing
  /\ pc' = "prompt"
  /\ UNCHANGED <<resume, key, buffer, typed, fresh, failed>>

Ask ==
  /\ pc = "bootEntry"
  /\ Config!Prompt
  /\ tracing' = entry.tracing
  /\ pc' = "prompt" /\ resume' = "load"
  /\ UNCHANGED <<key, buffer, typed, fresh, failed>>

(* CHECK_STATUS(GetBootEntry()); the slips are to go on after an error, to   *)
(* the load and to the menu.                                                 *)
ReturnUnchecked ==
  /\ pc = "bootEntry" /\ step = "returned"
  /\ tracing' = entry.tracing
  /\ pc' = "load"
  /\ UNCHANGED <<resume, key, buffer, typed, fresh, failed, config>>

ReturnToMenu ==
  /\ pc = "bootEntry" /\ step = "returned"
  /\ tracing' = entry.tracing
  /\ pc' = IF status = "success" THEN "load" ELSE "loop"
  /\ UNCHANGED <<resume, key, buffer, typed, fresh, failed, config>>

Return ==
  /\ pc = "bootEntry" /\ step = "returned"
  /\ tracing' = entry.tracing
  /\ pc' = IF status = "success" THEN "load" ELSE "deadLoop"
  /\ UNCHANGED <<resume, key, buffer, typed, fresh, failed, config>>

(* The user's. *)
UserStep ==
  /\ (\E k \in Keys : Press(k)) \/ KeyboardFails
  /\ UNCHANGED config

BootEnded == Terminated /\ UNCHANGED config

BootStep == MenuStep \/ ConfigStep \/ Ask \/ Return

BootNext == BootStep \/ UserStep \/ BootEnded

(* As in Menu.tla. *)
BootSpec ==
  /\ BootInit /\ [][BootNext]_bootVars
  /\ WF_bootVars(BootStep)
  /\ WF_bootVars(pc = "poll" /\ UNCHANGED config /\ \E k \in Keys : Press(k))

-----------------------------------------------------------------------------
BootTypeOK == TypeOK /\ Config!TypeOK

(* The menu with its configuration is the menu: whatever the file holds and  *)
(* whichever call fails, GetBootEntry ends, prompts only for an entry with   *)
(* tracing, and leads to the load or out of the loop.                        *)
ImplementsMenu == FairSpec

(* The load begins with a file system and a path, with no file open, and it  *)
(* prompts if and only if the entry says so.                                 *)
LoadHasAnEntry ==
  pc = "load" =>
    entry.fs /\ entry.path # Config!Null /\ open = {} /\ tracing = entry.tracing
=============================================================================
