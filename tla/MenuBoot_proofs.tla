--------------------------- MODULE MenuBoot_proofs ---------------------------
(***************************************************************************)
(* Proofs about Menu and MenuBoot, for every size of the console's buffer  *)
(* and every set of configuration files.                                   *)
(*                                                                         *)
(* What is proved of the menu alone holds of the menu with its boot        *)
(* configuration as well, once each step of MenuBoot is shown to be one of *)
(* Menu or to leave its variables alone.                                   *)
(***************************************************************************)
EXTENDS MenuBoot, TLAPS

(* The proofs about the boot configuration, of the same variables as Config. *)
Parser == INSTANCE BootConfig_proofs WITH pc <- step

-----------------------------------------------------------------------------
(* Of the menu.  Every prompt is one of the boot, and while it polls, the   *)
(* buffer holds answers only.                                               *)
Answered ==
  /\ pc \in { "prompt", "poll" } => resume = "load"
  /\ pc = "poll" => buffer = << >> \/ fresh

(* With a firmware that clears the key, the menu looks at keys that were    *)
(* typed while it was shown.                                                *)
Requested ==
  ClearsKey =>
    /\ pc \in Shown => \A i \in 1 .. Len(buffer) : buffer[i] \in typed
    /\ pc = "loop" => key = "other" \/ key \in typed

MenuIInv == TypeOK /\ Answered /\ Requested

(* Of both.  The configuration begins when Enter is pressed, and what it    *)
(* ended with stays until the kernel runs.                                  *)
Joined ==
  /\ pc \in { "constructors", "splash", "firstRead", "loop" } => step = "locate"
  /\ step = "prompt" => entry.tracing
  /\ pc = "bootEntry" /\ step = "returned" /\ status = "success" => ~entry.tracing
  /\ pc \in { "load", "prompt", "poll" } =>
       step = "returned" /\ status = "success" /\ tracing = entry.tracing

BootIInv == MenuIInv /\ Parser!IInv /\ Joined

-----------------------------------------------------------------------------
(* The buffer is a sequence of at most MaxKeys keys.                        *)
LEMMA BufferIs ==
  \A b : b \in BoundedSeq(Keys, MaxKeys) <=> b \in Seq(Keys) /\ Len(b) <= MaxKeys
  <1> TAKE b
  <1>1. ASSUME b \in BoundedSeq(Keys, MaxKeys)
        PROVE  b \in Seq(Keys) /\ Len(b) <= MaxKeys
    <2>1. PICK n \in 0 .. MaxKeys : b \in [1 .. n -> Keys]
      BY <1>1, MenuAssumption DEF BoundedSeq, SeqOf
    <2>2. n \in Nat /\ n <= MaxKeys
      BY MenuAssumption
    <2> QED
      BY <2>1, <2>2
  <1>2. ASSUME b \in Seq(Keys), Len(b) <= MaxKeys
        PROVE  b \in BoundedSeq(Keys, MaxKeys)
    <2>1. Len(b) \in 0 .. MaxKeys /\ b \in [1 .. Len(b) -> Keys]
      BY <1>2, MenuAssumption
    <2> QED
      BY <2>1 DEF BoundedSeq, SeqOf
  <1> QED
    BY <1>1, <1>2

(* The two things that happen to the buffer, and emptying it.               *)
LEMMA BufferSteps ==
  ASSUME NEW b \in BoundedSeq(Keys, MaxKeys)
  PROVE  /\ b \in Seq(Keys) /\ Len(b) \in Nat
         /\ << >> \in BoundedSeq(Keys, MaxKeys)
         /\ b # << >> => Tail(b) \in BoundedSeq(Keys, MaxKeys) /\ Head(b) \in Keys
         /\ Len(b) < MaxKeys =>
              \A k \in Keys : Append(b, k) \in BoundedSeq(Keys, MaxKeys)
  <1>1. b \in Seq(Keys) /\ Len(b) \in Nat /\ Len(b) <= MaxKeys /\ MaxKeys \in Nat
    BY BufferIs, MenuAssumption
  <1>2. << >> \in BoundedSeq(Keys, MaxKeys)
    <2>1. << >> \in Seq(Keys) /\ Len(<< >>) <= MaxKeys
      BY <1>1
    <2> QED
      BY <2>1, BufferIs, Zenon
  <1>3. ASSUME b # << >>
        PROVE  Tail(b) \in BoundedSeq(Keys, MaxKeys) /\ Head(b) \in Keys
    <2>1. Tail(b) \in Seq(Keys) /\ Len(Tail(b)) = Len(b) - 1 /\ Head(b) \in Keys
      BY <1>1, <1>3
    <2>2. Len(Tail(b)) <= MaxKeys
      BY <1>1, <2>1
    <2> QED
      BY <2>1, <2>2, BufferIs, Zenon
  <1>4. ASSUME Len(b) < MaxKeys, NEW k \in Keys
        PROVE  Append(b, k) \in BoundedSeq(Keys, MaxKeys)
    <2>1. Append(b, k) \in Seq(Keys) /\ Len(Append(b, k)) = Len(b) + 1
      BY <1>1
    <2>2. Len(Append(b, k)) <= MaxKeys
      BY <1>1, <1>4, <2>1
    <2> QED
      BY <2>1, <2>2, BufferIs, Zenon
  <1> QED
    BY <1>1, <1>2, <1>3, <1>4

LEMMA MenuInit == Init => MenuIInv
  <1> SUFFICES ASSUME Init PROVE MenuIInv
    OBVIOUS
  <1>1. buffer \in BoundedSeq(Keys, MaxKeys)
    <2>1. buffer \in Seq(Keys) /\ Len(buffer) <= 1
      <3>1. CASE buffer = << >>
        BY <3>1
      <3>2. CASE buffer = << "enter" >>
        BY <3>2 DEF Keys
      <3>3. CASE buffer = << "esc" >>
        BY <3>3 DEF Keys
      <3> QED
        BY <3>1, <3>2, <3>3 DEF Init
    <2>2. Len(buffer) <= MaxKeys
      BY <2>1, MenuAssumption
    <2> QED
      BY <2>1, <2>2, BufferIs, Zenon
  <1>2. TypeOK
    BY <1>1 DEF Init, TypeOK
  <1> QED
    BY <1>2 DEF Init, MenuIInv, Answered, Requested, Shown

LEMMA MenuTypeStep == TypeOK /\ Answered /\ [Next]_vars => TypeOK'
  <1> SUFFICES ASSUME TypeOK, Answered, [Next]_vars PROVE TypeOK'
    OBVIOUS
  <1> USE DEF TypeOK
  <1>0. /\ << >> \in BoundedSeq(Keys, MaxKeys)
        /\ buffer # << >> =>
             Tail(buffer) \in BoundedSeq(Keys, MaxKeys) /\ Head(buffer) \in Keys
        /\ Len(buffer) < MaxKeys =>
             \A k \in Keys : Append(buffer, k) \in BoundedSeq(Keys, MaxKeys)
        /\ "other" \in Keys
    BY BufferSteps DEF Keys
  <1>1. CASE Constructors \/ Splash
    BY <1>0, <1>1 DEF Constructors, Splash, console, Ended
  <1>2. CASE FirstRead \/ PollMenu
    BY <1>0, <1>2 DEF FirstRead, PollMenu, ReadKeyStroke
  <1>3. CASE EnterMenu \/ ResetSystem
    BY <1>3 DEF EnterMenu, ResetSystem, console, Ended
  <1>4. CASE BootEntry \/ Load
    BY <1>4 DEF BootEntry, Load, console, Ended
  <1>5. CASE Prompt \/ Answer
    BY <1>0, <1>5 DEF Prompt, Answer, Answered
  <1>6. ASSUME NEW k \in Keys, Press(k) PROVE TypeOK'
    BY <1>0, <1>6 DEF Press
  <1>7. CASE KeyboardFails
    BY <1>7 DEF KeyboardFails
  <1>8. CASE UNCHANGED vars
    BY <1>8 DEF vars
  <1> QED
    BY <1>1, <1>2, <1>3, <1>4, <1>5, <1>6, <1>7, <1>8 DEF Next, Step, Terminated

LEMMA AnsweredStep == TypeOK /\ Answered /\ [Next]_vars => Answered'
  <1> SUFFICES ASSUME TypeOK, Answered, [Next]_vars PROVE Answered'
    OBVIOUS
  <1> USE DEF Answered
  <1>1. CASE Constructors \/ Splash \/ FirstRead \/ PollMenu \/ EnterMenu \/ ResetSystem
    BY <1>1 DEF Constructors, Splash, FirstRead, PollMenu, EnterMenu, ResetSystem, console
  <1>2. CASE BootEntry \/ Load
    BY <1>2 DEF BootEntry, Load, console
  <1>3. CASE Prompt \/ Answer
    BY <1>3 DEF Prompt, Answer
  <1>4. ASSUME NEW k \in Keys, Press(k) PROVE Answered'
    BY <1>4 DEF Press
  <1>5. CASE KeyboardFails \/ UNCHANGED vars
    BY <1>5 DEF KeyboardFails, vars
  <1> QED
    BY <1>1, <1>2, <1>3, <1>4, <1>5 DEF Next, Step, Terminated

(* Every key in the buffer was typed since the menu was shown, and the one   *)
(* that was read came out of the buffer.                                     *)
LEMMA RequestedStep == TypeOK /\ Answered /\ Requested /\ [Next]_vars => Requested'
  <1> SUFFICES ASSUME TypeOK, Answered, Requested, [Next]_vars, ClearsKey
               PROVE  /\ pc' \in Shown => \A i \in 1 .. Len(buffer') : buffer'[i] \in typed'
                      /\ pc' = "loop" => key' = "other" \/ key' \in typed'
    BY DEF Requested
  <1>0. /\ buffer \in Seq(Keys) /\ Len(buffer) \in Nat
        /\ pc \in Shown => \A i \in 1 .. Len(buffer) : buffer[i] \in typed
        /\ pc = "loop" => key = "other" \/ key \in typed
    BY BufferSteps DEF TypeOK, Requested
  <1>1. CASE Constructors \/ Splash
    BY <1>1 DEF Constructors, Splash, Shown
  <1>2. CASE FirstRead \/ PollMenu
    <2>1. /\ pc \in Shown /\ pc' = "loop" /\ typed' = typed /\ ReadKeyStroke
          /\ \A i \in 1 .. Len(buffer) : buffer[i] \in typed
      BY <1>0, <1>2 DEF FirstRead, PollMenu, Shown
    <2>2. CASE buffer # << >> /\ ~failed
      <3>1. /\ key' = buffer[1] /\ 1 \in 1 .. Len(buffer)
            /\ buffer' = Tail(buffer) /\ Len(buffer') = Len(buffer) - 1
        BY <1>0, <2>1, <2>2 DEF ReadKeyStroke
      <3>2. \A i \in 1 .. Len(buffer') :
              buffer'[i] = buffer[i + 1] /\ i + 1 \in 1 .. Len(buffer)
        BY <1>0, <3>1
      <3> QED
        BY <2>1, <3>1, <3>2
    <2>3. CASE ~(buffer # << >> /\ ~failed)
      BY <2>1, <2>3 DEF ReadKeyStroke
    <2> QED
      BY <2>2, <2>3
  <1>3. CASE EnterMenu \/ ResetSystem
    BY <1>3 DEF EnterMenu, ResetSystem, Shown
  <1>4. CASE BootEntry \/ Load
    BY <1>4 DEF BootEntry, Load, Shown
  <1>5. CASE Prompt \/ Answer
    BY <1>5 DEF Prompt, Answer, Answered, Shown
  <1>6. ASSUME NEW k \in Keys, Press(k)
        PROVE  /\ pc' \in Shown => \A i \in 1 .. Len(buffer') : buffer'[i] \in typed'
               /\ pc' = "loop" => key' = "other" \/ key' \in typed'
    <2>1. /\ Len(buffer') = Len(buffer) + 1 /\ buffer'[Len(buffer) + 1] = k
          /\ \A i \in 1 .. Len(buffer) : buffer'[i] = buffer[i]
      BY <1>0, <1>6 DEF Press
    <2>2. pc' = pc /\ key' = key /\ (pc \in Shown => typed' = typed \cup { k })
      BY <1>6 DEF Press
    <2> QED
      BY <1>0, <2>1, <2>2 DEF Shown
  <1>7. CASE KeyboardFails \/ UNCHANGED vars
    BY <1>0, <1>7 DEF KeyboardFails, vars
  <1> QED
    BY <1>1, <1>2, <1>3, <1>4, <1>5, <1>6, <1>7 DEF Next, Step, Terminated

LEMMA MenuStepIInv == MenuIInv /\ [Next]_vars => MenuIInv'
  BY MenuTypeStep, AnsweredStep, RequestedStep DEF MenuIInv

(* The two requests, of one step of the menu: a boot begins with an Enter   *)
(* and the machine is reset with an ESC, each typed while it was shown.      *)
RequestStep ==
  /\ pc = "loop" /\ pc' = "bootEntry" => "enter" \in typed
  /\ pc' = "reset" => "esc" \in typed'

LEMMA ActionsAsked == MenuIInv /\ ClearsKey /\ [Next]_vars => [RequestStep]_vars
  <1> SUFFICES ASSUME MenuIInv, ClearsKey, [Next]_vars, ~UNCHANGED vars
               PROVE  RequestStep
    OBVIOUS
  <1>1. CASE Constructors \/ Splash \/ FirstRead \/ PollMenu
    BY <1>1 DEF RequestStep, Constructors, Splash, FirstRead, PollMenu
  <1>2. CASE EnterMenu \/ ResetSystem
    BY <1>2 DEF RequestStep, EnterMenu, ResetSystem, MenuIInv, Requested, console
  <1>3. CASE BootEntry \/ Load \/ Prompt \/ Answer
    BY <1>3 DEF RequestStep, BootEntry, Load, Prompt, Answer, MenuIInv, Answered
  <1>4. CASE (\E k \in Keys : Press(k)) \/ KeyboardFails
    BY <1>4 DEF RequestStep, Press, KeyboardFails, Ended
  <1> QED
    BY <1>1, <1>2, <1>3, <1>4 DEF Next, Step, Terminated

(* What ends the wait of a prompt was typed after it was shown.              *)
LEMMA AnsweredAfresh ==
  MenuIInv /\ [Next]_vars => (pc = "poll" /\ pc' # "poll" => fresh \/ failed)
  <1> SUFFICES ASSUME MenuIInv, [Next]_vars, pc = "poll", pc' # "poll"
               PROVE  fresh \/ failed
    OBVIOUS
  <1>1. CASE Answer
    BY <1>1 DEF Answer, MenuIInv, Answered
  <1>2. CASE (\E k \in Keys : Press(k)) \/ KeyboardFails \/ UNCHANGED vars
    BY <1>2 DEF Press, KeyboardFails, vars
  <1>3. CASE ~Answer /\ Step
    BY <1>3 DEF Step, Constructors, Splash, FirstRead, PollMenu, EnterMenu, ResetSystem,
                BootEntry, Load, Prompt
  <1> QED
    BY <1>1, <1>2, <1>3 DEF Next, Terminated

-----------------------------------------------------------------------------
(* The menu alone.                                                          *)
THEOREM MenuInvariance == Spec => []MenuIInv
  <1> QED
    BY MenuInit, MenuStepIInv, PTL DEF Spec

(* Every variable of the menu keeps to its type; a prompt returns to the     *)
(* call that asked.                                                          *)
THEOREM MenuTypeCorrect == Spec => []TypeOK
  <1>1. MenuIInv => TypeOK
    BY DEF MenuIInv
  <1> QED
    BY <1>1, MenuInvariance, PTL

(* For every size of the buffer, no prompt is answered by a key typed ahead  *)
(* of it, while the keyboard works.                                          *)
THEOREM PromptsAreAnsweredAfresh == Spec => PromptAnsweredAfresh
  <1>1. MenuIInv /\ [Next]_vars => [pc = "poll" /\ pc' # "poll" => fresh \/ failed]_vars
    BY AnsweredAfresh
  <1> QED
    BY <1>1, MenuInvariance, PTL DEF Spec, PromptAnsweredAfresh

(* With a firmware that clears the key when none is waiting, the menu boots  *)
(* once for each Enter and resets only for an ESC, whatever else was typed   *)
(* and whenever the keyboard fails.                                          *)
THEOREM RequestsAreActedOn == ClearsKey /\ Spec => ActsOnRequest
  <1>1. CASE ClearsKey
    <2>1. MenuIInv /\ [Next]_vars => [RequestStep]_vars
      BY <1>1, ActionsAsked
    <2>2. Spec => [][RequestStep]_vars
      BY <2>1, MenuInvariance, PTL DEF Spec
    <2> QED
      BY <2>2 DEF ActsOnRequest, RequestStep
  <1>2. CASE ~ClearsKey
    BY <1>2
  <1> QED
    BY <1>1, <1>2

-----------------------------------------------------------------------------
(* Config and Parser are the same specification of the same variables.       *)
LEMMA ParserAssumption == Parser!BootConfigAssumption
  BY MenuBootAssumption
  DEF Config!Null, Config!Empty, Config!Line, Config!Kinds, Config!Lengths,
      Parser!Null, Parser!Empty, Parser!Line, Parser!Kinds, Parser!Lengths

LEMMA ParserIsConfig ==
  /\ Config!Init = Parser!Init
  /\ Config!Step = Parser!Step
  /\ Config!TypeOK = Parser!TypeOK
  <1> USE DEF Config!Null, Config!Empty, Config!Kinds, Config!ConfigPaths, Config!NoLine,
              Parser!Null, Parser!Empty, Parser!Kinds, Parser!ConfigPaths, Parser!NoLine
  <1>1. Config!Init = Parser!Init
    BY DEF Config!Init, Config!NoEntry, Parser!Init, Parser!NoEntry
  <1>2. Config!TypeOK = Parser!TypeOK
    BY DEF Config!TypeOK, Parser!TypeOK
  <1>3. Config!Step = Parser!Step
    BY DEF Config!Step, Config!Locate, Config!OpenVolume, Config!OpenConfig,
           Config!EndOfFile, Config!ReadLine, Config!ParseEntry, Config!ParsePath,
           Config!ParseCmdline, Config!ParseTracing, Config!Ignore, Config!Close,
           Config!CheckEntry, Config!Prompt, Config!Fail, Config!ReadAsAscii, Config!Seen,
           Config!Fits, Config!CopyString, Config!Option,
           Parser!Step, Parser!Locate, Parser!OpenVolume, Parser!OpenConfig,
           Parser!EndOfFile, Parser!ReadLine, Parser!ParseEntry, Parser!ParsePath,
           Parser!ParseCmdline, Parser!ParseTracing, Parser!Ignore, Parser!Close,
           Parser!CheckEntry, Parser!Prompt, Parser!Fail, Parser!ReadAsAscii, Parser!Seen,
           Parser!Fits, Parser!CopyString, Parser!Option
  <1> QED
    BY <1>1, <1>2, <1>3

(* Every step of the boot leaves the configuration alone or is one of its.   *)
LEMMA BootStepOfConfig ==
  [BootNext]_bootVars => Config!Step \/ UNCHANGED config
  <1> QED
    BY DEF BootNext, BootStep, MenuStep, ConfigStep, Ask, Return, UserStep, BootEnded,
           Config!Step, bootVars

LEMMA ParserStep == Parser!IInv /\ [BootNext]_bootVars => Parser!IInv'
  <1> SUFFICES ASSUME Parser!IInv, [BootNext]_bootVars PROVE Parser!IInv'
    OBVIOUS
  <1>1. [Parser!Next]_(Parser!vars)
    BY BootStepOfConfig, ParserIsConfig DEF Parser!Next, Parser!vars, config
  <1> QED
    BY <1>1, ParserAssumption, Parser!NextIInv

-----------------------------------------------------------------------------
(* The tracing of the entry is what CheckEntry went by, and it stays until   *)
(* the load.                                                                 *)
LEMMA JoinedStep ==
  Parser!IInv /\ MenuIInv /\ Joined /\ [BootNext]_bootVars => Joined'
  <1> SUFFICES ASSUME Parser!IInv, MenuIInv, Joined, [BootNext]_bootVars PROVE Joined'
    OBVIOUS
  <1>0. /\ step = "prompt" => status = "success"
        /\ entry.tracing \in BOOLEAN
    BY DEF Parser!IInv, Parser!Staged, Parser!TypeOK
  <1>1. CASE /\ UNCHANGED config
             /\ \/ Constructors \/ Splash \/ FirstRead
                \/ PollMenu \/ EnterMenu \/ ResetSystem
    BY <1>1 DEF Joined, config, Constructors, Splash, FirstRead, PollMenu, EnterMenu,
                ResetSystem, console
  <1>2. CASE UNCHANGED config /\ (Load \/ Prompt)
    BY <1>2 DEF Joined, config, Load, Prompt, console
  <1>3. CASE UNCHANGED config /\ Answer
    BY <1>3 DEF Joined, config, Answer, MenuIInv, Answered
  <1>4. CASE ConfigStep
    <2>0. pc = "bootEntry" /\ pc' = pc
      BY <1>4 DEF ConfigStep, menu, vars
    <2>1. /\ step' = "prompt" => entry'.tracing
          /\ step' = "returned" /\ status' = "success" => ~entry'.tracing
      <3>1. CASE Config!CheckEntry
        BY <1>0, <3>1 DEF Config!CheckEntry, Joined
      <3>2. CASE \/ Config!Locate \/ Config!OpenVolume \/ Config!OpenConfig
                 \/ Config!EndOfFile \/ Config!ReadLine
        BY <3>2 DEF Config!Locate, Config!OpenVolume, Config!OpenConfig, Config!EndOfFile,
                    Config!ReadLine, Config!Fail
      <3>3. CASE \/ Config!ParseEntry \/ Config!ParsePath \/ Config!ParseCmdline
                 \/ Config!ParseTracing \/ Config!Ignore
        BY <3>3 DEF Config!ParseEntry, Config!ParsePath, Config!ParseCmdline,
                    Config!ParseTracing, Config!Ignore
      <3>4. CASE Config!Close
        BY <3>4 DEF Config!Close
      <3>5. ~Config!Prompt
        BY <1>4 DEF ConfigStep, Config!Prompt
      <3> QED
        BY <1>4, <3>1, <3>2, <3>3, <3>4, <3>5 DEF ConfigStep, Config!Step
    <2> QED
      BY <2>0, <2>1 DEF Joined
  <1>5. CASE Ask
    BY <1>0, <1>5 DEF Joined, Ask, Config!Prompt
  <1>6. CASE Return
    BY <1>6 DEF Joined, Return, config
  <1>7. CASE UserStep
    BY <1>7 DEF Joined, UserStep, config, Press, KeyboardFails
  <1>8. CASE UNCHANGED bootVars
    BY <1>8 DEF Joined, bootVars, menu, vars, config
  <1> QED
    BY <1>1, <1>2, <1>3, <1>4, <1>5, <1>6, <1>7, <1>8
    DEF BootNext, BootStep, MenuStep, BootEnded, Terminated, bootVars, menu

(* Each step of the menu with its configuration is one of the menu: the end  *)
(* of GetBootEntry is its step BootEntry.                                    *)
LEMMA MenuSimulation == Parser!IInv /\ Joined /\ [BootNext]_bootVars => [Next]_vars
  <1> SUFFICES ASSUME Parser!IInv, Joined, [BootNext]_bootVars PROVE [Next]_vars
    OBVIOUS
  <1>0. entry.tracing \in BOOLEAN
    BY DEF Parser!IInv, Parser!TypeOK
  <1>1. CASE MenuStep
    BY <1>1 DEF MenuStep, Next, Step
  <1>2. CASE ConfigStep
    BY <1>2 DEF ConfigStep, menu
  <1>3. CASE Ask
    <2>1. BootEntry
      BY <1>0, <1>3 DEF Ask, BootEntry, Config!Prompt, Joined, console
    <2> QED
      BY <2>1 DEF Next, Step
  <1>4. CASE Return
    <2>1. BootEntry
      BY <1>0, <1>4 DEF Return, BootEntry, Joined, console
    <2> QED
      BY <2>1 DEF Next, Step
  <1>5. CASE UserStep
    BY <1>5 DEF UserStep, Next
  <1>6. CASE BootEnded
    BY <1>6 DEF BootEnded, Next
  <1>7. CASE UNCHANGED bootVars
    BY <1>7 DEF bootVars, menu
  <1> QED
    BY <1>1, <1>2, <1>3, <1>4, <1>5, <1>6, <1>7 DEF BootNext, BootStep

(* What is known of the menu, of the configuration and of both together     *)
(* holds in every state of the composition.                                 *)
THEOREM BootInvariance == BootSpec => []BootIInv
  <1>1. BootInit => BootIInv
    <2> SUFFICES ASSUME BootInit PROVE BootIInv
      OBVIOUS
    <2>1. MenuIInv
      BY MenuInit DEF BootInit
    <2>2. Parser!IInv
      BY ParserIsConfig, ParserAssumption, Parser!InitIInv DEF BootInit
    <2>3. Joined
      BY DEF BootInit, Init, Config!Init, Joined
    <2> QED
      BY <2>1, <2>2, <2>3 DEF BootIInv
  <1>2. BootIInv /\ [BootNext]_bootVars => BootIInv'
    BY MenuSimulation, MenuStepIInv, ParserStep, JoinedStep DEF BootIInv
  <1> QED
    BY <1>1, <1>2, PTL DEF BootSpec

(* The menu with its boot configuration is the menu, for every configuration *)
(* file: the safety half of ImplementsMenu.  GetBootEntry prompts only for   *)
(* an entry with tracing, and an error never leads to the load.              *)
THEOREM BootRefinesMenu == BootSpec => Spec
  <1>1. BootInit => Init
    BY DEF BootInit
  <1>2. BootIInv /\ [BootNext]_bootVars => [Next]_vars
    BY MenuSimulation DEF BootIInv
  <1> QED
    BY <1>1, <1>2, BootInvariance, PTL DEF BootSpec, Spec

(* Every variable of the two keeps to its type.                              *)
THEOREM BootTypeCorrect == BootSpec => []BootTypeOK
  <1>1. BootIInv => BootTypeOK
    BY ParserIsConfig DEF BootIInv, MenuIInv, Parser!IInv, BootTypeOK
  <1> QED
    BY <1>1, BootInvariance, PTL

(* Whatever the file says, the load begins with a file system, a path and no *)
(* open file, and prompts as the entry says.                                 *)
THEOREM LoadsAnEntry == BootSpec => []LoadHasAnEntry
  <1>1. BootIInv => LoadHasAnEntry
    BY DEF BootIInv, Joined, Parser!IInv, Parser!Staged, Parser!Filled, LoadHasAnEntry,
           Parser!Null, Config!Null
  <1> QED
    BY <1>1, BootInvariance, PTL

(* The two action properties of the menu, of the menu with its boot          *)
(* configuration.                                                            *)
THEOREM BootPromptsAreAnsweredAfresh == BootSpec => PromptAnsweredAfresh
  BY BootRefinesMenu, PromptsAreAnsweredAfresh

(* With the real boot configuration as well, nothing is booted or reset     *)
(* that was not asked for.                                                  *)
THEOREM BootRequestsAreActedOn == ClearsKey /\ BootSpec => ActsOnRequest
  BY BootRefinesMenu, RequestsAreActedOn

-----------------------------------------------------------------------------
(* A key that means something, n reads away: in the buffer, or read already. *)
Waiting(n) ==
  IF n = 0 THEN pc = "loop" /\ key # "other"
           ELSE pc \in Shown /\ n \in DOMAIN buffer /\ buffer[n] # "other"

KeyComesNearer ==
  \A n \in Nat :
     Waiting(n) /\ ~failed' =>
       \/ pc' \in { "bootEntry", "reset" }
       \/ IF Step THEN n # 0 /\ Waiting(n - 1)' ELSE Waiting(n)'

(* A read takes the first key of the buffer, a key pressed comes last, and   *)
(* nothing else touches it.                                                  *)
LEMMA KeyStep == MenuIInv /\ [Next]_vars => [KeyComesNearer]_vars
  <1> SUFFICES ASSUME MenuIInv, Next, ~UNCHANGED vars,
                      NEW n \in Nat, Waiting(n), ~failed'
               PROVE  \/ pc' \in { "bootEntry", "reset" }
                      \/ IF Step THEN n # 0 /\ Waiting(n - 1)' ELSE Waiting(n)'
    BY DEF KeyComesNearer
  <1>1. /\ buffer \in BoundedSeq(Keys, MaxKeys) /\ buffer \in Seq(Keys)
        /\ Len(buffer) \in Nat /\ key \in Keys /\ pc \in Shown
    BY BufferSteps DEF MenuIInv, TypeOK, Waiting, Shown
  <1>2. CASE FirstRead \/ PollMenu
    <2>1. n # 0
      BY <1>2 DEF FirstRead, PollMenu, Waiting
    <2>2. n \in 1 .. Len(buffer) /\ buffer[n] # "other" /\ buffer # << >> /\ ~failed
      BY <1>1, <1>2, <2>1 DEF Waiting, FirstRead, PollMenu
    <2>3. pc' = "loop" /\ key' = Head(buffer) /\ buffer' = Tail(buffer)
      BY <1>2, <2>2 DEF FirstRead, PollMenu, ReadKeyStroke
    <2>4. Waiting(n - 1)'
      <3>1. CASE n = 1
        <4>1. buffer[1] = Head(buffer) /\ n - 1 = 0
          BY <1>1, <2>2, <3>1
        <4>2. Waiting(0)'
          BY <2>2, <2>3, <3>1, <4>1 DEF Waiting
        <4> QED
          BY <4>1, <4>2
      <3>2. CASE n # 1
        <4>1. n - 1 \in 1 .. Len(buffer) - 1 /\ n - 1 # 0
          BY <1>1, <2>2, <3>2
        <4>2. DOMAIN Tail(buffer) = 1 .. Len(buffer) - 1 /\ Tail(buffer)[n - 1] = buffer[n]
          BY <1>1, <2>2, <4>1
        <4> QED
          BY <2>3, <2>2, <4>1, <4>2 DEF Waiting, Shown
      <3> QED
        BY <3>1, <3>2
    <2> QED
      BY <1>2, <2>1, <2>4 DEF Step
  <1>3. CASE EnterMenu \/ ResetSystem
    BY <1>3 DEF EnterMenu, ResetSystem
  <1>4. CASE Constructors \/ Splash \/ BootEntry \/ Load \/ Prompt \/ Answer
    BY <1>1, <1>4 DEF Shown, Constructors, Splash, BootEntry, Load, Prompt, Answer
  <1>5. ASSUME NEW k \in Keys, Press(k) PROVE Waiting(n)' /\ ~Step
    <2>1. pc' = pc /\ key' = key /\ buffer' = Append(buffer, k)
      BY <1>5 DEF Press
    <2>2. \A j \in 1 .. Len(buffer) :
            j \in DOMAIN Append(buffer, k) /\ Append(buffer, k)[j] = buffer[j]
      BY <1>1
    <2>3. Waiting(n)'
      BY <1>1, <2>1, <2>2 DEF Waiting
    <2>4. buffer' # buffer /\ Len(buffer') > Len(buffer)
      BY <1>1, <2>1
    <2>5. ~Step
      BY <1>1, <2>1, <2>4 DEF Step, Shown, Constructors, Splash, FirstRead, PollMenu, EnterMenu,
         ResetSystem, BootEntry, Load, Prompt, Answer, ReadKeyStroke, console
    <2> QED
      BY <2>3, <2>5
  <1>6. ~KeyboardFails /\ ~Terminated
    BY DEF KeyboardFails, Terminated
  <1> QED
    BY <1>2, <1>3, <1>4, <1>5, <1>6 DEF Next, Step

(* The safety half of KeyIsActedUpon (Splash.c:44-57), of every firmware and *)
(* every size of the buffer: while the keyboard works, a key that means      *)
(* something is not lost but acted upon, itself or one before it, or a read  *)
(* nearer after each step of the menu, and no farther after a key pressed.   *)
THEOREM KeysComeNearer == Spec => [][KeyComesNearer]_vars
  BY MenuInvariance, KeyStep, PTL DEF Spec

(* With the real boot configuration as well, no key is lost.                 *)
THEOREM BootKeysComeNearer == BootSpec => [][KeyComesNearer]_vars
  BY BootRefinesMenu, KeysComeNearer

(* What the configuration has left to do (ParsingRunsDown) falls with each   *)
(* step of it and is no other's to change: neither the menu around it nor a  *)
(* key pressed meanwhile makes GetBootEntry longer (Splash.c:49-54).         *)
THEOREM BootRunsDown ==
  BootSpec =>
    [][IF ConfigStep \/ Ask THEN Parser!StepsLeft' < Parser!StepsLeft
                            ELSE Parser!StepsLeft' = Parser!StepsLeft]_bootVars
  <1>1. ConfigStep \/ Ask => Parser!Step
    BY ParserIsConfig DEF ConfigStep, Ask, Parser!Step, Parser!Prompt, Config!Prompt
  <1>2. BootNext /\ ~(ConfigStep \/ Ask) => UNCHANGED config
    BY DEF BootNext, BootStep, MenuStep, UserStep, BootEnded, Return
  <1>3. UNCHANGED config => Parser!StepsLeft' = Parser!StepsLeft
    BY DEF config, Parser!StepsLeft
  <1>4. Parser!IInv /\ [BootNext]_bootVars =>
          [IF ConfigStep \/ Ask THEN Parser!StepsLeft' < Parser!StepsLeft
                                ELSE Parser!StepsLeft' = Parser!StepsLeft]_bootVars
    BY <1>1, <1>2, <1>3, ParserAssumption, Parser!ParsingFalls
  <1> QED
    BY <1>4, BootInvariance, PTL DEF BootSpec, BootIInv
=============================================================================
