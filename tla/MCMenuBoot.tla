------------------------------ MODULE MCMenuBoot ------------------------------
(***************************************************************************)
(* A buffer of three keystrokes holds an ordinary key, Enter and ESC in    *)
(* every order.  The empty file, and files of three lines, the first of    *)
(* them an entry: a path, tracing, another entry and a line that is too    *)
(* long.                                                                   *)
(***************************************************************************)
EXTENDS MenuBoot

MCTexts == { "a", "yes" }

Entry == [kind |-> "entry", text |-> "a", length |-> "short"]

MCLines ==
  { Entry,
    [kind |-> "path", text |-> "a", length |-> "short"],
    [kind |-> "path", text |-> "a", length |-> "long"],
    [kind |-> "tracing", text |-> "yes", length |-> "short"] }

MCFiles ==
  [ucs2 : { FALSE },
   lines : { << >> } \cup { <<Entry, first, second>> : first \in MCLines, second \in MCLines }]
=============================================================================
