----------------------------- MODULE MCBootConfig -----------------------------
(***************************************************************************)
(* Every file of up to three lines: two entries with paths, a command line *)
(* and two values for the tracing, a comment too long for LineSize and a   *)
(* path too long only when it is read byte by byte, in both encodings.     *)
(* Files of four lines have entries, a path and a command line.            *)
(***************************************************************************)
EXTENDS BootConfig

MCTexts == { "a", "b", "yes", "no" }

Short(kind, text) == [kind |-> kind, text |-> text, length |-> "short"]

MCLines ==
  { Short("entry", "a"), Short("entry", "b"), Short("path", "a"),
    Short("cmdline", "b"), Short("tracing", "yes"), Short("tracing", "no"),
    [kind |-> "path", text |-> "b", length |-> "medium"],
    [kind |-> "other", text |-> "a", length |-> "long"] }

FewLines ==
  { Short("entry", "a"), Short("entry", "b"), Short("path", "a"),
    Short("cmdline", "b") }

MCFiles ==
  [ucs2  : BOOLEAN,
   lines : UNION { [1 .. n -> MCLines] : n \in 0 .. 3 } \cup [1 .. 4 -> FewLines]]
=============================================================================
