------------------------------- MODULE Features -------------------------------
(***************************************************************************)
(* What expand makes of feature files: every line that names backgrounds is *)
(* replaced by the lines of those backgrounds, one level deep; every line   *)
(* keeps the file it was written in.                                        *)
(*                                                                         *)
(* A file is a sequence of lines, a line a record of its kind, of its text  *)
(* and of the names it includes (none but for a line of kind "backgrounds").*)
(* A name stands for the backgrounds whose path ends with it.               *)
(***************************************************************************)
EXTENDS Sequences

CONSTANT FoundAs   \* per name, the paths of the backgrounds that findFeatures finds: one,
                   \* or expand throws

\* expandLine: the line itself, or the lines of what it includes.
RECURSIVE doIncludes(_, _)
doIncludes(names, files) ==
  IF names = <<>> THEN <<>>
  ELSE LET path == CHOOSE p \in FoundAs[Head(names)] : TRUE
       IN  [i \in DOMAIN files[path] |-> [line |-> files[path][i], from |-> path]]
             \o doIncludes(Tail(names), files)

expandLine(line, path, files) ==
  IF line.kind = "backgrounds" THEN doIncludes(line.names, files) ELSE <<[line |-> line, from |-> path]>>

RECURSIVE expandIncluded(_, _, _)
expandIncluded(lines, path, files) ==
  IF lines = <<>> THEN <<>>
  ELSE expandLine(Head(lines), path, files) \o expandIncluded(Tail(lines), path, files)
=============================================================================
