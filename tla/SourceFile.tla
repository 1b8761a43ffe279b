----------------------------- MODULE SourceFile -----------------------------
(***************************************************************************)
(* The names in a directory of migrations, and what source.Parse makes of  *)
(* them: 123_title.up.sql and 123_title.down.sql are migrations if 123     *)
(* fits a uint; anything else is passed over.                              *)
(***************************************************************************)
EXTENDS SourceIndex

CONSTANT Entries  \* names that may be in the directory

NoMatch == -1     \* the number of a name that does not match the pattern

Direction == {"up", "down"}

Entry == [num : Nat \cup {NoMatch}, direction : Direction, title : STRING, isDir : BOOLEAN]

ASSUME SourceFileAssumption == Entries \subseteq Entry

\* Parse returns no error: strconv.ParseUint refuses what does not fit.
Parse(e) == e.num \in 0..MaxUint

Key(e) == <<e.num, e.direction>>

\* The answer to a call about version v: an error, a version, or the body in a file.
Refused(call, v, d, err) ==
  [call |-> call, v |-> v, d |-> d, err |-> err, num |-> 0, title |-> "", isDir |-> FALSE]
Version(call, v, w) == [Refused(call, v, "none", "nil") EXCEPT !.num = w]
Body(k, e) ==
  [Refused("read", k[1], k[2], "nil") EXCEPT !.num = e.num, !.title = e.title, !.isDir = e.isDir]
NoAnswer == Refused("none", 0, "none", "nil")
=============================================================================
