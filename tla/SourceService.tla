--------------------------- MODULE SourceService ---------------------------
(***************************************************************************)
(* What the engine expects of a source driver (source/driver.go): Open     *)
(* takes stock of the migrations of a directory, which has one file per    *)
(* version and direction at most; First, Prev and Next go through the      *)
(* versions in order; a read returns the body that was asked for, or       *)
(* os.ErrNotExist if there is none.                                        *)
(***************************************************************************)
EXTENDS SourceFile

CONSTANT Arguments  \* versions that the engine asks for

VARIABLES
  dir,    \* the names in the directory
  opened,
  have,   \* versions and directions that the driver knows
  answer  \* the last call and its answer

vars == <<dir, opened, have, answer>>

Init ==
  /\ dir \subseteq Entries
  /\ opened = FALSE /\ have = {} /\ answer = NoAnswer

\* Somebody adds, removes or renames files.
Change ==
  /\ dir' \subseteq Entries
  /\ UNCHANGED <<opened, have, answer>>

\* Two names of one version and direction are refused.  Some drivers take a
\* directory for a file.
Open ==
  /\ ~opened /\ opened' = TRUE
  /\ \E ms \in {{e \in dir : Parse(e)}, {e \in dir : Parse(e) /\ ~e.isDir}} :
       /\ \A a, b \in ms : Key(a) = Key(b) => a = b
       /\ have' = {Key(e) : e \in ms}
  /\ UNCHANGED <<dir, answer>>

Versions == {k[1] : k \in have}
After(v) == {w \in Versions : v \in Versions /\ v < w}
Before(v) == {w \in Versions : v \in Versions /\ w < v}

Call == opened /\ UNCHANGED <<dir, opened, have>>

First ==
  /\ Call
  /\ \/ \E w \in Versions : (\A u \in Versions : w <= u) /\ answer' = Version("first", 0, w)
     \/ Versions = {} /\ answer' = Refused("first", 0, "none", "ErrNotExist")

NextOf(v) ==
  /\ Call
  /\ \/ \E w \in After(v) : (\A u \in After(v) : w <= u) /\ answer' = Version("next", v, w)
     \/ After(v) = {} /\ answer' = Refused("next", v, "none", "ErrNotExist")

PrevOf(v) ==
  /\ Call
  /\ \/ \E w \in Before(v) : (\A u \in Before(v) : u <= w) /\ answer' = Version("prev", v, w)
     \/ Before(v) = {} /\ answer' = Refused("prev", v, "none", "ErrNotExist")

\* A file may be gone by the time it is read, and a read may fail.
Read(k) ==
  /\ Call
  /\ IF k \in have
     THEN \/ \E e \in dir : Parse(e) /\ Key(e) = k /\ answer' = Body(k, e)
          \/ \E err \in {"ErrNotExist", "error"} : answer' = Refused("read", k[1], k[2], err)
     ELSE answer' = Refused("read", k[1], k[2], "ErrNotExist")

Next ==
  \/ Change \/ Open \/ First
  \/ \E v \in Arguments : NextOf(v) \/ PrevOf(v)
  \/ \E k \in Arguments \X Direction : Read(k)

Spec == Init /\ [][Next]_vars
=============================================================================
