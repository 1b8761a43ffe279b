---------------------------- MODULE MigrateReader ----------------------------
(***************************************************************************)
(* The goroutine that feeds runMigrations: read, readUp and readDown of    *)
(* migrate.go, and the loop of Run.  A reader is a record; each operator   *)
(* below maps a reader to the reader after one piece of that code, up to   *)
(* its next blocking send.  The shared state the reader touches (the ret   *)
(* channel and the stop signal) belongs to module Migrate.                 *)
(***************************************************************************)
EXTENDS SourceIndex

CONSTANTS
  Index,    \* the sorted versions of the source
  HasUp,    \* the versions with an up migration
  HasDown   \* the versions with a down migration

Versions == VersionsOf(Index)

ASSUME SourceAssumption ==
  /\ Index \in Seq(0..MaxUint)
  /\ StrictlyIncreasing(Index)
  /\ HasUp \cup HasDown = Versions

-----------------------------------------------------------------------------
\* What goes through the ret channel: a *Migration (err = "nil") or an error.
\* ErrShortLimit carries the number of missing migrations in target.
Errors == {"nil", "ErrNoChange", "ErrNotExist", "ErrShortLimit", "ErrDirty",
           "ErrLocked", "ErrLockTimeout", "ErrInvalidVersion", "error"}

Item == [err : Errors, version : Nat, target : Int, body : BOOLEAN]

Err(e) == [err |-> e, version |-> 0, target |-> 0, body |-> FALSE]

\* Mutant: one migration too few is reported missing.
ErrShortLimitOffByOne(n) == [Err("ErrShortLimit") EXCEPT !.target = n - 1]

ErrShortLimit(n) == [Err("ErrShortLimit") EXCEPT !.target = n]

\* Body is nil when the source has no migration for the direction.
newMigration(v, t) ==
  [err |-> "nil", version |-> v, target |-> t,
   body |-> v \in IF t >= toInt(v) THEN HasUp ELSE HasDown]

\* versionExists(suint(from)); the nil version is never looked up.
versionExists(from) == from < 0 \/ from \in Versions

-----------------------------------------------------------------------------
(***************************************************************************)
(* A reader: the function it runs, its variables from, to (or limit) and   *)
(* count, the items it still has to send before it goes on at `then', and  *)
(* where it is.  "upTo" and "downTo" are the two loops of read.            *)
(***************************************************************************)
Kinds == {"read", "upTo", "downTo", "readUp", "readDown", "feed"}

Reader ==
  [kind : Kinds, from : Int, to : Int, count : Nat, pend : Seq(Item),
   then : {"loop", "done"},
   pc : {"start", "loop", "stopping", "send", "done"}]

NewReader(kind, from, to) ==
  [kind |-> kind, from |-> from, to |-> to, count |-> 0, pend |-> <<>>,
   then |-> "loop", pc |-> "start"]

NoReader == [NewReader("feed", NilVersion, 0) EXCEPT !.pc = "done"]

\* The readers the exported operations start at version cur.
Migrate(cur, n) == NewReader("read", cur, toInt(n))

Steps(cur, n) ==
  IF n > 0 THEN NewReader("readUp", cur, n)
           ELSE NewReader("readDown", cur, negInt(n))

Up(cur) == NewReader("readUp", cur, -1)

Down(cur) == NewReader("readDown", cur, -1)

Run(cur, list) ==
  [NewReader("feed", cur, 0) EXCEPT !.pend = list, !.then = "done", !.pc = "send"]

\* What callers may ask for: n is the version or the number of migrations, list the
\* migrations of Run.
OpKinds == {"Migrate", "Steps", "Up", "Down", "Run", "Drop", "Force"}
Op == [kind : OpKinds, n : Int, list : Seq(Item)]

\* Returns before lock(): Steps(0), Run() and Force of a version below -1.
EarlyResult(o) ==
  CASE o.kind = "Steps" /\ o.n = 0 -> "ErrNoChange"
    [] o.kind = "Run" /\ o.list = <<>> -> "ErrNoChange"
    [] o.kind = "Force" /\ o.n < -1 -> "ErrInvalidVersion"
    [] OTHER -> "nil"

\* The part of Migrate, Steps, Up, Down and Run between lock and runMigrations.
Operation(o, v) ==
  CASE o.kind = "Migrate" -> Migrate(v, o.n)
    [] o.kind = "Steps" -> Steps(v, o.n)
    [] o.kind = "Up" -> Up(v)
    [] o.kind = "Down" -> Down(v)
    [] OTHER -> Run(v, o.list)

\* Sends the items and goes on at then: to the loop, or to the close of ret.
Sending(r, items, then) == [r EXCEPT !.pend = items, !.then = then, !.pc = "send"]

Finish(r, items) == Sending(r, items, "done")
Fail(r, e) == Finish(r, <<e>>)

\* Mutant: from is not moved on.
EmitKeepsFrom(r, m) == [Sending(r, <<m>>, "loop") EXCEPT !.count = r.count + 1]

\* Sends m and goes on from the version it leads to.
Emit(r, m) ==
  [Sending(r, <<m>>, "loop") EXCEPT !.from = m.target, !.count = r.count + 1]

Close(r) == [r EXCEPT !.pc = "done"]

EmitUp(r, v) == Emit(r, newMigration(v, toInt(v)))

-----------------------------------------------------------------------------
\* read up to its loops; the first migration goes out without asking stop().
readStart(r) ==
  IF ~versionExists(r.from) \/ ~versionExists(r.to) THEN Fail(r, Err("ErrNotExist"))
  ELSE IF r.from = r.to THEN Fail(r, Err("ErrNoChange"))
  ELSE IF r.from > r.to THEN [r EXCEPT !.kind = "downTo", !.pc = "loop"]
  ELSE IF r.from # -1 THEN [r EXCEPT !.kind = "upTo", !.pc = "loop"]
  ELSE IF HasFirst(Index) THEN EmitUp([r EXCEPT !.kind = "upTo"], FirstVersion(Index))
  ELSE Fail(r, Err("ErrNotExist"))

readUpStart(r) ==
  IF ~versionExists(r.from) THEN Fail(r, Err("ErrNotExist"))
  ELSE IF r.to = 0 THEN Fail(r, Err("ErrNoChange"))
  ELSE [r EXCEPT !.pc = "loop"]

readDownStart(r) ==
  IF ~versionExists(r.from) THEN Fail(r, Err("ErrNotExist"))
  ELSE IF r.to = 0 \/ (r.from = -1 /\ r.to = -1) THEN Fail(r, Err("ErrNoChange"))
  ELSE IF r.from = -1 /\ r.to > 0 THEN Fail(r, Err("ErrNotExist"))
  ELSE [r EXCEPT !.pc = "loop"]

\* Before its loop a reader asks the source about versions that are not nil.
CallsSource(r) == r.from >= 0 \/ (r.kind = "read" /\ r.to >= 0)

Start(r) ==
  CASE r.kind = "read" -> readStart(r)
    [] r.kind = "readUp" -> readUpStart(r)
    [] OTHER -> readDownStart(r)

-----------------------------------------------------------------------------
\* The conditions of the four loops.
LoopCond(r) ==
  CASE r.kind = "upTo" -> r.from < r.to
    [] r.kind = "downTo" -> r.from > r.to /\ r.from >= 0
    [] OTHER -> r.count < r.to \/ r.to = -1

\* suint(from) panics; readUp asks First instead when from is the nil version.
Panics(r) == r.from < 0 /\ ~(r.kind = "readUp" /\ r.from = -1)

upToLoop(r) ==
  IF HasNext(Index, r.from)
  THEN EmitUp(r, NextVersion(Index, r.from))
  ELSE Fail(r, Err("ErrNotExist"))

downToLoop(r) ==
  CASE HasPrev(Index, r.from) ->
         Emit(r, newMigration(r.from, toInt(PrevVersion(Index, r.from))))
    [] ~HasPrev(Index, r.from) /\ r.to = -1 -> Finish(r, <<newMigration(r.from, -1)>>)
    [] OTHER -> Fail(r, Err("ErrNotExist"))

readUpLoop(r) ==
  CASE r.from = -1 /\ HasFirst(Index) -> EmitUp(r, FirstVersion(Index))
    [] r.from = -1 /\ ~HasFirst(Index) -> Fail(r, Err("ErrNotExist"))
    [] r.from # -1 /\ HasNext(Index, r.from) -> EmitUp(r, NextVersion(Index, r.from))
    [] OTHER ->
         CASE r.to = -1 /\ r.count = 0 -> Fail(r, Err("ErrNoChange"))
           [] r.to = -1 /\ r.count # 0 -> Close(r)
           [] r.to # -1 /\ r.count = 0 -> Fail(r, Err("ErrNotExist"))
           [] OTHER -> Fail(r, ErrShortLimit(r.to - r.count))

\* Below the first version the "first" migration is undone to the nil version,
\* and a limit that is still not reached is reported after it.
readDownLoop(r) ==
  CASE HasPrev(Index, r.from) ->
         Emit(r, newMigration(r.from, toInt(PrevVersion(Index, r.from))))
    [] ~HasPrev(Index, r.from) /\ HasFirst(Index) ->
         LET undo == newMigration(FirstVersion(Index), -1)
         IN  IF r.count + 1 < r.to
             THEN Finish(r, <<undo, ErrShortLimit(r.to - (r.count + 1))>>)
             ELSE Finish(r, <<undo>>)
    [] OTHER -> Fail(r, Err("ErrNotExist"))

Loop(r) ==
  CASE r.kind = "upTo" -> upToLoop(r)
    [] r.kind = "downTo" -> downToLoop(r)
    [] r.kind = "readUp" -> readUpLoop(r)
    [] OTHER -> readDownLoop(r)

\* A send completed: the next item, or on to the loop or the close of ret.
Sent(r) ==
  IF Len(r.pend) > 1
  THEN [r EXCEPT !.pend = Tail(@)]
  ELSE [r EXCEPT !.pend = <<>>, !.pc = r.then]

-----------------------------------------------------------------------------
(***************************************************************************)
(* What the migrations of an operation, and its result, have to be: the    *)
(* vocabulary of the properties of module Migrate.                         *)
(***************************************************************************)
\* A schema that a failed migration left between two versions.
Torn == MinInt - 1

\* The order of migrations, stated on the set of versions: an up migration
\* takes the schema to the next version, a down migration undoes the version
\* the schema is at and takes it to the one before, or to the nil version.
Follows(s, m) ==
  \/ /\ m.target = m.version /\ m.target \in Versions
     /\ s \in Versions \cup {NilVersion} /\ s < m.target
     /\ \A u \in Versions : ~(s < u /\ u < m.target)
  \/ /\ m.version = s /\ s \in Versions
     /\ m.target \in Versions \cup {NilVersion} /\ m.target < s
     /\ \A u \in Versions : ~(m.target < u /\ u < s)

\* How many versions of the source are applied at version v: its place in the index,
\* none for the nil version.
Rank(v) == IF v \in Versions THEN CHOOSE k \in 1..Len(Index) : Index[k] = v ELSE 0

\* The operations that read migrations from the source.
Reads == {"Migrate", "Steps", "Up", "Down", "Run"}

\* The version an operation is to end at, or the number of versions to move.
Reached(o, from, to) ==
  CASE o.kind = "Up" -> Rank(to) = Len(Index) /\ to # from
    [] o.kind = "Down" -> to = NilVersion /\ to # from
    [] o.kind = "Migrate" -> to = o.n /\ to # from
    [] o.kind = "Steps" -> Rank(to) - Rank(from) = o.n
    [] OTHER -> to = o.list[Len(o.list)].target

NothingToDo(o, from) ==
  CASE o.kind = "Up" -> Rank(from) = Len(Index)
    [] o.kind = "Down" -> from = NilVersion
    [] o.kind = "Migrate" -> from = o.n
    [] OTHER -> FALSE

\* What m, the report of an operation o, says about the versions it started from and
\* ended at.
Tells(o, from, to, m) ==
  LET short == m.target
      moved == Rank(to) - Rank(from)
  IN  /\ m.err = "nil" => Reached(o, from, to)
      /\ m.err = "ErrNoChange" => to = from /\ NothingToDo(o, to)
      /\ m.err = "ErrNotExist" => to = from
      /\ m.err = "ErrShortLimit" =>
           /\ o.kind = "Steps" /\ short > 0
           /\ IF o.n > 0
              THEN moved = o.n - short /\ Rank(to) = Len(Index)
              ELSE moved = o.n + short /\ to = NilVersion
=============================================================================
