-------------------------------- MODULE Cli --------------------------------
(***************************************************************************)
(* The command line (internal/cli).  A process runs one command: create    *)
(* makes two files in a directory that other processes use as well; the    *)
(* others turn their arguments into one call of the engine, some after a   *)
(* question to the user.  The engine is seen from outside: a call moves    *)
(* the schema by some migrations.                                          *)
(***************************************************************************)
EXTENDS SourceIndex, FiniteSets

CONSTANTS
  Procs,       \* processes
  Commands,    \* command lines
  Directories, \* what may be in the directory at first
  Base,        \* of the digits of a version; ten in the code
  TimeWidth,   \* digits of a time stamp
  MaxClock,    \* bound on the clock
  Count        \* migrations in the source, with the versions 1..Count

\* A version as a string of digits: so many digits, of that value.
Digits == [width : Nat, num : Nat]

\* A name of the directory; width 0 stands for one without a number in front.
File == [version : Digits, name : STRING, direction : {"none", "up", "down"}]

\* A command line: flag is -all or -f.  An argument that is not a number is one
\* outside of every range.  For create, complete: NAME and -ext are given, and -tz
\* is known.
Command ==
  [cmd : {"create", "goto", "up", "down", "drop", "force", "version", "unknown"},
   args : Seq(Int), flag : BOOLEAN, complete : BOOLEAN,
   seq : BOOLEAN, digits : Int, format : {"default", "coarse", "empty"}, name : STRING]

ASSUME CliAssumption ==
  /\ Commands \subseteq Command /\ Directories \subseteq SUBSET File
  /\ Base \in Nat \ {0, 1} /\ TimeWidth \in Nat \ {0} /\ MaxClock \in Nat
  /\ Count \in 0..MaxInt

VARIABLES
  dir,      \* the files in the directory
  clock,
  applied,  \* how many migrations the database has
  pc,       \* where each process is
  cmd,      \* its command line
  opened,   \* migrate.New succeeded
  started,  \* the start time
  seen,     \* what the first Glob of create found
  version,  \* the version create has chosen
  made,     \* the files it has created
  answer,   \* what the user typed
  exit      \* the exit status, -1 while it runs

local == <<cmd, opened, started, seen, version, answer>>
vars == <<dir, clock, applied, pc, local, made, exit>>

NoCommand ==
  [cmd |-> "unknown", args |-> <<>>, flag |-> FALSE, complete |-> TRUE,
   seq |-> FALSE, digits |-> 6, format |-> "default", name |-> ""]
NoVersion == [width |-> 0, num |-> 0]

\* The types of the variables.
TypeOK ==
  /\ dir \subseteq File /\ clock \in 0..MaxClock /\ applied \in 0..Count
  /\ pc \in [Procs -> {"start", "main", "prompt", "call", "check", "up", "down", "exited"}]
  /\ cmd \in [Procs -> Commands \cup {NoCommand}] /\ opened \in [Procs -> BOOLEAN]
  /\ started \in [Procs -> 0..MaxClock] /\ seen \in [Procs -> SUBSET File]
  /\ version \in [Procs -> Digits] /\ made \in [Procs -> SUBSET File]
  /\ answer \in [Procs -> {"none", "y", "other"}]
  /\ exit \in [Procs -> -1..2]

Init ==
  /\ dir \in Directories /\ clock = 0 /\ applied \in 0..Count
  /\ pc = [p \in Procs |-> "start"] /\ cmd = [p \in Procs |-> NoCommand]
  /\ opened = [p \in Procs |-> FALSE] /\ started = [p \in Procs |-> 0]
  /\ seen = [p \in Procs |-> {}] /\ version = [p \in Procs |-> NoVersion]
  /\ made = [p \in Procs |-> {}] /\ answer = [p \in Procs |-> "none"]
  /\ exit = [p \in Procs |-> -1]

Goto(p, place) == pc' = [pc EXCEPT ![p] = place]
Exit(p, status) == Goto(p, "exited") /\ exit' = [exit EXCEPT ![p] = status]

Tick ==
  /\ clock < MaxClock /\ clock' = clock + 1
  /\ UNCHANGED <<dir, applied, pc, local, made, exit>>

-----------------------------------------------------------------------------
\* strconv.ParseUint and ParseInt of 64 bits.
ParseUint(a) == a \in 0..MaxUint
ParseInt(a) == a \in MinInt..MaxInt

\* What comes of a command line: a call, a call after a question, or an error.
Fatal == [next |-> "fatal", op |-> "none", n |-> 0]
Calls(op, n) == [next |-> "call", op |-> op, n |-> n]
Asks(plan) == [plan EXCEPT !.next = "prompt"]

upCmd(limit) == IF limit >= 0 THEN Calls("Steps", limit) ELSE Calls("Up", 0)
downCmd(limit) == IF limit >= 0 THEN Calls("Steps", -limit) ELSE Calls("Down", 0)

gotoArgs(c) ==
  IF c.args # <<>> /\ ParseUint(c.args[1]) THEN Calls("Migrate", c.args[1]) ELSE Fatal

upArgs(c) ==
  IF c.args = <<>> THEN upCmd(-1)
  ELSE IF ParseUint(c.args[1]) THEN upCmd(toInt(c.args[1])) ELSE Fatal

\* Mutant: no argument means all, and nobody is asked.
numDownNoConfirm(c) ==
  CASE c.args = <<>> -> downCmd(-1)
    [] Len(c.args) = 1 /\ ~c.flag /\ ParseUint(c.args[1]) -> downCmd(toInt(c.args[1]))
    [] OTHER -> Fatal

numDownMigrationsFromArgs(c) ==
  CASE c.flag /\ c.args = <<>> -> downCmd(-1)
    [] ~c.flag /\ c.args = <<>> -> Asks(downCmd(-1))
    [] ~c.flag /\ Len(c.args) = 1 /\ ParseUint(c.args[1]) -> downCmd(toInt(c.args[1]))
    [] OTHER -> Fatal

forceArgs(c) ==
  IF c.args # <<>> /\ ParseInt(c.args[1]) /\ c.args[1] >= -1
  THEN Calls("Force", c.args[1]) ELSE Fatal

Plan(p) ==
  LET c == cmd[p] IN
  IF c.cmd = "drop" THEN IF c.flag THEN Calls("Drop", 0) ELSE Asks(Calls("Drop", 0))
  ELSE IF ~opened[p] THEN Fatal
  ELSE
  CASE c.cmd = "goto" -> gotoArgs(c)
    [] c.cmd = "up" -> upArgs(c)
    [] c.cmd = "down" -> numDownMigrationsFromArgs(c)
    [] c.cmd = "force" -> forceArgs(c)
    [] c.cmd = "version" -> Calls("Version", 0)

-----------------------------------------------------------------------------
\* Flags are parsed and the engine is opened, whatever the command.
Main(p, c) ==
  /\ pc[p] = "start" /\ Goto(p, "main")
  /\ cmd' = [cmd EXCEPT ![p] = c] /\ started' = [started EXCEPT ![p] = clock]
  /\ \E ok \in BOOLEAN : opened' = [opened EXCEPT ![p] = ok]
  /\ UNCHANGED <<dir, clock, applied, seen, version, answer, made, exit>>

Usage(p) ==
  /\ pc[p] = "main" /\ cmd[p].cmd = "unknown" /\ Exit(p, 2)
  /\ UNCHANGED <<dir, clock, applied, local, made>>

Engine(p) == pc[p] = "main" /\ cmd[p].cmd \notin {"create", "unknown"}

Refuse(p) ==
  /\ Engine(p) /\ Plan(p).next = "fatal" /\ Exit(p, 1)
  /\ UNCHANGED <<dir, clock, applied, local, made>>

Proceed(p) ==
  /\ Engine(p) /\ Plan(p).next # "fatal" /\ Goto(p, Plan(p).next)
  /\ UNCHANGED <<dir, clock, applied, local, made, exit>>

\* Only "y" goes on; a Ctrl+C does not end the question.
Prompt(p, text) ==
  /\ pc[p] = "prompt" /\ answer' = [answer EXCEPT ![p] = text]
  /\ IF text = "y" THEN Goto(p, "call") /\ UNCHANGED exit ELSE Exit(p, 1)
  /\ UNCHANGED <<dir, clock, applied, cmd, opened, started, seen, version, made>>

\* Between here and a version of the source; another version is refused, but nobody
\* looks up a negative one.  The nil version undoes everything; a version below it
\* ends with an error at the first migration, which has no version before it.
Towards(v) ==
  CASE v \in 1..Count -> applied..v \cup v..applied
    [] v = NilVersion -> 0..applied
    [] v < NilVersion -> {applied} \cup 1..applied
    [] OTHER -> {applied}

\* The numbers of migrations that a call may leave behind: it may fail, or be
\* stopped, after any of its migrations.
Reaches(op, n) ==
  CASE op = "Up" -> applied..Count
    [] op = "Down" -> 0..applied
    [] op = "Steps" -> {a \in 0..Count : IF n >= 0 THEN a - applied \in 0..n
                                                   ELSE applied - a \in 0..-n}
    [] op = "Migrate" -> Towards(toInt(n))
    [] op = "Drop" -> {applied, 0}
    [] OTHER -> {applied}

\* drop looks at migraterErr only now.
CallFails(p) ==
  /\ pc[p] = "call" /\ ~opened[p] /\ Exit(p, 1)
  /\ UNCHANGED <<dir, clock, applied, local, made>>

\* The command calls the engine.  ErrNoChange is no error for goto, up and down.
\* The deferred Close runs only where fatal does not end the process.
Operate(p, err) ==
  /\ pc[p] = "call" /\ opened[p]
  /\ applied' \in Reaches(Plan(p).op, Plan(p).n)
  /\ Exit(p, IF err = "nil" \/ (err = "ErrNoChange" /\ cmd[p].cmd \in {"goto", "up", "down"})
             THEN 0 ELSE 1)
  /\ UNCHANGED <<dir, clock, local, made>>

-----------------------------------------------------------------------------
\* Glob sorts names as strings: digit by digit, and "_" comes after the digits.
\* A name without a number starts with a letter, after both.
Least(a, b) == IF a <= b THEN a ELSE b
Prefix(v, k) == IF k = v.width THEN v.num ELSE v.num \div Base^(v.width - k)
SortsBefore(a, b) ==
  LET k == Least(a.width, b.width) IN
  IF b.width = 0 THEN a.width # 0
  ELSE a.width # 0 /\ (Prefix(a, k) < Prefix(b, k) \/ (Prefix(a, k) = Prefix(b, k) /\ a.width > b.width))

VersionsOfDir(files) == {f.version : f \in files}

\* Mutant: the first of the matches.
FirstMatch(files) ==
  CHOOSE v \in VersionsOfDir(files) : \A w \in VersionsOfDir(files) : ~SortsBefore(w, v)

\* The last of the matches.
LastMatch(files) ==
  CHOOSE v \in VersionsOfDir(files) : \A w \in VersionsOfDir(files) : ~SortsBefore(v, w)

\* The number after that of the last match.  A uint64 wraps.
NextSeq(files) == IF files = {} THEN 1 ELSE (LastMatch(files).num + 1) % (MaxUint + 1)

\* nextSeqVersion returns no error.
SeqOK(files, digits) ==
  /\ digits > 0
  /\ files # {} => LastMatch(files).width # 0 /\ ParseUint(LastMatch(files).num)
  /\ NextSeq(files) < Base^digits

nextSeqVersion(files, digits) == [width |-> digits, num |-> NextSeq(files)]

\* A coarse format drops the last digit.
timeVersion(t, format) ==
  IF format = "coarse" THEN [width |-> TimeWidth - 1, num |-> t \div Base]
                       ELSE [width |-> TimeWidth, num |-> t]

\* create chooses a version, for -seq after a look at the directory.
Create(p) ==
  /\ pc[p] = "main" /\ cmd[p].cmd = "create"
  /\ cmd[p].complete
  /\ LET c == cmd[p] IN
       \/ /\ c.seq /\ c.format = "default" /\ SeqOK(dir, c.digits)
          /\ version' = [version EXCEPT ![p] = nextSeqVersion(dir, c.digits)]
       \/ /\ ~c.seq /\ c.format # "empty"
          /\ version' = [version EXCEPT ![p] = timeVersion(started[p], c.format)]
  /\ seen' = [seen EXCEPT ![p] = dir] /\ Goto(p, "check")
  /\ UNCHANGED <<dir, clock, applied, cmd, opened, started, answer, made, exit>>

CreateRefused(p) ==
  /\ pc[p] = "main" /\ cmd[p].cmd = "create"
  /\ LET c == cmd[p] IN
       \/ ~c.complete
       \/ IF c.seq THEN c.format # "default" \/ ~SeqOK(dir, c.digits) ELSE c.format = "empty"
  /\ Exit(p, 1)
  /\ UNCHANGED <<dir, clock, applied, local, made>>

\* Mutant: the directory is not looked at again.
CheckVersionNever(p) ==
  /\ pc[p] = "check" /\ Goto(p, "up")
  /\ UNCHANGED <<dir, clock, applied, local, made, exit>>

\* The second Glob: is there a file of this very version?
CheckVersion(p) ==
  /\ pc[p] = "check"
  /\ IF version[p] \in VersionsOfDir(dir) THEN Exit(p, 1) ELSE Goto(p, "up") /\ UNCHANGED exit
  /\ UNCHANGED <<dir, clock, applied, local, made>>

NewFile(p) == [version |-> version[p], name |-> cmd[p].name, direction |-> pc[p]]

\* O_EXCL: the file must be new.
OpenFile(p) ==
  /\ NewFile(p) \notin dir
  /\ dir' = dir \cup {NewFile(p)} /\ made' = [made EXCEPT ![p] = @ \cup {NewFile(p)}]

createFile(p) ==
  /\ pc[p] \in {"up", "down"} /\ OpenFile(p)
  /\ IF pc[p] = "up" THEN Goto(p, "down") /\ UNCHANGED exit ELSE Exit(p, 0)
  /\ UNCHANGED <<clock, applied, local>>

\* Mutant: only a failure to make the up file is an error.
createFileFailsQuietly(p) ==
  /\ pc[p] \in {"up", "down"} /\ Exit(p, IF pc[p] = "up" THEN 1 ELSE 0)
  /\ OpenFile(p) \/ UNCHANGED <<dir, made>>
  /\ UNCHANGED <<clock, applied, local>>

\* The directory or the file cannot be made, or is there already; or the file is
\* made, and Close fails.
createFileFails(p) ==
  /\ pc[p] \in {"up", "down"} /\ Exit(p, 1)
  /\ OpenFile(p) \/ UNCHANGED <<dir, made>>
  /\ UNCHANGED <<clock, applied, local>>

ProcessStep(p) ==
  \/ Usage(p) \/ Refuse(p) \/ Proceed(p) \/ CallFails(p)
  \/ \E text \in {"y", "other"} : Prompt(p, text)
  \/ \E err \in {"nil", "ErrNoChange", "error"} : Operate(p, err)
  \/ Create(p) \/ CreateRefused(p) \/ CheckVersion(p) \/ createFile(p) \/ createFileFails(p)

Next ==
  \/ Tick
  \/ \E p \in Procs : ProcessStep(p) \/ \E c \in Commands : Main(p, c)

Spec == Init /\ [][Next]_vars

-----------------------------------------------------------------------------
(***************************************************************************)
(* Properties.                                                             *)
(***************************************************************************)

\* The user agreed to undo everything.
Consent(p) == cmd[p].flag \/ answer[p] = "y"

\* b lies between a and v.
Between(a, b, v) == (a <= b /\ b <= v) \/ (v <= b /\ b <= a)

\* The command line of p asks for a move from a to b.  A version that does not fit an
\* int is the exception: goto takes it for a negative one and undoes migrations.
Asked(p, a, b) ==
  LET c == cmd[p] IN
  CASE c.cmd = "up" -> a <= b /\ (c.args = <<>> \/ b - a <= c.args[1])
    [] c.cmd = "down" -> b <= a /\ (Consent(p) \/ (c.args # <<>> /\ a - b <= c.args[1]))
    [] c.cmd = "drop" -> b = 0 /\ Consent(p)
    [] c.cmd = "goto" ->
         /\ c.args # <<>>
         /\ \/ c.args[1] \in 1..Count /\ Between(a, b, c.args[1])
            \/ c.args[1] > MaxInt /\ b <= a
    [] OTHER -> FALSE

\* The engine returns to the command of p.
Returns(p) == pc[p] = "call" /\ pc'[p] = "exited"

\* The schema moves only as a command line asks.  "Apply all or N": up and down go
\* their way only, by N migrations at most when N is given, whatever int(N) is; goto
\* stays between here and a version of the source; nothing but -all, -f or a "y"
\* undoes everything; the other commands move nothing.
AtMostAsked ==
  [][applied' # applied => \E p \in Procs : Returns(p) /\ Asked(p, applied, applied')]_vars

\* "Migrate to version V": goto V goes towards V, up or down, also for a V above the
\* largest int.
GotoGoesTowards ==
  [][\A p \in Procs :
       Returns(p) /\ cmd[p].cmd = "goto" /\ applied' # applied =>
         Between(applied, applied', cmd[p].args[1])]_vars

\* A create that exits with 0 has made both files; one that fails has never made the
\* down file alone.
BothFiles ==
  \A p \in Procs :
    cmd[p].cmd = "create" /\ pc[p] = "exited" =>
      {f.direction : f \in made[p]} \in
        IF exit[p] = 0 THEN {{"up", "down"}} ELSE {{}, {"up"}, {"up", "down"}}

\* -seq goes on after all files of the directory, as long as they have the same
\* number of digits and the last number is not the largest uint.
SequenceGrows ==
  \A p \in Procs : \A f \in made[p] : \A g \in seen[p] :
    /\ cmd[p].seq
    /\ \A h \in seen[p] : h.version.width = cmd[p].digits /\ h.version.num < MaxUint
    => f.version.num > g.version.num

\* Two creates make the same version only if they overlap: a process that starts to
\* look when the files of another are there takes another version.
DuplicatesOverlap ==
  \A p, q \in Procs :
    \A f \in made[p], g \in made[q] : f \in seen[q] => f.version # g.version
=============================================================================
