------------------------------ MODULE CliProofs ------------------------------
(***************************************************************************)
(* What the command line does, for every number of processes, every set of *)
(* command lines and every content of the directory.                       *)
(***************************************************************************)
EXTENDS Cli, WellFoundedInduction, SequenceTheorems, TLAPS

\* Most steps need no arithmetic: a step that does not say SMT is one for Zenon.
USE Zenon

-----------------------------------------------------------------------------
(***************************************************************************)
(* What a command line comes to.                                           *)
(***************************************************************************)

\* A process that has started has one of the command lines under study.
LEMMA CommandType ==
  ASSUME TypeOK, NEW p \in Procs, cmd[p].cmd # "unknown"
  PROVE  cmd[p] \in Commands /\ cmd[p] \in Command
<1>1. NoCommand.cmd = "unknown"
  BY DEF NoCommand
<1> QED
  BY <1>1, CliAssumption DEF TypeOK

\* A call leaves the schema at one of the migrations.
LEMMA ReachesType ==
  ASSUME applied \in 0..Count, NEW op, NEW n \in Int
  PROVE  Reaches(op, n) \subseteq 0..Count
<1>0. Count \in Nat
  BY CliAssumption, SMT
<1>1. \A v \in Int : Towards(v) \subseteq 0..Count
  BY <1>0, SMT DEF Towards, NilVersion
<1>2. toInt(n) \in Int
  BY MaxIntAssumption, SMT DEF toInt, MaxUint
<1> QED
  BY <1>0, <1>1, <1>2, SMT DEF Reaches

\* Every command line for the engine comes to a call, a question or an error.
LEMMA PlanType ==
  ASSUME TypeOK, NEW p \in Procs, cmd[p].cmd \notin {"create", "unknown"}
  PROVE  Plan(p).next \in {"fatal", "call", "prompt"} /\ Plan(p).n \in Int
<1>1. cmd[p] \in Command
  BY CommandType
<1>2. \A m \in Int : toInt(m) \in Int /\ -toInt(m) \in Int
  BY MaxIntAssumption, SMT DEF toInt, MaxUint
<1>3. ASSUME NEW c \in Command
      PROVE  /\ gotoArgs(c).next \in {"fatal", "call"} /\ gotoArgs(c).n \in Int
             /\ upArgs(c).next \in {"fatal", "call"} /\ upArgs(c).n \in Int
             /\ forceArgs(c).next \in {"fatal", "call"} /\ forceArgs(c).n \in Int
             /\ numDownMigrationsFromArgs(c).next \in {"fatal", "call", "prompt"}
             /\ numDownMigrationsFromArgs(c).n \in Int
  <2>1. c.args # <<>> => c.args[1] \in Int
    BY <1>3, SMT DEF Command
  <2>2. Len(c.args) = 1 => c.args # <<>>
    <3>1. Len(<<>>) # 1
      BY SMT
    <3> QED
      BY <3>1
  <2>3. c.flag \in BOOLEAN
    BY DEF Command
  <2>4. gotoArgs(c).next \in {"fatal", "call"} /\ gotoArgs(c).n \in Int
    BY <2>1, SMT DEF gotoArgs, Fatal, Calls
  <2>5. ASSUME NEW m \in Int
        PROVE  /\ upCmd(m).next = "call" /\ upCmd(m).n \in Int
               /\ downCmd(m).next = "call" /\ downCmd(m).n \in Int
    <3>1. CASE m >= 0
      BY <3>1, SMT DEF upCmd, downCmd, Calls
    <3>2. CASE ~(m >= 0)
      BY <3>2, SMT DEF upCmd, downCmd, Calls
    <3> QED
      BY <3>1, <3>2
  <2>6. upArgs(c).next \in {"fatal", "call"} /\ upArgs(c).n \in Int
    <3>1. -1 \in Int
      BY SMT
    <3>2. upCmd(-1).next = "call" /\ upCmd(-1).n \in Int
      BY <2>5, <3>1
    <3>3. c.args # <<>> => upCmd(toInt(c.args[1])).next = "call" /\ upCmd(toInt(c.args[1])).n \in Int
      BY <1>2, <2>1, <2>5
    <3>4. Fatal.next = "fatal" /\ Fatal.n \in Int
      BY SMT DEF Fatal
    <3>5. upArgs(c) \in {upCmd(-1), Fatal} \/ (c.args # <<>> /\ upArgs(c) = upCmd(toInt(c.args[1])))
      BY DEF upArgs
    <3> QED
      BY <3>2, <3>3, <3>4, <3>5
  <2>7. forceArgs(c).next \in {"fatal", "call"} /\ forceArgs(c).n \in Int
    BY <2>1, SMT DEF forceArgs, Fatal, Calls
  <2>8. Asks(downCmd(-1)).next = "prompt" /\ Asks(downCmd(-1)).n \in Int
    BY SMT DEF Asks, downCmd, Calls
  <2>9. /\ numDownMigrationsFromArgs(c).next \in {"fatal", "call", "prompt"}
        /\ numDownMigrationsFromArgs(c).n \in Int
    BY <1>2, <2>1, <2>2, <2>3, <2>5, <2>8, SMT DEF numDownMigrationsFromArgs, Fatal
  <2> QED
    BY <2>4, <2>6, <2>7, <2>9
<1> QED
  BY <1>1, <1>3, SMT DEF Plan, Fatal, Calls, Asks, Command

-----------------------------------------------------------------------------
(***************************************************************************)
(* Types.                                                                  *)
(***************************************************************************)

\* The variables start with their types.
LEMMA TypeInit == Init => TypeOK
<1>1. NoVersion \in Digits
  BY DEF NoVersion, Digits
<1>2. Count \in Nat /\ MaxClock \in Nat
  BY CliAssumption, SMT
<1>3. ASSUME Init
      PROVE  TypeOK
  <2>1. dir \subseteq File /\ clock \in 0..MaxClock /\ applied \in 0..Count
    BY <1>2, <1>3, CliAssumption, SMT DEF Init
  <2>2. cmd \in [Procs -> Commands \cup {NoCommand}] /\ opened \in [Procs -> BOOLEAN]
    BY <1>3 DEF Init
  <2>3. started \in [Procs -> 0..MaxClock] /\ seen \in [Procs -> SUBSET File]
    BY <1>2, <1>3, SMT DEF Init
  <2>4. version \in [Procs -> Digits] /\ made \in [Procs -> SUBSET File]
    BY <1>1, <1>3 DEF Init
  <2>5. exit \in [Procs -> -1..2]
    BY <1>2, <1>3, SMT DEF Init
  <2>6. /\ pc \in [Procs -> {"start", "main", "prompt", "call", "check", "up", "down", "exited"}]
        /\ answer \in [Procs -> {"none", "y", "other"}]
    BY <1>3 DEF Init
  <2> QED
    BY <2>1, <2>2, <2>3, <2>4, <2>5, <2>6 DEF TypeOK
<1> QED
  BY <1>3

\* The versions that create chooses are strings of digits: SeqOK refuses the others.
LEMMA VersionType ==
  ASSUME TypeOK, NEW p \in Procs, cmd[p].cmd = "create"
  PROVE  /\ SeqOK(dir, cmd[p].digits) => nextSeqVersion(dir, cmd[p].digits) \in Digits
         /\ timeVersion(started[p], cmd[p].format) \in Digits
<1>0. cmd[p] \in Command /\ cmd[p].digits \in Int
  BY CommandType DEF Command
<1>1. MaxUint + 1 \in Nat \ {0} /\ MaxUint \in Nat
  BY MaxIntAssumption, SMT DEF MaxUint
<1>2. ASSUME SeqOK(dir, cmd[p].digits)
      PROVE  nextSeqVersion(dir, cmd[p].digits) \in Digits
  <2>1. NextSeq(dir) \in Nat
    <3>1. CASE dir = {}
      BY <3>1 DEF NextSeq
    <3>2. CASE dir # {}
      <4>1. LastMatch(dir).num \in Nat
        BY <1>1, <1>2, <3>2, SMT DEF SeqOK, ParseUint
      <4>2. \A a \in Nat, b \in Nat \ {0} : (a + 1) % b \in Nat
        BY SMT
      <4> QED
        BY <1>1, <3>2, <4>1, <4>2 DEF NextSeq
    <3> QED
      BY <3>1, <3>2
  <2>2. cmd[p].digits \in Nat
    BY <1>0, <1>2, SMT DEF SeqOK
  <2> QED
    BY <2>1, <2>2 DEF nextSeqVersion, Digits
<1>3. timeVersion(started[p], cmd[p].format) \in Digits
  <2>1. started[p] \in Nat /\ TimeWidth \in Nat /\ TimeWidth - 1 \in Nat /\ Base \in Nat \ {0}
    BY CliAssumption, SMT DEF TypeOK
  <2>2. \A a \in Nat, b \in Nat \ {0} : a \div b \in Nat
    BY SMT
  <2>3. started[p] \div Base \in Nat
    BY <2>1, <2>2
  <2> QED
    BY <2>1, <2>3 DEF timeVersion, Digits
<1> QED
  BY <1>2, <1>3

\* The names that create makes are names of files.
LEMMA NewFileType ==
  ASSUME TypeOK, NEW p \in Procs, cmd[p].cmd = "create", pc[p] \in {"up", "down"}
  PROVE  NewFile(p) \in File
<1>1. cmd[p].name \in STRING
  BY CommandType DEF Command
<1>2. version[p] \in Digits
  BY DEF TypeOK
<1> QED
  BY <1>1, <1>2 DEF NewFile, File

\* Where a process is, and what follows for its command.
Place(q) ==
  /\ pc[q] = "start" => cmd[q] = NoCommand
  /\ pc[q] \in {"prompt", "call"} => cmd[q].cmd \notin {"create", "unknown"}
  /\ pc[q] = "prompt" => Plan(q).next = "prompt"
  /\ pc[q] = "call" => Plan(q).next = "call" \/ (Plan(q).next = "prompt" /\ answer[q] = "y")
  /\ pc[q] \in {"check", "up", "down"} => cmd[q].cmd = "create"

\* The variables keep their types.
LEMMA TypeStep ==
  ASSUME TypeOK, \A q \in Procs : Place(q), [Next]_vars
  PROVE  TypeOK'
<1>0. Count \in Nat /\ MaxClock \in Nat
  BY CliAssumption, SMT
<1> DEFINE Places == {"start", "main", "prompt", "call", "check", "up", "down", "exited"}
<1>1. CASE UNCHANGED vars
  BY <1>1 DEF vars, local, TypeOK
<1>2. CASE Tick
  BY <1>0, <1>2, SMT DEF Tick, local, TypeOK
<1>3. ASSUME NEW p \in Procs, NEW c \in Commands, Main(p, c)
      PROVE  TypeOK'
  <2>1. pc' \in [Procs -> Places] /\ cmd' \in [Procs -> Commands \cup {NoCommand}]
    BY <1>3 DEF Main, Goto, TypeOK
  <2>2. started' \in [Procs -> 0..MaxClock]
    BY <1>3 DEF Main, TypeOK
  <2>3. opened' \in [Procs -> BOOLEAN]
    BY <1>3 DEF Main, TypeOK
  <2> QED
    BY <1>3, <2>1, <2>2, <2>3 DEF Main, TypeOK
<1>4. ASSUME NEW p \in Procs, Goto(p, "exited"), NEW s \in -1..2, exit' = [exit EXCEPT ![p] = s],
             UNCHANGED <<dir, clock, applied, local, made>>
      PROVE  TypeOK'
  BY <1>4 DEF Goto, TypeOK, local
<1>5. ASSUME NEW p \in Procs, NEW place \in Places, Goto(p, place),
             UNCHANGED <<dir, clock, applied, local, made, exit>>
      PROVE  TypeOK'
  BY <1>5 DEF Goto, TypeOK, local
<1>6. ASSUME NEW p \in Procs, Usage(p) \/ Refuse(p) \/ CallFails(p) \/ CreateRefused(p)
      PROVE  TypeOK'
  BY <1>4, <1>6, SMT DEF Usage, Refuse, CallFails, CreateRefused, Exit
<1>7. ASSUME NEW p \in Procs, Proceed(p)
      PROVE  TypeOK'
  BY <1>5, <1>7, PlanType DEF Proceed, Engine
<1>8. ASSUME NEW p \in Procs, CheckVersion(p)
      PROVE  TypeOK'
  BY <1>4, <1>5, <1>8, SMT DEF CheckVersion, Exit
<1>9. ASSUME NEW p \in Procs, NEW text \in {"y", "other"}, Prompt(p, text)
      PROVE  TypeOK'
  <2>1. answer' \in [Procs -> {"none", "y", "other"}]
    BY <1>9 DEF Prompt, TypeOK
  <2>2. pc' \in [Procs -> Places] /\ exit' \in [Procs -> -1..2]
    BY <1>9, SMT DEF Prompt, Goto, Exit, TypeOK
  <2> QED
    BY <1>9, <2>1, <2>2 DEF Prompt, TypeOK
<1>10. ASSUME NEW p \in Procs, NEW err, Operate(p, err)
       PROVE  TypeOK'
  <2>1. cmd[p].cmd \notin {"create", "unknown"}
    BY <1>10 DEF Place, Operate
  <2>2. Reaches(Plan(p).op, Plan(p).n) \subseteq 0..Count
    BY <2>1, PlanType, ReachesType DEF TypeOK
  <2>3. applied' \in 0..Count
    BY <1>10, <2>2 DEF Operate
  <2>4. pc' \in [Procs -> Places] /\ exit' \in [Procs -> -1..2]
    BY <1>10, SMT DEF Operate, Goto, Exit, TypeOK
  <2> QED
    BY <1>10, <2>3, <2>4 DEF Operate, TypeOK, local
<1>11. ASSUME NEW p \in Procs, Create(p)
       PROVE  TypeOK'
  <2>1. PICK v \in Digits : version' = [version EXCEPT ![p] = v]
    BY <1>11, VersionType DEF Create
  <2>2. version' \in [Procs -> Digits] /\ seen' \in [Procs -> SUBSET File]
    BY <1>11, <2>1 DEF Create, TypeOK
  <2>3. pc' \in [Procs -> Places]
    BY <1>11 DEF Create, Goto, TypeOK
  <2> QED
    BY <1>11, <2>2, <2>3 DEF Create, TypeOK
<1>12. ASSUME NEW p \in Procs, createFile(p) \/ createFileFails(p)
       PROVE  TypeOK'
  <2>1. NewFile(p) \in File
    BY <1>12, NewFileType DEF createFile, createFileFails, Place
  <2>2. OpenFile(p) \/ UNCHANGED <<dir, made>>
    BY <1>12 DEF createFile, createFileFails
  <2>3. dir' \subseteq File /\ made' \in [Procs -> SUBSET File]
    <3>1. CASE OpenFile(p)
      BY <2>1, <3>1 DEF OpenFile, TypeOK
    <3>2. CASE UNCHANGED <<dir, made>>
      BY <3>2 DEF TypeOK
    <3> QED
      BY <2>2, <3>1, <3>2
  <2>4. pc' \in [Procs -> Places] /\ exit' \in [Procs -> -1..2]
    BY <1>12, SMT DEF createFile, createFileFails, Goto, Exit, TypeOK
  <2> QED
    BY <1>12, <2>3, <2>4 DEF createFile, createFileFails, TypeOK, local
<1> QED
  BY <1>1, <1>2, <1>3, <1>6, <1>7, <1>8, <1>9, <1>10, <1>11, <1>12 DEF Next, ProcessStep

-----------------------------------------------------------------------------
(***************************************************************************)
(* What a command may move.                                                *)
(***************************************************************************)

\* up N: N below 2^63 becomes Steps(N); a larger one becomes a negative int, and Up moves
\* by less than that.
LEMMA LimitedUp ==
  ASSUME TypeOK, NEW p \in Procs, cmd[p].cmd = "up", opened[p], pc[p] = "call", Place(p),
         NEW a \in Reaches(Plan(p).op, Plan(p).n)
  PROVE  Asked(p, applied, a)
<1> DEFINE c == cmd[p]
<1>0. /\ c \in Command /\ applied \in Nat /\ applied <= Count
      /\ Count \in Nat /\ Count <= MaxInt /\ MaxInt \in Nat
  BY CommandType, CliAssumption, MaxIntAssumption, SMT DEF TypeOK
<1>1. Plan(p) = upArgs(c) /\ Plan(p).next = "call"
  <2>1. Plan(p) = upArgs(c)
    BY DEF Plan
  <2>2. Plan(p).next # "prompt"
    <3>1. upArgs(c) = Fatal \/ \E m : upArgs(c) = upCmd(m)
      BY DEF upArgs
    <3>2. \A m : upCmd(m).next = "call"
      BY DEF upCmd, Calls
    <3> QED
      BY <2>1, <3>1, <3>2, SMT DEF Fatal
  <2> QED
    BY <2>1, <2>2 DEF Place
<1>2. CASE c.args = <<>>
  <2>1. Plan(p).op = "Up"
    BY <1>1, <1>2, SMT DEF upArgs, upCmd, Calls
  <2>2. a \in applied..Count
    BY <2>1 DEF Reaches
  <2> QED
    BY <1>0, <1>2, <2>2, SMT DEF Asked
<1>3. CASE c.args # <<>>
  <2>1. c.args[1] \in Nat
    <3>1. ParseUint(c.args[1])
      BY <1>1, <1>3, SMT DEF upArgs, Fatal
    <3> QED
      BY <1>0, <3>1, SMT DEF ParseUint, MaxUint
  <2>2. PICK n \in Int : n = toInt(c.args[1])
    BY <1>0, <2>1, SMT DEF toInt, MaxUint
  <2>3. Plan(p) = upCmd(n)
    BY <1>1, <1>3, <2>2, SMT DEF upArgs, Fatal
  <2>4. CASE n >= 0
    <3>1. Plan(p).op = "Steps" /\ Plan(p).n = n
      BY <2>3, <2>4, SMT DEF upCmd, Calls
    <3>2. a \in Nat /\ a - applied \in 0..n
      BY <1>0, <2>4, <3>1, SMT DEF Reaches
    <3>3. n <= c.args[1]
      BY <1>0, <2>1, <2>2, SMT DEF toInt, MaxUint
    <3>4. applied <= a /\ a - applied <= c.args[1]
      BY <1>0, <2>1, <3>2, <3>3, SMT
    <3> QED
      BY <3>4 DEF Asked
  <2>5. CASE ~(n >= 0)
    <3>1. Plan(p).op = "Up"
      BY <2>3, <2>5, SMT DEF upCmd, Calls
    <3>2. a \in applied..Count
      BY <3>1 DEF Reaches
    <3>3. c.args[1] > MaxInt
      BY <1>0, <2>1, <2>2, <2>5, SMT DEF toInt, MaxUint
    <3>4. applied <= a /\ a - applied <= c.args[1]
      BY <1>0, <2>1, <3>2, <3>3, SMT
    <3> QED
      BY <3>4 DEF Asked
  <2> QED
    BY <2>4, <2>5
<1> QED
  BY <1>2, <1>3

\* down N is Steps(-N) or, for an N that does not fit an int, Down; without N the user
\* agreed or gave -all.
LEMMA LimitedDown ==
  ASSUME TypeOK, NEW p \in Procs, cmd[p].cmd = "down", opened[p], pc[p] = "call", Place(p),
         NEW a \in Reaches(Plan(p).op, Plan(p).n)
  PROVE  Asked(p, applied, a)
<1> DEFINE c == cmd[p]
<1>0. /\ c \in Command /\ applied \in Nat /\ applied <= Count /\ c.flag \in BOOLEAN
      /\ Count \in Nat /\ Count <= MaxInt /\ MaxInt \in Nat
  BY CommandType, CliAssumption, MaxIntAssumption, SMT DEF TypeOK, Command
<1>1. Plan(p) = numDownMigrationsFromArgs(c) /\ Plan(p).next # "fatal"
  BY DEF Plan, Place
<1>2. CASE c.args = <<>>
  <2>1. Plan(p).op = "Down" /\ Consent(p)
    <3>1. CASE c.flag
      BY <1>1, <1>2, <3>1, SMT DEF numDownMigrationsFromArgs, downCmd, Calls, Consent
    <3>2. CASE ~c.flag
      <4>1. Plan(p) = Asks(downCmd(-1))
        BY <1>1, <1>2, <3>2, EmptySeq, SMT DEF numDownMigrationsFromArgs
      <4>2. Plan(p).op = "Down" /\ Plan(p).next = "prompt"
        BY <4>1, SMT DEF Asks, downCmd, Calls
      <4> QED
        BY <4>2 DEF Consent, Place
    <3> QED
      BY <1>0, <3>1, <3>2
  <2>2. a \in 0..applied
    BY <2>1 DEF Reaches
  <2> QED
    BY <1>0, <2>1, <2>2, SMT DEF Asked
<1>3. CASE c.args # <<>>
  <2>1. ~c.flag /\ ParseUint(c.args[1]) /\ Plan(p) = downCmd(toInt(c.args[1]))
    BY <1>1, <1>3, SMTT(20) DEF numDownMigrationsFromArgs, Fatal
  <2>2. c.args[1] \in Nat
    BY <1>0, <2>1, SMT DEF ParseUint, MaxUint
  <2>3. PICK n \in Int : n = toInt(c.args[1])
    BY <1>0, <2>2, SMT DEF toInt, MaxUint
  <2>4. CASE n >= 0
    <3>1. Plan(p).op = "Steps" /\ Plan(p).n = -n
      BY <2>1, <2>3, <2>4, SMT DEF downCmd, Calls
    <3>2. a \in 0..Count /\ (applied - a \in 0..n \/ (n = 0 /\ a = applied))
      BY <1>0, <2>4, <3>1, SMT DEF Reaches
    <3>3. n <= c.args[1]
      BY <1>0, <2>2, <2>3, SMT DEF toInt, MaxUint
    <3>4. a <= applied /\ applied - a <= c.args[1]
      BY <1>0, <2>2, <3>2, <3>3, SMT
    <3> QED
      BY <1>3, <3>4 DEF Asked
  <2>5. CASE ~(n >= 0)
    <3>1. Plan(p).op = "Down"
      BY <2>1, <2>3, <2>5, SMT DEF downCmd, Calls
    <3>2. a \in 0..applied
      BY <3>1 DEF Reaches
    <3>3. c.args[1] > MaxInt
      BY <1>0, <2>2, <2>3, <2>5, SMT DEF toInt, MaxUint
    <3>4. a <= applied /\ applied - a <= c.args[1]
      BY <1>0, <2>2, <3>2, <3>3, SMT
    <3> QED
      BY <1>3, <3>4 DEF Asked
  <2> QED
    BY <2>4, <2>5
<1> QED
  BY <1>2, <1>3

\* goto V goes towards a version of the source; for a V that does not fit an int,
\* int(V) is negative and the schema goes down.
LEMMA LimitedGoto ==
  ASSUME TypeOK, NEW p \in Procs, cmd[p].cmd = "goto", opened[p], pc[p] = "call", Place(p),
         NEW a \in Reaches(Plan(p).op, Plan(p).n), a # applied
  PROVE  Asked(p, applied, a)
<1> DEFINE c == cmd[p]
<1>0. /\ applied \in Nat /\ applied <= Count
      /\ Count \in Nat /\ Count <= MaxInt /\ MaxInt \in Nat
  BY CliAssumption, MaxIntAssumption, SMT DEF TypeOK
<1>1. Plan(p) = gotoArgs(c) /\ Plan(p).next # "fatal"
  BY DEF Plan, Place
<1>2. c.args # <<>> /\ ParseUint(c.args[1]) /\ Plan(p) = Calls("Migrate", c.args[1])
  BY <1>1, SMT DEF gotoArgs, Fatal
<1>3. c.args[1] \in Nat
  BY <1>0, <1>2, SMT DEF ParseUint, MaxUint
<1>4. PICK v \in Int : v = toInt(c.args[1])
  BY <1>0, <1>3, SMT DEF toInt, MaxUint
<1>5. a \in Towards(v)
  <2>1. Plan(p).op = "Migrate" /\ Plan(p).n = c.args[1]
    BY <1>2, SMT DEF Calls
  <2>2. Reaches("Migrate", c.args[1]) = Towards(toInt(c.args[1]))
    BY DEF Reaches
  <2> QED
    BY <1>4, <2>1, <2>2
<1>6. CASE v \in 1..Count
  <2>1. v = c.args[1]
    BY <1>0, <1>2, <1>3, <1>4, <1>6, SMT DEF toInt, ParseUint, MaxUint
  <2>2. Between(applied, a, v)
    BY <1>0, <1>5, <1>6, SMT DEF Towards, Between, NilVersion
  <2> QED
    BY <1>2, <1>6, <2>1, <2>2 DEF Asked
<1>7. CASE v \notin 1..Count
  <2>1. v < 0 /\ a <= applied
    BY <1>0, <1>5, <1>7, SMT DEF Towards, NilVersion
  <2>2. c.args[1] > MaxInt
    BY <1>0, <1>3, <1>4, <2>1, SMT DEF toInt
  <2> QED
    BY <1>2, <2>1, <2>2 DEF Asked
<1> QED
  BY <1>6, <1>7

\* The call of the engine moves the schema as the command line asks, if at all.
LEMMA MovesAsAsked ==
  ASSUME TypeOK, NEW p \in Procs, opened[p], pc[p] = "call", Place(p),
         NEW a \in Reaches(Plan(p).op, Plan(p).n), a # applied
  PROVE  Asked(p, applied, a)
<1>0. cmd[p] \in Command /\ cmd[p].cmd \notin {"create", "unknown"} /\ cmd[p].flag \in BOOLEAN
  BY CommandType DEF Place, Command
<1>1. CASE cmd[p].cmd = "up"
  BY <1>1, LimitedUp
<1>2. CASE cmd[p].cmd = "down"
  BY <1>2, LimitedDown
<1>3. CASE cmd[p].cmd = "drop"
  <2>1. Consent(p)
    <3>1. ~cmd[p].flag => Plan(p) = Asks(Calls("Drop", 0))
      BY <1>3 DEF Plan
    <3>2. Asks(Calls("Drop", 0)).next = "prompt"
      BY DEF Asks, Calls
    <3> QED
      BY <3>1, <3>2 DEF Place, Consent
  <2>2. Plan(p).op = "Drop"
    BY <1>3 DEF Plan, Asks, Calls
  <2>3. a = 0
    BY <2>2 DEF Reaches
  <2> QED
    BY <1>3, <2>1, <2>3 DEF Asked
<1>4. CASE cmd[p].cmd \in {"force", "version"}
  <2>1. Plan(p).op \in {"Force", "Version"}
    <3>1. CASE cmd[p].cmd = "version"
      BY <3>1 DEF Plan, Calls
    <3>2. CASE cmd[p].cmd = "force"
      <4>1. Plan(p) = forceArgs(cmd[p]) /\ Plan(p).next # "fatal"
        BY <3>2 DEF Plan, Place
      <4> QED
        BY <4>1, SMT DEF forceArgs, Calls, Fatal
    <3> QED
      BY <1>4, <3>1, <3>2
  <2>2. a = applied
    BY <2>1 DEF Reaches
  <2> QED
    BY <2>2
<1>5. CASE cmd[p].cmd = "goto"
  BY <1>5, LimitedGoto
<1> QED
  BY <1>0, <1>1, <1>2, <1>3, <1>4, <1>5 DEF Command

-----------------------------------------------------------------------------
(***************************************************************************)
(* The invariant of a process.                                             *)
(***************************************************************************)

\* Process q has chosen a version.
Chosen(q) == pc[q] \in {"check", "up", "down"} \/ made[q] # {}

\* What create has done in process q.
Makes(q) ==
  /\ pc[q] \notin {"down", "exited"} => made[q] = {}
  /\ pc[q] = "down" => {f.direction : f \in made[q]} = {"up"}
  /\ cmd[q].cmd = "create" /\ pc[q] = "exited" =>
       {f.direction : f \in made[q]} \in
         IF exit[q] = 0 THEN {{"up", "down"}} ELSE {{}, {"up"}, {"up", "down"}}
  /\ \A f \in made[q] : f.version = version[q]
  /\ seen[q] \subseteq dir
  /\ pc[q] \in {"up", "down"} \/ made[q] # {} => version[q] \notin VersionsOfDir(seen[q])
  /\ Chosen(q) /\ cmd[q].seq =>
       cmd[q].digits > 0 /\ version[q] = nextSeqVersion(seen[q], cmd[q].digits)

\* The invariant of a process.
ProcessInv(q) == Place(q) /\ Makes(q)

\* A process starts without a command or a file.
LEMMA ProcessInit ==
  ASSUME Init, NEW q \in Procs
  PROVE  ProcessInv(q)
<1>1. /\ pc[q] = "start" /\ cmd[q] = NoCommand /\ made[q] = {} /\ seen[q] = {}
  BY DEF Init
<1>2. NoCommand.cmd = "unknown"
  BY DEF NoCommand
<1>3. Place(q)
  BY <1>1 DEF Place
<1>4. Makes(q)
  BY <1>1 DEF Makes, Chosen
<1> QED
  BY <1>3, <1>4 DEF ProcessInv

\* What belongs to process q stays the same.
Still(q) ==
  /\ pc'[q] = pc[q] /\ cmd'[q] = cmd[q] /\ opened'[q] = opened[q] /\ answer'[q] = answer[q]
  /\ seen'[q] = seen[q] /\ version'[q] = version[q] /\ made'[q] = made[q] /\ exit'[q] = exit[q]

\* What a command comes to depends on the process alone.
LEMMA PlanKept ==
  ASSUME NEW q, cmd'[q] = cmd[q], opened'[q] = opened[q]
  PROVE  Plan(q)' = Plan(q)
BY SMT DEF Plan

\* Files of others do not matter to a process that does nothing.
LEMMA StillInv ==
  ASSUME NEW q \in Procs, ProcessInv(q), Still(q), dir \subseteq dir'
  PROVE  ProcessInv(q)'
<1>1. Plan(q)' = Plan(q)
  BY PlanKept DEF Still
<1>2. Place(q)'
  BY <1>1 DEF ProcessInv, Place, Still
<1>3. Makes(q)'
  BY DEF ProcessInv, Makes, Chosen, Still, VersionsOfDir
<1> QED
  BY <1>2, <1>3 DEF ProcessInv

\* A process changes nothing of another one, and removes no file.
LEMMA OthersStill ==
  ASSUME TypeOK, NEW p \in Procs, NEW q \in Procs, q # p,
         ProcessStep(p) \/ \E c \in Commands : Main(p, c)
  PROVE  Still(q) /\ dir \subseteq dir'
<1> USE DEF Still, TypeOK, Goto, Exit, local
<1>1. ASSUME NEW c \in Commands, Main(p, c)
      PROVE  Still(q) /\ dir \subseteq dir'
  BY <1>1 DEF Main
<1>2. CASE Usage(p) \/ Refuse(p) \/ CallFails(p) \/ CreateRefused(p)
  BY <1>2 DEF Usage, Refuse, CallFails, CreateRefused
<1>3. CASE Proceed(p)
  BY <1>3 DEF Proceed
<1>4. CASE CheckVersion(p)
  BY <1>4 DEF CheckVersion
<1>5. ASSUME NEW text \in {"y", "other"}, Prompt(p, text)
      PROVE  Still(q) /\ dir \subseteq dir'
  BY <1>5 DEF Prompt
<1>6. ASSUME NEW err, Operate(p, err)
      PROVE  Still(q) /\ dir \subseteq dir'
  BY <1>6 DEF Operate
<1>7. CASE Create(p)
  BY <1>7 DEF Create
<1>8. CASE createFile(p) \/ createFileFails(p)
  BY <1>8 DEF createFile, createFileFails, OpenFile
<1> QED
  BY <1>1, <1>2, <1>3, <1>4, <1>5, <1>6, <1>7, <1>8 DEF ProcessStep

\* An exit with an error that makes no file: there may be the up file.
LEMMA ExitInv ==
  ASSUME TypeOK, NEW p \in Procs, ProcessInv(p), pc[p] # "exited", Exit(p, 1),
         UNCHANGED <<dir, clock, applied, local, made>>
  PROVE  ProcessInv(p)'
<1>1. /\ pc'[p] = "exited" /\ exit'[p] = 1
      /\ UNCHANGED <<dir, made, cmd, opened, answer, seen, version>>
  BY DEF TypeOK, Exit, Goto, local
<1>2. Place(p)'
  BY <1>1 DEF Place
<1>3. {f.direction : f \in made[p]} \in {{}, {"up"}}
  <2>1. made[p] = {} => {f.direction : f \in made[p]} = {}
    OBVIOUS
  <2> QED
    BY <2>1 DEF ProcessInv, Makes
<1>4. Makes(p)'
  BY <1>1, <1>3, SMT DEF ProcessInv, Makes, Chosen, VersionsOfDir
<1> QED
  BY <1>2, <1>4 DEF ProcessInv

\* A process that parses its flags has done nothing yet.
LEMMA MainInv ==
  ASSUME TypeOK, NEW p \in Procs, ProcessInv(p), NEW c \in Commands, Main(p, c)
  PROVE  ProcessInv(p)'
<1>1. /\ pc[p] = "start" /\ pc'[p] = "main" /\ made[p] = {}
      /\ UNCHANGED <<dir, made, seen, version, exit>>
  BY DEF Main, Goto, TypeOK, ProcessInv, Place, Makes
<1>2. Place(p)'
  BY <1>1 DEF Place
<1>3. Makes(p)'
  BY <1>1 DEF ProcessInv, Makes, Chosen
<1> QED
  BY <1>2, <1>3 DEF ProcessInv

\* A process goes to the question or to the call that its command line comes to.
LEMMA GotoInv ==
  ASSUME TypeOK, NEW p \in Procs, ProcessInv(p), NEW place \in {"prompt", "call"},
         pc[p] \in {"main", "prompt"}, pc'[p] = place, cmd[p].cmd \notin {"create", "unknown"},
         UNCHANGED <<dir, made, cmd, opened, seen, version, exit>>,
         place = "prompt" => Plan(p).next = "prompt",
         place = "call" => Plan(p).next = "call" \/ (Plan(p).next = "prompt" /\ answer'[p] = "y")
  PROVE  ProcessInv(p)'
<1>1. Plan(p)' = Plan(p)
  BY PlanKept
<1>2. made[p] = {}
  BY DEF ProcessInv, Place, Makes
<1>3. Place(p)'
  BY <1>1, <1>2 DEF Place
<1>4. Makes(p)'
  BY <1>2 DEF ProcessInv, Makes, Chosen
<1> QED
  BY <1>3, <1>4 DEF ProcessInv

\* The question: only "y" leads to the call.
LEMMA PromptInv ==
  ASSUME TypeOK, NEW p \in Procs, ProcessInv(p), NEW text \in {"y", "other"}, Prompt(p, text)
  PROVE  ProcessInv(p)'
<1>1. /\ pc[p] = "prompt" /\ answer'[p] = text /\ made[p] = {}
      /\ cmd[p].cmd \notin {"create", "unknown"} /\ Plan(p).next = "prompt"
      /\ UNCHANGED <<dir, made, cmd, opened, seen, version>>
  BY DEF Prompt, TypeOK, ProcessInv, Place, Makes
<1>2. CASE text = "y"
  BY <1>1, <1>2, GotoInv DEF Prompt, Goto, TypeOK
<1>3. CASE text # "y"
  <2>1. pc'[p] = "exited"
    BY <1>3 DEF Prompt, Exit, Goto, TypeOK
  <2>2. Place(p)'
    BY <2>1 DEF Place
  <2>3. Makes(p)'
    BY <1>1, <2>1 DEF ProcessInv, Makes, Chosen
  <2> QED
    BY <2>2, <2>3 DEF ProcessInv
<1> QED
  BY <1>2, <1>3

\* The call makes no files.
LEMMA OperateInv ==
  ASSUME TypeOK, NEW p \in Procs, ProcessInv(p), NEW err, Operate(p, err)
  PROVE  ProcessInv(p)'
<1>1. /\ pc'[p] = "exited" /\ made[p] = {} /\ cmd[p].cmd \notin {"create", "unknown"}
      /\ UNCHANGED <<dir, made, cmd, opened, answer, seen, version>>
  BY DEF Operate, Exit, Goto, local, TypeOK, ProcessInv, Place, Makes
<1>2. Place(p)'
  BY <1>1 DEF Place
<1>3. Makes(p)'
  BY <1>1 DEF ProcessInv, Makes, Chosen
<1> QED
  BY <1>2, <1>3 DEF ProcessInv

\* The first Glob: a version is chosen from what is seen.
LEMMA CreateInv ==
  ASSUME TypeOK, NEW p \in Procs, ProcessInv(p), Create(p)
  PROVE  ProcessInv(p)'
<1>1. /\ pc[p] = "main" /\ pc'[p] = "check" /\ made[p] = {}
      /\ cmd[p].cmd = "create" /\ seen'[p] = dir
      /\ UNCHANGED <<dir, made, cmd, opened, answer, exit>>
  BY DEF Create, Goto, TypeOK, ProcessInv, Place, Makes
<1>2. cmd[p].seq => cmd[p].digits > 0 /\ version'[p] = nextSeqVersion(dir, cmd[p].digits)
  BY DEF Create, SeqOK, TypeOK
<1>3. nextSeqVersion(seen[p], cmd[p].digits)' = nextSeqVersion(dir, cmd[p].digits)
  BY <1>1, SMT DEF nextSeqVersion, NextSeq, LastMatch, VersionsOfDir
<1>4. Place(p)'
  BY <1>1 DEF Place
<1>5. Makes(p)'
  BY <1>1, <1>2, <1>3 DEF Makes, Chosen
<1> QED
  BY <1>4, <1>5 DEF ProcessInv

\* The second Glob: no file of what was seen has the version.
LEMMA CheckVersionInv ==
  ASSUME TypeOK, NEW p \in Procs, ProcessInv(p), CheckVersion(p)
  PROVE  ProcessInv(p)'
<1>1. CASE version[p] \in VersionsOfDir(dir)
  BY <1>1, ExitInv DEF CheckVersion
<1>2. CASE version[p] \notin VersionsOfDir(dir)
  <2>1. /\ pc[p] = "check" /\ pc'[p] = "up" /\ made[p] = {}
        /\ cmd[p].cmd = "create"
        /\ UNCHANGED <<dir, made, cmd, opened, answer, seen, version, exit>>
    BY <1>2 DEF CheckVersion, Goto, local, TypeOK, ProcessInv, Place, Makes
  <2>2. version[p] \notin VersionsOfDir(seen[p])
    BY <1>2 DEF ProcessInv, Makes, VersionsOfDir
  <2>3. Place(p)'
    BY <2>1 DEF Place
  <2>4. Makes(p)'
    BY <2>1, <2>2 DEF ProcessInv, Makes, Chosen
  <2> QED
    BY <2>3, <2>4 DEF ProcessInv
<1> QED
  BY <1>1, <1>2

\* The up file comes first; with the down file the process exits with 0, unless the
\* Close of that file fails.
LEMMA createFileInv ==
  ASSUME TypeOK, NEW p \in Procs, ProcessInv(p), createFile(p) \/ createFileFails(p), OpenFile(p)
  PROVE  ProcessInv(p)'
<1>1. /\ pc[p] \in {"up", "down"} /\ cmd[p].cmd = "create"
      /\ version[p] \notin VersionsOfDir(seen[p])
      /\ UNCHANGED <<cmd, opened, answer, seen, version>>
      /\ dir \subseteq dir' /\ made'[p] = made[p] \cup {NewFile(p)}
  BY DEF createFile, createFileFails, OpenFile, local, TypeOK, ProcessInv, Place, Makes
<1>2. /\ NewFile(p).version = version[p] /\ NewFile(p).direction = pc[p]
  BY DEF NewFile
<1>3. \A f \in made'[p] : f.version = version[p]
  BY <1>1, <1>2 DEF ProcessInv, Makes
<1>4. seen[p] \subseteq dir'
  BY <1>1 DEF ProcessInv, Makes
<1>5. cmd[p].seq => cmd[p].digits > 0 /\ version[p] = nextSeqVersion(seen[p], cmd[p].digits)
  BY <1>1 DEF ProcessInv, Makes, Chosen
<1>6. {f.direction : f \in made'[p]} = {f.direction : f \in made[p]} \cup {pc[p]}
  BY <1>1, <1>2
<1>7. /\ pc[p] = "up" => {f.direction : f \in made'[p]} = {"up"}
      /\ pc[p] = "down" => {f.direction : f \in made'[p]} = {"up", "down"}
  BY <1>6 DEF ProcessInv, Makes
<1>8. CASE createFile(p) /\ pc[p] = "up"
  <2>1. pc'[p] = "down"
    BY <1>8 DEF createFile, Goto, TypeOK
  <2>2. Place(p)'
    BY <1>1, <2>1 DEF Place
  <2>3. Makes(p)'
    BY <1>1, <1>3, <1>4, <1>5, <1>7, <1>8, <2>1 DEF Makes, VersionsOfDir
  <2> QED
    BY <2>2, <2>3 DEF ProcessInv
<1>9. CASE createFileFails(p) \/ pc[p] = "down"
  <2>1. pc'[p] = "exited" /\ (exit'[p] = 0 => pc[p] = "down")
    <3>1. CASE createFileFails(p)
      BY <3>1, SMT DEF createFileFails, Exit, Goto, TypeOK
    <3>2. CASE createFile(p) /\ pc[p] = "down"
      BY <3>2 DEF createFile, Exit, Goto, TypeOK
    <3> QED
      BY <1>9, <3>1, <3>2
  <2>2. {f.direction : f \in made'[p]} \in
          IF exit'[p] = 0 THEN {{"up", "down"}} ELSE {{}, {"up"}, {"up", "down"}}
    BY <1>1, <1>7, <2>1
  <2>3. Place(p)'
    BY <1>1, <2>1 DEF Place
  <2>4. Makes(p)'
    BY <1>1, <1>3, <1>4, <1>5, <2>1, <2>2 DEF Makes, VersionsOfDir
  <2> QED
    BY <2>3, <2>4 DEF ProcessInv
<1> QED
  BY <1>1, <1>8, <1>9

\* Every step of a process keeps its invariant.
LEMMA OwnStep ==
  ASSUME TypeOK, NEW p \in Procs, ProcessInv(p), ProcessStep(p) \/ \E c \in Commands : Main(p, c)
  PROVE  ProcessInv(p)'
<1>1. CASE Refuse(p) \/ CallFails(p) \/ CreateRefused(p)
  BY <1>1, ExitInv DEF Refuse, Engine, CallFails, CreateRefused
<1>2. CASE Usage(p)
  <2>1. /\ pc[p] = "main" /\ pc'[p] = "exited" /\ cmd[p].cmd = "unknown" /\ made[p] = {}
        /\ UNCHANGED <<dir, made, cmd, opened, answer, seen, version>>
    BY <1>2 DEF Usage, Exit, Goto, local, TypeOK, ProcessInv, Place, Makes
  <2>2. Place(p)'
    BY <2>1 DEF Place
  <2>3. Makes(p)'
    BY <2>1 DEF ProcessInv, Makes, Chosen
  <2> QED
    BY <2>2, <2>3 DEF ProcessInv
<1>3. CASE Proceed(p)
  <2>1. PICK place \in {"call", "prompt"} : place = Plan(p).next
    BY <1>3, PlanType DEF Proceed, Engine
  <2>2. /\ pc[p] = "main" /\ pc'[p] = place /\ cmd[p].cmd \notin {"create", "unknown"}
        /\ UNCHANGED <<dir, made, cmd, opened, seen, version, exit>>
    BY <1>3, <2>1 DEF Proceed, Engine, Goto, local, TypeOK
  <2> QED
    BY <2>1, <2>2, GotoInv
<1>4. CASE createFile(p) \/ createFileFails(p)
  <2>1. CASE OpenFile(p)
    BY <1>4, <2>1, createFileInv
  <2>2. CASE createFileFails(p) /\ UNCHANGED <<dir, made>>
    BY <2>2, ExitInv DEF createFileFails
  <2> QED
    BY <1>4, <2>1, <2>2 DEF createFile, createFileFails
<1> QED
  BY <1>1, <1>2, <1>3, <1>4, MainInv, PromptInv, OperateInv, CreateInv, CheckVersionInv
  DEF ProcessStep

\* The inductive invariant.
CliInv == TypeOK /\ \A q \in Procs : ProcessInv(q)

\* The inductive invariant holds, however the processes interleave.
LEMMA CliInvariance == Spec => []CliInv
<1>1. Init => CliInv
  BY TypeInit, ProcessInit DEF CliInv
<1>2. CliInv /\ [Next]_vars => CliInv'
  <2> SUFFICES ASSUME CliInv, [Next]_vars
               PROVE  CliInv'
    OBVIOUS
  <2>1. TypeOK'
    BY TypeStep DEF CliInv, ProcessInv
  <2>2. ASSUME NEW q \in Procs
        PROVE  ProcessInv(q)'
    <3>1. CASE UNCHANGED vars \/ Tick
      <4>1. Still(q) /\ dir \subseteq dir'
        BY <3>1 DEF vars, local, Tick, Still
      <4> QED
        BY <4>1, StillInv DEF CliInv
    <3>2. ASSUME NEW p \in Procs, ProcessStep(p) \/ \E c \in Commands : Main(p, c)
          PROVE  ProcessInv(q)'
      <4>1. CASE p = q
        BY <3>2, <4>1, OwnStep DEF CliInv
      <4>2. CASE p # q
        BY <3>2, <4>2, OthersStill, StillInv DEF CliInv
      <4> QED
        BY <4>1, <4>2
    <3> QED
      BY <3>1, <3>2 DEF Next
  <2> QED
    BY <2>1, <2>2 DEF CliInv
<1> QED
  BY <1>1, <1>2, PTL DEF Spec

-----------------------------------------------------------------------------
(***************************************************************************)
(* The numbers of create -seq.                                             *)
(***************************************************************************)

\* A set of numbers with a bound has a greatest one.
LEMMA GreatestExists ==
  ASSUME NEW S, S # {}, NEW b \in Nat, \A m \in S : m \in Nat /\ m <= b
  PROVE  \E m \in S : \A n \in S : n <= m
<1> DEFINE T == {k \in Nat : b - k \in S}
<1>1. T # {} /\ T \subseteq Nat
  <2>1. PICK m : m \in S
    OBVIOUS
  <2>2. m \in Nat /\ b - m \in Nat /\ b - (b - m) = m
    BY <2>1, SMT
  <2> QED
    BY <2>1, <2>2
<1> HIDE DEF T
<1>2. PICK k \in T : \A j \in T : ~(<<j, k>> \in OpToRel(<, Nat))
  BY <1>1, NatLessThanWellFounded, WFMin
<1>3. \A j \in T : ~(j < k)
  BY <1>1, <1>2 DEF OpToRel
<1>4. b - k \in S /\ k \in Nat
  BY <1>2 DEF T
<1>5. ASSUME NEW n \in S
      PROVE  n <= b - k
  <2>1. n \in Nat /\ b - n \in Nat /\ b - (b - n) = n
    BY <1>5, SMT
  <2>2. b - n \in T
    BY <2>1 DEF T
  <2> QED
    BY <1>3, <1>4, <2>1, <2>2, SMT
<1> QED
  BY <1>4, <1>5

\* Among names of the same number of digits the last match has the greatest number.
LEMMA LastIsGreatest ==
  ASSUME NEW files \in SUBSET File, files # {}, NEW w \in Nat \ {0},
         \A h \in files : h.version.width = w /\ h.version.num < MaxUint
  PROVE  /\ LastMatch(files).num \in Nat /\ LastMatch(files).num < MaxUint
         /\ \A g \in files : g.version.num <= LastMatch(files).num
<1> DEFINE V == VersionsOfDir(files)
           S == {h.version.num : h \in files}
<1>0. \A h \in files : h.version \in Digits /\ h.version.num \in Nat
  BY DEF File, Digits
<1>1. \A v \in V : v.width = w /\ v.num \in Nat /\ v.num < MaxUint
  BY <1>0 DEF VersionsOfDir
<1>2. \A a, b \in V : SortsBefore(a, b) <=> a.num < b.num
  <2> SUFFICES ASSUME NEW a \in V, NEW b \in V
               PROVE  SortsBefore(a, b) <=> a.num < b.num
    OBVIOUS
  <2>1. a.width = w /\ b.width = w /\ Least(w, w) = w
    BY <1>1 DEF Least
  <2>2. Prefix(a, w) = a.num /\ Prefix(b, w) = b.num
    BY <2>1 DEF Prefix
  <2> QED
    BY <2>1, <2>2, <1>1, SMT DEF SortsBefore
<1>3. MaxUint \in Nat
  BY MaxIntAssumption, SMT DEF MaxUint
<1>4. PICK m \in S : \A n \in S : n <= m
  <2>1. S # {}
    OBVIOUS
  <2>2. \A n \in S : n \in Nat /\ n <= MaxUint
    BY <1>0, <1>3, SMT
  <2> HIDE DEF S
  <2> QED
    BY <1>3, <2>1, <2>2, GreatestExists
<1>5. PICK h \in files : h.version.num = m
  OBVIOUS
<1>6. h.version \in V
  BY DEF VersionsOfDir
<1>7. \A v \in V : v.num \in S
  BY DEF VersionsOfDir
<1>8. \A v \in V : ~SortsBefore(h.version, v)
  <2>0. m \in Nat
    BY <1>0, <1>5
  <2> HIDE DEF V, S
  <2>1. \A v \in V : ~(h.version.num < v.num)
    BY <1>1, <1>4, <1>5, <1>7, <2>0, SMT
  <2> QED
    BY <1>2, <1>6, <2>1
<1>9. LastMatch(files) \in V /\ \A v \in V : ~SortsBefore(LastMatch(files), v)
  <2> HIDE DEF V
  <2>1. LastMatch(files) = CHOOSE v \in V : \A u \in V : ~SortsBefore(v, u)
    BY DEF LastMatch, V
  <2> QED
    BY <1>6, <1>8, <2>1
<1>10. \A g \in files : g.version \in V
  BY DEF VersionsOfDir
<1>11. ASSUME NEW g \in files
       PROVE  g.version.num <= LastMatch(files).num
  <2> HIDE DEF V
  <2>1. g.version \in V /\ ~(LastMatch(files).num < g.version.num)
    BY <1>2, <1>9, <1>10
  <2> QED
    BY <1>1, <1>9, <2>1, SMT
<1> QED
  BY <1>1, <1>9, <1>11

-----------------------------------------------------------------------------
(***************************************************************************)
(* The theorems.                                                           *)
(***************************************************************************)

\* Only the call of the engine moves the schema.
LEMMA OnlyCallsMove ==
  ASSUME [Next]_vars, applied' # applied
  PROVE  \E p \in Procs : \E err : Operate(p, err)
<1>1. ~UNCHANGED vars /\ ~Tick
  BY DEF vars, Tick
<1>2. PICK p \in Procs : ProcessStep(p) \/ \E c \in Commands : Main(p, c)
  BY <1>1 DEF Next
<1>3. \E err : Operate(p, err)
  BY <1>2 DEF ProcessStep, Main, Usage, Refuse, Proceed, CallFails, Prompt, Create, CreateRefused,
              CheckVersion, createFile, createFileFails
<1> QED
  BY <1>3

\* No command moves the schema in the wrong direction, by more than the number given, past
\* the version given, or down to nothing without consent.  int(N) of up and down may wrap,
\* and does no harm; the theorem excepts a goto whose version does not fit an int.
THEOREM MovesWithinLimits == Spec => AtMostAsked
<1>1. ASSUME CliInv, [Next]_vars, applied' # applied
      PROVE  \E p \in Procs : Returns(p) /\ Asked(p, applied, applied')
  <2>1. PICK p \in Procs : \E err : Operate(p, err)
    BY <1>1, OnlyCallsMove
  <2>2. /\ opened[p] /\ pc[p] = "call" /\ applied' \in Reaches(Plan(p).op, Plan(p).n)
        /\ Exit(p, exit'[p])
    BY <1>1, <2>1 DEF Operate, Exit, CliInv, TypeOK
  <2>3. Asked(p, applied, applied')
    BY <1>1, <2>2, MovesAsAsked DEF CliInv, ProcessInv
  <2>4. Returns(p)
    BY <1>1, <2>2 DEF Returns, Exit, Goto, CliInv, TypeOK
  <2> QED
    BY <2>3, <2>4
<1>2. CliInv /\ [Next]_vars =>
        [applied' # applied => \E p \in Procs : Returns(p) /\ Asked(p, applied, applied')]_vars
  BY <1>1
<1> QED
  BY <1>2, CliInvariance, PTL DEF Spec, AtMostAsked

\* create exits with 0 only when it has made the up file and the down file; when it fails,
\* also over the Close of a file that is there, the down file is not alone.
THEOREM CreatesBothFiles == Spec => []BothFiles
<1>1. CliInv => BothFiles
  BY DEF CliInv, ProcessInv, Makes, BothFiles
<1> QED
  BY <1>1, CliInvariance, PTL

\* create -seq makes a number greater than all that it saw, as long as the names have the
\* same number of digits and the uint64 does not wrap.
THEOREM SequenceContinues == Spec => []SequenceGrows
<1>1. CliInv => SequenceGrows
  <2> SUFFICES ASSUME CliInv, NEW p \in Procs, NEW f \in made[p], NEW g \in seen[p], cmd[p].seq,
                      \A h \in seen[p] : h.version.width = cmd[p].digits /\ h.version.num < MaxUint
               PROVE  f.version.num > g.version.num
    BY DEF SequenceGrows
  <2>1. /\ f.version = nextSeqVersion(seen[p], cmd[p].digits)
        /\ seen[p] \in SUBSET File
    BY DEF CliInv, TypeOK, ProcessInv, Makes, Chosen
  <2>2. f.version.num = NextSeq(seen[p])
    BY <2>1, SMT DEF nextSeqVersion
  <2>3. cmd[p].digits \in Nat \ {0}
    <3>1. g.version.width \in Nat
      BY <2>1 DEF File, Digits
    <3> QED
      BY <3>1, SMT DEF CliInv, ProcessInv, Makes, Chosen
  <2>4. /\ LastMatch(seen[p]).num \in Nat /\ LastMatch(seen[p]).num < MaxUint
        /\ g.version.num <= LastMatch(seen[p]).num
    BY <2>1, <2>3, LastIsGreatest
  <2>5. NextSeq(seen[p]) = LastMatch(seen[p]).num + 1
    <3>1. \A m \in Nat : m < MaxUint => (m + 1) % (MaxUint + 1) = m + 1
      BY MaxIntAssumption, SMT DEF MaxUint
    <3> QED
      BY <2>4, <3>1 DEF NextSeq
  <2>6. g.version.num \in Nat
    BY <2>1 DEF File, Digits
  <2> QED
    BY <2>2, <2>4, <2>5, <2>6, SMT
<1> QED
  BY <1>1, CliInvariance, PTL

\* create makes no version that was in the directory when it looked first, whatever other
\* processes make in between.
THEOREM SameVersionOverlaps == Spec => []DuplicatesOverlap
<1>1. CliInv => DuplicatesOverlap
  <2> SUFFICES ASSUME CliInv, NEW q \in Procs, NEW f \in seen[q], NEW g \in made[q]
               PROVE  f.version # g.version
    BY DEF DuplicatesOverlap
  <2>1. version[q] \notin VersionsOfDir(seen[q]) /\ g.version = version[q]
    BY DEF CliInv, ProcessInv, Makes
  <2> QED
    BY <2>1 DEF VersionsOfDir
<1> QED
  BY <1>1, CliInvariance, PTL
=============================================================================
