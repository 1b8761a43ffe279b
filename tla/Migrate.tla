------------------------------- MODULE Migrate -------------------------------
(***************************************************************************)
(* The engine (migrate.go): processes that run operations of a Migrate     *)
(* value against one database.  An operation takes the database lock,      *)
(* reads the version, starts a reader goroutine that sends migrations      *)
(* through a bounded channel, and runs what it receives: mark the target   *)
(* version dirty, run the body, mark it clean.  Each call of a driver is   *)
(* one step; processes, their readers, a stop signal, failures of the      *)
(* source and of the database, and crashes interleave between the steps.   *)
(***************************************************************************)
EXTENDS MigrateReader

CONSTANTS
  Procs,     \* processes, each with one Migrate value and one caller
  NoProc,    \* nobody owns the database lock
  Prefetch,  \* PrefetchMigrations, the capacity of the ret channel
  Ops,       \* the operations callers may ask for
  InitVersions,  \* versions the database may be at when the system starts
  Events     \* what may happen besides the operations' own steps

ASSUME MigrateAssumption ==
  /\ NoProc \notin Procs
  /\ Prefetch \in Nat
  /\ Ops \subseteq Op
  /\ \A o \in Ops : \A k \in DOMAIN o.list : o.list[k].err = "nil"
  /\ InitVersions \subseteq Nat \cup {NilVersion}
  /\ Events \subseteq {"stop", "crash", "lock", "database", "source"}

VARIABLES
  \* the database
  version, dirty,  \* what the version table says; (-1, FALSE) when it is empty
  table,           \* the version table exists
  holder,          \* the process whose session owns the database lock
  schema,          \* the version the schema really is at, or Torn
  tracked,         \* FALSE once a caller forced a version the schema is not at,
                   \* or a Drop gave up halfway
  \* each process
  pc, op, cur, result,
  start,           \* the version the running operation started from
  isLocked,        \* Migrate.isLocked
  drvLocked,       \* isLocked of the driver
  late,            \* a driver's Lock is still waiting after lock() timed out
  rd, ch,          \* the reader of the latest operation and its ret channel
  stray,           \* a reader of an earlier operation may still be running
  strayStop,       \* ... and has taken the stop signal, but not yet set the flag
  stopCh,          \* signals in the GracefulStop channel
  isGracefulStop,
  afterStop        \* migrations begun since a stop was requested; -1: none was

dbVars == <<version, dirty, table, schema, tracked>>
lockVars == <<holder, isLocked, drvLocked, late>>
readerVars == <<rd, ch, stray, strayStop>>
stopVars == <<stopCh, isGracefulStop, afterStop>>
callVars == <<pc, op, cur, result, start>>
vars == <<dbVars, lockVars, readerVars, stopVars, callVars>>

\* A caller of p is past a successful lock() and before the end of its unlock().
Critical == {"held", "recv", "got", "stopping", "dirty", "body", "clean", "unlock"}

\* What callers see when no operation runs.
NoOp == [kind |-> "Drop", n |-> 0, list |-> <<>>]

DbTypeOK ==
  /\ version \in Nat \cup {NilVersion} /\ dirty \in BOOLEAN /\ table \in BOOLEAN
  /\ schema \in Int /\ tracked \in BOOLEAN

LockTypeOK ==
  /\ holder \in Procs \cup {NoProc}
  /\ isLocked \in [Procs -> BOOLEAN] /\ drvLocked \in [Procs -> BOOLEAN]
  /\ late \in [Procs -> BOOLEAN]

ReaderTypeOK ==
  /\ rd \in [Procs -> Reader] /\ ch \in [Procs -> Seq(Item)]
  /\ \A p \in Procs : Len(ch[p]) <= IF Prefetch = 0 THEN 1 ELSE Prefetch
  /\ stray \in [Procs -> BOOLEAN] /\ strayStop \in [Procs -> BOOLEAN]

StopTypeOK ==
  /\ stopCh \in [Procs -> 0..1] /\ isGracefulStop \in [Procs -> BOOLEAN]
  /\ afterStop \in [Procs -> Int]

CallTypeOK ==
  /\ pc \in [Procs -> {"closed", "idle", "lock", "locking"} \cup Critical]
  /\ op \in [Procs -> Op]
  /\ cur \in [Procs -> Item]
  /\ result \in [Procs -> Item]
  /\ start \in [Procs -> Int]

\* The types of the variables: the version table holds no version below the nil
\* version, the GracefulStop channel at most one signal, and the ret channel
\* never more than PrefetchMigrations items (one being handed over if that is 0).
TypeOK == DbTypeOK /\ LockTypeOK /\ ReaderTypeOK /\ StopTypeOK /\ CallTypeOK

Init ==
  /\ version \in InitVersions /\ dirty = FALSE /\ schema = version
  /\ table = (version # NilVersion) /\ tracked = TRUE /\ holder = NoProc
  /\ pc = [p \in Procs |-> "closed"]
  /\ op = [p \in Procs |-> NoOp]
  /\ cur = [p \in Procs |-> Err("nil")]
  /\ result = [p \in Procs |-> Err("nil")]
  /\ start = [p \in Procs |-> NilVersion]
  /\ isLocked = [p \in Procs |-> FALSE] /\ drvLocked = [p \in Procs |-> FALSE]
  /\ late = [p \in Procs |-> FALSE]
  /\ rd = [p \in Procs |-> NoReader] /\ ch = [p \in Procs |-> <<>>]
  /\ stray = [p \in Procs |-> FALSE] /\ strayStop = [p \in Procs |-> FALSE]
  /\ stopCh = [p \in Procs |-> 0] /\ isGracefulStop = [p \in Procs |-> FALSE]
  /\ afterStop = [p \in Procs |-> -1]

-----------------------------------------------------------------------------
\* Control of one caller: go to a step of the operation, or return from it.
Goto(p, from, to) == pc[p] = from /\ pc' = [pc EXCEPT ![p] = to]

GotoResult(p, from, to, e) ==
  Goto(p, from, to) /\ result' = [result EXCEPT ![p] = e]

\* The operation returns e; its local variables are gone.
Return(p, from, e) ==
  /\ GotoResult(p, from, "idle", e)
  /\ op' = [op EXCEPT ![p] = NoOp]
  /\ cur' = [cur EXCEPT ![p] = Err("nil")]
  /\ start' = [start EXCEPT ![p] = NilVersion]

\* Mutant: SetVersion keeps no row for a nil version that is dirty.
StoresNoDirtyNil(v, d) ==
  /\ version' = IF v >= 0 THEN v ELSE NilVersion
  /\ dirty' = (v >= 0 /\ d)

\* What SetVersion leaves in the version table: no row for a version below
\* zero, except for a nil version that is dirty.
Stores(v, d) ==
  LET row == v >= 0 \/ (v = NilVersion /\ d)
  IN  /\ version' = IF row THEN v ELSE NilVersion
      /\ dirty' = (row /\ d)

-----------------------------------------------------------------------------
\* Mutant: the version table is made anew whether it exists or not.
OpenRecreates(p) ==
  /\ Goto(p, "closed", "idle")
  /\ holder = NoProc
  /\ table' = TRUE /\ version' = NilVersion /\ dirty' = FALSE
  /\ UNCHANGED <<schema, tracked, lockVars, readerVars, stopVars, op, cur, result, start>>

\* New: the driver's Open makes sure the version table exists, under the lock.
Open(p) ==
  /\ Goto(p, "closed", "idle")
  /\ holder = NoProc
  /\ table' = TRUE
  /\ UNCHANGED <<version, dirty, schema, tracked, lockVars, readerVars,
                 stopVars, op, cur, result, start>>

\* The reader of the previous operation is not blocked for good on a full ret.
Unblocked(p) ==
  /\ rd[p].pc # "done" /\ rd[p].kind # "feed"
  /\ ~(rd[p].pc = "send" /\ Len(ch[p]) >= Prefetch)

Call(p, o) ==
  /\ IF EarlyResult(o) # "nil"
     THEN Return(p, "idle", Err(EarlyResult(o)))
     ELSE /\ GotoResult(p, "idle", "lock", Err("nil"))
          /\ op' = [op EXCEPT ![p] = o]
          /\ UNCHANGED <<cur, start>>
  /\ UNCHANGED <<dbVars, lockVars, readerVars, stopVars>>

\* Close, or the death of the process in any of its steps: the session ends
\* and with it its lock; a body that was running may be left anywhere.
Reset(p) ==
  /\ pc' = [pc EXCEPT ![p] = "closed"]
  /\ op' = [op EXCEPT ![p] = NoOp]
  /\ cur' = [cur EXCEPT ![p] = Err("nil")]
  /\ result' = [result EXCEPT ![p] = Err("nil")]
  /\ start' = [start EXCEPT ![p] = NilVersion]
  /\ isLocked' = [isLocked EXCEPT ![p] = FALSE]
  /\ drvLocked' = [drvLocked EXCEPT ![p] = FALSE]
  /\ late' = [late EXCEPT ![p] = FALSE]
  /\ holder' = IF holder = p THEN NoProc ELSE holder
  /\ rd' = [rd EXCEPT ![p] = NoReader]
  /\ ch' = [ch EXCEPT ![p] = <<>>]
  /\ stray' = [stray EXCEPT ![p] = FALSE]
  /\ strayStop' = [strayStop EXCEPT ![p] = FALSE]
  /\ stopCh' = [stopCh EXCEPT ![p] = 0]
  /\ isGracefulStop' = [isGracefulStop EXCEPT ![p] = FALSE]
  /\ afterStop' = [afterStop EXCEPT ![p] = -1]
  /\ schema' \in IF pc[p] = "body" /\ cur[p].body
                 THEN {schema, Torn, cur[p].target} ELSE {schema}
  /\ UNCHANGED <<version, dirty, table, tracked>>

Crash(p) == "crash" \in Events /\ pc[p] # "closed" /\ Reset(p)

-----------------------------------------------------------------------------
(***************************************************************************)
(* lock() and unlock(), for one caller at a time of a Migrate value.  Lock *)
(* of a driver refuses when its isLocked is set, else it waits for the     *)
(* database.                                                               *)
(***************************************************************************)
LockRefused(p) ==
  /\ isLocked[p] \/ drvLocked[p]
  /\ Return(p, "lock", Err("ErrLocked"))
  /\ UNCHANGED <<dbVars, lockVars, readerVars, stopVars>>

LockWaits(p) ==
  /\ ~isLocked[p] /\ ~drvLocked[p]
  /\ Goto(p, "lock", "locking")
  /\ drvLocked' = [drvLocked EXCEPT ![p] = TRUE]
  /\ UNCHANGED <<dbVars, holder, isLocked, late, readerVars, stopVars,
                 op, cur, result, start>>

\* Mutant: the database grants the lock to a second session.
LockGrantedTwice(p) ==
  /\ Goto(p, "locking", "held")
  /\ holder' = p
  /\ isLocked' = [isLocked EXCEPT ![p] = TRUE]
  /\ UNCHANGED <<dbVars, drvLocked, late, readerVars, stopVars, op, cur, result, start>>

LockGranted(p) ==
  /\ holder = NoProc
  /\ Goto(p, "locking", "held")
  /\ holder' = p
  /\ isLocked' = [isLocked EXCEPT ![p] = TRUE]
  /\ UNCHANGED <<dbVars, drvLocked, late, readerVars, stopVars,
                 op, cur, result, start>>

LockFailed(p) ==
  /\ "lock" \in Events
  /\ Return(p, "locking", Err("error"))
  /\ drvLocked' = [drvLocked EXCEPT ![p] = FALSE]
  /\ UNCHANGED <<dbVars, holder, isLocked, late, readerVars, stopVars>>

\* The timeout goroutine answers first; the driver's Lock goes on waiting.
LockTimedOut(p) ==
  /\ "lock" \in Events
  /\ Return(p, "locking", Err("ErrLockTimeout"))
  /\ late' = [late EXCEPT ![p] = TRUE]
  /\ UNCHANGED <<dbVars, holder, isLocked, drvLocked, readerVars, stopVars>>

\* Nobody receives the answer of that Lock: granted, the lock stays.
LateLock(p) ==
  /\ late[p]
  /\ late' = [late EXCEPT ![p] = FALSE]
  /\ \/ holder = NoProc /\ holder' = p /\ UNCHANGED drvLocked
     \/ drvLocked' = [drvLocked EXCEPT ![p] = FALSE] /\ UNCHANGED holder
  /\ UNCHANGED <<dbVars, isLocked, readerVars, stopVars, callVars>>

\* Mutant: the flags are reset and the database keeps the lock.
UnlockKeeps(p) ==
  /\ Return(p, "unlock", result[p])
  /\ isLocked' = [isLocked EXCEPT ![p] = FALSE]
  /\ drvLocked' = [drvLocked EXCEPT ![p] = FALSE]
  /\ UNCHANGED <<dbVars, holder, late, readerVars, stopVars>>

Unlock(p) ==
  /\ Return(p, "unlock", result[p])
  /\ holder' = NoProc
  /\ isLocked' = [isLocked EXCEPT ![p] = FALSE]
  /\ drvLocked' = [drvLocked EXCEPT ![p] = FALSE]
  /\ UNCHANGED <<dbVars, late, readerVars, stopVars>>

\* The driver's Unlock fails, before or after the database let the lock go;
\* both isLocked stay set.
UnlockFailed(p) ==
  /\ "lock" \in Events
  /\ Return(p, "unlock", Err("error"))
  /\ holder' \in {p, NoProc}
  /\ UNCHANGED <<dbVars, isLocked, drvLocked, late, readerVars, stopVars>>

-----------------------------------------------------------------------------
ReadVersion(p) ==
  /\ op[p].kind \notin {"Drop", "Force"}
  /\ start' = [start EXCEPT ![p] = version]
  /\ IF dirty
     THEN /\ GotoResult(p, "held", "unlock", Err("ErrDirty"))
          /\ UNCHANGED readerVars
     ELSE /\ Goto(p, "held", "recv")
          /\ rd' = [rd EXCEPT ![p] = Operation(op[p], version)]
          /\ ch' = [ch EXCEPT ![p] = <<>>]
          /\ stray' = [stray EXCEPT ![p] = @ \/ Unblocked(p)]
          /\ strayStop' = [strayStop EXCEPT ![p] = @ \/ rd[p].pc = "stopping"]
          /\ UNCHANGED result
  /\ UNCHANGED <<dbVars, lockVars, stopVars, op, cur>>

VersionFailed(p) ==
  /\ "database" \in Events
  /\ op[p].kind \notin {"Drop", "Force"}
  /\ GotoResult(p, "held", "unlock", Err("error"))
  /\ UNCHANGED <<dbVars, lockVars, readerVars, stopVars, op, cur, start>>

\* Drop deletes everything, the version table included.
Drop(p) ==
  /\ op[p].kind = "Drop"
  /\ GotoResult(p, "held", "unlock", Err("nil"))
  /\ version' = NilVersion /\ dirty' = FALSE /\ table' = FALSE
  /\ schema' = NilVersion /\ tracked' = TRUE
  /\ UNCHANGED <<lockVars, readerVars, stopVars, op, cur, start>>

\* Drop lists the tables and deletes one after another: an error leaves all of
\* them or some, and the version table may be among those or not.
DropFailed(p) ==
  /\ "database" \in Events
  /\ op[p].kind = "Drop"
  /\ GotoResult(p, "held", "unlock", Err("error"))
  /\ \/ UNCHANGED dbVars
     \/ /\ schema' = Torn /\ tracked' = FALSE
        /\ \/ UNCHANGED <<version, dirty, table>>
           \/ version' = NilVersion /\ dirty' = FALSE /\ table' = FALSE
  /\ UNCHANGED <<lockVars, readerVars, stopVars, op, cur, start>>

ForceVersion(p) ==
  /\ op[p].kind = "Force" /\ table
  /\ GotoResult(p, "held", "unlock", Err("nil"))
  /\ Stores(op[p].n, FALSE)
  /\ tracked' = (schema = op[p].n)
  /\ UNCHANGED <<table, schema, lockVars, readerVars, stopVars, op, cur, start>>

\* SetVersion fails: without effect, as it must once a Drop took the version
\* table away, or after its commit took effect.
ForceFailed(p) ==
  /\ "database" \in Events \/ ~table
  /\ op[p].kind = "Force"
  /\ GotoResult(p, "held", "unlock", Err("error"))
  /\ \/ UNCHANGED <<version, dirty, tracked>>
     \/ table /\ Stores(op[p].n, FALSE) /\ tracked' = (schema = op[p].n)
  /\ UNCHANGED <<table, schema, lockVars, readerVars, stopVars, op, cur, start>>

-----------------------------------------------------------------------------
(***************************************************************************)
(* The reader goroutine.  stop() reads isGracefulStop and then polls the   *)
(* channel, without synchronisation between the reader and the runner: who *)
(* takes the signal sets the flag in a later step.                         *)
(***************************************************************************)
ReaderGoes(p, r) ==
  /\ rd' = [rd EXCEPT ![p] = r]
  /\ UNCHANGED <<dbVars, lockVars, ch, stray, strayStop, callVars>>

ReaderStart(p) ==
  /\ rd[p].pc = "start"
  /\ ReaderGoes(p, Start(rd[p]))
  /\ UNCHANGED stopVars

\* ReadUp, ReadDown, First, Prev or Next of the source fails.
SourceFailed(p) ==
  /\ "source" \in Events
  /\ \/ rd[p].pc = "start" /\ CallsSource(rd[p])
     \/ /\ rd[p].pc = "loop" /\ LoopCond(rd[p]) /\ ~isGracefulStop[p]
        /\ stopCh[p] = 0 /\ ~Panics(rd[p])
  /\ ReaderGoes(p, Fail(rd[p], Err("error")))
  /\ UNCHANGED stopVars

ReaderLoop(p) ==
  /\ rd[p].pc = "loop"
  /\ LoopCond(rd[p]) => ~isGracefulStop[p] /\ stopCh[p] = 0 /\ ~Panics(rd[p])
  /\ ReaderGoes(p, IF LoopCond(rd[p]) THEN Loop(rd[p]) ELSE Close(rd[p]))
  /\ UNCHANGED stopVars

\* suint(from) of a negative version panics and takes the process down.
ReaderPanics(p) ==
  /\ rd[p].pc = "loop" /\ LoopCond(rd[p]) /\ ~isGracefulStop[p] /\ stopCh[p] = 0
  /\ Panics(rd[p])
  /\ Reset(p)

ReaderSeesStop(p) ==
  /\ rd[p].pc = "loop" /\ LoopCond(rd[p]) /\ isGracefulStop[p]
  /\ ReaderGoes(p, Close(rd[p]))
  /\ UNCHANGED stopVars

\* Mutant: the signal is taken from the channel and forgotten.
ReaderDropsStop(p) ==
  /\ rd[p].pc = "loop" /\ LoopCond(rd[p]) /\ ~isGracefulStop[p] /\ stopCh[p] = 1
  /\ stopCh' = [stopCh EXCEPT ![p] = 0]
  /\ UNCHANGED <<dbVars, lockVars, readerVars, isGracefulStop, afterStop, callVars>>

ReaderTakesStop(p) ==
  /\ rd[p].pc = "loop" /\ LoopCond(rd[p]) /\ ~isGracefulStop[p] /\ stopCh[p] = 1
  /\ ReaderGoes(p, [rd[p] EXCEPT !.pc = "stopping"])
  /\ stopCh' = [stopCh EXCEPT ![p] = 0]
  /\ UNCHANGED <<isGracefulStop, afterStop>>

ReaderSetsStop(p) ==
  /\ rd[p].pc = "stopping"
  /\ ReaderGoes(p, Close(rd[p]))
  /\ isGracefulStop' = [isGracefulStop EXCEPT ![p] = TRUE]
  /\ UNCHANGED <<stopCh, afterStop>>

\* Mutant: the send does not wait for room in the channel.
ReaderSendAlways(p) ==
  /\ rd[p].pc = "send"
  /\ ch' = [ch EXCEPT ![p] = Append(@, Head(rd[p].pend))]
  /\ rd' = [rd EXCEPT ![p] = Sent(@)]
  /\ UNCHANGED <<dbVars, lockVars, stray, strayStop, stopVars, callVars>>

\* Mutant: the send needs room in the channel even when it has no capacity.
ReaderSendBuffered(p) == Len(ch[p]) < Prefetch /\ ReaderSendAlways(p)

\* ret <- item; an unbuffered channel needs the runner at its receive.
ReaderSend(p) ==
  /\ rd[p].pc = "send"
  /\ Len(ch[p]) < Prefetch \/ (Prefetch = 0 /\ ch[p] = <<>> /\ pc[p] = "recv")
  /\ ch' = [ch EXCEPT ![p] = Append(@, Head(rd[p].pend))]
  /\ rd' = [rd EXCEPT ![p] = Sent(@)]
  /\ UNCHANGED <<dbVars, lockVars, stray, strayStop, stopVars, callVars>>

\* A reader of an earlier operation takes the stop signal, then sets the flag.
StrayTakesStop(p) ==
  /\ stray[p] /\ ~isGracefulStop[p] /\ stopCh[p] = 1
  /\ stopCh' = [stopCh EXCEPT ![p] = 0]
  /\ strayStop' = [strayStop EXCEPT ![p] = TRUE]
  /\ UNCHANGED <<dbVars, lockVars, rd, ch, stray, isGracefulStop, afterStop, callVars>>

StraySetsStop(p) ==
  /\ strayStop[p]
  /\ strayStop' = [strayStop EXCEPT ![p] = FALSE]
  /\ isGracefulStop' = [isGracefulStop EXCEPT ![p] = TRUE]
  /\ UNCHANGED <<dbVars, lockVars, rd, ch, stray, stopCh, afterStop, callVars>>

-----------------------------------------------------------------------------
\* runMigrations: receive, ask stop(), and run one migration.
Receive(p) ==
  /\ ch[p] # <<>>
  /\ Goto(p, "recv", "got")
  /\ cur' = [cur EXCEPT ![p] = Head(ch[p])]
  /\ ch' = [ch EXCEPT ![p] = Tail(@)]
  /\ UNCHANGED <<dbVars, lockVars, rd, stray, strayStop, stopVars, op, result, start>>

\* The ret channel is closed and drained.
RunnerDone(p) ==
  /\ ch[p] = <<>> /\ rd[p].pc = "done"
  /\ GotoResult(p, "recv", "unlock", Err("nil"))
  /\ UNCHANGED <<dbVars, lockVars, readerVars, stopVars, op, cur, start>>

\* Mutant: the flag is looked at between the dirty mark and the body.
RunnerSeesStopLate(p) ==
  /\ isGracefulStop[p]
  /\ GotoResult(p, "body", "unlock", Err("nil"))
  /\ UNCHANGED <<dbVars, lockVars, readerVars, stopVars, op, cur, start>>

RunnerSeesStop(p) ==
  /\ isGracefulStop[p]
  /\ GotoResult(p, "got", "unlock", Err("nil"))
  /\ UNCHANGED <<dbVars, lockVars, readerVars, stopVars, op, cur, start>>

RunnerTakesStop(p) ==
  /\ ~isGracefulStop[p] /\ stopCh[p] = 1
  /\ Goto(p, "got", "stopping")
  /\ stopCh' = [stopCh EXCEPT ![p] = 0]
  /\ UNCHANGED <<dbVars, lockVars, readerVars, isGracefulStop, afterStop,
                 op, cur, result, start>>

RunnerSetsStop(p) ==
  /\ GotoResult(p, "stopping", "unlock", Err("nil"))
  /\ isGracefulStop' = [isGracefulStop EXCEPT ![p] = TRUE]
  /\ UNCHANGED <<dbVars, lockVars, readerVars, stopCh, afterStop, op, cur, start>>

RunnerGoes(p) ==
  /\ ~isGracefulStop[p] /\ stopCh[p] = 0
  /\ IF cur[p].err # "nil"
     THEN GotoResult(p, "got", "unlock", cur[p])
     ELSE Goto(p, "got", "dirty") /\ UNCHANGED result
  /\ UNCHANGED <<dbVars, lockVars, readerVars, stopVars, op, cur, start>>

\* SetVersion(target, true); a migration without a body has nothing to run.
SetDirty(p) ==
  /\ table
  /\ Goto(p, "dirty", IF cur[p].body THEN "body" ELSE "clean")
  /\ Stores(cur[p].target, TRUE)
  /\ schema' = IF cur[p].body THEN schema ELSE cur[p].target
  /\ afterStop' = [afterStop EXCEPT ![p] =
                     IF @ = -1 \/ @ > Prefetch + 2 THEN @ ELSE @ + 1]
  /\ UNCHANGED <<table, tracked, lockVars, readerVars, stopCh, isGracefulStop,
                 op, cur, result, start>>

RunBody(p) ==
  /\ Goto(p, "body", "clean")
  /\ schema' = cur[p].target
  /\ UNCHANGED <<version, dirty, table, tracked, lockVars, readerVars, stopVars,
                 op, cur, result, start>>

BodyFailed(p) ==
  /\ "database" \in Events
  /\ GotoResult(p, "body", "unlock", Err("error"))
  /\ schema' \in {schema, Torn, cur[p].target}
  /\ UNCHANGED <<version, dirty, table, tracked, lockVars, readerVars, stopVars,
                 op, cur, start>>

SetClean(p) ==
  /\ table
  /\ Goto(p, "clean", "recv")
  /\ Stores(cur[p].target, FALSE)
  /\ UNCHANGED <<table, schema, tracked, lockVars, readerVars, stopVars,
                 op, cur, result, start>>

SetVersionFailed(p) ==
  /\ "database" \in Events \/ ~table
  /\ \E s \in {"dirty", "clean"} :
       /\ GotoResult(p, s, "unlock", Err("error"))
       /\ \/ UNCHANGED <<version, dirty>>
          \/ table /\ Stores(cur[p].target, s = "dirty")
  /\ UNCHANGED <<table, schema, tracked, lockVars, readerVars, stopVars,
                 op, cur, start>>

-----------------------------------------------------------------------------
\* The application, or the SIGINT handler of the CLI, asks for a stop, once.
RequestStop(p) ==
  /\ "stop" \in Events
  /\ pc[p] # "closed" /\ afterStop[p] = -1
  /\ stopCh' = [stopCh EXCEPT ![p] = 1]
  /\ afterStop' = [afterStop EXCEPT ![p] = 0]
  /\ UNCHANGED <<dbVars, lockVars, readerVars, isGracefulStop, callVars>>

\* The operator mends a torn schema by hand before they force its version.
Repair ==
  /\ schema = Torn /\ holder = NoProc
  /\ schema' \in Versions \cup {NilVersion}
  /\ UNCHANGED <<version, dirty, table, tracked, lockVars, readerVars, stopVars, callVars>>

ReaderStep(p) ==
  \/ ReaderStart(p) \/ ReaderLoop(p) \/ ReaderPanics(p) \/ ReaderSeesStop(p)
  \/ ReaderTakesStop(p) \/ ReaderSetsStop(p) \/ ReaderSend(p) \/ StraySetsStop(p)

RunnerStep(p) ==
  \/ Receive(p) \/ RunnerDone(p) \/ RunnerSeesStop(p) \/ RunnerTakesStop(p)
  \/ RunnerSetsStop(p) \/ RunnerGoes(p) \/ SetDirty(p) \/ RunBody(p)
  \/ BodyFailed(p) \/ SetClean(p) \/ SetVersionFailed(p)

CallStep(p) ==
  \/ LockRefused(p) \/ LockWaits(p) \/ LockGranted(p) \/ LockFailed(p)
  \/ LockTimedOut(p) \/ ReadVersion(p) \/ VersionFailed(p) \/ Drop(p)
  \/ DropFailed(p) \/ ForceVersion(p) \/ ForceFailed(p) \/ Unlock(p) \/ UnlockFailed(p)

Next ==
  \/ \E p \in Procs :
       \/ Open(p) \/ Crash(p) \/ RequestStop(p) \/ LateLock(p) \/ SourceFailed(p)
       \/ StrayTakesStop(p) \/ CallStep(p) \/ ReaderStep(p) \/ RunnerStep(p)
       \/ \E o \in Ops : Call(p, o)
  \/ Repair

Spec == Init /\ [][Next]_vars

\* Goroutines are scheduled and driver calls return: a running operation and
\* its reader take their steps.  Nobody has to call, stop or crash anything.
Fairness ==
  \A p \in Procs : WF_vars(CallStep(p)) /\ WF_vars(ReaderStep(p)) /\ WF_vars(RunnerStep(p))

FairSpec == Spec /\ Fairness

-----------------------------------------------------------------------------
(***************************************************************************)
(* Properties.                                                             *)
(***************************************************************************)

\* A clean version is the version the schema is really at, whatever failed or
\* crashed before, as long as callers force only versions that are true.
VersionTellsSchema == tracked /\ ~dirty => schema = version

\* "Reads migrations from sources and applies them in correct order": whenever
\* runMigrations is about to run a migration, it is the one that follows from
\* the state the schema is really in (never one on top of a torn schema).
AppliedInOrder ==
  \A p \in Procs :
    tracked /\ pc[p] \in {"dirty", "body"} /\ op[p].kind # "Run"
      => Follows(schema, cur[p])

\* A dirty mark goes away only when the process that owns the lock has run the
\* migration it stands for, or forces a version or drops the database.
DirtyPersists ==
  [][dirty /\ ~dirty' =>
       \E p \in Procs :
         /\ holder = p
         /\ \/ pc[p] = "clean" /\ version = cur[p].target
            \/ pc[p] = "held" /\ op[p].kind \in {"Force", "Drop"}]_vars

\* GracefulStop stops "at a safe break point, so that the database is not
\* corrupted": an operation that reports no error leaves a clean database.
SafeBreakPoint ==
  \A p \in Procs :
    pc[p] = "unlock" /\ op[p].kind \in Reads /\ result[p].err = "nil"
      => ~dirty /\ (tracked => schema = version)

\* What an operation reports is what it did, unless it was asked to stop: nil
\* means the goal is reached, ErrNoChange that it was already, ErrNotExist that
\* nothing was applied, ErrShortLimit by how many steps the goal was missed.
ReportsWhatItDid ==
  \A p \in Procs :
    pc[p] = "unlock" /\ op[p].kind \in Reads /\ afterStop[p] = -1 =>
      Tells(op[p], start[p], version, result[p])

\* "... will stop executing migrations as soon as possible": after the request
\* at most the migrations already read are begun.  (A reader left over from an
\* earlier operation can take the signal and sit on it.)
StopBound ==
  \A p \in Procs : ~stray[p] /\ ~strayStop[p] => afterStop[p] <= Prefetch + 2

\* The engine keeps the discipline of the lock: one process inside at a time,
\* and only while its session owns the database lock.
Lock == INSTANCE LockService WITH
  Instances <- Procs, Callers <- Procs, InstanceOf <- [p \in Procs |-> p],
  NoInstance <- NoProc, inside <- {p \in Procs : pc[p] \in Critical}

LockDiscipline == Lock!Spec

\* Every operation returns.
OperationReturns ==
  \A p \in Procs : pc[p] = "lock" ~> pc[p] \in {"idle", "closed"}

\* "Thread-safe and no goroutine leaks": every reader comes to its end.
NoGoroutineLeak ==
  \A p \in Procs : rd[p].pc # "done" ~> rd[p].pc = "done"
=============================================================================
