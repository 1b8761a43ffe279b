----------------------------- MODULE LockCalls -----------------------------
(***************************************************************************)
(* lock() and unlock() of migrate.go for goroutines that share a Migrate   *)
(* value.  A lock() holds the mutex isLockedMu while it waits for errchan, *)
(* on which two goroutines of its own answer: the timer, and the call of   *)
(* the driver's Lock.  Either may outlive the lock() that started it.  The *)
(* driver is one with a session lock (postgres.go): a flag in front of an  *)
(* advisory lock that a session may take several times.                    *)
(***************************************************************************)
EXTENDS Integers, Sequences

CONSTANTS
  Instances,   \* Migrate values, each with a database session of its own
  NoInstance,  \* nobody owns the database lock
  Callers,     \* goroutines that call operations
  NoCaller,    \* nobody holds a mutex
  InstanceOf,  \* the value each caller uses
  Attempts,    \* numbers of the lock() calls whose goroutines are not over
  NoAttempt

ASSUME LockCallsAssumption ==
  /\ NoInstance \notin Instances /\ NoCaller \notin Callers /\ NoAttempt \notin Attempts
  /\ InstanceOf \in [Callers -> Instances] /\ Attempts \subseteq Nat

VARIABLES
  mutex,     \* who holds isLockedMu of each value
  isLocked,  \* the engine's flag
  flag,      \* the driver's flag
  depth,     \* how many times the session owns the database lock
  pc,        \* where each caller is
  call,      \* the lock() that a caller waits in
  attempt    \* the goroutines and the errchan of each lock()

vars == <<mutex, isLocked, flag, depth, pc, call, attempt>>

ErrChan == {<<>>} \cup {<<a>> : a \in {"nil", "error"}} \cup {<<a, b>> : a, b \in {"nil", "error"}}

Attempt ==
  [inst : Instances \cup {NoInstance},
   errchan : ErrChan,
   timer : {"off", "running"},
   locker : {"off", "started", "asking"}]

\* The types of the variables: no errchan holds more than its two answers.
TypeOK ==
  /\ mutex \in [Instances -> Callers \cup {NoCaller}]
  /\ isLocked \in [Instances -> BOOLEAN] /\ flag \in [Instances -> BOOLEAN]
  /\ depth \in [Instances -> Nat]
  /\ pc \in [Callers -> {"idle", "lock", "wait", "inside", "unlock", "releasing"}]
  /\ call \in [Callers -> Attempts \cup {NoAttempt}]
  /\ attempt \in [Attempts -> Attempt]

Over == [inst |-> NoInstance, errchan |-> <<>>, timer |-> "off", locker |-> "off"]

Init ==
  /\ mutex = [i \in Instances |-> NoCaller]
  /\ isLocked = [i \in Instances |-> FALSE]
  /\ flag = [i \in Instances |-> FALSE]
  /\ depth = [i \in Instances |-> 0]
  /\ pc = [c \in Callers |-> "idle"]
  /\ call = [c \in Callers |-> NoAttempt]
  /\ attempt = [k \in Attempts |-> Over]

Goto(c, place) == pc' = [pc EXCEPT ![c] = place]
Free(i) == mutex[i] = NoCaller
Take(c) == Free(InstanceOf[c]) /\ mutex' = [mutex EXCEPT ![InstanceOf[c]] = c]
Give(c) == mutex' = [mutex EXCEPT ![InstanceOf[c]] = NoCaller]
Pending(k) == \E c \in Callers : call[c] = k

\* An attempt goes on as a.  Its channel is gone with the last that can reach it.
Become(k, a, pending) ==
  attempt' = [attempt EXCEPT ![k] =
    IF ~pending /\ a.timer = "off" /\ a.locker = "off" THEN Over ELSE a]

-----------------------------------------------------------------------------
\* An operation begins.
Call(c) ==
  /\ pc[c] = "idle" /\ Goto(c, "lock")
  /\ UNCHANGED <<mutex, isLocked, flag, depth, call, attempt>>

\* Another caller of this value is inside.
LockRefused(c) ==
  /\ pc[c] = "lock" /\ Free(InstanceOf[c]) /\ isLocked[InstanceOf[c]]
  /\ Goto(c, "idle")
  /\ UNCHANGED <<mutex, isLocked, flag, depth, call, attempt>>

\* lock() makes its channels and starts its goroutines.
LockStarts(c) ==
  /\ pc[c] = "lock" /\ Take(c) /\ ~isLocked[InstanceOf[c]]
  /\ \E k \in Attempts :
       /\ attempt[k] = Over /\ \A j \in Attempts : attempt[j] = Over => k <= j
       /\ call' = [call EXCEPT ![c] = k]
       /\ attempt' = [attempt EXCEPT ![k] =
            [inst |-> InstanceOf[c], errchan |-> <<>>, timer |-> "running", locker |-> "started"]]
  /\ Goto(c, "wait")
  /\ UNCHANGED <<isLocked, flag, depth>>

\* Mutant: after an error lock() resets the driver's flag.
LockReturnsResets(c) ==
  /\ pc[c] = "wait"
  /\ attempt[call[c]].errchan # <<>>
  /\ LET err == Head(attempt[call[c]].errchan) IN
       /\ isLocked' = [isLocked EXCEPT ![InstanceOf[c]] = @ \/ err = "nil"]
       /\ flag' = [flag EXCEPT ![InstanceOf[c]] = @ /\ err = "nil"]
       /\ Goto(c, IF err = "nil" THEN "inside" ELSE "idle")
  /\ Become(call[c], [attempt[call[c]] EXCEPT !.errchan = Tail(@)], FALSE)
  /\ call' = [call EXCEPT ![c] = NoAttempt]
  /\ Give(c)
  /\ UNCHANGED depth

\* Mutant: the mutex is given back only after success.
LockReturnsKeepsMutex(c) ==
  /\ pc[c] = "wait"
  /\ attempt[call[c]].errchan # <<>>
  /\ LET err == Head(attempt[call[c]].errchan) IN
       /\ isLocked' = [isLocked EXCEPT ![InstanceOf[c]] = @ \/ err = "nil"]
       /\ Goto(c, IF err = "nil" THEN "inside" ELSE "idle")
       /\ IF err = "nil" THEN Give(c) ELSE UNCHANGED mutex
  /\ Become(call[c], [attempt[call[c]] EXCEPT !.errchan = Tail(@)], FALSE)
  /\ call' = [call EXCEPT ![c] = NoAttempt]
  /\ UNCHANGED <<flag, depth>>

\* lock() returns with the first answer.
LockReturns(c) ==
  /\ pc[c] = "wait"
  /\ attempt[call[c]].errchan # <<>>
  /\ LET err == Head(attempt[call[c]].errchan) IN
       /\ isLocked' = [isLocked EXCEPT ![InstanceOf[c]] = @ \/ err = "nil"]
       /\ Goto(c, IF err = "nil" THEN "inside" ELSE "idle")
  /\ Become(call[c], [attempt[call[c]] EXCEPT !.errchan = Tail(@)], FALSE)
  /\ call' = [call EXCEPT ![c] = NoAttempt]
  /\ Give(c)
  /\ UNCHANGED <<flag, depth>>

-----------------------------------------------------------------------------
\* A goroutine of lock() ends with an answer, if there is room for it.
Answers(k, goroutine, err) ==
  /\ Len(attempt[k].errchan) < 2
  /\ Become(k, [goroutine EXCEPT !.errchan = Append(@, err)], Pending(k))

\* Mutant: the loop of the timer goroutine has no return.
TimerRepeats(k) ==
  /\ attempt[k].timer = "running"
  /\ Answers(k, attempt[k], "error")
  /\ UNCHANGED <<mutex, isLocked, flag, depth, pc, call>>

\* The timer goroutine: the timeout, or done once lock() has returned.
TimerFires(k) ==
  /\ attempt[k].timer = "running"
  /\ Answers(k, [attempt[k] EXCEPT !.timer = "off"], "error")
  /\ UNCHANGED <<mutex, isLocked, flag, depth, pc, call>>

TimerDone(k) ==
  /\ attempt[k].timer = "running" /\ ~Pending(k)
  /\ Become(k, [attempt[k] EXCEPT !.timer = "off"], FALSE)
  /\ UNCHANGED <<mutex, isLocked, flag, depth, pc, call>>

\* The driver's Lock: CasRestoreOnErr swaps the flag, or returns ErrLocked.
DriverRefuses(k) ==
  /\ attempt[k].locker = "started" /\ flag[attempt[k].inst]
  /\ Answers(k, [attempt[k] EXCEPT !.locker = "off"], "error")
  /\ UNCHANGED <<mutex, isLocked, flag, depth, pc, call>>

\* Mutant: the flag is set, not swapped.
DriverAsksAnyway(k) ==
  /\ attempt[k].locker = "started"
  /\ flag' = [flag EXCEPT ![attempt[k].inst] = TRUE]
  /\ attempt' = [attempt EXCEPT ![k].locker = "asking"]
  /\ UNCHANGED <<mutex, isLocked, depth, pc, call>>

DriverAsks(k) ==
  /\ attempt[k].locker = "started" /\ ~flag[attempt[k].inst]
  /\ flag' = [flag EXCEPT ![attempt[k].inst] = TRUE]
  /\ attempt' = [attempt EXCEPT ![k].locker = "asking"]
  /\ UNCHANGED <<mutex, isLocked, depth, pc, call>>

\* Mutant: the lock is shared.
DriverShares(k) ==
  /\ attempt[k].locker = "asking"
  /\ depth' = [depth EXCEPT ![attempt[k].inst] = @ + 1]
  /\ Answers(k, [attempt[k] EXCEPT !.locker = "off"], "nil")
  /\ UNCHANGED <<mutex, isLocked, flag, pc, call>>

\* The database grants the lock, to a session that has it already as well.
DriverLocks(k) ==
  /\ attempt[k].locker = "asking"
  /\ \A j \in Instances \ {attempt[k].inst} : depth[j] = 0
  /\ depth' = [depth EXCEPT ![attempt[k].inst] = @ + 1]
  /\ Answers(k, [attempt[k] EXCEPT !.locker = "off"], "nil")
  /\ UNCHANGED <<mutex, isLocked, flag, pc, call>>

DriverFails(k) ==
  /\ attempt[k].locker = "asking"
  /\ flag' = [flag EXCEPT ![attempt[k].inst] = FALSE]
  /\ Answers(k, [attempt[k] EXCEPT !.locker = "off"], "error")
  /\ UNCHANGED <<mutex, isLocked, depth, pc, call>>

-----------------------------------------------------------------------------
\* The operation is over.
Leave(c) ==
  /\ pc[c] = "inside" /\ Goto(c, "unlock")
  /\ UNCHANGED <<mutex, isLocked, flag, depth, call, attempt>>

\* unlock(): the driver's flag is swapped before the database is asked.  It is always
\* set here: ErrNotLocked would leave the caller stuck, which CallsReturn rules out.
UnlockStarts(c) ==
  /\ pc[c] = "unlock" /\ flag[InstanceOf[c]]
  /\ Take(c)
  /\ flag' = [flag EXCEPT ![InstanceOf[c]] = FALSE]
  /\ Goto(c, "releasing")
  /\ UNCHANGED <<isLocked, depth, call, attempt>>

Unlocks(c) ==
  /\ pc[c] = "releasing"
  /\ depth' = [depth EXCEPT ![InstanceOf[c]] = @ - 1]
  /\ isLocked' = [isLocked EXCEPT ![InstanceOf[c]] = FALSE]
  /\ Give(c) /\ Goto(c, "idle")
  /\ UNCHANGED <<flag, call, attempt>>

\* The flags stay set, whether the database released the lock or not.
UnlockFails(c) ==
  /\ pc[c] = "releasing"
  /\ depth' \in {depth, [depth EXCEPT ![InstanceOf[c]] = @ - 1]}
  /\ flag' = [flag EXCEPT ![InstanceOf[c]] = TRUE]
  /\ Give(c) /\ Goto(c, "idle")
  /\ UNCHANGED <<isLocked, call, attempt>>

\* The process dies, with all its goroutines, and its session ends.  A new one
\* takes its place.
Crash(i) ==
  /\ mutex' = [mutex EXCEPT ![i] = NoCaller]
  /\ isLocked' = [isLocked EXCEPT ![i] = FALSE]
  /\ flag' = [flag EXCEPT ![i] = FALSE]
  /\ depth' = [depth EXCEPT ![i] = 0]
  /\ pc' = [c \in Callers |-> IF InstanceOf[c] = i THEN "idle" ELSE pc[c]]
  /\ call' = [c \in Callers |-> IF InstanceOf[c] = i THEN NoAttempt ELSE call[c]]
  /\ attempt' = [k \in Attempts |-> IF attempt[k].inst = i THEN Over ELSE attempt[k]]

\* Other processes take and release the lock with sessions that nobody here uses.
Others == {i \in Instances : \A c \in Callers : InstanceOf[c] # i}

OtherLocks(i) ==
  /\ \A j \in Instances : depth[j] = 0
  /\ depth' = [depth EXCEPT ![i] = 1]
  /\ UNCHANGED <<mutex, isLocked, flag, pc, call, attempt>>

OtherUnlocks(i) ==
  /\ depth[i] = 1
  /\ depth' = [depth EXCEPT ![i] = 0]
  /\ UNCHANGED <<mutex, isLocked, flag, pc, call, attempt>>

Next ==
  \/ \E c \in Callers :
       \/ Call(c) \/ LockRefused(c) \/ LockStarts(c) \/ LockReturns(c)
       \/ Leave(c) \/ UnlockStarts(c) \/ Unlocks(c) \/ UnlockFails(c)
  \/ \E k \in Attempts :
       \/ TimerFires(k) \/ TimerDone(k)
       \/ DriverRefuses(k) \/ DriverAsks(k) \/ DriverLocks(k) \/ DriverFails(k)
  \/ \E i \in Instances : Crash(i)
  \/ \E i \in Others : OtherLocks(i) \/ OtherUnlocks(i)

Spec == Init /\ [][Next]_vars

\* Goroutines run, a Go mutex starves nobody and the timer fires.  The database need
\* not answer, neither a Lock nor an Unlock, and nobody need call or leave.
FairSpec ==
  /\ Spec
  /\ \A c \in Callers :
       /\ SF_vars(LockRefused(c) \/ LockStarts(c) \/ UnlockStarts(c))
       /\ WF_vars(LockReturns(c))
  /\ \A k \in Attempts :
       WF_vars(TimerFires(k) \/ TimerDone(k) \/ DriverRefuses(k) \/ DriverAsks(k))

-----------------------------------------------------------------------------
(***************************************************************************)
(* Properties.                                                             *)
(***************************************************************************)

Holder ==
  IF \E i \in Instances : depth[i] > 0
  THEN CHOOSE i \in Instances : depth[i] > 0
  ELSE NoInstance

Inside == {c \in Callers : pc[c] \in {"inside", "unlock", "releasing"}}

Lock == INSTANCE LockService WITH holder <- Holder, inside <- Inside

\* "Thread-safe": lock() and unlock() keep the discipline of the lock for any
\* goroutines on any values, with answers of earlier lock() calls that come late.
LockDiscipline == Lock!Spec

\* One unlock() releases the lock: whoever is inside owns it once, although a
\* session may take it several times and a late Lock runs on the same session.
OwnedOnce ==
  \A c \in Callers : pc[c] \in {"inside", "unlock"} => depth[InstanceOf[c]] = 1

\* A value never forgets a lock of its session: one of its flags is set, or an
\* unlock() is on its way.
NoOrphan ==
  \A i \in Instances \ Others :
    depth[i] > 0 => flag[i] \/ isLocked[i] \/ \E c \in Inside : InstanceOf[c] = i

\* A call of this value is in the driver's Unlock, with the mutex.
Unlocking(i) == \E c \in Callers : InstanceOf[c] = i /\ pc[c] = "releasing"

\* lock() and unlock() return, also when the database never grants the lock and
\* other callers of the value hold the mutex.  The one exception is the deadlock
\* that a comment of unlock() warns of: it has no timeout, and an Unlock that is
\* never answered keeps the mutex from every other call of the value.
CallsReturn ==
  \A c \in Callers :
    \/ pc[c] \in {"lock", "wait", "unlock", "releasing"} ~> pc[c] \in {"idle", "inside"}
    \/ <>[]Unlocking(InstanceOf[c])

\* No goroutine of a lock() blocks on its answer: errchan has room, however late it
\* comes and whether or not the lock() has returned.
RoomToAnswer ==
  \A k \in Attempts :
    attempt[k].timer = "running" \/ attempt[k].locker # "off" => Len(attempt[k].errchan) < 2
=============================================================================
