----------------------------- MODULE DriverLock -----------------------------
(***************************************************************************)
(* Lock and Unlock of the database drivers.  Every driver value has a flag *)
(* isLocked, which it swaps before it turns to the database and swaps back *)
(* when that fails.  Behind the flag there is a lock of the database       *)
(* session, a row of a lock table, a document under a unique index, or     *)
(* nothing.  Processes open a driver value each, lock, drop, unlock, fail  *)
(* and crash.                                                              *)
(***************************************************************************)
EXTENDS Integers

CONSTANTS
  Procs,    \* processes, each with one driver value
  NoProc,   \* nobody owns the session lock
  Drivers,  \* the drivers under study
  Drops     \* Drop may be called on drivers that keep their lock in a table

Driver ==
  [kind : {"session", "row", "document", "flag"},
   taken : {"waits", "ErrLocked", "error", "ignored"}] \* what Lock makes of a lock that is taken

ASSUME DriverLockAssumption ==
  /\ NoProc \notin Procs
  /\ Drivers \subseteq Driver
  /\ Drops \in BOOLEAN

-----------------------------------------------------------------------------
\* The drivers.  Oracle sets its flag after the call and not before, which one
\* caller per driver value cannot tell apart.
Locking(kind, taken) == [kind |-> kind, taken |-> taken]
FlagOnly == Locking("flag", "ErrLocked")

postgres == Locking("session", "waits")
pgx == Locking("session", "waits")
mysql == Locking("session", "ErrLocked")
mysqlNoLock == FlagOnly
sqlserver == Locking("session", "error")
oracle == Locking("session", "ignored")
cockroachdb == Locking("row", "ErrLocked")
cockroachdbForce == Locking("row", "error")
mongodb == Locking("document", "ErrLocked")
cassandra == FlagOnly
clickhouse == FlagOnly
firebird == FlagOnly
neo4j == FlagOnly
ql == FlagOnly
redshift == FlagOnly
snowflake == FlagOnly
spanner == FlagOnly
sqlcipher == FlagOnly
sqlite == FlagOnly
sqlite3 == FlagOnly

-----------------------------------------------------------------------------
VARIABLES
  driver,
  owner,     \* the process whose session owns the lock
  table,     \* the lock table, or the unique index of the lock collection, exists
  locks,     \* rows or documents that say "locked": none, one, or several (2)
  isLocked,  \* the flag of each driver value
  opening,   \* the process is still in Open, which locks for ensureVersionTable
  pc         \* where each process is

db == <<owner, table, locks>>
vars == <<driver, db, isLocked, opening, pc>>

\* The types of the variables.
TypeOK ==
  /\ driver \in Drivers
  /\ owner \in Procs \cup {NoProc}
  /\ table \in BOOLEAN /\ locks \in 0..2
  /\ isLocked \in [Procs -> BOOLEAN]
  /\ opening \in [Procs -> BOOLEAN]
  /\ pc \in [Procs -> {"closed", "failed", "idle", "locking", "inside", "dropped", "unlocking"}]

Init ==
  /\ driver \in Drivers
  /\ owner = NoProc /\ table = FALSE /\ locks = 0
  /\ isLocked = [p \in Procs |-> FALSE]
  /\ opening = [p \in Procs |-> FALSE]
  /\ pc = [p \in Procs |-> "closed"]

InTable == driver.kind \in {"row", "document"}

Goto(p, place) == pc' = [pc EXCEPT ![p] = place]
Flag(p, b) == isLocked' = [isLocked EXCEPT ![p] = b]

\* A call returns an error: when it was Open that made it, no driver value is left.
Fail(p) == Goto(p, IF opening[p] THEN "failed" ELSE "idle")

-----------------------------------------------------------------------------
\* The flag is swapped; a driver without a database lock is done.
Swap(p) ==
  /\ ~isLocked[p] /\ Flag(p, TRUE)
  /\ Goto(p, IF driver.kind = "flag" THEN "inside" ELSE "locking")

\* Open ensures the lock table, then locks.  CREATE INDEX fails over two documents.
Open(p) ==
  /\ pc[p] = "closed"
  /\ driver.kind = "document" /\ ~table => locks < 2
  /\ table' = (table \/ InTable)
  /\ opening' = [opening EXCEPT ![p] = TRUE]
  /\ Swap(p)
  /\ UNCHANGED <<driver, owner, locks>>

\* Open fails before it locks: the database, the index over two documents, or two
\* processes that create the lock table.
OpenError(p) ==
  /\ pc[p] = "closed"
  /\ Goto(p, "failed")
  /\ UNCHANGED <<driver, db, isLocked, opening>>

\* A flag that is set makes Lock return ErrLocked and changes nothing.
Lock(p) ==
  /\ pc[p] = "idle"
  /\ Swap(p)
  /\ UNCHANGED <<driver, db, opening>>

\* The database refuses the lock.  A session may take its own lock again, and
\* without the unique index any document is accepted.
Taken(p) ==
  \/ driver.kind = "session" /\ owner \notin {NoProc, p}
  \/ driver.kind = "row" /\ locks > 0
  \/ driver.kind = "document" /\ table /\ locks > 0

\* Mutant: the SELECT that looks for a lock row, and its primary key, are missing.
RecordAnyway(p) ==
  IF driver.kind = "session"
  THEN owner' = p /\ UNCHANGED locks
  ELSE locks' = 1 /\ UNCHANGED owner

\* The database records the lock.  INSERT needs the table, a document does not.
Record(p) ==
  /\ ~Taken(p)
  /\ driver.kind = "row" => table
  /\ IF driver.kind = "session"
     THEN owner' = p /\ UNCHANGED locks
     ELSE locks' = (IF locks = 0 THEN 1 ELSE 2) /\ UNCHANGED owner

\* Lock returns nil.  The result of Oracle's dbms_lock.request is written to the
\* output and dropped, so that a request that timed out counts as granted.
LockGranted(p) ==
  /\ pc[p] = "locking"
  /\ IF Taken(p) /\ driver.taken = "ignored" THEN UNCHANGED <<owner, locks>> ELSE Record(p)
  /\ Goto(p, "inside")
  /\ UNCHANGED <<driver, table, isLocked, opening>>

\* At once, after GET_LOCK's ten seconds, or when the backoff ends.  With
\* x-force-lock the row is inserted all the same and the primary key refuses it.
LockRefused(p) ==
  /\ pc[p] = "locking"
  /\ Taken(p) /\ driver.taken \in {"ErrLocked", "error"}
  /\ Flag(p, FALSE) /\ Fail(p)
  /\ UNCHANGED <<driver, db, opening>>

\* The database fails, or takes the row and its answer is lost.
LockError(p) ==
  /\ pc[p] = "locking"
  /\ Flag(p, FALSE) /\ Fail(p)
  /\ UNCHANGED <<owner, locks>> \/ (InTable /\ Record(p))
  /\ UNCHANGED <<driver, table, opening>>

-----------------------------------------------------------------------------
\* Drop deletes the lock table or collection with everything else.
Drop(p) ==
  /\ pc[p] = "inside" /\ ~opening[p]
  /\ InTable => Drops
  /\ IF InTable THEN table' = FALSE /\ locks' = 0 ELSE UNCHANGED <<table, locks>>
  /\ Goto(p, "dropped")
  /\ UNCHANGED <<driver, owner, isLocked, opening>>

\* The flag is swapped back; Open is over when a flag is all there is.
Unlock(p) ==
  /\ pc[p] \in {"inside", "dropped"}
  /\ Flag(p, FALSE)
  /\ IF driver.kind = "flag"
     THEN Goto(p, "idle") /\ opening' = [opening EXCEPT ![p] = FALSE]
     ELSE Goto(p, "unlocking") /\ UNCHANGED opening
  /\ UNCHANGED <<driver, db>>

\* The database forgets the lock: the one of this session, or whatever row is there.
Forget(p) ==
  /\ owner' = IF owner = p THEN NoProc ELSE owner
  /\ locks' = IF InTable THEN 0 ELSE locks

Unlocked(p) ==
  /\ pc[p] = "unlocking"
  /\ Forget(p) /\ Goto(p, "idle")
  /\ opening' = [opening EXCEPT ![p] = FALSE]
  /\ UNCHANGED <<driver, table, isLocked>>

\* Mutant: the flag is not restored.
UnlockErrorForgets(p) ==
  /\ pc[p] = "unlocking"
  /\ Fail(p)
  /\ UNCHANGED <<driver, db, isLocked, opening>>

\* The flag is restored, whether the database forgot the lock or not.
UnlockError(p) ==
  /\ pc[p] = "unlocking"
  /\ Flag(p, TRUE) /\ Fail(p)
  /\ UNCHANGED <<owner, locks>> \/ Forget(p)
  /\ UNCHANGED <<driver, table, opening>>

\* The process dies or closes: its session ends, a row of a table stays.
Crash(p) ==
  /\ pc[p] # "closed"
  /\ Goto(p, "closed") /\ Flag(p, FALSE)
  /\ opening' = [opening EXCEPT ![p] = FALSE]
  /\ owner' = IF owner = p THEN NoProc ELSE owner
  /\ UNCHANGED <<driver, table, locks>>

Next ==
  \E p \in Procs :
    \/ Open(p) \/ OpenError(p) \/ Lock(p)
    \/ LockGranted(p) \/ LockRefused(p) \/ LockError(p)
    \/ Drop(p) \/ Unlock(p) \/ Unlocked(p) \/ UnlockError(p) \/ Crash(p)

Spec == Init /\ [][Next]_vars

-----------------------------------------------------------------------------
(***************************************************************************)
(* Properties.                                                             *)
(***************************************************************************)

\* "Lock should acquire a database lock so that only one migration process can
\* run at a time": with a driver that locks the database, two processes are never
\* both between a Lock that returned nil and their Drop or Unlock.
OneProcess ==
  driver.kind # "flag" =>
    \A p, q \in Procs : pc[p] = "inside" /\ pc[q] = "inside" => p = q

\* A session never owns a lock that its driver value does not know of, whatever
\* failed before: CasRestoreOnErr restores the flag, else no Unlock could follow.
NoOrphan ==
  \A p \in Procs : owner = p /\ pc[p] # "unlocking" => isLocked[p]
=============================================================================
