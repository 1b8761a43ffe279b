---------------------------- MODULE DriverTables ----------------------------
(***************************************************************************)
(* Open, ensureVersionTable, Drop and Close of the database drivers, by    *)
(* statement.  Open goes through its driver's steps (a pool, a session of  *)
(* its own, names to look up), then makes sure that the version table is   *)
(* there.  Drop lists the tables and deletes them one by one.  Processes   *)
(* open, migrate, drop and close on one database; any statement may fail   *)
(* before or after it took effect, and any process may die.                *)
(***************************************************************************)
EXTENDS Integers, Sequences

CONSTANTS
  Procs,      \* processes, each with at most one driver value
  NoProc,     \* nobody owns the lock
  Drivers,    \* the drivers under study
  UserTables, \* tables that migrations create
  References  \* pairs <<t, u>> of user tables where t has a foreign key into u

VersionTable == "schema_migrations"
LockTable == "schema_lock"
Tables == UserTables \cup {VersionTable, LockTable}

Driver ==
  [open : Seq({"options", "pool", "ping", "names", "session"}),
   lock : {"session", "row", "flag"},             \* what Lock takes
   lockTable : {"none", "table", "index"},        \* what Open creates for the lock first
   check : {"none", "asks", "probes"},            \* how it looks for the version table
   create : {"none", "ifNotExists", "strict"},    \* how it creates it
   drop : {"ifExists", "strict", "nothing", "all"},
   order : {"free", "referencing", "any"},        \* of the DROP statements
   listing : {"error", "ignored"},                \* what becomes of an error of the listing
   spares : {"nothing", "unlisted", "misnamed"}]  \* how Drop passes over the version table

ASSUME DriverTablesAssumption ==
  /\ NoProc \notin Procs
  /\ Drivers \subseteq Driver
  /\ \A d \in Drivers : d.lockTable # "none" => d.lock = "row"
  /\ VersionTable \notin UserTables /\ LockTable \notin UserTables
  /\ References \subseteq UserTables \X UserTables

\* A driver whose CREATE TABLE does not say IF NOT EXISTS looks for the table first, and
\* one that creates none (MongoDB) reads the version; one that puts its DROP TABLE
\* statements in order (Spanner) has a full listing and does not say IF EXISTS; a DROP
\* TABLE that misses its table does, and so does not fail.
ASSUME StatementsAssumption ==
  \A d \in Drivers :
    /\ d.create # "ifNotExists" => d.check # "none"
    /\ d.order = "referencing" =>
         d.listing = "error" /\ d.drop = "strict" /\ d.spares = "nothing"
    /\ d.spares = "misnamed" => d.drop = "ifExists"

-----------------------------------------------------------------------------
\* The steps of Open before ensureVersionTable.
postgresOpen == <<"options", "pool", "options", "ping", "session", "names">>
pgxOpen == <<"options", "pool", "options", "ping", "names", "session">>
mysqlOpen == <<"options", "pool", "ping", "session", "names">>
sqlserverOpen == <<"options", "pool", "ping", "names", "session">>
oracleOpen == <<"options", "pool", "options", "ping", "names", "session">>
redshiftOpen == <<"options", "pool", "ping", "names", "session">>
snowflakeOpen == <<"options", "pool", "ping", "names", "session">>
cockroachdbOpen == <<"options", "pool", "ping", "names">>
spannerOpen == <<"options", "pool", "pool", "options">>
firebirdOpen == <<"options", "pool", "ping", "session">>
mongodbOpen == <<"options", "pool", "ping">>
cassandraOpen == <<"options", "pool", "options">>
clickhouseOpen == <<"options", "pool", "options", "names">>
sqliteOpen == <<"options", "pool", "options", "ping">>
qlOpen == <<"options", "pool", "ping">>

\* The drivers.  "free": CASCADE, or without foreign keys, or after switching
\* them off; "referencing": a table goes after those that refer to it.  Oracle's
\* lock keeps nobody out, because Lock ignores its answer (module DriverLock).
Sql(open, lock, check, create) ==
  [open |-> open, lock |-> lock, lockTable |-> "none", check |-> check, create |-> create,
   drop |-> "ifExists", order |-> "free", listing |-> "error", spares |-> "nothing"]

\* Mutant: Lock on whatever connection the pool hands out.
postgresPooled == Sql(cockroachdbOpen, "session", "asks", "ifNotExists")

postgres == Sql(postgresOpen, "session", "asks", "ifNotExists")
pgx == Sql(pgxOpen, "session", "asks", "ifNotExists")

\* x-migrations-table names another schema than the current one, which is the only one
\* that Drop lists.
postgresElsewhere == [postgres EXCEPT !.spares = "unlisted"]
pgxElsewhere == [pgx EXCEPT !.spares = "unlisted"]

mysql == Sql(mysqlOpen, "session", "asks", "strict")
sqlserver == [Sql(sqlserverOpen, "session", "none", "ifNotExists") EXCEPT !.drop = "strict"]
oracle ==
  [Sql(oracleOpen, "flag", "none", "ifNotExists") EXCEPT !.order = "any", !.listing = "ignored"]
cockroachdb == [Sql(cockroachdbOpen, "row", "asks", "strict") EXCEPT !.lockTable = "table"]
redshift == Sql(redshiftOpen, "flag", "asks", "strict")

\* CREATE TABLE quotes the name of the version table, DROP TABLE does not: Snowflake
\* reads it in capitals there and finds no such table.
snowflake ==
  [Sql(snowflakeOpen, "flag", "asks", "ifNotExists") EXCEPT !.spares = "misnamed"]

spanner ==
  [Sql(spannerOpen, "flag", "probes", "strict") EXCEPT !.drop = "strict", !.order = "referencing"]
sqlite3 == [Sql(sqliteOpen, "flag", "none", "ifNotExists") EXCEPT !.drop = "strict"]
sqlite == [Sql(sqliteOpen, "flag", "none", "ifNotExists") EXCEPT !.drop = "strict"]
sqlcipher == [Sql(sqliteOpen, "flag", "none", "ifNotExists") EXCEPT !.drop = "strict"]
ql == [Sql(qlOpen, "flag", "none", "ifNotExists") EXCEPT !.drop = "strict"]
firebird == [Sql(firebirdOpen, "flag", "none", "ifNotExists") EXCEPT !.drop = "nothing"]
clickhouse == Sql(clickhouseOpen, "flag", "asks", "strict")
cassandra ==
  [Sql(cassandraOpen, "flag", "none", "ifNotExists") EXCEPT !.drop = "strict", !.listing = "ignored"]

\* ensureVersionTable reads the version, which creates nothing.
mongodb ==
  [Sql(mongodbOpen, "row", "asks", "none") EXCEPT !.lockTable = "index", !.drop = "all"]

-----------------------------------------------------------------------------
VARIABLES
  driver,
  team,    \* the processes that take part
  tables,  \* the tables of the database
  holder,  \* who owns the database lock
  pc,      \* where each process is
  op,      \* what it is about: "open" or "drop"
  step,    \* the step of Open it is at
  held,    \* what it has opened: a pool, a session of its own
  todo,    \* the tables its Drop still has to delete
  result   \* what its operation will return; "clash" is an error over the tables
           \* it found, "error" any other

vars == <<driver, team, tables, holder, pc, op, step, held, todo, result>>

Places ==
  {"none", "opening", "lockTable", "newLockTable", "locking", "checking", "creating",
   "listing", "dropping", "unlocking", "ready", "stuck", "failed"}

\* The types of the variables.
TypeOK ==
  /\ driver \in Drivers /\ team \subseteq Procs
  /\ tables \subseteq Tables /\ holder \in Procs \cup {NoProc}
  /\ pc \in [Procs -> Places] /\ op \in [Procs -> {"open", "drop"}]
  /\ step \in [Procs -> 1..Len(driver.open)]
  /\ held \in [Procs -> SUBSET {"pool", "session"}]
  /\ todo \in [Procs -> SUBSET Tables]
  /\ result \in [Procs -> {"nil", "error", "clash"}]

Init ==
  /\ driver \in Drivers /\ team \in SUBSET Procs \ {{}}
  /\ tables = {} /\ holder = NoProc
  /\ pc = [p \in Procs |-> "none"] /\ op = [p \in Procs |-> "open"]
  /\ step = [p \in Procs |-> 1]
  /\ held = [p \in Procs |-> {}] /\ todo = [p \in Procs |-> {}]
  /\ result = [p \in Procs |-> "nil"]

Goto(p, place) == pc' = [pc EXCEPT ![p] = place]
Result(p, r) == result' = [result EXCEPT ![p] = r]

\* Without a lock in the database, Lock and Unlock only swap a flag.
Locks == driver.lock # "flag"

\* The lock is taken.  MongoDB's documents are refused by the unique index only.
Taken == holder # NoProc /\ (driver.lockTable = "index" => LockTable \in tables)

\* The table that a lock row goes into is there.  A document creates its collection.
HasLockTable == driver.lockTable = "table" => LockTable \in tables

\* Who may own the lock once an Unlock of p has reached the database.  It deletes
\* whatever row is there; a lock of a session it releases on the connection it goes
\* through, which is the one that locked if p has set a session aside, and any one of
\* the pool's otherwise.
Released(p) ==
  IF driver.lock = "row" THEN {NoProc}
  ELSE IF holder # p THEN {holder}
  ELSE IF "session" \in held[p] THEN {NoProc} ELSE {NoProc, p}

\* A lock row goes with its table.
Without(t) == IF t = LockTable /\ driver.lock = "row" THEN NoProc ELSE holder

-----------------------------------------------------------------------------
Open(p) ==
  /\ pc[p] = "none"
  /\ Goto(p, "opening") /\ step' = [step EXCEPT ![p] = 1]
  /\ op' = [op EXCEPT ![p] = "open"] /\ Result(p, "nil")
  /\ UNCHANGED <<driver, team, tables, holder, held, todo>>

Opens(what) == what \in {"pool", "session"}

OpenStep(p) ==
  /\ pc[p] = "opening"
  /\ LET what == driver.open[step[p]]
     IN  held' = [held EXCEPT ![p] = IF Opens(what) THEN @ \cup {what} ELSE @]
  /\ IF step[p] < Len(driver.open)
     THEN step' = [step EXCEPT ![p] = @ + 1] /\ UNCHANGED pc
     ELSE /\ Goto(p, CASE driver.lockTable = "table" -> "lockTable"
                       [] driver.lockTable = "index" -> "newLockTable"
                       [] OTHER -> "locking")
          /\ UNCHANGED step
  /\ UNCHANGED <<driver, team, tables, holder, op, todo, result>>

\* Nothing that Open has opened so far is closed.
OpenFails(p) ==
  /\ pc[p] \in {"opening", "lockTable", "newLockTable"}
  /\ Goto(p, "failed") /\ Result(p, "error")
  /\ \/ UNCHANGED tables
     \/ pc[p] = "newLockTable" /\ tables' = tables \cup {LockTable}
  /\ UNCHANGED <<driver, team, holder, op, step, held, todo>>

\* ensureLockTable, before there is a lock, looks for the table.
FindLockTable(p) ==
  /\ pc[p] = "lockTable"
  /\ Goto(p, IF LockTable \in tables THEN "locking" ELSE "newLockTable")
  /\ UNCHANGED <<driver, team, tables, holder, op, step, held, todo, result>>

\* CREATE TABLE, or the unique index of the collection, which may be there already.
CreateLockTable(p) ==
  /\ pc[p] = "newLockTable"
  /\ IF LockTable \in tables /\ driver.lockTable = "table"
     THEN Goto(p, "failed") /\ Result(p, "clash") /\ UNCHANGED tables
     ELSE Goto(p, "locking") /\ tables' = tables \cup {LockTable} /\ UNCHANGED result
  /\ UNCHANGED <<driver, team, holder, op, step, held, todo>>

-----------------------------------------------------------------------------
\* Where the operation goes once it has the lock.
Inside(p) ==
  CASE op[p] = "drop" -> IF driver.drop = "all" THEN "dropping" ELSE "listing"
    [] op[p] = "open" -> IF driver.check = "none" THEN "creating" ELSE "checking"

\* Mutant: Drop does not wait for the lock.
LockUnlessDrop(p) ==
  /\ pc[p] = "locking"
  /\ ~Taken \/ op[p] = "drop"
  /\ holder' = IF Locks THEN p ELSE holder
  /\ Goto(p, Inside(p))
  /\ UNCHANGED <<driver, team, tables, op, step, held, todo, result>>

Lock(p) ==
  /\ pc[p] = "locking"
  /\ ~Taken /\ HasLockTable
  /\ holder' = IF Locks THEN p ELSE holder
  /\ Goto(p, Inside(p))
  /\ UNCHANGED <<driver, team, tables, op, step, held, todo, result>>

\* Lock is refused or fails; a row may have gone in all the same.
LockFails(p) ==
  /\ pc[p] = "locking" /\ Locks
  /\ Goto(p, IF op[p] = "open" THEN "failed" ELSE "ready") /\ Result(p, "error")
  /\ \/ UNCHANGED holder
     \/ driver.lock = "row" /\ ~Taken /\ HasLockTable /\ holder' = p
  /\ UNCHANGED <<driver, team, tables, op, step, held, todo>>

Unlock(p) ==
  /\ pc[p] = "unlocking"
  /\ holder' \in Released(p)
  /\ Goto(p, IF op[p] = "open" /\ result[p] # "nil" THEN "failed" ELSE "ready")
  /\ UNCHANGED <<driver, team, tables, op, step, held, todo, result>>

\* The error of Unlock is returned too; the database may keep the lock.  The flag of
\* the driver value is set again, so that every later Lock of it returns ErrLocked.
UnlockFails(p) ==
  /\ pc[p] = "unlocking" /\ Locks
  /\ holder' \in {holder} \cup Released(p)
  /\ Goto(p, IF op[p] = "open" THEN "failed" ELSE "stuck")
  /\ Result(p, IF result[p] = "nil" THEN "error" ELSE result[p])
  /\ UNCHANGED <<driver, team, tables, op, step, held, todo>>

-----------------------------------------------------------------------------
\* ensureVersionTable looks for the table.
Check(p) ==
  /\ pc[p] = "checking"
  /\ Goto(p, IF VersionTable \in tables \/ driver.create = "none" THEN "unlocking" ELSE "creating")
  /\ UNCHANGED <<driver, team, tables, holder, op, step, held, todo, result>>

\* Spanner reads the table and takes any error for a table that is not there.
CheckFails(p) ==
  /\ pc[p] = "checking"
  /\ IF driver.check = "probes"
     THEN Goto(p, "creating") /\ UNCHANGED result
     ELSE Goto(p, "unlocking") /\ Result(p, "error")
  /\ UNCHANGED <<driver, team, tables, holder, op, step, held, todo>>

\* Mutant: the table is created by the first SetVersion.
CreateLater(p) ==
  /\ pc[p] = "creating"
  /\ Goto(p, "unlocking")
  /\ UNCHANGED <<driver, team, tables, holder, op, step, held, todo, result>>

\* CREATE TABLE, with or without IF NOT EXISTS.
Create(p) ==
  /\ pc[p] = "creating"
  /\ Goto(p, "unlocking")
  /\ tables' = tables \cup {VersionTable}
  /\ IF driver.create = "strict" /\ VersionTable \in tables
     THEN Result(p, "clash") ELSE UNCHANGED result
  /\ UNCHANGED <<driver, team, holder, op, step, held, todo>>

CreateFails(p) ==
  /\ pc[p] = "creating"
  /\ Goto(p, "unlocking") /\ Result(p, "error")
  /\ tables' \in {tables, tables \cup {VersionTable}}
  /\ UNCHANGED <<driver, team, holder, op, step, held, todo>>

-----------------------------------------------------------------------------
\* A migration creates a table, as one step between Lock and Unlock; MongoDB
\* creates the collection of its version on the way.
Migrate(p, t) ==
  /\ pc[p] = "ready"
  /\ ~Taken /\ HasLockTable
  /\ t \in UserTables \ tables
  /\ \A u \in UserTables : <<t, u>> \in References => u \in tables
  /\ driver.create # "none" => VersionTable \in tables
  /\ tables' = tables \cup {t, VersionTable}
  /\ holder' = IF Locks THEN NoProc ELSE holder
  /\ UNCHANGED <<driver, team, pc, op, step, held, todo, result>>

\* The engine's Drop takes the lock first.
Drop(p) ==
  /\ pc[p] = "ready"
  /\ Goto(p, "locking") /\ op' = [op EXCEPT ![p] = "drop"] /\ Result(p, "nil")
  /\ UNCHANGED <<driver, team, tables, holder, step, held, todo>>

\* The tables of the schema that Drop lists.
Visible == IF driver.spares = "unlisted" THEN tables \ {VersionTable} ELSE tables

\* Mutant: only the tables that migrations created.
ListUserTables(p) ==
  /\ pc[p] = "listing"
  /\ Goto(p, "dropping")
  /\ todo' = [todo EXCEPT ![p] = Visible \cap UserTables]
  /\ UNCHANGED <<driver, team, tables, holder, op, step, held, result>>

\* The tables of the schema, or those before an error that is not looked at.
List(p) ==
  /\ pc[p] = "listing"
  /\ Goto(p, "dropping")
  /\ \E names \in SUBSET Visible :
       /\ driver.listing = "error" => names = Visible
       /\ todo' = [todo EXCEPT ![p] = names]
  /\ UNCHANGED <<driver, team, tables, holder, op, step, held, result>>

ListFails(p) ==
  /\ pc[p] = "listing"
  /\ Goto(p, "unlocking") /\ Result(p, "error")
  /\ UNCHANGED <<driver, team, tables, holder, op, step, held, todo>>

\* A table that one still in the set us refers to.
Referenced(t, us) == \E u \in us : <<u, t>> \in References

\* Mutant: the order of the listing.
NextUp(p) == todo[p]

\* The tables that may come next.
NextTables(p) ==
  IF driver.order = "referencing"
  THEN {t \in todo[p] : ~Referenced(t, todo[p] \ {t})} ELSE todo[p]

\* DROP TABLE fails on a table that is gone, unless it says IF EXISTS, and on one
\* that another table refers to.
Clashes(t) ==
  /\ driver.drop # "nothing"
  /\ \/ driver.drop = "strict" /\ t \notin tables
     \/ driver.order # "free" /\ t \in tables /\ Referenced(t, tables \ {t})

\* The table is deleted, unless the statement does not name it.  Firebird deletes a
\* table only if it does not exist.
Gone(t) ==
  IF driver.drop = "nothing" \/ (driver.spares = "misnamed" /\ t = VersionTable)
  THEN tables ELSE tables \ {t}

DropTable(p) ==
  /\ pc[p] = "dropping" /\ driver.drop # "all"
  /\ \E t \in NextTables(p) :
       IF Clashes(t)
       THEN Goto(p, "unlocking") /\ Result(p, "clash") /\ UNCHANGED <<tables, holder, todo>>
       ELSE /\ tables' = Gone(t) /\ holder' = Without(t)
            /\ todo' = [todo EXCEPT ![p] = @ \ {t}]
            /\ UNCHANGED <<pc, result>>
  /\ UNCHANGED <<driver, team, op, step, held>>

\* MongoDB drops the database, its locks included.
DropAll(p) ==
  /\ pc[p] = "dropping" /\ driver.drop = "all"
  /\ tables' = {} /\ holder' = Without(LockTable)
  /\ Goto(p, "unlocking")
  /\ UNCHANGED <<driver, team, op, step, held, todo, result>>

\* A statement fails, or takes effect and its answer is lost; Drop returns at once.
DropFails(p) ==
  /\ pc[p] = "dropping"
  /\ Goto(p, "unlocking") /\ Result(p, "error")
  /\ \/ UNCHANGED <<tables, holder>>
     \/ driver.drop = "all" /\ tables' = {} /\ holder' = Without(LockTable)
     \/ /\ driver.drop # "all"
        /\ \E t \in NextTables(p) :
             ~Clashes(t) /\ tables' = Gone(t) /\ holder' = Without(t)
  /\ UNCHANGED <<driver, team, op, step, held, todo>>

DropDone(p) ==
  /\ pc[p] = "dropping" /\ driver.drop # "all" /\ todo[p] = {}
  /\ Goto(p, "unlocking")
  /\ UNCHANGED <<driver, team, tables, holder, op, step, held, todo, result>>

-----------------------------------------------------------------------------
\* The process gives up its connections, and a lock of its session with them.
Leave(p) ==
  /\ Goto(p, "none")
  /\ held' = [held EXCEPT ![p] = {}] /\ todo' = [todo EXCEPT ![p] = {}]
  /\ holder' = IF driver.lock = "session" /\ holder = p THEN NoProc ELSE holder
  /\ UNCHANGED <<driver, team, tables, op, step, result>>

\* Close closes the session and the pool, whatever the first one returns.
Close(p) == pc[p] \in {"ready", "stuck"} /\ Leave(p)

Crash(p) == pc[p] # "none" /\ Leave(p)

Next ==
  \E p \in team :
    \/ Open(p) \/ OpenStep(p) \/ OpenFails(p) \/ FindLockTable(p) \/ CreateLockTable(p)
    \/ Lock(p) \/ LockFails(p) \/ Unlock(p) \/ UnlockFails(p)
    \/ Check(p) \/ CheckFails(p) \/ Create(p) \/ CreateFails(p)
    \/ \E t \in UserTables : Migrate(p, t)
    \/ Drop(p) \/ List(p) \/ ListFails(p) \/ DropTable(p) \/ DropAll(p) \/ DropFails(p)
    \/ DropDone(p) \/ Close(p) \/ Crash(p)

Spec == Init /\ [][Next]_vars

-----------------------------------------------------------------------------
(***************************************************************************)
(* Properties.                                                             *)
(***************************************************************************)

\* Nobody else can change the tables while p has the lock.
Undisturbed(p) == driver.lock = "session" \/ team \subseteq {p}

\* Drop has nothing left to do and no error to report.
DropSucceeds(p) ==
  op[p] = "drop" /\ pc[p] = "unlocking" /\ result[p] = "nil" /\ Undisturbed(p)

\* "Drop deletes everything in the database": when Drop succeeds, no table is there.
DropDeletesEverything == \A p \in Procs : DropSucceeds(p) => tables = {}

\* What is true of it, for the drivers that look at the errors of the listing and whose
\* statements delete tables: when Drop succeeds, no table is there but a version table
\* that it does not list, or that its statement does not name.
DropIsThorough ==
  driver.listing = "error" /\ driver.drop # "nothing" =>
    \A p \in Procs : DropSucceeds(p) =>
      tables = {} \/ (driver.spares # "nothing" /\ tables = {VersionTable})

\* When Open is about to return a driver value, the version table is there, even
\* if another process was dropping the tables at the same time.
OpenedHasTable ==
  \A p \in Procs :
    /\ op[p] = "open" /\ pc[p] = "unlocking" /\ result[p] = "nil"
    /\ Undisturbed(p) /\ driver.create # "none"
    => VersionTable \in tables

\* Tables disappear only by the Drop of a process, which owns the lock if the
\* driver has one in its session; Open in particular never loses a version.
OnlyDropDeletes ==
  [][tables \subseteq tables' \/ \E p \in Procs :
       pc[p] = "dropping" /\ (driver.lock = "session" => holder = p)]_vars

\* Statements do not trip over what others did: CREATE TABLE over a table that has
\* just been created, DROP TABLE over one that is gone or that others refer to.
\* Left out: drivers that neither lock nor say IF (NOT) EXISTS, the order of
\* Oracle's Drop, and what Spanner takes for a missing table.
NobodyTrips ==
  \A p \in Procs :
    /\ \/ Undisturbed(p)
       \/ driver.create # "strict" /\ driver.lockTable # "table" /\ driver.drop # "strict"
    /\ driver.order # "any" /\ (driver.check = "probes" => op[p] = "drop")
    => result[p] # "clash"

\* An Open or Drop that has returned, and not with an error of Unlock, has left its
\* process no lock: Unlock reaches the session that Lock did.  On connections of the
\* pool the lock could stay with one that nobody asks to unlock, and keep everybody out.
LockIsReturned ==
  \A p \in Procs : driver.lock = "session" /\ pc[p] = "ready" => holder # p
=============================================================================
