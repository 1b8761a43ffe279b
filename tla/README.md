# Verification of golang-migrate

TLA+ modules, TLC runs and TLAPS proofs for `migrate` (the library in the root
package, its drivers and its command line). Paths below are relative to the
repository unless they name a file of this directory.

## The system

| part | state | operations |
|---|---|---|
| engine (`migrate.go`) | a `Migrate` value: `isLocked` under a mutex, the `GracefulStop` channel (capacity 1), `isGracefulStop` | `Migrate`, `Steps`, `Up`, `Down`, `Run`, `Drop`, `Force`, `Version`, `Close` |
| readers (`migrate.go`) | a goroutine per operation with `from`, `to` or `limit`, `count`, and a `ret` channel of capacity `PrefetchMigrations` | `read`, `readUp`, `readDown`, the loop of `Run` |
| runner (`migrate.go`) | the migration in hand | `runMigrations`: mark the target dirty, run the body, mark it clean |
| migration buffer (`migration.go`) | an `io.Pipe` between the source and the driver | `Buffer` |
| source (`source/`) | the files of a directory, and a sorted index of their versions | `Open`, `First`, `Prev`, `Next`, `ReadUp`, `ReadDown` |
| database driver (`database/`) | the version table, the lock, an `isLocked` flag | `Open`, `Lock`, `Unlock`, `Run`, `SetVersion`, `Version`, `Drop` |
| command line (`internal/cli/`) | the files that `create` makes | one operation per call, SIGINT as a stop signal, `create` |

An operation takes the database lock, reads the version and gives up if it is
dirty. Otherwise it starts a reader, which walks the source from that version
and sends migrations through `ret`. The runner receives them one by one, asks
`stop()`, and runs each between two calls of `SetVersion`. The lock is released
at the end. The reader and the runner share the stop signal without
synchronisation, and a reader can outlive its operation.

What makes this hard: two processes on one database; a crash or a lost answer
between any two database calls; a stop signal that only one of two goroutines
receives; a lock granted after its caller gave up; bodies that arrive in pieces
and fail halfway; files that come and go; versions that are `uint` in a source
and `int` in a database.

How the modules fit together: `Migrate` is the engine over a database and a source
that keep their promises. The promises are specifications of their own
(`LockService`, `VersionRegister`, `SourceService`), and each is shown to be kept
by a module about the code behind it (`LockCalls`, `VersionTable`, `SourceDir`).
`DriverLock`, `DriverTables` and `DriverRun` go on below that, with one record per
driver, and `Cli` is on top.

## Modules

`SourceIndex` models `source/migration.go`: the lookups in a sorted index, with
1-based positions and 0 for "not found". It also has the conversions between
`uint` and `int` at a width given by the constant `MaxInt`.

`MigrateReader` models the readers. A reader is a record, and each operator maps
it to the reader after the code up to its next blocking send. `Start` is the
code before a loop, `Loop` is one turn of a loop, `Sent` is a completed send. The
module also has the operations with their arguments, and the words the properties
use for them: `Follows` and `Rank` for the order of the source, `Reached` and `Tells`
for what an error says.

`Migrate` is the engine. Each call of a driver is one step. Its variables are:

* the database: the version table (`version`, `dirty`, `table`), the owner of the
  lock (`holder`), and two that only the specification sees. `schema` is the
  version the schema is really at, or `Torn` after a body failed halfway.
  `tracked` is false once a caller forced a version that is not true, or a
  `Drop` gave up halfway.
* each process: the place of its caller (`pc`), the operation, its reader and
  channel, `isLocked` of the engine and of the driver, and the stop signal.
  `late` is a driver's `Lock` still waiting after `lock()` timed out. `stray`
  stands for readers of earlier operations that still run. `afterStop` counts
  the migrations begun after a stop was requested.

The model database follows the PostgreSQL driver: `SetVersion` is a transaction
that stores no row for a negative version, except a dirty nil version. A failed
call may have taken effect or not.

`LockService` is the abstract lock: what `Lock` and `Unlock` promise in
`database/driver.go`. `Migrate` implements it (`LockDiscipline`), with the
processes between `lock()` and the end of `unlock()` as those inside.

`VersionTable` models `SetVersion` and `Version` of the eighteen database drivers. A
driver is a record: the statements of its `SetVersion`, how its `Version` picks a
row, what it makes of an error, and whether both share a database session. `pc`
is the statement `SetVersion` is at, `rows` are the committed rows and `work` those
of the open transaction. Each statement is a step, which may fail before or
after it took effect. `Version` may be called between any two. `clock` is the
time stamp that ClickHouse and Neo4j write.

`VersionRegister` is what `SetVersion` and `Version` promise: an atomic register.
This is what `Migrate` takes for granted of its database. `VersionTable` is shown
to implement it (`VersionContract`). Some drivers promise less, and the register
has a weaker form for them: `torn` lets it be empty while a `SetVersion` runs and
after it failed (MongoDB, Cassandra and Oracle delete the row before they write the
new one), `quiet` lets a failed `Version` look like one of an empty register
(sqlite3, sqlite, sqlcipher, ql, Cassandra, Oracle, and MySQL for the error
number 0).

`DriverLock` models `Lock` and `Unlock` of the drivers, `CasRestoreOnErr`, and the
parts of `Open` and `Drop` that touch a lock table. Behind the flag `isLocked` of a
driver value there is a session lock (`owner`), a row (CockroachDB) or a document
under a unique index (MongoDB), both counted by `locks`, or nothing. `table` says
whether the lock table or the index exists. A session is lost only with its
process: the drivers with session locks run every statement on that session, so
that a process that lost it cannot change the database.

`LockCalls` models `lock()` and `unlock()` for goroutines that share a `Migrate`
value: the mutex (held while `lock()` waits), `errchan` with its two places, the
timer goroutine, the goroutine that calls the driver, and both flags. An `attempt`
is what one `lock()` has started and may leave behind. The driver is one with an
advisory lock, which a session may take several times (`depth`).

`DriverTables` models `Open`, `ensureVersionTable`, `ensureLockTable`, `Drop` and
`Close`. A driver is a record: the steps of its `Open`, what its `Lock` takes, how it
looks for the version table and creates it, how it deletes tables and in which
order, what it makes of an error of the listing, and whether the version table is one
that `Drop` does not list (`postgresElsewhere`, `pgxElsewhere`: it is in another schema)
or does not name (`snowflake`: it was created under a quoted name). `tables` are those
of the database, `todo` those that a `Drop` has listed and not deleted yet. `Lock` and
`Unlock` go through the session that `Open` set aside if there is one, and otherwise
through any connection of the pool, so that `Unlock` may miss the lock.

`DriverRun` models the way of a body into the database: `Migration.Buffer` writes
it into a pipe, `Run` reads the pipe, cuts the text into statements (`multistmt`, the
Oracle driver's loops, a parser, or not at all) and executes them. A body is a
sequence of tokens: a text, a blank, a separator, a text longer than the buffer.
`applied` has the texts that took effect.

`SourceFile` says which names `source.Parse` takes for migrations. `SourceDir` models
the source drivers: the listing, page by page, `Append` with its duplicates and
`buildIndex`, the lookups of `SourceIndex`, and reads of files that may be gone or be
a directory, which Bitbucket answers with a body, GitHub with `ErrNotExist` and the
others with an error.
`SourceService` is what the engine expects of a source, stated on sets of versions.

`Cli` models the command line: the arguments and questions of each command, the
call it makes, its exit status, and `create` with its two looks at the directory and
its two files, each of which may be made and still end in an error of `Close`. A
version is a number of digits and a value. The engine is seen from outside, as moving
the schema by some migrations.

The modules `MC...` have the small instances, the modules `...Proofs` the proofs.

## Properties

Each module states the types of its variables as `TypeOK`. That of `Migrate` is
checked and proved; that of `DriverLock` is part of its inductive invariant.

* `VersionTellsSchema`: a version that is not dirty is the version of the schema.
* `AppliedInOrder`: a migration that is about to run is the one that follows from
  the state of the schema, stated on the set of versions and not on the index.
* `DirtyPersists`: a dirty mark goes away only when the owner of the lock has run
  that migration, or by `Force` or `Drop`.
* `ReportsWhatItDid`: the error of an operation agrees with what it did.
* `SafeBreakPoint`: an operation that reports no error, stopped or not, leaves a
  clean database.
* `StopBound`: at most `Prefetch + 2` migrations begin after a stop request (the
  one in hand, those in the channel, the one the reader is about to send). It
  does not hold when a reader of an earlier operation takes the signal, and says
  nothing of that case.
* `LockDiscipline`: the engine refines `LockService`.
* `OperationReturns`: every operation returns.
* `VersionContract`: a driver's version table is an atomic register, in its weaker
  form for the drivers named above.
* `DirtyStatePersists`: a dirty mark in the table gives way only to a value that
  `SetVersion` was told to store. It leaves out the drivers that delete it first.
* `ReturnedIsStored`: when `SetVersion` returns nil, its value is what counts.
* `OneProcess`: a driver that locks the database lets one process in.
* `NoOrphan` (`DriverLock` and `LockCalls`): a session owns no lock that its driver
  value does not know of.
* `OwnedOnce`: a caller inside owns the lock once, so that one `unlock()` is enough.
* `RoomToAnswer`: no goroutine of a `lock()` blocks on `errchan`, however late.
* `CallsReturn`: `lock()` and `unlock()` return, also when the database never grants
  the lock and other callers hold the mutex, unless an `Unlock` of the same value is
  never answered. That is the deadlock of the comment at `migrate.go:945`: `unlock()`
  holds the mutex and has no timeout, and `lock()` arms its own only behind the mutex.
* `DropIsThorough`: a `Drop` that reports success left no table, or only a version
  table that it does not list or name (PostgreSQL, Snowflake; see below). It leaves out the drivers
  that ignore errors of the listing and Firebird.
* `OpenedHasTable`: `Open` leaves a version table, with other processes dropping it.
* `OnlyDropDeletes`: tables disappear only by a `Drop`, under the session's lock.
* `NobodyTrips`: no statement fails over a table another process created or
  deleted, or that others refer to, where a lock or IF (NOT) EXISTS promises it.
* `LockIsReturned`: an `Open` or `Drop` that returned, other than with an error of
  `Unlock`, left its process no session lock: `Unlock` reaches the session of `Lock`.
* `AppliedInOrder` (`DriverRun`): what took effect is a beginning of the body.
* `AppliesMigration`: `Run` returns nil only if the whole body took effect.
* `AllOrNothing`: a driver with a transaction applies all of it or nothing.
* `StatementsAreWhole`, `TooLongExactly`: how the pipe cuts the body makes no
  difference to the statements and to "token too long".
* `RunReturns`, `BufferEnds`: `Run` returns unless `Buffer` gave up, and after a `Run`
  that returned nil `Buffer` ends.
* `SourceContract`: the source drivers implement `SourceService`.
* `AtMostAsked`: no step of a command moves the schema in another direction, by more
  migrations or past another version than its arguments ask; only `up`
  without number, and `down` and `drop` with a flag or a yes, go all the way. `goto` of a
  version that does not fit an `int` is excepted, and may go down.
* `GotoGoesTowards`: `goto` without that exception, which fails.
* `BothFiles`: a `create` that exits with 0 made both files, one that fails never the
  down file alone.
* `SequenceGrows`, `DuplicatesOverlap`: what `create` promises about its versions, with
  another `create` beside it.

## Runs

The runs of `MCMigrate` use `MaxInt = 7`, so that the `uint` range is 0..15.

| run | instance | checks |
|---|---|---|
| `ops` | one process, all operations, versions 1, 3, 4 with an up or a down file missing, database failures, crashes | `TypeOK`, `VersionTellsSchema`, `AppliedInOrder`, `ReportsWhatItDid`, `DirtyPersists` |
| `stop` | one process, five versions, stop, source and database failures, fair | `SafeBreakPoint`, `StopBound`, `OperationReturns` |
| `two` | two processes, two versions, crashes | `VersionTellsSchema`, `AppliedInOrder` |
| `live` | two processes, versions 3 and 9, where 9 does not fit an `int`; an unbuffered channel, lock timeouts and failures, fair | `OperationReturns`, `LockDiscipline` |
| `versions` | all eighteen drivers, statement by statement | `ReturnedIsStored`, `VersionContract`, `DirtyStatePersists` |
| `driver_locks` | three processes, every driver but Oracle's, no `Drop` of a lock table | `OneProcess`, `NoOrphan` |
| `driver_tables` | one or two processes, seventeen drivers, the two for PostgreSQL also with the version table elsewhere, two user tables with a foreign key | `DropIsThorough`, `OpenedHasTable`, `NobodyTrips`, `LockIsReturned`, `OnlyDropDeletes` |
| `drop_nothing` | one process, Firebird | violates `DropDeletesEverything` |
| `driver_run` | every driver and option, every body of at most five tokens, fair | `AppliedInOrder`, `AppliesMigration`, `AllOrNothing`, `StatementsAreWhole`, `TooLongExactly`, `RunReturns`, `BufferEnds` |
| `sources` | twelve source drivers, every directory over seven names, one change after the listing | `SourceContract` |
| `lock_calls` | three callers of one value and other processes, fair | `OwnedOnce`, `NoOrphan`, `RoomToAnswer`, `LockDiscipline`, `CallsReturn` |
| `cli` | two processes, 32 command lines, six directories | `AtMostAsked`, `BothFiles`, `SequenceGrows`, `DuplicatesOverlap` |

Bounds. Three versions have a first, an inner and a last one. Five versions are
more than the channel, the reader and the runner hold together, so that
`StopBound` can be exceeded. `Prefetch` is 1 or 0, the two cases of a Go channel
that differ. Two processes are symmetric.

* `versions` uses the versions 0 and 1: 0 is the least that is stored, and two are
  needed for a row that is not the current one. `MaxClock = 3` allows three stamped
  writes, so that a merged node is overtaken and written again.
* `driver_locks`: three processes are one that holds and two that meet; `locks` tells
  none, one and several apart, which is all the code can notice.
* `driver_tables`: two tables are one that refers and one that is referred to.
* `driver_run`: with `Cap = 3` five tokens hold a statement that just fits, one that
  just does not, and a second one after it; `Chunk = 2` puts a separator at the edge
  of a piece or inside one; `MaxTries = 2` is one retry.
* `sources`: `MaxInt = 1` makes 3 the largest version. The names have two titles for
  one version, a number that is too large and a directory. `PageSize = 3` makes up to
  three pages.
* `lock_calls`: `Attempts` bounds how many `lock()` calls have goroutines that are not
  over. Three are the one that waits and two left behind; with three left behind a
  further `lock()` is not started until one is over.
* `cli`: `MaxInt = 3`, so that 4 to 7 do not fit an `int` and 8 not a `uint`. With
  `Base = 3` and one or two digits, numbers run out of digits and out of `uint`.

`CHECK_DEADLOCK` is off where the system ends: a `Run` that returned or waits for
a `Buffer` that gave up, commands that have exited, a source that failed to open.

The run that is violated shows where the code and its documentation differ.
`database/driver.go:78` says "Drop deletes everything in the database". `Drop` of the
Firebird driver (`database/firebird/firebird.go:206`) wraps each `DROP TABLE` in "if
not exists", deletes no table and returns nil.

More cases are in the models but in no run. Each is one change of a configuration
or of a named exception away:

* `NoGoroutineLeak` with `FairSpec` of `Migrate` (`README.md:110` says "no goroutine
  leaks"): when the runner returns early the reader can block on `ret` for ever.
* `VersionTellsSchema` with a version above the largest `int` (`MIGRATIONS.md:21` allows
  any 64 bit unsigned version): it becomes negative and leaves no mark in the table.
* `GotoGoesTowards` with `goto` of the largest `uint` (`internal/cli/main.go:27` says
  "Migrate to version V"): `int(V)` is -1, the nil version, which nobody looks up in the
  source (`migrate.go:229`), so that every migration is undone and the command exits with
  0. The same `Migrate` among `Ops` of the engine makes `ReportsWhatItDid` fail.
* `DirtyStatePersists` without `~Torn` (`FAQ.md:63` says "the dirty state persists"): a
  crash between the two statements of MongoDB, Cassandra or Oracle leaves no mark.
* `VersionContract` with `quiet` false (`database/driver.go:73`): seven drivers report an
  error of `Version` as a clean nil version.
* `SharedReads = TRUE`: `Migrate.Version` takes no lock, reads on the session of a
  running `SetVersion`, and returns what is not committed (`VersionContract` fails).
* `Stalls = TRUE` with Neo4j: of two versions written in one instant the higher one
  counts (`ReturnedIsStored` fails).
* `Drops = TRUE` in `DriverLock` (`database/driver.go:55` says one migration process at a
  time): `Drop` of MongoDB deletes the unique index under the others, and after `Drop`
  of CockroachDB the `Unlock` deletes the lock row of whoever came next.
* `oracle` among the `Drivers` of `DriverLock`: `Lock` ignores that its request timed
  out (`OneProcess` fails).
* `cockroachdbForce`: `database/cockroachdb/README.md:9` says that `x-force-lock`
  forces the lock; `LockRefused` is taken all the same, because `Lock` inserts a second
  row with the same primary key.
* `DropDeletesEverything` with Oracle or Cassandra: an error in the middle of the
  listing goes unnoticed.
* `DropDeletesEverything` with `postgresElsewhere` or `pgxElsewhere`:
  `x-migrations-table-quoted` allows a version table in any schema, and `Drop`
  (`database/postgres/postgres.go:414`, `database/pgx/pgx.go:398`) lists the current schema
  only. The version table stays with the old version, and the next `Up` takes the deleted
  migrations for applied.
* `DropDeletesEverything` with `snowflake`: the version table is created under a quoted
  name (`database/snowflake/snowflake.go:368`) and dropped under an unquoted one (line
  330), which the server reads in capitals; IF EXISTS makes that a success.
* `SuccessIsComplete` with the Oracle driver: a line longer than the scanner's buffer
  ends the migration, and nil is returned.
* `AppliesMigration` and `AllOrNothing` with `neo4jMulti`: the library repeats a function
  whose reader the first call has emptied.
* `RunReturns` without its exception: `Buffer` returns on a read error and leaves the
  pipe open, and `Run` waits for the rest of the body.
* `SourceContract` without `Fits`: a bucket of S3 that has more than one page.
* A file that is gone since the listing (file system sources), or a GitHub directory
  with the name of a migration, is read as `ErrNotExist`, which the engine takes for an
  empty migration (`Read` of `SourceDir`; no property forbids it).
* `SequenceGrows` with names of different widths or the largest `uint`: the last name in
  the order of strings is not the highest number.
* `DuplicatesOverlap` without "f \in seen[q]": two creates that overlap make one version
  under two names.

Fairness. `FairSpec` of `Migrate` lets each running caller, reader and runner take its
next step if it stays possible: the Go scheduler runs goroutines and driver calls,
`Unlock` among them, return. Nobody is required to call, stop, crash or grant a late lock. A caller
that waits for a lock nobody releases returns because its timeout fires, which
the run `live` allows and `stop`, with one process, does not need. `FairSpec` of
`LockCalls` is weak for goroutines and the timer, and strong for taking the mutex,
because a Go mutex hands itself to a waiter that has starved; the database need
answer neither a `Lock` nor an `Unlock`, and nobody need leave. `FairSpec` of `DriverRun` is weak for `Buffer` and for `Run`.

## Proofs

Every invariant, action property and refinement that the passing runs check is also
proved, for every value of the constants; the named hypotheses are those without
which the statement is false. A proof has the shape `Init => Inv`,
`Inv /\ [Next]_vars => Inv'` and `Inv => Property`. What follows is `Inv` in each case.

The theorems about the engine are one module, `MigrateProofs`, because they build on
each other. `USE Zenon` at the head of a proof module makes Zenon the prover of each
step that names no other. The SMT translation of `tlapm` slows down with every step it
has seen, so that only steps with arithmetic, sequences or Booleans ask for it.

The engine:

* `TypeCorrect` (`MigrateProofs`): `[]TypeOK`. `TypeOK` is not inductive. A reader has
  to stay in a shape for which `Start`, `Loop` and `Sent` return a reader again
  (`GoodReader`), and a running operation has to be one of `Ops` that did not return
  before the lock (`CallInv`). `TypeInv` adds both.
* `LockRefinement` (`MigrateProofs`): `Spec => LockDiscipline`, for any number of
  processes. `LockInv` says that a process inside owns the lock. Most steps leave
  the lock alone and are grouped as `QuietStep`. `MutualExclusion` follows.
* `StopsSoon` (`MigrateProofs`): `[]StopBound`, for every capacity of `ret`. The signal
  goes to one of two goroutines, and the other one learns of it through a flag it
  reads later. `StopInv` says where the request is (in the `GracefulStop` channel, in
  `isGracefulStop`, with the reader or with the runner) and how many migrations can
  still begin from there: those in the channel, the one in hand, and at most one that
  the reader is about to send.
* `VersionCorrect`, `StopsSafely` and `DirtyStays` (`MigrateProofs`):
  `VersionTellsSchema`, `SafeBreakPoint` and `DirtyPersists`. They assume `Narrow`:
  every version of the source fits an `int` and the targets given to `Run` are not
  below the nil version. Without it they are false: a version that does not fit
  leaves no mark in the table. `PipeInv` says that everything in a reader or a
  channel has a target of at least -1, and `VersionInv` what holds at each place of
  the runner: clean before the dirty mark, dirty with the right target until the
  clean mark. `LockInv` is needed because another process may not change the version
  between.
* `RunsInOrder` and `ReportsTruly` (`MigrateProofs`): `AppliedInOrder` and
  `ReportsWhatItDid`, the first under `Narrow`, the second also under `Fits` (the
  version given to `Migrate` fits an `int`, and `Steps` is not given the least `int`,
  whose negation overflows). A reader runs ahead of the schema, so that what it sends
  is right only with respect to what is still in the channel before it. `OrderInv`
  says that the version in the table, the items in the channel and the item the
  reader holds form a chain (`Chained`), each item being the neighbour of the one
  before it or the report that is due there (`Link`), and that the reader's place and
  count belong to the end of that chain (`Reading`).

The lock:

* `CallsKeepDiscipline` (`LockCallsProofs`): `Spec => LockDiscipline`, for any
  goroutines on any values. The difficulty is that the answer "nil" may lie in the
  `errchan` of a `lock()` that has not looked yet, or has given up. `LockInv` says that
  at most one value owns the lock, that a caller who waits holds the mutex and its
  attempt, that there is one caller per value past `lock()`, and that whoever has been
  granted the lock, or has the grant waiting in its channel, owns it.
* `InsideOwnsOnce` and `ForgetsNoLock` (`LockCallsProofs`): `[]OwnedOnce` and
  `[]NoOrphan`, from `LockInv` and `OnceInv`. The driver's flag is what keeps a late
  `Lock` and a new one from taking the lock twice on one session: `OnceInv` says that
  at most one attempt of a value asks the database, that the flag is set while it
  does, and that the flag stands for at most one lock of the session. Only while an
  `unlock()` is on its way a late `Lock` may add a second one, and the flag then
  stands for that.
* `AnswersHaveRoom` (`LockCallsProofs`): `[]RoomToAnswer`. `RoomInv` counts what is in
  `errchan` together with what its two goroutines can still send: never more than
  its two places.
* `DriverExclusion` (`DriverLockProofs`): `[]OneProcess` for any number of processes,
  if no driver ignores a refusal and nobody drops a lock table (`Careful`).
  `Drops = TRUE` shows that the second is needed, and the Oracle driver that the
  first is. `ExclusionInv` adds that who holds the lock, until the database has
  forgotten it, owns the session lock or is the only one behind a row, and that the
  table is there as soon as somebody locks.
* `DriverKnowsLock` (`DriverLockProofs`): `[]NoOrphan` for every driver, `Drop` and
  Oracle included. `OrphanInv` says where the flag may disagree with the database.

The version table:

* `DriversKeepContract`, `LastWriteCounts` and `DirtyMarkStays` (`VersionTableProofs`):
  `VersionContract`, `ReturnedIsStored` and `DirtyStatePersists` for all eighteen
  drivers, any versions and any number of failures. They assume `Orderly`: nobody
  reads on the session of a running `SetVersion`, and two stamped writes are not made
  in one instant; both are needed, as the cases above show. `TableInv` says that the
  committed rows are those of one value, and what the statements before `pc` have
  done to the rows of the transaction. Each step is then a step of the register or
  leaves it alone.
* `TransactionalContract` (`VersionTableProofs`): the ten drivers that write in one
  statement or one transaction and report every error (`Transactional`) implement the
  full register: `Torn` and `Quiet` are never true of them.

Tables and bodies:

* `DropLeavesNothing`, `OpenFindsTable` and `TablesStay` (`DriverTablesProofs`):
  `[]DropIsThorough`, `[]OpenedHasTable` and `OnlyDropDeletes`, for any tables, foreign
  keys and number of processes. `TablesInv` says what a process knows of the tables
  while nobody else can change them: all tables that are left are on the list of a
  `Drop`, the version table is there once `Open` has found or created it, and
  the process is where it is because it has the lock. A step of another process
  cannot take that away (`OthersKnow`).
* `StatementsDoNotTrip` (`DriverTablesProofs`): `[]NobodyTrips`. `TripInv` says that what
  a process has seen of a table still holds when its statement runs, or that the
  statement does not mind.
* `LocksAreReturned` (`DriverTablesProofs`): `[]LockIsReturned`, for drivers whose `Open`
  sets a connection aside before it locks (`OwnSessions`); `DriversOpenSessions` shows
  that the drivers of the repository are such. `SessionInv` says that a process past
  that step has its session, and `ReturnedInv` where it may own the lock: between its
  `Lock` and its `Unlock`.
* `RunsABeginning`, `SucceedsCompletely`, `TransactionsAreAtomic`, `CutsAtSeparators` and
  `ReportsTooLong` (`DriverRunProofs`): the five invariants of `DriverRun`, for any
  body, any buffer and any pieces. `RunInv` relates the three places a body is in:
  what is read is a beginning of it (`ReadInv`), what has been executed ends where the
  statement in hand starts (`EffectInv`), a statement starts after a separator and what
  is buffered of it has none yet (`CutInv`), and it fits the buffer unless the scanner
  is about to say that it does not (`FitInv`).

The sources:

* `SourcesKeepContract` (`SourceDirProofs`): `SourceContract`, for any directory, page
  size, order of the listing and changes after it. `ListInv` says that a listing is complete before its names are appended,
  `AppendInv` that the `Migrations` value has one name per version and direction of
  those appended so far, and that the index is sorted and has exactly their versions.
  Each lookup is then shown to answer what `SourceService` says about the set of
  versions: `findPos` finds a version if and only if it is there (`FindPosFinds`,
  `FindPosMisses`), and `First`, `Next` and `Prev` return the least version, the next
  one above and the next one below (`FirstIsLeast`, `NextIsLeast`, `PrevIsGreatest`).
  `Append` is a step per file, so that the invariant takes the place of an induction
  over the listing.

The command line:

* `MovesWithinLimits`, `CreatesBothFiles`, `SequenceContinues` and
  `SameVersionOverlaps` (`CliProofs`): the four properties of `Cli`, for any
  command lines, directories and number of processes. `CliInv` says for each place of
  a command what it has been allowed to do, which files it has seen and which it has
  made.

Assumptions on constants, beside those on types: in `DriverTables` the statements of an
`Open` are those the model knows (`StatementsAssumption`), and in `DriverRun` a driver
that uses a transaction does not read line by line (`TransactionAssumption`), which
only the Oracle driver does, without one. TLC evaluates them with the others.

Only model-checked: liveness (`OperationReturns`, `CallsReturn`, `RunReturns`,
`BufferEnds`), which is out of the prover's reach.

## Not modelled

* Logging, the texts and positions of errors, times and byte counts: nothing
  depends on them.
* The driver registries, URL and TLS parsing and the `flag` package: string handling;
  that it may fail is a step of `Open` and of the command line.
* The lock identifier (`GenerateAdvisoryLockId`), a hash: different databases are
  taken to have different locks.
* `Drop` and `ensureVersionConstraint` of the Neo4j driver: a graph has no tables, and
  the constraint survives `Drop`.
* Views, sequences and other objects that are no tables; names of user tables that an
  unquoted DROP of CockroachDB or Snowflake misses; a default schema of SQL Server other
  than `dbo`.
* A `Lock` of a session that takes effect and still returns an error: the answer is
  lost only with the connection, and then the lock is too.
* The flags `-version` and `-help`: output only.
* `Version` of the engine changes nothing; what it returns is in `VersionTable`.
* A directory that changes while a source lists it.
* Connections that a failed `SetVersion` or `Open` leaves open: no property of the
  models tells them apart.
* The stub drivers and the test harnesses.
