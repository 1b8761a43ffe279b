---------------------------- MODULE VersionTable ----------------------------
(***************************************************************************)
(* SetVersion and Version of the database drivers, statement by statement. *)
(* A driver is a record: the statements of its SetVersion, how its Version *)
(* picks a row, what it makes of an error, and whether both run on one     *)
(* database session.  A statement may fail before or after it took effect, *)
(* the process may die between any two, and Version may be called at any   *)
(* time: Migrate.Version takes no lock.                                    *)
(***************************************************************************)
EXTENDS Integers, Sequences

CONSTANTS
  Drivers,    \* the drivers under study
  Versions,   \* versions to store
  MaxClock,   \* bound on the time stamps that SetVersion writes
  Stalls,     \* the clock may stand still between two calls of SetVersion
  SharedReads \* Version may be called on the session of a running SetVersion

NilVersion == -1

Empty == [version |-> NilVersion, dirty |-> FALSE]
Values == [version : Versions \cup {NilVersion}, dirty : BOOLEAN]
Row == [version : Versions \cup {NilVersion}, dirty : BOOLEAN, at : 0..MaxClock]

Driver ==
  [program : Seq({"begin", "delete", "truncate", "deleteEach", "insert", "put",
                  "replace", "append", "merge", "commit"}),
   pick : {"any", "last", "lastHighest"},
   onError : {"error", "nil", "some"},
   session : {"one", "pool"}]

ASSUME VersionTableAssumption ==
  /\ Drivers \subseteq Driver
  /\ \A d \in Drivers : d.program # <<>>
  /\ Versions \subseteq Nat
  /\ MaxClock \in Nat /\ Stalls \in BOOLEAN /\ SharedReads \in BOOLEAN

-----------------------------------------------------------------------------
\* The drivers.  "delete" is also a TRUNCATE that a transaction can undo.  An
\* error of Version is returned, or taken for a table without rows ("nil"; "some"
\* when only errors of one type, or of one number, are).
Rewrite == <<"begin", "delete", "insert", "commit">>

SqlDriver(onError, session) ==
  [program |-> Rewrite, pick |-> "any", onError |-> onError, session |-> session]

\* Mutant: SetVersion without a transaction.
postgresNoTx == [SqlDriver("error", "one") EXCEPT !.program = <<"delete", "insert">>]

postgres == SqlDriver("error", "one")
pgx == SqlDriver("error", "one")
mysql == SqlDriver("some", "one")
sqlserver == SqlDriver("error", "one")
redshift == SqlDriver("error", "one")
snowflake == SqlDriver("error", "one")
cockroachdb == SqlDriver("error", "pool")
sqlite3 == SqlDriver("nil", "pool")
sqlite == SqlDriver("nil", "pool")
sqlcipher == SqlDriver("nil", "pool")
ql == SqlDriver("nil", "pool")

\* Always a row, also for the nil version.
spanner ==
  [SqlDriver("error", "pool") EXCEPT !.program = <<"begin", "delete", "put", "commit">>]
firebird == [SqlDriver("error", "one") EXCEPT !.program = <<"replace">>]

\* No transaction, or one that the first statement commits.
mongodb == [SqlDriver("error", "pool") EXCEPT !.program = <<"delete", "put">>]
cassandra == [SqlDriver("some", "pool") EXCEPT !.program = <<"deleteEach", "insert">>]
oracle ==
  [SqlDriver("some", "one") EXCEPT !.program = <<"begin", "truncate", "insert", "commit">>]

\* The row with the latest time stamp counts.
clickhouse ==
  [program |-> <<"begin", "append", "commit">>, pick |-> "last",
   onError |-> "error", session |-> "pool"]

\* Mutant: Version without its ORDER BY.
neo4jUnordered ==
  [program |-> <<"merge">>, pick |-> "any", onError |-> "error", session |-> "pool"]

neo4j ==
  [program |-> <<"merge">>, pick |-> "lastHighest", onError |-> "error",
   session |-> "pool"]

-----------------------------------------------------------------------------
VARIABLES
  driver,
  rows,   \* the committed rows of the version table
  work,   \* the rows as the open transaction sees them
  inTx,   \* a transaction is open
  pc,     \* the statement SetVersion is at, 0 when it is not running
  arg,    \* its arguments
  clock,  \* the latest time stamp
  got     \* what the latest Version returned

vars == <<driver, rows, work, inTx, pc, arg, clock, got>>

\* The types of the variables.
TypeOK ==
  /\ driver \in Drivers
  /\ rows \subseteq Row /\ work \subseteq Row /\ inTx \in BOOLEAN
  /\ pc \in 0..Len(driver.program)
  /\ arg \in Values /\ clock \in 0..MaxClock
  /\ got \in [ok : BOOLEAN, value : Values]

Init ==
  /\ driver \in Drivers
  /\ rows = {} /\ work = {} /\ inTx = FALSE
  /\ pc = 0 /\ arg = Empty /\ clock = 0
  /\ got = [ok |-> TRUE, value |-> Empty]

-----------------------------------------------------------------------------
\* A transaction that ended has no rows of its own.
NoTx == work' = {} /\ inTx' = FALSE

\* The rows a statement sees and changes.
Seen == IF inTx THEN work ELSE rows

RowOf(value, at) == [version |-> value.version, dirty |-> value.dirty, at |-> at]

\* Mutant: version 0 is taken for no version.
KeepsPositive(value) == value.version > 0 \/ (value.version = NilVersion /\ value.dirty)

\* "INSERT" is skipped for a clean nil version.
Keeps(value) == value.version >= 0 \/ (value.version = NilVersion /\ value.dirty)

\* The rows after a statement at time t.  Several rows, which the primary key
\* of most tables would refuse, never meet here.
After(stmt, t) ==
  CASE stmt \in {"delete", "truncate"} -> {}
    [] stmt = "insert" -> IF Keeps(arg) THEN Seen \cup {RowOf(arg, 0)} ELSE Seen
    [] stmt = "put" -> Seen \cup {RowOf(arg, 0)}
    [] stmt = "replace" -> {RowOf(arg, 0)}
    [] stmt = "append" -> Seen \cup {RowOf(arg, t)}
    [] stmt = "merge" -> {r \in Seen : r.version # arg.version} \cup {RowOf(arg, t)}

Stamped(stmt) == stmt \in {"append", "merge"}

\* The time a statement writes: later than the one before, unless the clock stalls.
Times(stmt) ==
  IF Stamped(stmt) THEN (IF Stalls THEN {clock, clock + 1} ELSE {clock + 1}) ELSE {clock}

\* What a statement does to the table, without regard to its outcome.
Execute(stmt) ==
  CASE stmt = "begin" ->
         work' = rows /\ inTx' = TRUE /\ UNCHANGED <<rows, clock>>
    [] stmt = "commit" ->
         rows' = work /\ NoTx /\ UNCHANGED clock
    [] stmt = "truncate" ->
         rows' = {} /\ work' = {} /\ UNCHANGED <<inTx, clock>>
    [] stmt = "deleteEach" ->
         /\ IF rows = {} THEN UNCHANGED rows ELSE \E r \in rows : rows' = rows \ {r}
         /\ UNCHANGED <<work, inTx, clock>>
    [] OTHER ->
         \E t \in Times(stmt) :
           /\ clock' = t
           /\ IF inTx THEN work' = After(stmt, t) /\ UNCHANGED rows
                      ELSE rows' = After(stmt, t) /\ UNCHANGED work
           /\ UNCHANGED inTx

-----------------------------------------------------------------------------
Statement == driver.program[pc]

SetVersion(value) ==
  /\ pc = 0 /\ clock < MaxClock
  /\ pc' = 1 /\ arg' = value
  /\ UNCHANGED <<driver, rows, work, inTx, clock, got>>

\* A statement succeeds; after the last one SetVersion returns nil.  Rows are
\* deleted one by one until none is left.
Step ==
  /\ pc # 0
  /\ Execute(Statement)
  /\ pc' = IF Statement = "deleteEach" /\ rows # {} THEN pc
           ELSE IF pc < Len(driver.program) THEN pc + 1 ELSE 0
  /\ UNCHANGED <<driver, arg, got>>

\* A statement fails and SetVersion returns the error.  In a transaction it is
\* rolled back (SQLite and ql leave it open when DELETE fails, and nobody commits
\* it), except for a commit or a truncate whose answer is lost.
StepFails ==
  /\ pc # 0
  /\ pc' = 0 /\ NoTx
  /\ \/ UNCHANGED <<rows, clock>>
     \/ Statement = "commit" /\ rows' = work /\ UNCHANGED clock
     \/ Statement = "truncate" /\ rows' = {} /\ UNCHANGED clock
     \/ /\ ~inTx /\ Statement \notin {"begin", "deleteEach"}
        /\ \E t \in Times(Statement) : rows' = After(Statement, t) /\ clock' = t
     \/ /\ Statement = "deleteEach" /\ \E r \in rows : rows' = rows \ {r}
        /\ UNCHANGED clock
  /\ UNCHANGED <<driver, arg, got>>

\* The process dies: its session ends and the open transaction with it.
Crash ==
  /\ pc # 0
  /\ pc' = 0 /\ NoTx
  /\ UNCHANGED <<driver, rows, arg, clock, got>>

-----------------------------------------------------------------------------
\* The rows Version may pick from the rows t.
Last(t) == {r \in t : \A s \in t : s.at <= r.at}

Picks(t) ==
  CASE driver.pick = "any" -> t
    [] driver.pick = "last" -> Last(t)
    [] OTHER -> {r \in Last(t) : \A s \in Last(t) : s.version <= r.version}

ValueOf(r) == [version |-> r.version, dirty |-> r.dirty]

Reads(t) == IF t = {} THEN {Empty} ELSE {ValueOf(r) : r \in Picks(t)}

\* A Version on the session of an open transaction sees what that has done so far.
Version ==
  /\ \E value \in Reads(IF driver.session = "one" THEN Seen ELSE rows) :
       got' = [ok |-> TRUE, value |-> value]
  /\ driver.session = "one" /\ ~SharedReads => pc = 0
  /\ UNCHANGED <<driver, rows, work, inTx, pc, arg, clock>>

VersionFails ==
  /\ \E ok \in BOOLEAN :
       /\ driver.onError = "error" => ~ok
       /\ driver.onError = "nil" => ok
       /\ got' = [ok |-> ok, value |-> Empty]
  /\ driver.session = "one" /\ ~SharedReads => pc = 0
  /\ UNCHANGED <<driver, rows, work, inTx, pc, arg, clock>>

Next ==
  \/ \E value \in Values : SetVersion(value)
  \/ Step \/ StepFails \/ Crash \/ Version \/ VersionFails

Spec == Init /\ [][Next]_vars

-----------------------------------------------------------------------------
(***************************************************************************)
(* Properties.                                                             *)
(***************************************************************************)

\* The value in the table, for whoever reads it from a session of their own.
Stored == CHOOSE value \in Reads(rows) : TRUE

\* The drivers that delete the version before they write the new one, and those
\* whose Version returns the nil version for an error.
Torn == driver \in {mongodb, cassandra, oracle}
Quiet == driver \in {mysql, sqlite3, sqlite, sqlcipher, ql, cassandra, oracle}

Register == INSTANCE VersionRegister
  WITH reg <- Stored, busy <- pc # 0, torn <- Torn, quiet <- Quiet

\* The driver keeps the contract of SetVersion and Version: both take effect at
\* once, whatever fails, and a Version that reports success tells the truth.  The
\* drivers in Torn and Quiet keep the weaker contract of the register.
VersionContract == Register!Spec

\* "Execution stops if a migration fails and the dirty state persists": a dirty
\* mark in the table gives way only to a value that SetVersion was told to store;
\* not so for the drivers that delete it first.
DirtyStatePersists ==
  [][Stored.dirty /\ ~Stored'.dirty /\ ~Torn => pc # 0 /\ Stored' = arg]_vars

\* The row that counts is the one that was written last: once a SetVersion has
\* returned nil, its value is what the table holds.
ReturnedIsStored ==
  [][pc # 0 /\ pc = Len(driver.program) /\ Step => Stored' = arg]_vars
=============================================================================
