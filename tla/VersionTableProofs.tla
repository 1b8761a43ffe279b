-------------------------- MODULE VersionTableProofs --------------------------
(***************************************************************************)
(* The drivers of the repository keep the contract of the version          *)
(* register, for any versions and any number of calls: those that write    *)
(* the version in one statement or one transaction and report the errors   *)
(* of Version in full, the others as far as they promise it.  The table    *)
(* holds one value at any time; the invariant says which, and how far the  *)
(* statements of a running SetVersion have come.                           *)
(***************************************************************************)
EXTENDS VersionTable, TLAPS

\* Most steps need no arithmetic: a step that does not say SMT is one for Zenon.
USE Zenon

\* The drivers of the repository.
Repository ==
  {postgres, pgx, mysql, sqlserver, redshift, snowflake, cockroachdb, sqlite3, sqlite, sqlcipher,
   ql, spanner, firebird, mongodb, cassandra, oracle, clickhouse, neo4j}

\* Nobody calls Version on the session of a SetVersion that is running, and where the
\* latest row counts the clock does not stand still.
Orderly ==
  /\ Drivers \subseteq Repository
  /\ SharedReads = FALSE
  /\ Stalls => \A d \in Drivers : d.pick = "any"

\* A table that holds a value: no row, or one that is later than all others; where
\* Version picks any row there is only one.
Holds(t, value) ==
  \/ t = {} /\ value = Empty
  \/ \E r \in t : /\ ValueOf(r) = value
                  /\ \A s \in t \ {r} : driver.pick # "any" /\ s.at < r.at

\* Rows with the time stamps of SetVersion.
Rows(t) == \A r \in t : r.version \in Int /\ r.at \in Nat /\ r.at <= clock

\* What the statement before the one that SetVersion is at has done.
Done(stmt) ==
  /\ stmt = "begin" => work = rows
  /\ stmt = "delete" => (IF inTx THEN work ELSE rows) = {}
  /\ stmt = "truncate" => work = {} /\ rows = {}
  /\ stmt = "deleteEach" => rows = {}
  /\ stmt \in {"insert", "put", "append"} => Holds(work, arg)

\* The inductive invariant: one value in the table, and the work of the statements
\* before the one that SetVersion is at.
TableInv ==
  /\ driver \in Drivers /\ arg \in Values /\ clock \in Nat
  /\ Rows(rows) /\ Rows(work)
  /\ \E value \in Values : Holds(rows, value)
  /\ pc \in 0..Len(driver.program)
  /\ inTx = (pc > 1 /\ driver.program[1] = "begin")
  /\ pc > 1 => Done(driver.program[pc - 1])

\* The programs and the order in which Version looks at the rows.
LEMMA Programs ==
  ASSUME NEW d \in Repository
  PROVE  \/ d.program = <<"begin", "delete", "insert", "commit">> /\ d.pick = "any"
         \/ d.program = <<"begin", "delete", "put", "commit">> /\ d.pick = "any"
         \/ d.program = <<"replace">> /\ d.pick = "any"
         \/ d.program = <<"delete", "put">> /\ d.pick = "any" /\ d = mongodb
         \/ d.program = <<"deleteEach", "insert">> /\ d.pick = "any" /\ d = cassandra
         \/ d.program = <<"begin", "truncate", "insert", "commit">> /\ d.pick = "any" /\ d = oracle
         \/ d.program = <<"begin", "append", "commit">> /\ d.pick = "last"
         \/ d.program = <<"merge">> /\ d.pick = "lastHighest"
<1>1. ASSUME NEW e, NEW s
      PROVE  SqlDriver(e, s).program = <<"begin", "delete", "insert", "commit">> /\ SqlDriver(e, s).pick = "any"
  BY DEF SqlDriver, Rewrite
<1>2. CASE d \in {postgres, pgx, mysql, sqlserver, redshift, snowflake, cockroachdb, sqlite3, sqlite,
                  sqlcipher, ql}
  BY <1>1, <1>2 DEF postgres, pgx, mysql, sqlserver, redshift, snowflake, cockroachdb, sqlite3, sqlite,
    sqlcipher, ql
<1>3. CASE d = spanner
  BY <1>3 DEF spanner, SqlDriver
<1>4. CASE d = firebird
  BY <1>4 DEF firebird, SqlDriver
<1>5. CASE d = mongodb
  BY <1>5 DEF mongodb, SqlDriver
<1>6. CASE d = cassandra
  BY <1>6 DEF cassandra, SqlDriver
<1>7. CASE d = oracle
  BY <1>7 DEF oracle, SqlDriver
<1>8. CASE d = clickhouse
  BY <1>8 DEF clickhouse
<1>9. CASE d = neo4j
  BY <1>9 DEF neo4j
<1> QED
  BY <1>2, <1>3, <1>4, <1>5, <1>6, <1>7, <1>8, <1>9 DEF Repository

\* A driver that does not report the errors of Version is one of those in Quiet.
LEMMA Errors ==
  ASSUME driver \in Repository, driver.onError # "error"
  PROVE  Quiet
<1>1. \A s : SqlDriver("error", s).onError = "error"
  BY DEF SqlDriver
<1>2. \A d \in {postgres, pgx, sqlserver, redshift, snowflake, cockroachdb} : d.onError = "error"
  BY <1>1 DEF postgres, pgx, sqlserver, redshift, snowflake, cockroachdb
<1>3. spanner.onError = "error" /\ firebird.onError = "error" /\ mongodb.onError = "error"
  BY DEF spanner, firebird, mongodb, SqlDriver
<1>4. clickhouse.onError = "error" /\ neo4j.onError = "error"
  BY DEF clickhouse, neo4j
<1> QED
  BY <1>2, <1>3, <1>4 DEF Repository, Quiet

\* What stands where in the statements p of a driver.
Order(p, i) ==
  /\ Len(p) \in Nat
  /\ p[i] = "begin" => i = 1 /\ i < Len(p)
  /\ p[i] \in {"delete", "truncate", "deleteEach"} => i < Len(p)
  /\ p[i] = "delete" /\ p[1] # "begin" => Torn
  /\ p[i] = "delete" /\ p[1] = "begin" => i > 1
  /\ p[i] = "truncate" => Torn /\ p[1] = "begin" /\ i > 1
  /\ p[i] = "deleteEach" => Torn /\ p[1] # "begin" /\ i = 1 /\ driver.pick = "any"
  /\ p[i] \in {"insert", "put"} =>
       /\ i > 1 /\ p[i - 1] \in {"delete", "truncate", "deleteEach"} /\ driver.pick = "any"
       /\ p[i - 1] = "deleteEach" => p[1] # "begin"
       /\ p[i - 1] = "truncate" => p[1] = "begin"
       /\ i < Len(p) <=> p[1] = "begin"
  /\ p[i] = "append" => i > 1 /\ i < Len(p) /\ p[1] = "begin" /\ driver.pick = "last"
  /\ p[i] = "replace" => i = Len(p) /\ driver.pick = "any" /\ i = 1 /\ p[1] # "begin"
  /\ p[i] = "merge" => i = Len(p) /\ driver.pick = "lastHighest" /\ i = 1 /\ p[1] # "begin"
  /\ p[i] = "commit" =>
       i = Len(p) /\ i > 1 /\ p[1] = "begin" /\ p[i - 1] \in {"insert", "put", "append"}
  /\ p[i] \in {"begin", "delete", "truncate", "deleteEach", "insert", "put", "replace",
               "append", "merge", "commit"}

\* Every program is of that form.
LEMMA StatementOrder ==
  ASSUME driver \in Repository, NEW i \in 1..Len(driver.program), NEW p, p = driver.program
  PROVE  Order(p, i)
<1>1. CASE p = <<"begin", "delete", "insert", "commit">> /\ driver.pick = "any"
  <2>1. Len(p) = 4 /\ p[1] = "begin" /\ p[2] = "delete" /\ p[3] = "insert" /\ p[4] = "commit"
    BY <1>1, SMT
  <2>2. i \in {1, 2, 3, 4}
    BY <2>1, SMT
  <2> QED
    BY <1>1, <2>1, <2>2, SMT DEF Order
<1>2. CASE p = <<"begin", "delete", "put", "commit">> /\ driver.pick = "any"
  <2>1. Len(p) = 4 /\ p[1] = "begin" /\ p[2] = "delete" /\ p[3] = "put" /\ p[4] = "commit"
    BY <1>2, SMT
  <2>2. i \in {1, 2, 3, 4}
    BY <2>1, SMT
  <2> QED
    BY <1>2, <2>1, <2>2, SMT DEF Order
<1>3. CASE p = <<"replace">> /\ driver.pick = "any"
  <2>1. Len(p) = 1 /\ p[1] = "replace"
    BY <1>3, SMT
  <2>2. i = 1
    BY <2>1, SMT
  <2> QED
    BY <1>3, <2>1, <2>2 DEF Order
<1>4. CASE p = <<"delete", "put">> /\ driver.pick = "any" /\ driver = mongodb
  <2>1. Len(p) = 2 /\ p[1] = "delete" /\ p[2] = "put" /\ Torn
    BY <1>4, SMT DEF Torn
  <2>2. i \in {1, 2}
    BY <2>1, SMT
  <2> QED
    BY <1>4, <2>1, <2>2, SMT DEF Order
<1>5. CASE p = <<"deleteEach", "insert">> /\ driver.pick = "any" /\ driver = cassandra
  <2>1. Len(p) = 2 /\ p[1] = "deleteEach" /\ p[2] = "insert" /\ Torn
    BY <1>5, SMT DEF Torn
  <2>2. i \in {1, 2}
    BY <2>1, SMT
  <2> QED
    BY <1>5, <2>1, <2>2, SMT DEF Order
<1>6. CASE p = <<"begin", "truncate", "insert", "commit">> /\ driver.pick = "any" /\ driver = oracle
  <2>1. /\ Len(p) = 4 /\ p[1] = "begin" /\ p[2] = "truncate" /\ p[3] = "insert" /\ p[4] = "commit"
        /\ Torn
    BY <1>6, SMT DEF Torn
  <2>2. i \in {1, 2, 3, 4}
    BY <2>1, SMT
  <2> QED
    BY <1>6, <2>1, <2>2, SMT DEF Order
<1>7. CASE p = <<"begin", "append", "commit">> /\ driver.pick = "last"
  <2>1. Len(p) = 3 /\ p[1] = "begin" /\ p[2] = "append" /\ p[3] = "commit"
    BY <1>7, SMT
  <2>2. i \in {1, 2, 3}
    BY <2>1, SMT
  <2> QED
    BY <1>7, <2>1, <2>2, SMT DEF Order
<1>8. CASE p = <<"merge">> /\ driver.pick = "lastHighest"
  <2>1. Len(p) = 1 /\ p[1] = "merge"
    BY <1>8, SMT
  <2>2. i = 1
    BY <2>1, SMT
  <2> QED
    BY <1>8, <2>1, <2>2 DEF Order
<1> QED
  BY <1>1, <1>2, <1>3, <1>4, <1>5, <1>6, <1>7, <1>8, Programs

\* Where one row is later than all others, ORDER BY picks it.
LEMMA LatestRow ==
  ASSUME NEW t, NEW r \in t, \A s \in t : s.version \in Int /\ s.at \in Int,
         \A s \in t \ {r} : s.at < r.at
  PROVE  Last(t) = {r} /\ {q \in Last(t) : \A s \in Last(t) : s.version <= q.version} = {r}
<1>1. Last(t) = {r}
  <2>1. r \in Last(t)
    BY SMT DEF Last
  <2>2. ASSUME NEW q \in Last(t)
        PROVE  q = r
    BY SMT DEF Last
  <2> QED
    BY <2>1, <2>2
<1>2. {q \in {r} : \A s \in {r} : s.version <= q.version} = {r}
  BY SMT
<1> QED
  BY <1>1, <1>2

\* What Version reads, and what the register maps to, is the value that the table holds.
LEMMA HeldValue ==
  ASSUME NEW value, Rows(rows), Holds(rows, value), clock \in Nat
  PROVE  Reads(rows) = {value} /\ Stored = value
<1>1. Reads(rows) = {value}
  <2>1. CASE rows = {} /\ value = Empty
    BY <2>1 DEF Reads
  <2>2. ASSUME NEW r \in rows, ValueOf(r) = value,
               \A s \in rows \ {r} : driver.pick # "any" /\ s.at < r.at
        PROVE  Reads(rows) = {value}
    <3>1. Last(rows) = {r} /\ {q \in Last(rows) : \A s \in Last(rows) : s.version <= q.version} = {r}
      BY <2>2, LatestRow, SMT DEF Rows
    <3>2. driver.pick = "any" => rows = {r}
      BY <2>2
    <3>3. Picks(rows) = {r}
      BY <3>1, <3>2 DEF Picks
    <3> QED
      BY <2>2, <3>3 DEF Reads
  <2> QED
    BY <2>1, <2>2 DEF Holds
<1> QED
  BY <1>1 DEF Stored

\* The same after a step.
LEMMA HeldValueNext ==
  ASSUME NEW value, Rows(rows)', (driver' = driver), clock' \in Nat,
         \/ rows' = {} /\ value = Empty
         \/ \E r \in rows' : /\ ValueOf(r) = value
                             /\ \A s \in rows' \ {r} : driver.pick # "any" /\ s.at < r.at
  PROVE  Stored' = value
<1>1. Reads(rows)' = {value}
  <2>1. CASE rows' = {} /\ value = Empty
    BY <2>1 DEF Reads
  <2>2. ASSUME NEW r \in rows', ValueOf(r) = value,
               \A s \in rows' \ {r} : driver.pick # "any" /\ s.at < r.at
        PROVE  Reads(rows)' = {value}
    <3>0. PICK t : t = rows'
      OBVIOUS
    <3>1. Last(t) = {r} /\ {q \in Last(t) : \A s \in Last(t) : s.version <= q.version} = {r}
      BY <2>2, <3>0, LatestRow, SMT DEF Rows
    <3>2. driver.pick = "any" => t = {r}
      BY <2>2, <3>0
    <3>3. Picks(rows)' = {r}
      BY <3>0, <3>1, <3>2 DEF Picks
    <3> QED
      BY <2>2, <3>3 DEF Reads
  <2> QED
    BY <2>1, <2>2
<1> QED
  BY <1>1 DEF Stored

\* A row holds what it was made of; a value that is not kept is the clean nil version.
LEMMA Written ==
  ASSUME NEW value \in Values, NEW at \in Nat
  PROVE  /\ ValueOf(RowOf(value, at)) = value
         /\ RowOf(value, at).version \in Int /\ RowOf(value, at).at = at
         /\ RowOf(value, at).version = value.version
         /\ ~Keeps(value) => value = Empty
<1>1. value = [version |-> value.version, dirty |-> value.dirty]
      /\ value.version \in Versions \cup {NilVersion} /\ value.dirty \in BOOLEAN
  BY DEF Values
<1>2. value.version \in Int
  BY <1>1, VersionTableAssumption, SMT DEF NilVersion
<1>3. ASSUME ~Keeps(value)
      PROVE  value = Empty
  <2>1. value.version = NilVersion /\ value.dirty = FALSE
    BY <1>1, <1>3, VersionTableAssumption, SMT DEF Keeps, NilVersion
  <2> QED
    BY <1>1, <2>1 DEF Empty
<1>4. ValueOf(RowOf(value, at)) = value
  BY <1>1 DEF ValueOf, RowOf
<1> QED
  BY <1>2, <1>3, <1>4 DEF RowOf

\* The statement that writes the version leaves a table that holds it.
LEMMA Writes ==
  ASSUME TableInv, Orderly, pc # 0, NEW t \in Times(Statement),
         Statement \in {"insert", "put", "replace", "append", "merge"}
  PROVE  /\ Holds(After(Statement, t), arg)
         /\ \A r \in After(Statement, t) : r.version \in Int /\ r.at \in Nat /\ r.at <= t
         /\ t \in Nat /\ clock <= t
<1>0. /\ driver \in Repository /\ pc \in 1..Len(driver.program) /\ arg \in Values /\ clock \in Nat
      /\ driver \in Drivers
  BY SMT DEF TableInv, Orderly
<1>o. Order(driver.program, pc)
  BY <1>0, StatementOrder
<1>1. PICK stmt : stmt = Statement /\ stmt = driver.program[pc]
  BY DEF Statement
<1>2. t \in Nat /\ clock <= t
  BY <1>0, SMT DEF Times
<1>3. \A at \in Nat : /\ ValueOf(RowOf(arg, at)) = arg /\ RowOf(arg, at).version \in Int
                      /\ RowOf(arg, at).at = at /\ RowOf(arg, at).version = arg.version
  BY <1>0, Written
<1>4. Rows(Seen)
  BY DEF TableInv, Seen
<1>5. CASE stmt = "replace"
  <2>1. After(stmt, t) = {RowOf(arg, 0)}
    BY <1>5 DEF After
  <2> QED
    BY <1>1, <1>2, <1>3, <2>1, SMT DEF Holds
<1>6. CASE stmt \in {"insert", "put"}
  <2>1. Seen = {}
    <3>1. /\ pc > 1 /\ driver.program[pc - 1] \in {"delete", "truncate", "deleteEach"}
          /\ driver.program[pc - 1] = "deleteEach" => driver.program[1] # "begin"
      BY <1>0, <1>o, <1>1, <1>6 DEF Order
    <3>2. Done(driver.program[pc - 1]) /\ inTx = (driver.program[1] = "begin")
      BY <3>1 DEF TableInv
    <3> QED
      BY <3>1, <3>2 DEF Done, Seen
  <2>2. After(stmt, t) = {RowOf(arg, 0)} \/ (After(stmt, t) = {} /\ ~Keeps(arg))
    <3>1. CASE stmt = "insert"
      <4>1. After(stmt, t) = IF Keeps(arg) THEN Seen \cup {RowOf(arg, 0)} ELSE Seen
        BY <3>1 DEF After
      <4> QED
        BY <2>1, <4>1
    <3>2. CASE stmt = "put"
      <4>1. After(stmt, t) = Seen \cup {RowOf(arg, 0)}
        BY <3>2 DEF After
      <4> QED
        BY <2>1, <4>1
    <3> QED
      BY <1>6, <3>1, <3>2
  <2>3. ~Keeps(arg) => arg = Empty
    BY <1>0, Written
  <2> QED
    BY <1>1, <1>2, <1>3, <2>2, <2>3, SMT DEF Holds
<1>7. CASE stmt \in {"append", "merge"}
  <2>1. driver.pick # "any"
    BY <1>0, <1>o, <1>1, <1>7 DEF Order
  <2>2. t = clock + 1
    BY <1>0, <1>1, <1>7, <2>1, VersionTableAssumption DEF Times, Stamped, Orderly
  <2>3. PICK r : r = RowOf(arg, t)
    OBVIOUS
  <2>4. PICK S : S \subseteq Seen /\ After(stmt, t) = S \cup {r}
    <3>1. CASE stmt = "append"
      BY <2>3, <3>1 DEF After
    <3>2. CASE stmt = "merge"
      <4>1. After(stmt, t) = {q \in Seen : q.version # arg.version} \cup {r}
        BY <2>3, <3>2 DEF After
      <4> QED
        BY <4>1
    <3> QED
      BY <1>7, <3>1, <3>2
  <2>5. ValueOf(r) = arg /\ r.version \in Int /\ r.at = t
    BY <1>2, <1>3, <2>3
  <2>6. \A s \in S : s.version \in Int /\ s.at \in Nat /\ s.at < t
    BY <1>0, <1>4, <2>2, <2>4, SMT DEF Rows
  <2>7. Holds(After(stmt, t), arg)
    BY <2>1, <2>4, <2>5, <2>6 DEF Holds
  <2>8. \A q \in After(stmt, t) : q.version \in Int /\ q.at \in Nat /\ q.at <= t
    BY <1>2, <2>4, <2>5, <2>6, SMT
  <2> QED
    BY <1>1, <1>2, <2>7, <2>8
<1> QED
  BY <1>1, <1>5, <1>6, <1>7

\* A Version sees the new value, the old one, or, for the drivers that promise less,
\* none.
Effect ==
  \/ rows' = rows
  \/ Torn /\ rows' = {}
  \/ pc = Len(driver.program) /\ Holds(rows, arg)'

\* The parts of the invariant after a step, with the statement that was done.
LEMMA TableNext ==
  ASSUME driver' = driver, driver \in Drivers, arg' \in Values, clock' \in Nat,
         Rows(rows)', Rows(work)', NEW value \in Values, Holds(rows, value)',
         pc' \in 0..Len(driver.program),
         NEW first, first = driver.program[1],
         inTx' <=> pc' > 1 /\ first = "begin", inTx' \in BOOLEAN,
         NEW stmt, pc' > 1 => driver.program[pc' - 1] = stmt /\ Done(stmt)'
  PROVE  TableInv'
<1>1. inTx' = (pc' > 1 /\ driver'.program[1] = "begin")
  OBVIOUS
<1>2. pc' > 1 => Done(driver.program[pc - 1])'
  <2>1. ASSUME pc' > 1
        PROVE  Done(driver.program[pc - 1])'
    <3>1. driver'.program[pc' - 1] = stmt
      BY <2>1
    <3> QED
      BY <2>1, <3>1 DEF Done
  <2> QED
    BY <2>1
<1> QED
  BY <1>1, <1>2 DEF TableInv

\* A statement that succeeds.
LEMMA StepEffect ==
  ASSUME TableInv, Orderly, Step
  PROVE  /\ TableInv' /\ Effect
         /\ pc = Len(driver.program) => Holds(rows, arg)' /\ pc' = 0
         /\ pc < Len(driver.program) => pc' # 0 /\ (rows' = rows \/ (Torn /\ rows' = {}))
<1>0. /\ driver \in Repository /\ pc \in 1..Len(driver.program) /\ arg \in Values /\ clock \in Nat
      /\ driver \in Drivers /\ Len(driver.program) \in Nat
      /\ driver' = driver /\ arg' = arg /\ Execute(Statement)
  BY StatementOrder, SMT DEF TableInv, Orderly, Step
<1>1. PICK p : p = driver.program
  OBVIOUS
<1>o. Order(p, pc)
  BY <1>0, <1>1, StatementOrder
<1>2. PICK stmt : stmt = Statement /\ stmt = p[pc]
  BY <1>1 DEF Statement
<1>3. PICK v \in Values : Holds(rows, v)
  BY DEF TableInv
<1>f. PICK first : first = p[1]
  OBVIOUS
<1>4. (inTx <=> pc > 1 /\ first = "begin") /\ inTx \in BOOLEAN
  BY <1>1, <1>f DEF TableInv
<1>d. (pc > 1 => Done(p[pc - 1])) /\ Rows(rows) /\ Rows(work)
  BY <1>1 DEF TableInv
<1>5. stmt # "deleteEach" => pc' = IF pc < Len(p) THEN pc + 1 ELSE 0
  BY <1>1, <1>2 DEF Step
<1>e. Empty \in Values
  BY DEF Empty, Values
<1>n. ASSUME Rows(rows)', Rows(work)', NEW value \in Values, Holds(rows, value)', clock' \in Nat,
             pc' \in 0..Len(p), inTx' <=> pc' > 1 /\ first = "begin", inTx' \in BOOLEAN,
             pc' > 1 => p[pc' - 1] = stmt /\ Done(stmt)'
      PROVE  TableInv'
  BY <1>0, <1>1, <1>f, <1>n, TableNext
<1>6. CASE stmt = "begin"
  <2>1. rows' = rows /\ work' = rows /\ clock' = clock
    BY <1>0, <1>2, <1>6 DEF Execute
  <2>t. inTx' /\ inTx' \in BOOLEAN
    BY <1>0, <1>2, <1>6 DEF Execute
  <2>2. pc = 1 /\ pc < Len(p) /\ pc' = 2
    BY <1>0, <1>1, <1>2, <1>5, <1>6, <1>o, SMT DEF Order
  <2>3. Done(stmt)'
    BY <1>6, <2>1 DEF Done
  <2>4. Rows(rows)' /\ Rows(work)'
    BY <1>d, <2>1 DEF Rows
  <2>h. Holds(rows, v)'
    BY <1>0, <1>3, <2>1 DEF Holds
  <2>5. pc' \in 0..Len(p) /\ p[pc' - 1] = stmt /\ first = "begin" /\ pc' > 1
    <3>1. pc' \in 0..Len(p) /\ pc' > 1 /\ pc' - 1 = 1
      BY <1>0, <1>1, <2>2, SMT
    <3>2. p[1] = stmt /\ first = "begin"
      BY <1>2, <1>f, <1>6, <2>2
    <3> QED
      BY <3>1, <3>2
  <2>6. TableInv'
    BY <1>0, <1>n, <2>1, <2>t, <2>3, <2>4, <2>h, <2>5
  <2>7. pc' # 0 /\ pc # Len(driver.program)
    <3>1. 2 # 0 /\ \A n \in Nat : 1 < n => 1 # n
      BY SMT
    <3> QED
      BY <1>0, <1>1, <2>2, <3>1
  <2> QED
    BY <2>1, <2>6, <2>7 DEF Effect
<1>7. CASE stmt = "commit"
  <2>1. rows' = work /\ work' = {} /\ clock' = clock
    BY <1>0, <1>2, <1>7 DEF Execute, NoTx
  <2>t. ~inTx' /\ inTx' \in BOOLEAN
    BY <1>0, <1>2, <1>7 DEF Execute, NoTx
  <2>2. pc = Len(p) /\ pc > 1 /\ p[pc - 1] \in {"insert", "put", "append"} /\ pc' = 0
    BY <1>0, <1>1, <1>2, <1>5, <1>7, <1>o, SMT DEF Order
  <2>3. Holds(rows, arg)'
    <3>1. Holds(work, arg)
      BY <1>d, <2>2 DEF Done
    <3> QED
      BY <1>0, <2>1, <3>1 DEF Holds
  <2>4. Rows(rows)' /\ Rows(work)'
    BY <1>0, <1>d, <2>1 DEF Rows
  <2>5. pc' \in 0..Len(p) /\ ~(pc' > 1)
    BY <1>0, <1>1, <2>2, SMT
  <2>a. PICK a \in Values : a = arg /\ a = arg'
    BY <1>0
  <2>b. Holds(rows, a)'
    BY <2>3, <2>a
  <2>6. TableInv'
    BY <1>0, <1>n, <2>1, <2>t, <2>4, <2>5, <2>a, <2>b
  <2> QED
    BY <1>0, <1>1, <2>2, <2>3, <2>6, SMT DEF Effect
<1>8. CASE stmt = "truncate"
  <2>1. rows' = {} /\ work' = {} /\ inTx' = inTx /\ clock' = clock
    BY <1>0, <1>2, <1>8 DEF Execute
  <2>2. pc < Len(p) /\ pc > 1 /\ p[1] = "begin" /\ Torn /\ pc' = pc + 1
    BY <1>0, <1>1, <1>2, <1>5, <1>8, <1>o DEF Order
  <2>3. Done(stmt)'
    BY <1>8, <2>1 DEF Done
  <2>4. Holds(rows, Empty)' /\ Rows(rows)' /\ Rows(work)'
    BY <2>1 DEF Holds, Rows
  <2>5. pc' \in 0..Len(p) /\ p[pc' - 1] = stmt /\ pc' > 1
    BY <1>0, <1>1, <1>2, <2>2, SMT
  <2>t. inTx' \in BOOLEAN /\ inTx' /\ first = "begin"
    BY <1>4, <1>f, <2>1, <2>2
  <2>6. TableInv'
    BY <1>0, <1>n, <1>e, <2>1, <2>3, <2>4, <2>5, <2>t
  <2> QED
    BY <1>0, <1>1, <2>1, <2>2, <2>6, SMT DEF Effect
<1>9. CASE stmt = "deleteEach"
  <2>1. /\ IF rows = {} THEN rows' = rows ELSE \E r \in rows : rows' = rows \ {r}
        /\ work' = work /\ inTx' = inTx /\ clock' = clock
    BY <1>0, <1>2, <1>9 DEF Execute
  <2>2. pc = 1 /\ pc < Len(p) /\ p[1] # "begin" /\ Torn /\ driver.pick = "any"
    BY <1>0, <1>1, <1>2, <1>9, <1>o DEF Order
  <2>3. rows' = {}
    BY <1>3, <2>1, <2>2 DEF Holds
  <2>4. pc' = IF rows # {} THEN 1 ELSE 2
    BY <1>0, <1>1, <1>2, <1>9, <2>2, SMT DEF Step
  <2>5. Done(stmt)'
    BY <1>9, <2>3 DEF Done
  <2>6. Holds(rows, Empty)' /\ Rows(rows)' /\ Rows(work)'
    BY <1>d, <2>1, <2>3 DEF Holds, Rows
  <2>7. pc' # 0 /\ pc' \in 0..Len(p) /\ (pc' > 1 => p[pc' - 1] = stmt)
    BY <1>0, <1>1, <1>2, <2>2, <2>4, SMT
  <2>t. inTx' \in BOOLEAN /\ ~inTx' /\ first # "begin"
    BY <1>4, <1>f, <2>1, <2>2
  <2>8. TableInv'
    BY <1>0, <1>n, <1>e, <2>1, <2>5, <2>6, <2>7, <2>t
  <2>9. Effect /\ pc < Len(driver.program) /\ Len(driver.program) \in Nat /\ pc \in Nat
    BY <1>0, <1>1, <2>2, <2>3 DEF Effect
  <2>10. pc # Len(driver.program)
    BY <2>9, SMT
  <2> QED
    BY <2>2, <2>3, <2>7, <2>8, <2>9, <2>10
<1>10. ASSUME stmt \notin {"begin", "commit", "truncate", "deleteEach"}
       PROVE  \E t \in Times(stmt) :
                /\ clock' = t
                /\ IF inTx THEN work' = After(stmt, t) /\ rows' = rows
                           ELSE rows' = After(stmt, t) /\ work' = work
                /\ inTx' = inTx
  BY <1>0, <1>2, <1>10 DEF Execute
<1>11. CASE stmt = "delete"
  <2>1. PICK t \in Times(stmt) :
             /\ clock' = t
             /\ IF inTx THEN work' = After(stmt, t) /\ rows' = rows
                        ELSE rows' = After(stmt, t) /\ work' = work
             /\ inTx' = inTx
    BY <1>10, <1>11
  <2>2. t = clock
    BY <1>11 DEF Times, Stamped
  <2>3. After(stmt, t) = {}
    BY <1>11 DEF After
  <2>4. /\ pc < Len(p) /\ pc' = pc + 1 /\ pc' > 1 /\ pc' \in 0..Len(p)
        /\ (first # "begin" => Torn) /\ (first = "begin" => pc > 1)
    BY <1>0, <1>1, <1>2, <1>f, <1>5, <1>11, <1>o, SMT DEF Order
  <2>p. p[pc' - 1] = stmt
    BY <1>0, <1>2, <2>4, SMT
  <2>t. inTx' \in BOOLEAN /\ (inTx' <=> pc' > 1 /\ first = "begin")
    BY <1>4, <2>1, <2>4
  <2>5. Done(stmt)'
    BY <1>11, <2>1, <2>3 DEF Done
  <2>6. CASE inTx
    <3>1. rows' = rows /\ work' = {} /\ clock' = clock
      BY <2>1, <2>2, <2>3, <2>6
    <3>2. Holds(rows, v)' /\ Rows(rows)' /\ Rows(work)'
      BY <1>0, <1>3, <1>d, <3>1 DEF Rows, Holds
    <3>3. TableInv'
      BY <1>0, <1>n, <2>4, <2>p, <2>t, <2>5, <3>1, <3>2
    <3> QED
      BY <1>0, <1>1, <2>4, <3>1, <3>3, SMT DEF Effect
  <2>7. CASE ~inTx
    <3>1. rows' = {} /\ work' = work /\ clock' = clock /\ Torn
      BY <1>4, <2>1, <2>2, <2>3, <2>4, <2>7
    <3>2. Holds(rows, Empty)' /\ Rows(rows)' /\ Rows(work)'
      BY <1>d, <3>1 DEF Holds, Rows
    <3>3. TableInv'
      BY <1>0, <1>n, <1>e, <2>4, <2>p, <2>t, <2>5, <3>1, <3>2
    <3> QED
      BY <1>0, <1>1, <2>4, <3>1, <3>3, SMT DEF Effect
  <2> QED
    BY <2>6, <2>7
<1>12. CASE stmt \in {"insert", "put", "replace", "append", "merge"}
  <2>1. PICK t \in Times(stmt) :
             /\ clock' = t
             /\ IF inTx THEN work' = After(stmt, t) /\ rows' = rows
                        ELSE rows' = After(stmt, t) /\ work' = work
             /\ inTx' = inTx
    BY <1>10, <1>12
  <2>2. /\ Holds(After(stmt, t), arg)
        /\ \A r \in After(stmt, t) : r.version \in Int /\ r.at \in Nat /\ r.at <= t
        /\ t \in Nat /\ clock <= t
    BY <1>0, <1>2, <1>12, Writes, SMT
  <2>3. Rows(rows)' /\ Rows(work)'
    <3>1. \A r \in rows \cup work : r.version \in Int /\ r.at \in Nat /\ r.at <= t
      BY <1>0, <1>d, <2>2, SMT DEF Rows
    <3> QED
      BY <2>1, <2>2, <3>1 DEF Rows
  <2>4. (pc < Len(p) <=> pc > 1 /\ first = "begin") /\ Len(p) \in Nat
    BY <1>0, <1>1, <1>2, <1>f, <1>12, <1>o, SMT DEF Order
  <2>a. PICK a \in Values : a = arg /\ a = arg'
    BY <1>0
  <2>5. CASE inTx
    <3>1. pc < Len(p) /\ pc' = pc + 1 /\ pc > 1 /\ first = "begin" /\ rows' = rows
      BY <1>4, <1>5, <1>12, <2>1, <2>4, <2>5
    <3>2. Holds(work, arg)'
      BY <1>0, <2>1, <2>2, <2>5 DEF Holds
    <3>3. Done(stmt)'
      BY <1>0, <1>2, <1>12, <1>o, <3>1, <3>2 DEF Done, Order
    <3>4. Holds(rows, v)'
      BY <1>0, <1>3, <3>1 DEF Holds
    <3>5. pc' \in 0..Len(p) /\ p[pc' - 1] = stmt /\ pc' > 1
      BY <1>0, <1>1, <1>2, <3>1, SMT
    <3>t. inTx' \in BOOLEAN /\ inTx'
      BY <1>4, <2>1, <2>5
    <3>6. TableInv'
      BY <1>0, <1>n, <2>1, <2>2, <2>3, <3>1, <3>3, <3>4, <3>5, <3>t
    <3> QED
      BY <1>0, <1>1, <3>1, <3>5, <3>6, SMT DEF Effect
  <2>6. CASE ~inTx
    <3>1. pc = Len(p) /\ pc' = 0 /\ ~(pc' > 1) /\ pc' \in 0..Len(p)
      BY <1>0, <1>1, <1>4, <1>5, <1>12, <2>4, <2>6, SMT
    <3>2. Holds(rows, a)'
      BY <1>0, <2>1, <2>2, <2>6, <2>a DEF Holds
    <3>3. Holds(rows, arg)'
      BY <3>2, <2>a
    <3>t. inTx' \in BOOLEAN /\ ~inTx'
      BY <1>4, <2>1, <2>6
    <3>4. TableInv'
      BY <1>0, <1>n, <2>1, <2>2, <2>3, <2>a, <3>1, <3>2, <3>t
    <3> QED
      BY <1>0, <1>1, <3>1, <3>3, <3>4, SMT DEF Effect
  <2> QED
    BY <2>5, <2>6
<1> QED
  BY <1>0, <1>1, <1>2, <1>6, <1>7, <1>8, <1>9, <1>11, <1>12, <1>o DEF Order

\* A statement that fails, or the death of the process.
LEMMA FailEffect ==
  ASSUME TableInv, Orderly, StepFails \/ Crash
  PROVE  /\ TableInv' /\ pc # 0 /\ pc' = 0
         /\ rows' = rows \/ (Torn /\ rows' = {}) \/ Holds(rows, arg)'
<1>0. /\ driver \in Repository /\ pc \in 1..Len(driver.program) /\ arg \in Values /\ clock \in Nat
      /\ driver \in Drivers /\ pc # 0 /\ pc' = 0
      /\ driver' = driver /\ arg' = arg
  BY SMT DEF TableInv, Orderly, StepFails, Crash
<1>1. PICK p : p = driver.program /\ Order(p, pc)
  BY <1>0, StatementOrder
<1>2. PICK stmt : stmt = Statement /\ stmt = p[pc]
  BY <1>1 DEF Statement
<1>3. PICK v \in Values : Holds(rows, v)
  BY DEF TableInv
<1>f. PICK first : first = p[1]
  OBVIOUS
<1>4. (inTx <=> pc > 1 /\ first = "begin") /\ inTx \in BOOLEAN
  BY <1>1, <1>f DEF TableInv
<1>d. (pc > 1 => Done(p[pc - 1])) /\ Rows(rows) /\ Rows(work)
  BY <1>1 DEF TableInv
<1>e. Empty \in Values
  BY DEF Empty, Values
<1>t. work' = {} /\ ~inTx' /\ inTx' \in BOOLEAN
  BY DEF StepFails, Crash, NoTx
<1>p. pc' \in 0..Len(driver.program) /\ ~(pc' > 1) /\ Rows(work)'
  BY <1>0, <1>t, SMT DEF Rows
<1>n. ASSUME NEW value \in Values, Holds(rows, value)', clock' \in Nat, Rows(rows)'
      PROVE  TableInv'
  BY <1>0, <1>t, <1>p, <1>n, TableNext
<1>5. CASE rows' = rows /\ clock' = clock
  <2>1. Rows(rows)'
    BY <1>d, <1>5 DEF Rows
  <2>2. Holds(rows, v)'
    BY <1>0, <1>3, <1>5 DEF Holds
  <2> QED
    BY <1>0, <1>5, <1>n, <2>1, <2>2
<1>6. CASE stmt = "commit" /\ rows' = work /\ clock' = clock
  <2>1. Holds(work, arg)
    BY <1>0, <1>1, <1>2, <1>d, <1>6 DEF Done, Order
  <2>2. Holds(rows, arg)'
    BY <1>0, <1>6, <2>1 DEF Holds
  <2>3. Rows(rows)'
    BY <1>d, <1>6 DEF Rows
  <2>4. PICK a \in Values : a = arg'
    BY <1>0
  <2>5. Holds(rows, a)'
    BY <2>2, <2>4
  <2> QED
    BY <1>0, <1>6, <1>n, <2>2, <2>3, <2>5
<1>7. CASE Torn /\ rows' = {} /\ clock' = clock
  <2>1. Holds(rows, Empty)' /\ Rows(rows)'
    BY <1>7 DEF Holds, Rows
  <2> QED
    BY <1>0, <1>7, <1>e, <1>n, <2>1
<1>8. ASSUME stmt \in {"insert", "put", "replace", "append", "merge"}, ~inTx,
             NEW t \in Times(stmt), rows' = After(stmt, t), clock' = t
      PROVE  TableInv' /\ Holds(rows, arg)'
  <2>1. /\ Holds(After(stmt, t), arg)
        /\ \A r \in After(stmt, t) : r.version \in Int /\ r.at \in Nat /\ r.at <= t
        /\ t \in Nat
    BY <1>0, <1>2, <1>8, Writes
  <2>2. Holds(rows, arg)'
    BY <1>0, <1>8, <2>1 DEF Holds
  <2>3. Rows(rows)'
    BY <1>8, <2>1 DEF Rows
  <2>4. PICK a \in Values : a = arg'
    BY <1>0
  <2>5. Holds(rows, a)'
    BY <2>2, <2>4
  <2> QED
    BY <1>8, <1>n, <2>1, <2>2, <2>3, <2>5
<1>9. CASE Crash
  BY <1>0, <1>5, <1>9 DEF Crash
<1>10. CASE StepFails
  <2>1. stmt = "truncate" => Torn
    BY <1>1, <1>2 DEF Order
  <2>2. ASSUME stmt = "deleteEach", NEW r \in rows, rows' = rows \ {r}
        PROVE  Torn /\ rows' = {}
    <3>1. Torn /\ driver.pick = "any"
      BY <1>1, <1>2, <2>2 DEF Order
    <3> QED
      BY <1>3, <2>2, <3>1 DEF Holds
  <2>3. ASSUME stmt \notin {"begin", "deleteEach"}, ~inTx,
               NEW t \in Times(stmt), rows' = After(stmt, t), clock' = t
        PROVE  TableInv' /\ ((Torn /\ rows' = {}) \/ Holds(rows, arg)')
    <3>1. stmt # "commit" /\ stmt # "truncate"
      BY <1>1, <1>2, <1>4, <1>f, <2>3 DEF Order
    <3>2. CASE stmt = "delete"
      <4>1. rows' = {}
        BY <2>3, <3>2 DEF After
      <4>2. clock' = clock
        BY <2>3, <3>2 DEF Times, Stamped
      <4>3. Torn
        BY <1>1, <1>2, <1>4, <1>f, <2>3, <3>2 DEF Order
      <4> QED
        BY <1>7, <4>1, <4>2, <4>3
    <3>3. CASE stmt \in {"insert", "put", "replace", "append", "merge"}
      BY <1>8, <2>3, <3>3
    <3> QED
      BY <1>1, <1>2, <2>3, <3>1, <3>2, <3>3 DEF Order
  <2>4. \/ rows' = rows /\ clock' = clock
        \/ stmt = "commit" /\ rows' = work /\ clock' = clock
        \/ stmt = "truncate" /\ rows' = {} /\ clock' = clock
        \/ /\ ~inTx /\ stmt \notin {"begin", "deleteEach"}
           /\ \E t \in Times(stmt) : rows' = After(stmt, t) /\ clock' = t
        \/ /\ stmt = "deleteEach" /\ \E r \in rows : rows' = rows \ {r}
           /\ clock' = clock
    BY <1>2, <1>10 DEF StepFails
  <2> QED
    BY <1>0, <1>5, <1>6, <1>7, <2>1, <2>2, <2>3, <2>4
<1> QED
  BY <1>9, <1>10

\* The promise depends on the driver alone.
LEMMA SamePromise ==
  ASSUME driver' = driver
  PROVE  Torn' = Torn /\ Quiet' = Quiet
BY DEF Torn, Quiet, mongodb, cassandra, oracle, mysql, sqlite3, sqlite, sqlcipher, ql, SqlDriver

\* What is stored after a step, from the rows.
LEMMA StoredNext ==
  ASSUME TableInv, TableInv', driver' = driver
  PROVE  /\ rows' = rows => Stored' = Stored
         /\ rows' = {} => Stored' = Empty
         /\ arg' = arg /\ Holds(rows, arg)' => Stored' = arg
<1>0. Rows(rows)' /\ clock' \in Nat /\ Rows(rows) /\ clock \in Nat
  BY DEF TableInv
<1>1. PICK v : Holds(rows, v)
  BY DEF TableInv
<1>2. ASSUME rows' = rows
      PROVE  Stored' = Stored
  <2>1. Stored = v
    BY <1>0, <1>1, HeldValue
  <2>2. Stored' = v
    BY <1>0, <1>1, <1>2, HeldValueNext DEF Holds
  <2> QED
    BY <2>1, <2>2
<1>3. ASSUME rows' = {}
      PROVE  Stored' = Empty
  BY <1>0, <1>3, HeldValueNext
<1>4. ASSUME arg' = arg, Holds(rows, arg)'
      PROVE  Stored' = arg
  <2>1. \/ rows' = {} /\ arg = Empty
        \/ \E r \in rows' : /\ ValueOf(r) = arg
                            /\ \A s \in rows' \ {r} : driver.pick # "any" /\ s.at < r.at
    BY <1>4 DEF Holds
  <2> QED
    BY <1>0, <2>1, HeldValueNext
<1> QED
  BY <1>2, <1>3, <1>4

\* Every step keeps the invariant and is a step of the register, or none.
LEMMA TableStep ==
  ASSUME TableInv, [Next]_vars, Orderly
  PROVE  /\ TableInv' /\ [Register!Next]_(Register!vars)
         /\ pc # 0 /\ pc = Len(driver.program) /\ Step => Stored' = arg
         /\ Stored' = Stored \/ (pc # 0 /\ Stored' = arg) \/ Torn
<1>0. /\ driver \in Repository /\ pc \in 0..Len(driver.program) /\ arg \in Values /\ clock \in Nat
      /\ driver \in Drivers
  BY DEF TableInv, Orderly
<1>1. PICK v \in Values : Holds(rows, v) /\ Rows(rows)
  BY DEF TableInv
<1>2. Reads(rows) = {v} /\ Stored = v
  BY <1>0, <1>1, HeldValue
<1>q. pc = 0 => ~inTx /\ inTx \in BOOLEAN
  <2>1. pc = 0 => ~(pc > 1)
    BY SMT
  <2> QED
    BY <2>1 DEF TableInv
<1>3. ASSUME Step
      PROVE  /\ TableInv' /\ [Register!Next]_(Register!vars)
             /\ pc # 0 /\ pc = Len(driver.program) => Stored' = arg
             /\ Stored' = Stored \/ (pc # 0 /\ Stored' = arg) \/ Torn
  <2>1. /\ TableInv' /\ Effect
        /\ pc = Len(driver.program) => Holds(rows, arg)' /\ pc' = 0
        /\ pc < Len(driver.program) => pc' # 0 /\ (rows' = rows \/ (Torn /\ rows' = {}))
    BY <1>3, StepEffect
  <2>2. driver' = driver /\ arg' = arg /\ got' = got /\ pc # 0
    BY <1>3 DEF Step
  <2>3. CASE pc = Len(driver.program)
    <3>1. Stored' = arg
      BY <2>1, <2>2, <2>3, StoredNext
    <3>2. Register!SetOk
      BY <2>1, <2>2, <2>3, <3>1, SamePromise DEF Register!SetOk
    <3> QED
      BY <2>1, <2>2, <3>1, <3>2 DEF Register!Next
  <2>4. CASE pc < Len(driver.program) /\ pc # Len(driver.program)
    <3>1. pc' # 0 /\ (Stored' = Stored \/ (Torn /\ Stored' = Empty))
      BY <2>1, <2>2, <2>4, StoredNext
    <3>2. CASE Stored' = Stored
      <4>1. UNCHANGED Register!vars
        BY <2>2, <3>1, <3>2, SamePromise DEF Register!vars
      <4> QED
        BY <2>1, <2>4, <3>2, <4>1
    <3>3. CASE Torn /\ Stored' = Empty
      <4>1. Register!Wipe
        BY <2>2, <3>1, <3>3, SamePromise DEF Register!Wipe
      <4> QED
        BY <2>1, <2>4, <3>3, <4>1 DEF Register!Next
    <3> QED
      BY <3>1, <3>2, <3>3
  <2>5. pc = Len(driver.program) \/ (pc < Len(driver.program) /\ pc # Len(driver.program))
    <3>1. Len(driver.program) \in Nat
      BY <1>0, <2>2, StatementOrder, SMT DEF Order
    <3> QED
      BY <1>0, <3>1, SMT
  <2> QED
    BY <2>3, <2>4, <2>5
<1>4. ASSUME StepFails \/ Crash
      PROVE  /\ TableInv' /\ [Register!Next]_(Register!vars)
             /\ Stored' = Stored \/ (pc # 0 /\ Stored' = arg) \/ Torn
  <2>1. /\ TableInv' /\ pc # 0 /\ pc' = 0
        /\ rows' = rows \/ (Torn /\ rows' = {}) \/ Holds(rows, arg)'
    BY <1>4, FailEffect
  <2>2. driver' = driver /\ arg' = arg /\ got' = got
    BY <1>4 DEF StepFails, Crash
  <2>3. Stored' = Stored \/ (Torn /\ Stored' = Empty) \/ Stored' = arg
    BY <2>1, <2>2, StoredNext
  <2>4. Register!SetFails
    BY <2>1, <2>2, <2>3, SamePromise DEF Register!SetFails
  <2> QED
    BY <2>1, <2>3, <2>4 DEF Register!Next
<1>5. ASSUME NEW value \in Values, SetVersion(value)
      PROVE  TableInv' /\ [Register!Next]_(Register!vars) /\ Stored' = Stored
  <2>1. /\ pc = 0 /\ pc' = 1 /\ arg' = value
        /\ UNCHANGED <<driver, rows, work, inTx, clock, got>>
    BY <1>5 DEF SetVersion
  <2>2. 1 \in 0..Len(driver.program)
    <3>1. 1 \in 1..Len(driver.program)
      BY <1>0, VersionTableAssumption, SMT DEF Driver
    <3> QED
      BY <3>1, SMT
  <2>3. TableInv'
    <3>1. Rows(rows)' /\ Rows(work)'
      BY <2>1 DEF TableInv, Rows
    <3>2. Holds(rows, v)'
      BY <1>1, <2>1 DEF Holds
    <3>3. ~inTx /\ inTx \in BOOLEAN
      BY <1>q, <2>1
    <3>4. ~(pc' > 1) /\ pc' \in 0..Len(driver.program)
      BY <2>1, <2>2, SMT
    <3>5. PICK first : first = driver.program[1]
      OBVIOUS
    <3> QED
      BY <1>0, <2>1, <3>1, <3>2, <3>3, <3>4, <3>5, TableNext
  <2>4. Stored' = Stored
    BY <2>1, <2>3, StoredNext
  <2>5. Register!Set(value)
    BY <2>1, <2>4, SamePromise, SMT DEF Register!Set
  <2> QED
    BY <2>1, <2>3, <2>4, <2>5 DEF Register!Next
<1>6. ASSUME UNCHANGED <<driver, rows, work, inTx, pc, arg, clock>>
      PROVE  TableInv' /\ Stored' = Stored
  <2>1. TableInv'
    BY <1>6 DEF TableInv, Rows, Holds, Done
  <2> QED
    BY <1>6, <2>1, StoredNext
<1>7. ASSUME Version \/ VersionFails
      PROVE  TableInv' /\ [Register!Next]_(Register!vars) /\ Stored' = Stored
  <2>1. UNCHANGED <<driver, rows, work, inTx, pc, arg, clock>>
    BY <1>7 DEF Version, VersionFails
  <2>2. \/ got' \in {[ok |-> TRUE, value |-> Stored], [ok |-> FALSE, value |-> Empty]}
        \/ Quiet /\ got' = [ok |-> TRUE, value |-> Empty]
    <3>1. CASE Version
      <4>1. driver.session = "one" => pc = 0
        BY <3>1 DEF Version, Orderly
      <4>2. (IF driver.session = "one" THEN Seen ELSE rows) = rows
        BY <1>q, <4>1 DEF Seen
      <4> QED
        BY <1>2, <3>1, <4>2 DEF Version
    <3>2. CASE VersionFails
      <4>1. PICK ok \in BOOLEAN : /\ driver.onError = "error" => ~ok
                                  /\ got' = [ok |-> ok, value |-> Empty]
        BY <3>2 DEF VersionFails
      <4>2. driver.onError # "error" => Quiet
        BY <1>0, Errors
      <4>3. ok = TRUE \/ ok = FALSE
        OBVIOUS
      <4> QED
        BY <4>1, <4>2, <4>3
    <3> QED
      BY <1>7, <3>1, <3>2
  <2>3. Register!Get
    BY <1>6, <2>1, <2>2, SamePromise DEF Register!Get
  <2> QED
    BY <1>6, <2>1, <2>3 DEF Register!Next
<1>8. ASSUME UNCHANGED vars
      PROVE  TableInv' /\ [Register!Next]_(Register!vars) /\ Stored' = Stored
  <2>1. UNCHANGED <<driver, rows, work, inTx, pc, arg, clock>> /\ got' = got
    BY <1>8 DEF vars
  <2> QED
    BY <1>6, <2>1, SamePromise DEF Register!vars
<1> QED
  BY <1>3, <1>4, <1>5, <1>7, <1>8 DEF Next

\* The table starts as an empty register.
LEMMA TableInit ==
  ASSUME Init, Orderly
  PROVE  TableInv /\ Register!Init
<1>1. Empty \in Values /\ 0 \in 0..Len(driver.program)
  <2>1. driver.program \in Seq({"begin", "delete", "truncate", "deleteEach", "insert", "put",
                                "replace", "append", "merge", "commit"})
    BY VersionTableAssumption DEF Init, Driver
  <2>2. Len(driver.program) \in Nat
    BY <2>1, SMT
  <2> QED
    BY <2>2, SMT DEF Empty, Values
<1>2. Rows(rows) /\ Rows(work) /\ Holds(rows, Empty)
  BY DEF Init, Rows, Holds
<1>3. inTx = (pc > 1 /\ driver.program[1] = "begin") /\ ~(pc > 1)
  <2>1. pc = 0 /\ ~(0 > 1)
    BY SMT DEF Init
  <2> QED
    BY <2>1 DEF Init
<1>4. TableInv
  BY <1>1, <1>2, <1>3 DEF Init, TableInv
<1>5. Stored = Empty
  BY <1>2, HeldValue DEF Init
<1>6. Torn \in BOOLEAN /\ Quiet \in BOOLEAN
  BY SMT DEF Torn, Quiet
<1> QED
  BY <1>4, <1>5, <1>6 DEF Init, Register!Init

\* SetVersion and Version of every driver of the repository implement the version
\* register, whatever statement fails and whenever the process dies, as long as nobody
\* calls Version on the session of a running SetVersion and, for the two drivers whose
\* latest row counts, the clock goes on between two calls.
THEOREM DriversKeepContract == Orderly => (Spec => VersionContract)
<1> SUFFICES ASSUME Orderly
             PROVE  Spec => VersionContract
  OBVIOUS
<1>1. Init => TableInv /\ Register!Init
  BY TableInit
<1>2. TableInv /\ [Next]_vars => TableInv' /\ [Register!Next]_(Register!vars)
  BY TableStep
<1> QED
  BY <1>1, <1>2, PTL DEF Spec, VersionContract, Register!Spec

\* A SetVersion that returns nil has stored its arguments, for every driver.
THEOREM LastWriteCounts == Orderly => (Spec => ReturnedIsStored)
<1> SUFFICES ASSUME Orderly
             PROVE  Spec => ReturnedIsStored
  OBVIOUS
<1>1. Init => TableInv
  BY TableInit
<1>2. TableInv /\ [Next]_vars => TableInv'
  BY TableStep
<1>3. TableInv /\ [Next]_vars
        => [pc # 0 /\ pc = Len(driver.program) /\ Step => Stored' = arg]_vars
  BY TableStep
<1> QED
  BY <1>1, <1>2, <1>3, PTL DEF Spec, ReturnedIsStored

\* A dirty mark gives way only to a value that SetVersion was told to store, whatever
\* fails, for every driver that does not delete the version first.
THEOREM DirtyMarkStays == Orderly => (Spec => DirtyStatePersists)
<1> SUFFICES ASSUME Orderly
             PROVE  Spec => DirtyStatePersists
  OBVIOUS
<1>1. Init => TableInv
  BY TableInit
<1>2. TableInv /\ [Next]_vars => TableInv'
  BY TableStep
<1>3. TableInv /\ [Next]_vars
        => [Stored.dirty /\ ~Stored'.dirty /\ ~Torn => pc # 0 /\ Stored' = arg]_vars
  BY TableStep
<1> QED
  BY <1>1, <1>2, <1>3, PTL DEF Spec, DirtyStatePersists

-----------------------------------------------------------------------------
\* The drivers that write the version in one statement or one transaction and report
\* the errors of Version.
Transactional ==
  /\ Orderly
  /\ Drivers \subseteq {postgres, pgx, sqlserver, redshift, snowflake, cockroachdb, spanner,
                        firebird, clickhouse, neo4j}

\* None of the drivers that promise less is among them.
LEMMA FullContract ==
  ASSUME driver \in {postgres, pgx, sqlserver, redshift, snowflake, cockroachdb, spanner,
                     firebird, clickhouse, neo4j}
  PROVE  ~Torn /\ ~Quiet
<1>1. \A s : SqlDriver("error", s).onError = "error" /\ SqlDriver("error", s).program[1] = "begin"
  BY DEF SqlDriver, Rewrite
<1>2. ASSUME driver \in {postgres, pgx, sqlserver, redshift, snowflake, cockroachdb}
      PROVE  driver.onError = "error" /\ driver.program[1] = "begin"
  BY <1>1, <1>2 DEF postgres, pgx, sqlserver, redshift, snowflake, cockroachdb
<1>3. /\ spanner.onError = "error" /\ spanner.program[1] = "begin"
      /\ firebird.onError = "error" /\ firebird.program[1] = "replace"
  BY DEF spanner, firebird, SqlDriver
<1>4. /\ clickhouse.onError = "error" /\ clickhouse.program[1] = "begin"
      /\ neo4j.onError = "error" /\ neo4j.program[1] = "merge"
  BY DEF clickhouse, neo4j
<1>5. driver.onError = "error" /\ driver.program[1] # "delete"
  BY <1>2, <1>3, <1>4
<1>6. /\ mongodb.program[1] = "delete"
      /\ cassandra.onError = "some" /\ oracle.onError = "some" /\ mysql.onError = "some"
  BY DEF mongodb, cassandra, oracle, mysql, SqlDriver
<1>7. /\ sqlite3.onError = "nil" /\ sqlite.onError = "nil"
      /\ sqlcipher.onError = "nil" /\ ql.onError = "nil"
  BY DEF sqlite3, sqlite, sqlcipher, ql, SqlDriver
<1> QED
  BY <1>5, <1>6, <1>7 DEF Torn, Quiet

\* SetVersion and Version of the drivers that use a transaction, or one statement, and
\* report errors implement an atomic register and promise nothing less: neither an
\* empty register meanwhile nor an error that looks like one.
THEOREM TransactionalContract ==
  Transactional => (Spec => VersionContract /\ [](~Torn /\ ~Quiet))
<1> SUFFICES ASSUME Transactional
             PROVE  Spec => VersionContract /\ [](~Torn /\ ~Quiet)
  OBVIOUS
<1>1. Init => TableInv
  BY TableInit DEF Transactional
<1>2. TableInv /\ [Next]_vars => TableInv'
  BY TableStep DEF Transactional
<1>3. TableInv => ~Torn /\ ~Quiet
  BY FullContract DEF Transactional, TableInv
<1>4. Spec => VersionContract
  BY DriversKeepContract DEF Transactional
<1> QED
  BY <1>1, <1>2, <1>3, <1>4, PTL DEF Spec
=============================================================================
