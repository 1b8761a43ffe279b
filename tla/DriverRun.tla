----------------------------- MODULE DriverRun -----------------------------
(***************************************************************************)
(* The body of a migration on its way into the database: the goroutine     *)
(* Buffer writes it into a pipe, the driver's Run reads the pipe, cuts the *)
(* text into statements and executes them.  A body is a sequence of        *)
(* tokens: pieces of text, blanks, statement separators, and texts that    *)
(* are longer than a scanner's buffer.  Body reads, statements and commits *)
(* may fail, before or after they took effect.                             *)
(***************************************************************************)
EXTENDS Integers, Sequences, FiniteSets

CONSTANTS
  Drivers,  \* the drivers under study
  Bodies,   \* the bodies under study
  Cap,      \* tokens in the buffer of multistmt's scanner: the larger of
            \* StartBufSize and MultiStatementMaxSize
  Chunk,    \* the most tokens a read of the pipe returns
  MaxTries  \* calls after which the Neo4j library gives up

Token == {"text", "blank", "sep", "long"}

Driver ==
  [read : {"all", "scan", "lines"}, \* all of the body, statement by statement, line by line
   unit : {"whole", "each"},        \* what is sent to the database at once
   tx : BOOLEAN,                    \* in a transaction of its own
   skips : {"none", "blank", "empty"}, \* no call for blanks, or for them and a separator
   parses : BOOLEAN,                \* a parser may refuse the body
   retries : BOOLEAN]               \* the database library may call the function again

ASSUME DriverRunAssumption ==
  /\ Drivers \subseteq Driver /\ Bodies \subseteq Seq(Token)
  /\ Cap \in Nat \ {0} /\ Chunk \in Nat \ {0} /\ MaxTries \in Nat \ {0}

\* No driver that reads line by line opens a transaction.
ASSUME TransactionAssumption == \A d \in Drivers : d.tx => d.read # "lines"

-----------------------------------------------------------------------------
\* The Run methods.
Runs(read, unit) ==
  [read |-> read, unit |-> unit, tx |-> FALSE, skips |-> "none", parses |-> FALSE,
   retries |-> FALSE]

postgres == [Runs("all", "whole") EXCEPT !.skips = "blank"]
postgresMulti == [Runs("scan", "each") EXCEPT !.skips = "blank"]
pgx == [Runs("all", "whole") EXCEPT !.skips = "blank"]
pgxMulti == [Runs("scan", "each") EXCEPT !.skips = "blank"]
mysql == Runs("all", "whole")
sqlserver == Runs("all", "whole")
redshift == Runs("all", "whole")
snowflake == Runs("all", "whole")
cockroachdb == Runs("all", "whole")
firebird == Runs("all", "whole")
spanner == Runs("all", "whole")
spannerClean == [Runs("all", "each") EXCEPT !.parses = TRUE, !.skips = "empty"]
clickhouse == Runs("all", "whole")
clickhouseMulti == [Runs("scan", "each") EXCEPT !.skips = "blank"]
cassandra == Runs("all", "whole")
cassandraMulti == [Runs("scan", "each") EXCEPT !.skips = "blank"]
sqlite3 == [Runs("all", "whole") EXCEPT !.tx = TRUE]
sqlite3NoTx == Runs("all", "whole")
sqlite == [Runs("all", "whole") EXCEPT !.tx = TRUE]
sqlcipher == [Runs("all", "whole") EXCEPT !.tx = TRUE]
ql == [Runs("all", "whole") EXCEPT !.tx = TRUE]
mongodb == [Runs("all", "each") EXCEPT !.parses = TRUE, !.skips = "empty"]
mongodbTx == [Runs("all", "each") EXCEPT !.parses = TRUE, !.skips = "empty", !.tx = TRUE]
neo4j == Runs("all", "whole")
neo4jMulti == [Runs("scan", "each") EXCEPT !.skips = "empty", !.tx = TRUE, !.retries = TRUE]

\* A body of comment lines alone is an empty one; blank lines are sent.
oracle == Runs("lines", "whole")
oracleMulti == [Runs("lines", "each") EXCEPT !.skips = "empty"]

-----------------------------------------------------------------------------
VARIABLES
  driver, body,
  buffer,   \* where Buffer is; "failed": it returned early
  pc,       \* where Run is
  lo, hi,   \* Run has read body[1..hi] and has dealt with body[1..lo-1]
  eof,      \* Run has seen the end of what it will read
  stmt,     \* the last token of the statement it executes
  stmts,    \* the statements it has sent to the database, as pairs of positions
  staged,   \* the texts executed in the open transaction, as positions
  applied,  \* the texts that took effect in the database
  tries,    \* calls of the function that reads, for libraries that repeat it
  result

vars == <<driver, body, buffer, pc, lo, hi, eof, stmt, stmts, staged, applied, tries, result>>

Positions == 1..Len(body)

\* The types of the variables.
TypeOK ==
  /\ driver \in Drivers /\ body \in Bodies
  /\ buffer \in {"peek", "write", "closed", "done", "failed"}
  /\ pc \in {"reading", "cutting", "running", "committing", "done"}
  /\ hi \in 0..Len(body) /\ lo \in 1..hi+1 /\ stmt \in 0..hi
  /\ eof \in BOOLEAN
  /\ stmts \subseteq Positions \X Positions
  /\ staged \subseteq Positions /\ applied \subseteq Positions
  /\ tries \in 1..MaxTries /\ result \in {"nil", "error", "ErrTooLong"}

Init ==
  /\ driver \in Drivers /\ body \in Bodies
  /\ buffer = "peek" /\ pc = "reading"
  /\ lo = 1 /\ hi = 0 /\ eof = FALSE
  /\ stmt = 0 /\ stmts = {} /\ staged = {} /\ applied = {} /\ tries = 1
  /\ result = "nil"

IsText(i) == body[i] \in {"text", "long"}
Texts(i, j) == {k \in i..j : IsText(k)}

\* Room that body[i..j] takes in the scanner's buffer.
Size(i, j) == Cardinality(i..j) + Cap * Cardinality({k \in i..j : body[k] = "long"})

UnchangedBuffer == UNCHANGED <<driver, body, buffer, tries>>
UnchangedRun == UNCHANGED <<pc, lo, hi, eof, stmt, stmts, staged, applied, result>>

-----------------------------------------------------------------------------
(***************************************************************************)
(* Migration.Buffer, a goroutine of its own.                               *)
(***************************************************************************)

\* The first BufferSize bytes are read ahead.
Peek ==
  /\ buffer = "peek" /\ buffer' = "write"
  /\ UNCHANGED <<driver, body, tries>> /\ UnchangedRun

\* A read of the body fails: Buffer returns, and the pipe stays open.
BodyFails ==
  /\ buffer = "peek" \/ (buffer = "write" /\ hi < Len(body))
  /\ buffer' = "failed"
  /\ UNCHANGED <<driver, body, tries>> /\ UnchangedRun

\* Mutant: the pipe of an empty body is not closed.
ClosePipeIfUsed ==
  /\ buffer = "write" /\ hi = Len(body) /\ hi > 0 /\ buffer' = "closed"
  /\ UNCHANGED <<driver, body, tries>> /\ UnchangedRun

ClosePipe ==
  /\ buffer = "write" /\ hi = Len(body) /\ buffer' = "closed"
  /\ UNCHANGED <<driver, body, tries>> /\ UnchangedRun

\* The last step; an error of Close goes nowhere.
CloseBody ==
  /\ buffer = "closed" /\ buffer' = "done"
  /\ UNCHANGED <<driver, body, tries>> /\ UnchangedRun

-----------------------------------------------------------------------------
(***************************************************************************)
(* Run reads.                                                              *)
(***************************************************************************)

\* Mutant: the last piece comes together with the end of file.
ReadToEnd(k) ==
  /\ pc = "reading" /\ buffer = "write" /\ hi + k <= Len(body)
  /\ driver.read = "scan" => Size(lo, hi + k - 1) < Cap
  /\ hi' = hi + k /\ eof' = (hi + k = Len(body)) /\ pc' = "cutting"
  /\ UNCHANGED <<lo, stmt, stmts, staged, applied, result>> /\ UnchangedBuffer

\* Mutant: Run reads more than there is room for.
ReadNoRoom(k) ==
  /\ pc = "reading" /\ buffer = "write" /\ hi + k <= Len(body)
  /\ hi' = hi + k /\ pc' = "cutting"
  /\ UNCHANGED <<lo, eof, stmt, stmts, staged, applied, result>> /\ UnchangedBuffer

\* A write of Buffer meets a read of Run, which takes as much as it has room for.
Read(k) ==
  /\ pc = "reading" /\ buffer = "write" /\ hi + k <= Len(body)
  /\ driver.read = "scan" => Size(lo, hi + k - 1) < Cap
  /\ hi' = hi + k /\ pc' = "cutting"
  /\ UNCHANGED <<lo, eof, stmt, stmts, staged, applied, result>> /\ UnchangedBuffer

\* The pipe is closed and empty: a read returns no data.
ReadEOF ==
  /\ pc = "reading" /\ buffer \in {"closed", "done"}
  /\ eof' = TRUE /\ pc' = "cutting"
  /\ UNCHANGED <<lo, hi, stmt, stmts, staged, applied, result>> /\ UnchangedBuffer

\* A line that does not fit ends the loops over the lines, which do not ask why;
\* the rest of it stays in the pipe.
LongLine ==
  /\ pc = "cutting" /\ driver.read = "lines" /\ ~eof
  /\ \E i \in lo..hi : body[i] = "long" /\ hi' = i - 1 /\ \A j \in lo..(i-1) : body[j] # "long"
  /\ eof' = TRUE
  /\ UNCHANGED <<pc, lo, stmt, stmts, staged, applied, result>> /\ UnchangedBuffer

\* A statement ends with the first separator of the buffer.
Separator(e) == e \in lo..hi /\ body[e] = "sep" /\ \A i \in lo..(e-1) : body[i] # "sep"

NoSeparator == \A i \in lo..hi : body[i] # "sep"

\* ReadAll reads on to the end of the body, a scanner until it has a statement.
ReadOn ==
  /\ pc = "cutting" /\ ~eof
  /\ CASE driver.read = "all" -> TRUE
       [] driver.read = "lines" -> \A i \in lo..hi : body[i] # "long"
       [] OTHER -> NoSeparator /\ Size(lo, hi) < Cap
  /\ pc' = "reading"
  /\ UNCHANGED <<lo, hi, eof, stmt, stmts, staged, applied, result>> /\ UnchangedBuffer

\* The buffer is full and holds no separator.
TooLong ==
  /\ pc = "cutting" /\ driver.read = "scan" /\ ~eof
  /\ NoSeparator /\ Size(lo, hi) >= Cap
  /\ pc' = "done" /\ result' = "ErrTooLong" /\ staged' = {}
  /\ UNCHANGED <<lo, hi, eof, stmt, stmts, applied>> /\ UnchangedBuffer

\* The body is not what the parser of the driver expects.
ParseFails ==
  /\ pc = "cutting" /\ eof /\ driver.parses /\ lo = 1
  /\ pc' = "done" /\ result' = "error"
  /\ UNCHANGED <<lo, hi, eof, stmt, stmts, staged, applied>> /\ UnchangedBuffer

\* body[lo..e] is the next statement.  At the end of file the split function of
\* multistmt does not look for separators any more.
IsNext(e) ==
  /\ lo <= hi
  /\ CASE driver.unit = "whole" -> eof /\ e = hi
       [] driver.read = "scan" -> IF eof THEN e = hi ELSE Separator(e)
       [] OTHER -> eof /\ (Separator(e) \/ (NoSeparator /\ e = hi))

\* body[lo..e] has nothing for the database.
IsBlank(e) ==
  /\ driver.skips # "none"
  /\ \A i \in lo..e : body[i] = "blank" \/ (driver.skips = "empty" /\ body[i] = "sep")

Cut(e) ==
  /\ pc = "cutting" /\ IsNext(e)
  /\ IF IsBlank(e)
     THEN lo' = e + 1 /\ UNCHANGED <<pc, stmt>>
     ELSE pc' = "running" /\ stmt' = e /\ UNCHANGED lo
  /\ UNCHANGED <<hi, eof, stmts, staged, applied, result>> /\ UnchangedBuffer

-----------------------------------------------------------------------------
(***************************************************************************)
(* Run executes.                                                           *)
(***************************************************************************)
Sent == stmts' = stmts \cup {<<lo, stmt>>}

\* Mutant: the transaction is not used.
ExecOutside ==
  /\ pc = "running" /\ pc' = "cutting" /\ lo' = stmt + 1 /\ Sent
  /\ applied' = applied \cup Texts(lo, stmt)
  /\ UNCHANGED <<hi, eof, stmt, staged, result>> /\ UnchangedBuffer

Exec ==
  /\ pc = "running" /\ pc' = "cutting" /\ lo' = stmt + 1 /\ Sent
  /\ IF driver.tx
     THEN staged' = staged \cup Texts(lo, stmt) /\ UNCHANGED applied
     ELSE applied' = applied \cup Texts(lo, stmt) /\ UNCHANGED staged
  /\ UNCHANGED <<hi, eof, stmt, result>> /\ UnchangedBuffer

\* Mutant: Run goes on with the next statement.
ExecSkips ==
  /\ pc = "running" /\ pc' = "cutting" /\ lo' = stmt + 1 /\ Sent
  /\ UNCHANGED <<hi, eof, stmt, staged, applied, result>> /\ UnchangedBuffer

\* The database executed body[lo..k] of what it was sent, nothing, or all and the
\* answer is lost.  A transaction is rolled back.
ExecFails ==
  /\ pc = "running" /\ pc' = "done" /\ result' = "error" /\ Sent
  /\ \E k \in {lo - 1, stmt} \cup {i \in lo..stmt : body[i] = "sep"} :
       applied' = IF driver.tx THEN applied ELSE applied \cup Texts(lo, k)
  /\ staged' = {}
  /\ UNCHANGED <<lo, hi, eof, stmt>> /\ UnchangedBuffer

\* Mutant: an empty buffer is taken for the end.
FinishEarly ==
  /\ pc = "cutting" /\ lo = hi + 1
  /\ pc' = IF driver.tx THEN "committing" ELSE "done"
  /\ UNCHANGED <<lo, hi, eof, stmt, stmts, staged, applied, result>> /\ UnchangedBuffer

\* Nothing is left: commit, or return.
Finish ==
  /\ pc = "cutting" /\ eof /\ lo = hi + 1
  /\ pc' = IF driver.tx THEN "committing" ELSE "done"
  /\ UNCHANGED <<lo, hi, eof, stmt, stmts, staged, applied, result>> /\ UnchangedBuffer

Commit ==
  /\ pc = "committing" /\ pc' = "done"
  /\ applied' = applied \cup staged /\ staged' = {}
  /\ UNCHANGED <<lo, hi, eof, stmt, stmts, result>> /\ UnchangedBuffer

CommitFails ==
  /\ pc = "committing" /\ pc' = "done" /\ result' = "error"
  /\ applied' \in {applied, applied \cup staged} /\ staged' = {}
  /\ UNCHANGED <<lo, hi, eof, stmt, stmts>> /\ UnchangedBuffer

\* WriteTransaction of the Neo4j library calls its function again after a
\* transient error.  The pipe does not start again, and what the scanner of the
\* first attempt has buffered is lost.
Retry ==
  /\ driver.retries /\ pc \in {"running", "committing"} /\ tries < MaxTries
  /\ pc' = "cutting" /\ lo' = hi + 1 /\ staged' = {} /\ tries' = tries + 1
  /\ UNCHANGED <<driver, body, buffer, hi, eof, stmt, stmts, applied, result>>

-----------------------------------------------------------------------------
BufferStep == Peek \/ ClosePipe \/ CloseBody

RunStep ==
  \/ \E k \in 1..Chunk : Read(k)
  \/ ReadEOF \/ LongLine \/ ReadOn \/ TooLong
  \/ \E e \in Positions : Cut(e)
  \/ Exec \/ Finish \/ Commit

Failure == BodyFails \/ ParseFails \/ ExecFails \/ CommitFails \/ Retry

Next == BufferStep \/ RunStep \/ Failure

Spec == Init /\ [][Next]_vars

\* Both goroutines run on; nothing has to fail.
FairSpec == Spec /\ WF_vars(BufferStep) /\ WF_vars(RunStep)

-----------------------------------------------------------------------------
(***************************************************************************)
(* Properties.                                                             *)
(***************************************************************************)

\* What has taken effect of a migration is a beginning of it, whatever failed: no
\* statement before another one is missing, unless a library repeats the function.
AppliedInOrder ==
  ~driver.retries => \E k \in 0..Len(body) : applied = Texts(1, k)

\* Run returns nil only when the whole body has taken effect.
SuccessIsComplete ==
  pc = "done" /\ result = "nil" => applied = Texts(1, Len(body))

\* SuccessIsComplete where no library repeats the function and no line is longer
\* than the scanner of the Oracle driver takes.
AppliesMigration ==
  ~driver.retries /\ (driver.read = "lines" => \A i \in Positions : body[i] # "long") =>
    SuccessIsComplete

\* A driver that wraps the migration in a transaction applies all of it or nothing.
AllOrNothing ==
  driver.tx /\ ~driver.retries => applied \in {{}, Texts(1, Len(body))}

\* The statements sent one by one are those between the separators of the body,
\* however the pipe cut it into pieces.
StatementsAreWhole ==
  driver.unit = "each" /\ driver.read # "lines" /\ ~driver.retries =>
    \A s \in stmts :
      /\ s[1] = 1 \/ body[s[1] - 1] = "sep"
      /\ s[2] = Len(body) \/ body[s[2]] = "sep"
      /\ \A i \in s[1]..(s[2] - 1) : body[i] # "sep"

\* A statement without its separator that does not fit into the buffer.
Oversized ==
  \E i, j \in Positions :
    /\ i <= j /\ (i = 1 \/ body[i - 1] = "sep")
    /\ \A k \in i..j : body[k] # "sep"
    /\ Size(i, j) >= Cap

\* multistmt reports "token too long" exactly for the bodies that have an oversized
\* statement, unless a statement before it failed.
TooLongExactly ==
  driver.read = "scan" /\ ~driver.retries /\ pc = "done" =>
    /\ result = "ErrTooLong" => Oversized
    /\ result = "nil" => ~Oversized

\* Run returns, unless Buffer gave up: then it waits for the rest of the body.
RunReturns == <>(pc = "done" \/ buffer = "failed")

\* After a Run that returned nil, Buffer closes the body and ends.
BufferEnds ==
  (pc = "done" /\ result = "nil" /\ driver.read # "lines") ~> buffer \in {"done", "failed"}
=============================================================================
