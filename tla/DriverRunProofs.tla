--------------------------- MODULE DriverRunProofs ---------------------------
(***************************************************************************)
(* What Run makes of the body of a migration, for every body, every size   *)
(* of the pieces the pipe delivers and every size of the scanner's buffer. *)
(***************************************************************************)
EXTENDS DriverRun, FiniteSetTheorems, TLAPS

\* Most steps need no arithmetic: a step that does not say SMT is one for Zenon.
USE Zenon

-----------------------------------------------------------------------------
(***************************************************************************)
(* The inductive invariant.                                                *)
(***************************************************************************)

\* The driver reads lines, and the body has one that does not fit.
LongLines == driver.read = "lines" /\ \E i \in Positions : body[i] = "long"

\* Where Run is in the body.
ReadInv ==
  /\ driver \in Drivers /\ body \in Seq(Token) /\ eof \in BOOLEAN
  /\ pc \in {"reading", "cutting", "running", "committing", "done"}
  /\ hi \in 0..Len(body) /\ lo \in 1..(hi + 1) /\ stmt \in Nat
  /\ buffer \in {"closed", "done"} => hi = Len(body) \/ eof
  /\ eof => hi = Len(body) \/ LongLines
  /\ pc = "reading" => ~eof
  /\ pc = "running" => lo <= stmt /\ stmt <= hi
  /\ pc = "committing" => driver.tx /\ eof /\ lo = hi + 1
  /\ pc # "done" => result = "nil"
  /\ pc = "done" /\ result = "nil" => eof /\ lo = hi + 1

\* What has been executed.
EffectInv ==
  ~driver.retries =>
    /\ driver.tx /\ pc # "done" => applied = {} /\ staged = Texts(1, lo - 1)
    /\ ~driver.tx /\ pc # "done" => applied = Texts(1, lo - 1)
    /\ driver.tx => applied = {} \/ (eof /\ applied = Texts(1, hi))
    /\ pc = "done" => \E k \in 0..Len(body) : applied = Texts(1, k)
    /\ pc = "done" /\ result = "nil" => applied = Texts(1, hi)

\* A statement may start at i.
Starts(i) == i = 1 \/ body[i - 1] = "sep"

\* body[i..j] has no separator.
Unbroken(i, j) == \A k \in i..j : body[k] # "sep"

\* Where the body has been cut.
CutInv ==
  driver.read # "lines" /\ ~driver.retries =>
    /\ Starts(lo) \/ lo = Len(body) + 1
    /\ driver.read = "scan" /\ (pc = "reading" \/ eof) => Unbroken(lo, hi)
    /\ pc = "running" => stmt = Len(body) \/ body[stmt] = "sep"
    /\ pc = "running" /\ driver.unit = "each" => Unbroken(lo, stmt - 1)

\* What the scanner has taken fits but for the last token: the buffer may be full.
LastFits == Size(lo, hi - 1) < Cap

\* All of it fits while it reads on and at the end of the file.
ReadFits == pc = "reading" \/ eof => Size(lo, hi) < Cap

\* So do the statements that it has returned.
ReturnedFit ==
  \A i, j \in Positions :
    i <= j /\ j < lo /\ Starts(i) /\ Unbroken(i, j) => Size(i, j) < Cap

\* The end of the statement that is executed.
RunningEnds ==
  pc = "running" => (stmt = hi /\ eof) \/ (body[stmt] = "sep" /\ Unbroken(lo, stmt - 1))

\* Why the scanner gave up.
GaveUp == pc = "done" /\ result = "ErrTooLong" => Unbroken(lo, hi) /\ Size(lo, hi) >= Cap

\* What there is in the buffer of a scanner.
FitInv ==
  driver.read = "scan" /\ ~driver.retries =>
    LastFits /\ ReadFits /\ ReturnedFit /\ RunningEnds /\ GaveUp

\* Run starts at the beginning of the body.
LEMMA ReadInit == Init => ReadInv
<1> SUFFICES ASSUME Init
             PROVE  ReadInv
  OBVIOUS
<1>1. body \in Seq(Token) /\ Len(body) \in Nat
  BY DriverRunAssumption, SMT DEF Init
<1>2. driver \in Drivers /\ hi \in 0..Len(body) /\ lo \in 1..(hi + 1) /\ stmt \in Nat
  BY <1>1, SMT DEF Init
<1> QED
  BY <1>1, <1>2 DEF Init, ReadInv

\* Buffer closes the pipe when all of the body is read, so Run meets the end of the
\* file there, unless the loop over the lines of the Oracle driver stopped earlier.
LEMMA ReadStep ==
  ASSUME ReadInv, [Next]_vars
  PROVE  ReadInv'
<1> USE DEF ReadInv, LongLines, Positions, UnchangedBuffer, UnchangedRun
<1>0. Len(body) \in Nat /\ Chunk \in Nat
  BY DriverRunAssumption, SMT
<1>1. CASE UNCHANGED vars
  BY <1>1 DEF vars
<1>2. CASE Peek \/ ClosePipe \/ CloseBody \/ BodyFails
  BY <1>2, SMT DEF Peek, ClosePipe, CloseBody, BodyFails
<1>3. ASSUME NEW k \in 1..Chunk, Read(k)
      PROVE  ReadInv'
  BY <1>0, <1>3, SMT DEF Read
<1>4. CASE ReadEOF
  BY <1>4 DEF ReadEOF
<1>5. CASE LongLine
  BY <1>0, <1>5, SMT DEF LongLine
<1>6. CASE ReadOn \/ TooLong \/ ParseFails
  BY <1>6, SMT DEF ReadOn, TooLong, ParseFails
<1>7. ASSUME NEW e \in Positions, Cut(e)
      PROVE  ReadInv'
  <2>1. lo <= e /\ e <= hi
    BY <1>0, <1>7, SMT DEF Cut, IsNext, Separator
  <2>2. CASE IsBlank(e)
    BY <1>0, <1>7, <2>1, <2>2, SMT DEF Cut
  <2>3. CASE ~IsBlank(e)
    BY <1>0, <1>7, <2>1, <2>3, SMT DEF Cut
  <2> QED
    BY <2>2, <2>3
<1>8. CASE Exec \/ ExecFails
  <2>1. CASE Exec
    BY <1>0, <2>1, SMT DEF Exec
  <2>2. CASE ExecFails
    BY <2>2 DEF ExecFails
  <2> QED
    BY <1>8, <2>1, <2>2
<1>9. CASE Finish
  BY <1>9 DEF Finish
<1>10. CASE Commit \/ CommitFails
  BY <1>10 DEF Commit, CommitFails
<1>11. CASE Retry
  BY <1>0, <1>11, SMT DEF Retry
<1> QED
  BY <1>1, <1>2, <1>3, <1>4, <1>5, <1>6, <1>7, <1>8, <1>9, <1>10, <1>11
  DEF Next, BufferStep, RunStep, Failure

-----------------------------------------------------------------------------
(***************************************************************************)
(* What takes effect.                                                      *)
(***************************************************************************)

\* The driver and the body stay the same.
LEMMA DriverKept ==
  ASSUME [Next]_vars
  PROVE  driver' = driver /\ body' = body
BY DEF Next, BufferStep, RunStep, Failure, vars, Peek, ClosePipe, CloseBody, Read, ReadEOF,
   LongLine, ReadOn, TooLong, Cut, Exec, Finish, Commit, BodyFails, ParseFails, ExecFails,
   CommitFails, Retry, UnchangedBuffer

\* A statement after a beginning of the body makes a longer beginning.
LEMMA TextsGrow ==
  ASSUME NEW n \in Nat, n >= 1, NEW k \in Nat, n <= k + 1
  PROVE  Texts(1, n - 1) \cup Texts(n, k) = Texts(1, k)
BY SMT DEF Texts

\* A statement that Run skips has no text.
LEMMA BlankTexts ==
  ASSUME ReadInv, NEW e \in Nat, lo <= e, IsBlank(e)
  PROVE  Texts(1, e) = Texts(1, lo - 1)
<1>1. \A i \in lo..e : ~IsText(i)
  BY DEF IsBlank, IsText
<1>2. lo \in Nat /\ lo >= 1
  BY SMT DEF ReadInv
<1> QED
  BY <1>1, <1>2, SMT DEF Texts

\* Nothing is executed when Run starts.
LEMMA EffectInit == Init => EffectInv
BY SMT DEF Init, EffectInv, Texts

\* Run executes the statements in their order, in the transaction if it has one.
LEMMA EffectStep ==
  ASSUME ReadInv, EffectInv, [Next]_vars
  PROVE  EffectInv'
<1> SUFFICES ASSUME ~driver.retries, driver' = driver
             PROVE  EffectInv'
  BY DriverKept DEF EffectInv
<1>0. /\ Len(body) \in Nat /\ Chunk \in Nat
      /\ hi \in Nat /\ hi <= Len(body) /\ lo \in Nat /\ lo >= 1 /\ lo <= hi + 1 /\ stmt \in Nat
      /\ driver.tx \in BOOLEAN
  BY DriverRunAssumption, SMT DEF ReadInv, Driver
<1>a. driver.tx => driver.read # "lines"
  BY TransactionAssumption DEF ReadInv
<1>1. CASE UNCHANGED vars
  BY <1>1 DEF vars, EffectInv, Texts, IsText
<1>2. CASE Peek \/ ClosePipe \/ CloseBody \/ BodyFails
  BY <1>2 DEF Peek, ClosePipe, CloseBody, BodyFails, UnchangedRun, EffectInv, Texts, IsText
<1>3. ASSUME NEW k \in 1..Chunk, Read(k)
      PROVE  EffectInv'
  BY <1>0, <1>3 DEF Read, UnchangedBuffer, EffectInv, Texts, IsText, ReadInv
<1>4. CASE ReadEOF
  BY <1>0, <1>4 DEF ReadEOF, UnchangedBuffer, EffectInv, Texts, IsText, ReadInv
<1>5. CASE LongLine
  BY <1>0, <1>a, <1>5 DEF LongLine, UnchangedBuffer, EffectInv, Texts, IsText, ReadInv
<1>6. CASE ReadOn
  BY <1>0, <1>6 DEF ReadOn, UnchangedBuffer, EffectInv, Texts, IsText, ReadInv
<1>7. CASE TooLong \/ ParseFails
  <2>1. \E k \in 0..Len(body) : applied = Texts(1, k)
    <3>1. CASE driver.tx
      BY <1>0, <1>7, <3>1, SMT DEF TooLong, ParseFails, EffectInv, Texts
    <3>2. CASE ~driver.tx
      BY <1>0, <1>7, <3>2, SMT DEF TooLong, ParseFails, EffectInv
    <3> QED
      BY <3>1, <3>2
  <2> QED
    BY <1>0, <1>7, <2>1 DEF TooLong, ParseFails, UnchangedBuffer, EffectInv, Texts, IsText
<1>8. ASSUME NEW e \in Positions, Cut(e)
      PROVE  EffectInv'
  <2>1. lo <= e /\ e <= hi /\ e \in Nat /\ pc = "cutting"
    BY <1>0, <1>8, SMT DEF Cut, IsNext, Separator, Positions
  <2>2. CASE IsBlank(e)
    <3>1. Texts(1, e) = Texts(1, lo - 1)
      BY <2>1, <2>2, BlankTexts
    <3>2. lo' - 1 = e /\ pc' = "cutting"
      BY <1>8, <2>1, <2>2, SMT DEF Cut
    <3> QED
      BY <1>8, <2>1, <3>1, <3>2 DEF Cut, UnchangedBuffer, EffectInv, Texts, IsText
  <2>3. CASE ~IsBlank(e)
    BY <1>8, <2>1, <2>3 DEF Cut, UnchangedBuffer, EffectInv, Texts, IsText
  <2> QED
    BY <2>2, <2>3
<1>9. CASE Exec
  <2>1. Texts(1, lo - 1) \cup Texts(lo, stmt) = Texts(1, stmt)
    BY <1>0, <1>9, TextsGrow, SMT DEF Exec, ReadInv
  <2>2. lo' - 1 = stmt /\ pc = "running" /\ pc' = "cutting"
    BY <1>0, <1>9, SMT DEF Exec
  <2>3. CASE driver.tx
    BY <1>9, <2>1, <2>2, <2>3 DEF Exec, UnchangedBuffer, EffectInv, Texts, IsText
  <2>4. CASE ~driver.tx
    BY <1>9, <2>1, <2>2, <2>4 DEF Exec, UnchangedBuffer, EffectInv, Texts, IsText
  <2> QED
    BY <2>3, <2>4
<1>10. CASE ExecFails
  <2>1. CASE driver.tx
    <3>1. applied' = {} /\ Texts(1, 0) = {}
      BY <1>10, <2>1, SMT DEF ExecFails, EffectInv, Texts
    <3> QED
      BY <1>0, <1>10, <2>1, <3>1, SMT DEF ExecFails, UnchangedBuffer, EffectInv, Texts, IsText
  <2>2. CASE ~driver.tx
    <3>1. PICK k \in {lo - 1, stmt} \cup {i \in lo..stmt : body[i] = "sep"} :
               applied' = applied \cup Texts(lo, k)
      BY <1>10, <2>2 DEF ExecFails
    <3>2. k \in 0..Len(body) /\ k \in Nat /\ lo <= k + 1
      BY <1>0, <1>10, <3>1, SMT DEF ExecFails, ReadInv
    <3>3. applied' = Texts(1, k)
      BY <1>0, <1>10, <2>2, <3>1, <3>2, TextsGrow DEF ExecFails, EffectInv
    <3> QED
      BY <1>10, <2>2, <3>2, <3>3, SMT DEF ExecFails, UnchangedBuffer, EffectInv, Texts, IsText
  <2> QED
    BY <2>1, <2>2
<1>11. CASE Finish
  BY <1>0, <1>11, SMT DEF Finish, UnchangedBuffer, EffectInv, Texts, IsText
<1>12. CASE Commit \/ CommitFails
  <2>1. driver.tx /\ eof /\ lo - 1 = hi /\ pc = "committing"
    BY <1>0, <1>12, SMT DEF Commit, CommitFails, ReadInv
  <2>2. applied = {} /\ staged = Texts(1, hi) /\ Texts(1, 0) = {}
    BY <2>1, SMT DEF EffectInv, Texts
  <2>3. applied' = Texts(1, hi) \/ (result' = "error" /\ applied' = {})
    BY <1>12, <2>2 DEF Commit, CommitFails
  <2>4. pc' = "done" /\ hi' = hi /\ body' = body /\ eof' = eof
    BY <1>12 DEF Commit, CommitFails, UnchangedBuffer
  <2>5. Texts(1, hi)' = Texts(1, hi) /\ \A k \in 0..Len(body) : Texts(1, k)' = Texts(1, k)
    BY <2>4 DEF Texts, IsText
  <2>6. result' = "nil" => applied' = Texts(1, hi)
    BY <2>3
  <2>7. \E k \in 0..Len(body) : applied' = Texts(1, k)
    <3>1. 0 \in 0..Len(body) /\ hi \in 0..Len(body)
      BY <1>0, SMT
    <3> QED
      BY <2>2, <2>3, <3>1
  <2> QED
    BY <2>1, <2>3, <2>4, <2>5, <2>6, <2>7 DEF EffectInv
<1>13. CASE Retry
  BY <1>13 DEF Retry
<1> QED
  BY <1>1, <1>2, <1>3, <1>4, <1>5, <1>6, <1>7, <1>8, <1>9, <1>10, <1>11, <1>12, <1>13
  DEF Next, BufferStep, RunStep, Failure

-----------------------------------------------------------------------------
(***************************************************************************)
(* Where the body is cut.                                                  *)
(***************************************************************************)

\* A statement may start at the beginning of the body.
LEMMA CutInit == Init => CutInv
BY SMT DEF Init, CutInv, Starts, Unbroken

\* A statement ends with the first separator after its start or with the body.
LEMMA CutEnds ==
  ASSUME ReadInv, CutInv, driver.read # "lines", ~driver.retries, NEW e \in Positions, Cut(e)
  PROVE  /\ lo <= e /\ e <= hi /\ e \in Nat
         /\ e = Len(body) \/ body[e] = "sep"
         /\ driver.unit = "each" => Unbroken(lo, e - 1)
         /\ driver.read = "scan" => (e = hi /\ eof) \/ (body[e] = "sep" /\ Unbroken(lo, e - 1))
<1>0. Len(body) \in Nat /\ driver \in Driver /\ hi \in Nat /\ lo \in Nat
  BY DriverRunAssumption, SMT DEF ReadInv
<1>1. pc = "cutting" /\ IsNext(e)
  BY DEF Cut
<1>2. (eof /\ e = hi) \/ Separator(e)
  BY <1>0, <1>1 DEF IsNext, Driver
<1>3. lo <= e /\ e <= hi /\ e \in Nat
  BY <1>0, <1>1, <1>2, SMT DEF IsNext, Separator, Positions
<1>4. eof => hi = Len(body)
  BY DEF ReadInv, LongLines
<1>5. Separator(e) => body[e] = "sep" /\ Unbroken(lo, e - 1)
  BY DEF Separator, Unbroken
<1>6. ASSUME driver.unit = "each"
      PROVE  Unbroken(lo, e - 1)
  <2>1. CASE driver.read = "scan"
    BY <1>0, <1>2, <1>3, <1>5, <2>1, SMT DEF CutInv, Unbroken
  <2>2. CASE driver.read # "scan"
    BY <1>0, <1>1, <1>5, <1>6, <2>2, SMT DEF IsNext, NoSeparator, Unbroken
  <2> QED
    BY <2>1, <2>2
<1> QED
  BY <1>2, <1>3, <1>4, <1>5, <1>6

\* Run continues behind the separator; a scanner that meets the end of the file has no
\* separator left, because it only reads when it has none.
LEMMA CutStep ==
  ASSUME ReadInv, CutInv, [Next]_vars
  PROVE  CutInv'
<1> SUFFICES ASSUME driver.read # "lines", ~driver.retries, driver' = driver, body' = body
             PROVE  CutInv'
  BY DriverKept DEF CutInv
<1>0. /\ Len(body) \in Nat /\ Chunk \in Nat
      /\ hi \in Nat /\ hi <= Len(body) /\ lo \in Nat /\ lo >= 1 /\ lo <= hi + 1 /\ stmt \in Nat
      /\ driver \in Driver
  BY DriverRunAssumption, SMT DEF ReadInv
<1> USE DEF CutInv, Starts, Unbroken
<1>1. CASE UNCHANGED vars
  BY <1>1 DEF vars
<1>2. CASE Peek \/ ClosePipe \/ CloseBody \/ BodyFails
  BY <1>2 DEF Peek, ClosePipe, CloseBody, BodyFails, UnchangedRun
<1>3. ASSUME NEW k \in 1..Chunk, Read(k)
      PROVE  CutInv'
  BY <1>0, <1>3 DEF Read, ReadInv
<1>4. CASE ReadEOF
  BY <1>4 DEF ReadEOF
<1>5. CASE LongLine
  BY <1>5 DEF LongLine
<1>6. CASE ReadOn
  BY <1>0, <1>6 DEF ReadOn, NoSeparator, Driver
<1>7. CASE TooLong \/ ParseFails
  BY <1>7 DEF TooLong, ParseFails
<1>8. ASSUME NEW e \in Positions, Cut(e)
      PROVE  CutInv'
  <2>1. /\ lo <= e /\ e <= hi /\ e \in Nat
        /\ e = Len(body) \/ body[e] = "sep"
        /\ driver.unit = "each" => \A k \in lo..(e - 1) : body[k] # "sep"
    BY <1>8, CutEnds
  <2>2. CASE IsBlank(e)
    BY <1>0, <1>8, <2>1, <2>2, SMT DEF Cut
  <2>3. CASE ~IsBlank(e)
    BY <1>0, <1>8, <2>1, <2>3 DEF Cut
  <2> QED
    BY <2>2, <2>3
<1>9. CASE Exec
  BY <1>0, <1>9, SMT DEF Exec, ReadInv
<1>10. CASE ExecFails
  BY <1>10 DEF ExecFails
<1>11. CASE Finish
  BY <1>11 DEF Finish
<1>12. CASE Commit \/ CommitFails
  BY <1>12 DEF Commit, CommitFails
<1>13. CASE Retry
  BY <1>13 DEF Retry
<1> QED
  BY <1>1, <1>2, <1>3, <1>4, <1>5, <1>6, <1>7, <1>8, <1>9, <1>10, <1>11, <1>12, <1>13
  DEF Next, BufferStep, RunStep, Failure

\* So the statements that are sent are those between the separators.
LEMMA SentStep ==
  ASSUME ReadInv, CutInv, StatementsAreWhole, [Next]_vars
  PROVE  StatementsAreWhole'
<1> SUFFICES ASSUME driver.unit = "each", driver.read # "lines", ~driver.retries, body' = body,
                    NEW s \in stmts'
             PROVE  /\ s[1] = 1 \/ body[s[1] - 1] = "sep"
                    /\ s[2] = Len(body) \/ body[s[2]] = "sep"
                    /\ \A i \in s[1]..(s[2] - 1) : body[i] # "sep"
  BY DriverKept DEF StatementsAreWhole
<1>1. CASE s \in stmts
  BY <1>1 DEF StatementsAreWhole
<1>2. CASE s \notin stmts
  <2>1. pc = "running" /\ s = <<lo, stmt>>
    BY <1>2 DEF Next, BufferStep, RunStep, Failure, vars, Peek, ClosePipe, CloseBody, Read, ReadEOF,
      LongLine, ReadOn, TooLong, Cut, Exec, Finish, Commit, BodyFails, ParseFails, ExecFails,
      CommitFails, Retry, Sent, UnchangedRun
  <2>2. lo = 1 \/ body[lo - 1] = "sep"
    <3>1. lo # Len(body) + 1
      BY <2>1, SMT DEF ReadInv
    <3> QED
      BY <3>1 DEF CutInv, Starts
  <2>3. (stmt = Len(body) \/ body[stmt] = "sep") /\ \A i \in lo..(stmt - 1) : body[i] # "sep"
    BY <2>1 DEF CutInv, Unbroken
  <2> QED
    BY <2>1, <2>2, <2>3
<1> QED
  BY <1>1, <1>2

-----------------------------------------------------------------------------
(***************************************************************************)
(* What fits into the buffer.                                              *)
(***************************************************************************)

\* Multiplying by Cap keeps the order.
LEMMA CapTimes ==
  ASSUME NEW m \in Nat, NEW n \in Nat, m <= n
  PROVE  Cap * m \in Nat /\ Cap * n \in Nat /\ Cap * m <= Cap * n
<1>1. Cap \in Nat
  BY DriverRunAssumption
<1>2. PICK d \in Nat : n = m + d
  <2>1. n - m \in Nat /\ n = m + (n - m)
    BY SMT
  <2> QED
    BY <2>1
<1>3. \A a, b \in Nat : a * b \in Nat
  BY SMT
<1>4. Cap * m \in Nat /\ Cap * d \in Nat /\ Cap * n \in Nat
  BY <1>1, <1>3
<1>5. \A a, b, c \in Nat : a * (b + c) = a * b + a * c
  BY SMT
<1>6. Cap * n = Cap * m + Cap * d
  BY <1>1, <1>2, <1>5
<1> QED
  BY <1>4, <1>6, SMT

\* A part of what is in the buffer takes no more room than all of it.
LEMMA SizeGrows ==
  ASSUME NEW i \in Int, NEW j \in Int, NEW m \in Int, NEW n \in Int, i <= m, n <= j
  PROVE  Size(m, n) \in Nat /\ Size(i, j) \in Nat /\ Size(m, n) <= Size(i, j)
<1> DEFINE Long(a, b) == {k \in a..b : body[k] = "long"}
<1>1. IsFiniteSet(i..j) /\ m..n \subseteq i..j
  BY FS_Interval, SMT
<1>2. IsFiniteSet(Long(i, j)) /\ Long(m, n) \subseteq Long(i, j)
  <2>1. Long(i, j) \subseteq i..j /\ Long(m, n) \subseteq Long(i, j)
    BY SMT
  <2> QED
    BY <1>1, <2>1, FS_Subset
<1> HIDE DEF Long
<1>3. IsFiniteSet(m..n) /\ Cardinality(m..n) <= Cardinality(i..j)
  BY <1>1, FS_Subset
<1>4. IsFiniteSet(Long(m, n)) /\ Cardinality(Long(m, n)) <= Cardinality(Long(i, j))
  BY <1>2, FS_Subset
<1>5. /\ Cardinality(m..n) \in Nat /\ Cardinality(i..j) \in Nat
      /\ Cardinality(Long(m, n)) \in Nat /\ Cardinality(Long(i, j)) \in Nat
  BY <1>1, <1>2, <1>3, <1>4, FS_CardinalityType
<1>6. /\ Cap * Cardinality(Long(m, n)) \in Nat /\ Cap * Cardinality(Long(i, j)) \in Nat
      /\ Cap * Cardinality(Long(m, n)) <= Cap * Cardinality(Long(i, j))
  BY <1>4, <1>5, CapTimes
<1>7. /\ Size(m, n) = Cardinality(m..n) + Cap * Cardinality(Long(m, n))
      /\ Size(i, j) = Cardinality(i..j) + Cap * Cardinality(Long(i, j))
  BY DEF Size, Long
<1> QED
  BY <1>3, <1>5, <1>6, <1>7, SMTT(20)

\* An empty buffer takes no room.
LEMMA EmptySize ==
  ASSUME NEW i \in Int, NEW j \in Int, j < i
  PROVE  Size(i, j) = 0
<1>1. i..j = {} /\ {k \in i..j : body[k] = "long"} = {}
  BY SMT
<1>2. Cardinality({}) = 0
  BY FS_EmptySet
<1>3. \A c \in Nat : 0 + c * 0 = 0
  BY SMT
<1>4. Cap \in Nat
  BY DriverRunAssumption
<1>5. Size(i, j) = Cardinality({}) + Cap * Cardinality({})
  BY <1>1 DEF Size
<1> QED
  BY <1>2, <1>3, <1>4, <1>5

\* The buffer of the scanner is empty when Run starts.
LEMMA FitInit == Init => FitInv
<1> SUFFICES ASSUME Init
             PROVE  FitInv
  OBVIOUS
<1>1. lo = 1 /\ hi = 0 /\ pc = "reading" /\ result = "nil" /\ Cap \in Nat \ {0}
  BY DriverRunAssumption DEF Init
<1>2. Size(1, 0) = 0 /\ Size(1, -1) = 0 /\ 0 - 1 = -1
  BY EmptySize, SMT
<1>3. Size(lo, hi) < Cap /\ Size(lo, hi - 1) < Cap
  BY <1>1, <1>2, SMT
<1>4. ~ \E j \in Positions : j < lo
  BY <1>1, SMT DEF Positions
<1> QED
  BY <1>1, <1>3, <1>4 DEF FitInv, LastFits, ReadFits, ReturnedFit, RunningEnds, GaveUp

\* What is left in the buffer behind a statement fits, and so does the statement
\* without its separator.
LEMMA Advance ==
  ASSUME ReadInv, CutInv, FitInv, driver.read = "scan", ~driver.retries,
         NEW e \in Nat, lo <= e, e <= hi,
         (e = hi /\ eof) \/ (body[e] = "sep" /\ Unbroken(lo, e - 1))
  PROVE  /\ Size(e + 1, hi - 1) < Cap
         /\ eof => Size(e + 1, hi) < Cap
         /\ \A i, j \in Positions :
              i <= j /\ j < e + 1 /\ Starts(i) /\ Unbroken(i, j) => Size(i, j) < Cap
<1>0. /\ Len(body) \in Nat /\ Cap \in Nat
      /\ hi \in Nat /\ hi <= Len(body) /\ lo \in Nat /\ lo >= 1
  BY DriverRunAssumption, SMT DEF ReadInv
<1>a. \A a, b, c \in Nat : a <= b /\ b < c => a < c
  BY SMT
<1>b. /\ lo \in Int /\ hi \in Int /\ hi - 1 \in Int /\ e + 1 \in Int
      /\ lo <= e + 1 /\ hi <= hi /\ hi - 1 <= hi - 1 /\ lo <= lo
  BY <1>0, SMT
<1>1. Size(lo, hi - 1) < Cap /\ (eof => Size(lo, hi) < Cap)
  BY DEF FitInv, LastFits, ReadFits
<1>2. Size(e + 1, hi - 1) < Cap
  <2>1. /\ Size(e + 1, hi - 1) \in Nat /\ Size(lo, hi - 1) \in Nat
        /\ Size(e + 1, hi - 1) <= Size(lo, hi - 1)
    BY <1>b, SizeGrows
  <2> QED
    BY <1>0, <1>a, <1>1, <2>1
<1>3. ASSUME eof
      PROVE  Size(e + 1, hi) < Cap
  <2>1. /\ Size(e + 1, hi) \in Nat /\ Size(lo, hi) \in Nat
        /\ Size(e + 1, hi) <= Size(lo, hi)
    BY <1>b, SizeGrows
  <2> QED
    BY <1>0, <1>a, <1>1, <1>3, <2>1
<1>4. ASSUME NEW i \in Positions, NEW j \in Positions,
             i <= j, j < e + 1, Starts(i), Unbroken(i, j)
      PROVE  Size(i, j) < Cap
  <2>0. i \in Nat /\ j \in Nat /\ i >= 1
    BY <1>0, SMT DEF Positions
  <2>1. CASE j < lo
    BY <1>4, <2>1 DEF FitInv, ReturnedFit
  <2>2. CASE j >= lo
    <3>1. Unbroken(lo, e - 1)
      BY <1>0, SMT DEF CutInv, Unbroken
    <3>2. i >= lo
      <4>1. SUFFICES ASSUME i < lo
                     PROVE  FALSE
        BY <1>0, <2>0, SMT
      <4>2. lo # Len(body) + 1 /\ lo # 1
        BY <1>0, <2>0, <4>1, SMT
      <4>3. body[lo - 1] = "sep"
        BY <4>2 DEF CutInv, Starts
      <4>4. lo - 1 \in i..j
        BY <1>0, <2>0, <2>2, <4>1, SMT
      <4> QED
        BY <1>4, <4>3, <4>4 DEF Unbroken
    <3>3. i = lo
      <4>1. SUFFICES ASSUME i # lo
                     PROVE  FALSE
        OBVIOUS
      <4>2. body[i - 1] = "sep"
        BY <1>0, <1>4, <2>0, <3>2, <4>1, SMT DEF Starts
      <4>3. i - 1 \in lo..(e - 1)
        BY <1>0, <1>4, <2>0, <3>2, <4>1, SMT
      <4> QED
        BY <3>1, <4>2, <4>3 DEF Unbroken
    <3>4. CASE e = hi /\ eof
      <4>1. Size(i, j) \in Nat /\ Size(lo, hi) \in Nat /\ Size(i, j) <= Size(lo, hi)
        <5>1. i \in Int /\ j \in Int /\ lo <= i /\ j <= hi
          BY <1>0, <1>4, <2>0, <3>2, SMT
        <5> QED
          BY <1>b, <5>1, SizeGrows
      <4> QED
        BY <1>0, <1>a, <1>1, <3>4, <4>1
    <3>5. CASE body[e] = "sep"
      <4>1. j # e
        BY <1>4, <2>0, <3>5, SMT DEF Unbroken
      <4>2. j <= hi - 1
        BY <1>0, <1>4, <2>0, <4>1, SMT
      <4>3. /\ Size(i, j) \in Nat /\ Size(lo, hi - 1) \in Nat
            /\ Size(i, j) <= Size(lo, hi - 1)
        <5>1. i \in Int /\ j \in Int /\ lo <= i
          BY <1>0, <2>0, <3>2, SMT
        <5> QED
          BY <1>b, <4>2, <5>1, SizeGrows
      <4> QED
        BY <1>0, <1>a, <1>1, <4>3
    <3> QED
      BY <3>4, <3>5
  <2> QED
    BY <1>0, <2>0, <2>1, <2>2, SMTT(20)
<1> QED
  BY <1>2, <1>3, <1>4

\* The scanner reads only what it has room for, and gives up only when it has none.
LEMMA FitStep ==
  ASSUME ReadInv, CutInv, FitInv, [Next]_vars
  PROVE  FitInv'
<1> SUFFICES ASSUME driver.read = "scan", ~driver.retries, driver' = driver, body' = body
             PROVE  LastFits' /\ ReadFits' /\ ReturnedFit' /\ RunningEnds' /\ GaveUp'
  BY DriverKept DEF FitInv
<1>0. /\ Len(body) \in Nat /\ Chunk \in Nat /\ Cap \in Nat
      /\ hi \in Nat /\ hi <= Len(body) /\ lo \in Nat /\ lo >= 1 /\ lo <= hi + 1 /\ stmt \in Nat
      /\ driver \in Driver
  BY DriverRunAssumption, SMT DEF ReadInv
<1>f. LastFits /\ ReadFits /\ ReturnedFit /\ RunningEnds /\ GaveUp
  BY DEF FitInv
<1>r. lo' = lo => ReturnedFit'
  <2>1. Positions' = Positions /\ \A i \in Positions : Starts(i)' = Starts(i)
    BY DEF Positions, Starts
  <2>2. \A i, j \in Positions : Size(i, j)' = Size(i, j) /\ Unbroken(i, j)' = Unbroken(i, j)
    BY DEF Size, Unbroken
  <2> QED
    BY <1>f, <2>1, <2>2, SMT DEF ReturnedFit
<1>l. lo' = lo /\ hi' = hi => LastFits' /\ (pc' # "reading" /\ eof' = eof => ReadFits')
  BY <1>f, SMT DEF LastFits, ReadFits, Size
<1>g. pc' # "done" \/ result' # "ErrTooLong" => GaveUp'
  BY DEF GaveUp
<1>n. pc' # "running" => RunningEnds'
  BY DEF RunningEnds
<1>1. ASSUME NEW k \in 1..Chunk, Read(k)
      PROVE  LastFits' /\ ReadFits' /\ ReturnedFit' /\ RunningEnds' /\ GaveUp'
  <2>1. /\ lo' = lo /\ hi' - 1 = hi + k - 1 /\ pc' = "cutting" /\ eof' = eof /\ ~eof
        /\ Size(lo, hi + k - 1) < Cap
    BY <1>0, <1>1, SMT DEF Read, ReadInv
  <2>2. Size(lo, hi - 1)' = Size(lo, hi + k - 1)
    BY <2>1 DEF Size
  <2>3. LastFits'
    BY <2>1, <2>2 DEF LastFits
  <2>4. ReadFits'
    BY <2>1 DEF ReadFits
  <2> QED
    BY <1>r, <1>g, <1>n, <2>1, <2>3, <2>4
<1>2. ASSUME lo' = lo, hi' = hi, pc' = "cutting" \/ pc' = "reading", Size(lo, hi) < Cap
      PROVE  LastFits' /\ ReadFits' /\ ReturnedFit' /\ RunningEnds' /\ GaveUp'
  <2>1. ReadFits'
    BY <1>2 DEF ReadFits, Size
  <2> QED
    BY <1>r, <1>l, <1>g, <1>n, <1>2, <2>1
<1>3. CASE ReadEOF
  BY <1>f, <1>2, <1>3 DEF ReadEOF, ReadFits
<1>4. CASE LongLine
  BY <1>4 DEF LongLine
<1>5. CASE ReadOn
  BY <1>0, <1>2, <1>5 DEF ReadOn, Driver
<1>6. CASE TooLong
  <2>1. GaveUp'
    BY <1>6 DEF TooLong, GaveUp, NoSeparator, Unbroken, Size
  <2> QED
    BY <1>r, <1>l, <1>n, <1>6, <2>1 DEF TooLong
<1>7. ASSUME NEW e \in Nat, lo <= e, e <= hi, lo' = e + 1, hi' = hi, eof' = eof, pc' = "cutting",
             (e = hi /\ eof) \/ (body[e] = "sep" /\ Unbroken(lo, e - 1))
      PROVE  LastFits' /\ ReadFits' /\ ReturnedFit' /\ RunningEnds' /\ GaveUp'
  <2>1. /\ Size(e + 1, hi - 1) < Cap
        /\ eof => Size(e + 1, hi) < Cap
        /\ \A i, j \in Positions :
             i <= j /\ j < e + 1 /\ Starts(i) /\ Unbroken(i, j) => Size(i, j) < Cap
    BY <1>7, Advance
  <2>2. ReturnedFit'
    BY <1>7, <2>1, ZenonT(60) DEF ReturnedFit, Size, Positions, Starts, Unbroken
  <2>3. LastFits' /\ ReadFits'
    BY <1>7, <2>1 DEF LastFits, ReadFits, Size
  <2> QED
    BY <1>g, <1>n, <1>7, <2>2, <2>3
<1>8. ASSUME NEW e \in Positions, Cut(e)
      PROVE  LastFits' /\ ReadFits' /\ ReturnedFit' /\ RunningEnds' /\ GaveUp'
  <2>1. /\ lo <= e /\ e <= hi /\ e \in Nat
        /\ (e = hi /\ eof) \/ (body[e] = "sep" /\ Unbroken(lo, e - 1))
    BY <1>8, CutEnds
  <2>2. CASE IsBlank(e)
    BY <1>7, <1>8, <2>1, <2>2 DEF Cut
  <2>3. CASE ~IsBlank(e)
    <3>1. lo' = lo /\ hi' = hi /\ eof' = eof /\ pc' = "running" /\ stmt' = e
      BY <1>8, <2>3 DEF Cut
    <3>2. RunningEnds'
      BY <2>1, <3>1 DEF RunningEnds, Unbroken
    <3> QED
      BY <1>r, <1>l, <1>g, <3>1, <3>2
  <2> QED
    BY <2>2, <2>3
<1>9. CASE Exec
  <2>1. /\ lo <= stmt /\ stmt <= hi
        /\ (stmt = hi /\ eof) \/ (body[stmt] = "sep" /\ Unbroken(lo, stmt - 1))
    BY <1>f, <1>9 DEF Exec, ReadInv, RunningEnds
  <2> QED
    BY <1>0, <1>7, <1>9, <2>1 DEF Exec
<1>10. CASE ParseFails \/ ExecFails \/ CommitFails
  <2>1. lo' = lo /\ hi' = hi /\ eof' = eof /\ pc' = "done" /\ result' = "error"
    BY <1>10 DEF ParseFails, ExecFails, CommitFails
  <2> QED
    BY <1>r, <1>l, <1>g, <1>n, <2>1
<1>11. CASE Finish \/ Commit
  <2>1. /\ lo' = lo /\ hi' = hi /\ eof' = eof /\ pc' \in {"done", "committing"}
        /\ result' = "nil"
    BY <1>11 DEF Finish, Commit, ReadInv
  <2> QED
    BY <1>r, <1>l, <1>g, <1>n, <2>1
<1>12. CASE Retry
  BY <1>12 DEF Retry
<1>13. CASE UNCHANGED vars \/ Peek \/ ClosePipe \/ CloseBody \/ BodyFails
  <2>1. UNCHANGED <<lo, hi, eof, pc, stmt, result>>
    BY <1>13 DEF vars, Peek, ClosePipe, CloseBody, BodyFails, UnchangedRun
  <2>2. ReadFits' /\ RunningEnds' /\ GaveUp'
    BY <1>f, <2>1 DEF ReadFits, RunningEnds, GaveUp, Size, Unbroken
  <2> QED
    BY <1>r, <1>l, <2>1, <2>2
<1> QED
  BY <1>1, <1>3, <1>4, <1>5, <1>6, <1>8, <1>9, <1>10, <1>11, <1>12, <1>13
  DEF Next, BufferStep, RunStep, Failure

-----------------------------------------------------------------------------
(***************************************************************************)
(* The theorems.                                                           *)
(***************************************************************************)

\* The inductive invariant.
RunInv == ReadInv /\ EffectInv /\ CutInv /\ FitInv /\ StatementsAreWhole

\* The inductive invariant holds in every state that Buffer and Run reach.
LEMMA RunInvariance == Spec => []RunInv
<1>1. Init => RunInv
  BY ReadInit, EffectInit, CutInit, FitInit DEF RunInv, Init, StatementsAreWhole
<1>2. RunInv /\ [Next]_vars => RunInv'
  BY ReadStep, EffectStep, CutStep, FitStep, SentStep DEF RunInv
<1> QED
  BY <1>1, <1>2, PTL DEF Spec

\* What has taken effect is a beginning of the migration: Run executes the statements in
\* their order, stops at the first error, and a transaction adds all of them at once.
THEOREM RunsABeginning == Spec => []AppliedInOrder
<1>1. RunInv => AppliedInOrder
  <2> SUFFICES ASSUME RunInv, ~driver.retries
               PROVE  \E k \in 0..Len(body) : applied = Texts(1, k)
    BY DEF AppliedInOrder
  <2>1. CASE pc = "done"
    BY <2>1 DEF RunInv, EffectInv
  <2>2. CASE pc # "done"
    <3>1. Len(body) \in Nat /\ lo - 1 \in 0..Len(body) /\ driver.tx \in BOOLEAN /\ Texts(1, 0) = {}
      BY DriverRunAssumption, SMT DEF RunInv, ReadInv, Texts, Driver
    <3>2. applied = Texts(1, 0) \/ applied = Texts(1, lo - 1)
      BY <2>2, <3>1 DEF RunInv, EffectInv
    <3>3. 0 \in 0..Len(body)
      BY <3>1, SMT
    <3> QED
      BY <3>1, <3>2, <3>3
  <2> QED
    BY <2>1, <2>2
<1> QED
  BY <1>1, RunInvariance, PTL

\* A Run that returns nil has executed the whole body: it returns nil only at the end of
\* the file, and Buffer ends the file only behind the last token.
THEOREM SucceedsCompletely == Spec => []AppliesMigration
<1>1. RunInv => AppliesMigration
  BY DEF RunInv, ReadInv, EffectInv, AppliesMigration, SuccessIsComplete, LongLines
<1> QED
  BY <1>1, RunInvariance, PTL

\* A Run in a transaction leaves all of the migration or nothing, whether a statement, the
\* scanner or the commit fails.
THEOREM TransactionsAreAtomic == Spec => []AllOrNothing
<1>1. RunInv => AllOrNothing
  BY TransactionAssumption DEF RunInv, ReadInv, EffectInv, AllOrNothing, LongLines
<1> QED
  BY <1>1, RunInvariance, PTL

\* multistmt and the parsers send the statements between the separators, for every way in
\* which the reads of the pipe cut the body.
THEOREM CutsAtSeparators == Spec => []StatementsAreWhole
BY RunInvariance, PTL DEF RunInv

\* multistmt reports a token too long for the bodies with a statement larger than its
\* buffer and for no others, for every size of the buffer and of the reads.
THEOREM ReportsTooLong == Spec => []TooLongExactly
<1>1. RunInv => TooLongExactly
  <2> SUFFICES ASSUME RunInv, driver.read = "scan", ~driver.retries, pc = "done"
               PROVE  /\ result = "ErrTooLong" => Oversized
                      /\ result = "nil" => ~Oversized
    BY DEF TooLongExactly
  <2>0. /\ Len(body) \in Nat /\ Cap \in Nat \ {0}
        /\ hi \in Nat /\ hi <= Len(body) /\ lo \in Nat /\ lo >= 1 /\ lo <= hi + 1
    BY DriverRunAssumption, SMT DEF RunInv, ReadInv
  <2>1. ASSUME result = "ErrTooLong"
        PROVE  Oversized
    <3>1. Unbroken(lo, hi) /\ Size(lo, hi) >= Cap
      BY <2>1 DEF RunInv, FitInv, ReturnedFit, GaveUp
    <3>2. lo <= hi
      <4>1. hi < lo => Size(lo, hi) = 0
        BY <2>0, EmptySize, SMT
      <4> QED
        BY <2>0, <3>1, <4>1, SMT
    <3>3. lo = 1 \/ body[lo - 1] = "sep"
      BY <2>0, <3>2, SMT DEF RunInv, CutInv, Starts
    <3>4. lo \in Positions /\ hi \in Positions
      BY <2>0, <3>2, SMT DEF Positions
    <3> QED
      BY <3>1, <3>2, <3>3, <3>4 DEF Oversized, Unbroken
  <2>2. ASSUME result = "nil", Oversized
        PROVE  FALSE
    <3>1. hi = Len(body) /\ lo = hi + 1
      BY <2>2 DEF RunInv, ReadInv, LongLines
    <3>2. PICK i \in Positions, j \in Positions :
               /\ i <= j /\ Starts(i) /\ Unbroken(i, j) /\ Size(i, j) >= Cap
      BY <2>2 DEF Oversized, Starts, Unbroken
    <3>3. j < lo
      BY <2>0, <3>1, SMT DEF Positions
    <3>4. Size(i, j) < Cap
      BY <3>2, <3>3 DEF RunInv, FitInv, ReturnedFit, GaveUp
    <3>5. Size(i, j) \in Nat
      <4>1. i \in Int /\ j \in Int /\ i <= i /\ j <= j
        BY <2>0, SMT DEF Positions
      <4> QED
        BY <4>1, SizeGrows
    <3> QED
      BY <2>0, <3>2, <3>4, <3>5, SMT
  <2> QED
    BY <2>1, <2>2
<1> QED
  BY <1>1, RunInvariance, PTL
=============================================================================
