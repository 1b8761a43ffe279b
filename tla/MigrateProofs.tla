--------------------------- MODULE MigrateProofs ---------------------------
(***************************************************************************)
(* Theorems about the engine (modules Migrate and MigrateReader), for      *)
(* every source, number of processes, capacity of the ret channel and      *)
(* choice of faults: the lock is respected, a stop takes effect soon, the  *)
(* version table tells the truth about the schema, migrations run in the   *)
(* order of the source, and what an operation reports is what it did.  All *)
(* but the first two rest on versions that fit an int: a larger one is     *)
(* turned into a negative target, for which SetVersion keeps no row.       *)
(***************************************************************************)
EXTENDS Migrate, TLAPS

\* Most steps need no arithmetic: a step that does not say SMT is one for Zenon.
USE Zenon

-----------------------------------------------------------------------------
\* The numbers in the stop channel and in the count of migrations since a stop.
LEMMA SmallNumbers ==
  /\ 0 # 1 /\ 0 # -1 /\ 0 >= -1 /\ -1 >= -1
  /\ \A a \in Int : a >= -1 /\ a # -1 => a + 1 >= -1 /\ a + 1 # -1
BY SMT

\* The version table goes on being tracked in a step that leaves it alone.
LEMMA StillTracked == tracked' /\ tracked' = tracked => tracked
BY SMT

\* A channel, or what a reader has left to send, is empty or has a first item.
LEMMA EmptySeq ==
  /\ <<>> \in Seq(Item) /\ Len(<<>>) = 0
  /\ \A s \in Seq(Item) : Len(s) \in Nat
  /\ \A s \in Seq(Item) : s # <<>> => Len(s) \in Nat \ {0}
BY SMT

\* What is left of a channel when the first item is received.
LEMMA TailProperties ==
  ASSUME NEW s \in Seq(Item), s # <<>>
  PROVE  Tail(s) \in Seq(Item) /\ Len(Tail(s)) = Len(s) - 1
BY SMT

\* Versions of the source are natural numbers.
LEMMA IndexType ==
  /\ Index \in Seq(Nat)
  /\ \A k \in 1..Len(Index) : Index[k] \in Nat
  /\ Versions \subseteq Nat
<1>1. MaxInt \in Nat /\ MaxUint \in Nat
  BY MaxIntAssumption, SMT DEF MaxUint
<1>2. Index \in Seq(Nat)
  BY <1>1, SourceAssumption, SMT
<1> QED
  BY <1>2, SMT DEF Versions, VersionsOf

\* First, Prev and Next return versions of the source.
LEMMA LookupVersions ==
  /\ HasFirst(Index) => FirstVersion(Index) \in Versions
  /\ \A v : HasPrev(Index, v) => PrevVersion(Index, v) \in Versions
  /\ \A v : HasNext(Index, v) => NextVersion(Index, v) \in Versions
\* findPos returns a position of the index, or 0 (the code's -1).
<1>FindPosType.
  ASSUME NEW v
  PROVE  findPos(Index, v) \in 0..Len(Index)
  <2>0. Len(Index) \in Nat /\ DOMAIN Index = 1..Len(Index)
    BY IndexType, SMT
  <2>1. CASE \E k \in DOMAIN Index : IsSearch(Index, v, k)
    <3>1. Search(Index, v) \in DOMAIN Index
      BY <2>1 DEF Search
    <3> QED
      BY <2>0, <3>1, SMT DEF findPos
  <2>2. CASE ~\E k \in DOMAIN Index : IsSearch(Index, v, k)
    BY <2>0, <2>2, SMT DEF findPos
  <2> QED
    BY <2>1, <2>2
<1>0. Len(Index) \in Nat /\ \A k \in 1..Len(Index) : Index[k] \in Versions
  BY IndexType, SMT DEF Versions, VersionsOf
<1>1. HasFirst(Index) => FirstVersion(Index) \in Versions
  BY <1>0, SMT DEF HasFirst, FirstVersion
<1>2. ASSUME NEW v, HasPrev(Index, v)
      PROVE  PrevVersion(Index, v) \in Versions
  <2>1. findPos(Index, v) - 1 \in 1..Len(Index)
    BY <1>0, <1>2, <1>FindPosType, SMT DEF HasPrev
  <2> QED
    BY <1>0, <2>1 DEF PrevVersion
<1>3. ASSUME NEW v, HasNext(Index, v)
      PROVE  NextVersion(Index, v) \in Versions
  <2>1. findPos(Index, v) + 1 \in 1..Len(Index)
    BY <1>0, <1>3, <1>FindPosType, SMT DEF HasNext
  <2> QED
    BY <1>0, <2>1 DEF NextVersion
<1> QED
  BY <1>1, <1>2, <1>3

\* The source driver's lookups answer with version numbers.
LEMMA LookupType ==
  /\ HasFirst(Index) => FirstVersion(Index) \in Nat
  /\ \A v : HasPrev(Index, v) => PrevVersion(Index, v) \in Nat
  /\ \A v : HasNext(Index, v) => NextVersion(Index, v) \in Nat
BY LookupVersions, IndexType

-----------------------------------------------------------------------------
\* The conversions of Go's integers stay within the integers.
LEMMA ConversionType ==
  /\ \A u \in Nat : toInt(u) \in Int
  /\ \A n \in Int : negInt(n) \in Int
BY MaxIntAssumption, SMT DEF toInt, negInt, MaxUint, MinInt

\* Limits and targets: a negative number stays one or another, but is never turned
\* into 0, and an int that is a version is left alone.
LEMMA ConversionFacts ==
  /\ \A n \in Int : toInt(n) \in Int
  /\ \A n \in 0..MaxInt : toInt(n) = n /\ n >= 0
  /\ \A n \in Int : n < 0 => negInt(n) # 0
BY MaxIntAssumption, SMT DEF toInt, negInt, MaxUint, MinInt

\* Facts about numbers, for the steps whose other facts are not about numbers.
LEMMA NumberFacts ==
  /\ 0 \in Int /\ -1 \in Int /\ 0 # -1 /\ 0 + 1 = 1
  /\ \A a \in Nat : a > 1 => a - 1 # 0
  /\ \A a \in Int : ~(a < a)
BY SMT

\* Integers are ordered.
LEMMA OrderFacts ==
  ASSUME NEW a \in Int, NEW b \in Int
  PROVE  /\ a < b \/ a = b \/ a > b
         /\ a > b => a # b
         /\ a < b => a # b /\ ~(a > b)
BY SMT

\* Where an operation can start: at a version, or before the first.
LEMMA StartFacts ==
  \A st \in Nat \cup {NilVersion} : st \in Int /\ st >= NilVersion
BY SMT DEF NilVersion

\* A sequence with one item ...
LEMMA OneItem == \A m : Len(<<m>>) = 1 /\ <<m>>[1] = m
BY SMT

\* ... and one with another item at its end.
LEMMA AppendType ==
  ASSUME NEW S, NEW s \in Seq(S), NEW m \in S
  PROVE  Append(s, m) \in Seq(S)
BY SMT

\* The items of a sequence to which another is appended.
LEMMA AppendProperties ==
  ASSUME NEW s \in Seq(Item), NEW m \in Item
  PROVE  \E t \in Seq(Item) :
            /\ t = Append(s, m)
            /\ Len(s) \in Nat /\ Len(t) = Len(s) + 1 /\ t[Len(t)] = m
            /\ \A k \in 1..Len(s) : t[k] = s[k]
<1>1. Append(s, m) \in Seq(Item)
  BY AppendType
<1>2. PICK t : t = Append(s, m)
  OBVIOUS
<1>3. Len(s) \in Nat /\ Len(t) = Len(s) + 1 /\ t[Len(t)] = m
  BY <1>2, SMT
<1>4. \A k \in 1..Len(s) : t[k] = s[k]
  BY <1>2, SMT
<1> QED
  BY <1>1, <1>2, <1>3, <1>4

\* newMigration and the errors of the readers are items of the channel.
LEMMA ItemType ==
  /\ \A v \in Nat, t \in Int : newMigration(v, t) \in Item
  /\ \A e \in Errors : Err(e) \in Item
  /\ \A n \in Int : ErrShortLimit(n) \in Item
<1>1. \A v \in Nat, t \in Int : newMigration(v, t) \in Item
  BY SMT DEF newMigration, Item, Errors
<1>2. \A e \in Errors : Err(e) \in Item
  BY SMT DEF Err, Item
<1>3. \A n \in Int : ErrShortLimit(n) \in Item
  BY DEF Err, ErrShortLimit, Item, Errors
<1> QED
  BY <1>1, <1>2, <1>3

\* A reader at a send has something to send.
GoodReader == {r \in Reader : r.pc = "send" => r.pend # <<>>}

\* The ways a piece of the reader's code can end yield a reader.
LEMMA ReaderShapes ==
  ASSUME NEW r \in Reader
  PROVE  /\ \A m \in Item : Emit(r, m) \in GoodReader
         /\ \A m \in Item : Finish(r, <<m>>) \in GoodReader
         /\ \A m, n \in Item : Finish(r, <<m, n>>) \in GoodReader
         /\ \A e \in Item : Fail(r, e) \in GoodReader
         /\ Close(r) \in GoodReader
<1>1. ASSUME NEW m \in Item
      PROVE  <<m>> \in Seq(Item) /\ <<m>> # <<>>
  BY <1>1, SMT
<1>2. ASSUME NEW s \in Seq(Item), s # <<>>, NEW t \in {"loop", "done"}
      PROVE  Sending(r, s, t) \in Reader /\ Sending(r, s, t).pend # <<>>
  BY <1>2 DEF Sending, Reader
<1>3. ASSUME NEW m \in Item
      PROVE  Emit(r, m) \in GoodReader
  <2>1. m.target \in Int /\ r.count + 1 \in Nat
    BY SMT DEF Item, Reader
  <2>2. PICK q \in Reader : q = Sending(r, <<m>>, "loop") /\ q.pend # <<>>
    BY <1>1, <1>2
  <2>3. Emit(r, m) = [q EXCEPT !.from = m.target, !.count = r.count + 1]
    BY <2>2 DEF Emit
  <2> QED
    BY <2>1, <2>2, <2>3 DEF Reader, GoodReader
<1>4. ASSUME NEW m \in Item, NEW n \in Item
      PROVE  Finish(r, <<m, n>>) \in GoodReader
  <2>1. <<m, n>> \in Seq(Item) /\ <<m, n>> # <<>>
    BY SMT
  <2> QED
    BY <1>2, <2>1 DEF Finish, GoodReader
<1>5. ASSUME NEW m \in Item
      PROVE  Finish(r, <<m>>) \in GoodReader
  BY <1>1, <1>2 DEF Finish, GoodReader
<1>6. Close(r) \in GoodReader
  BY DEF Close, Reader, GoodReader
<1> QED
  BY <1>3, <1>4, <1>5, <1>6 DEF Fail

\* The errors that read, readUp and readDown send.
LEMMA SentErrors ==
  /\ Err("ErrNotExist") \in Item
  /\ Err("ErrNoChange") \in Item
  /\ Err("error") \in Item
  /\ Err("nil") \in Item
BY ItemType DEF Errors

\* read, readUp and readDown up to their loops.
LEMMA StartType ==
  ASSUME NEW r \in Reader
  PROVE  Start(r) \in GoodReader
<1>1. readStart(r) \in GoodReader
  <2>1. ASSUME HasFirst(Index)
        PROVE  EmitUp([r EXCEPT !.kind = "upTo"], FirstVersion(Index)) \in GoodReader
    <3>1. [r EXCEPT !.kind = "upTo"] \in Reader
      BY DEF Reader, Kinds
    <3>2. newMigration(FirstVersion(Index), toInt(FirstVersion(Index))) \in Item
      BY <2>1, LookupType, ConversionType, ItemType
    <3> QED
      BY <3>1, <3>2, ReaderShapes DEF EmitUp
  <2>2. /\ [r EXCEPT !.kind = "upTo", !.pc = "loop"] \in GoodReader
        /\ [r EXCEPT !.kind = "downTo", !.pc = "loop"] \in GoodReader
    BY DEF Reader, GoodReader, Kinds
  <2>3. Fail(r, Err("ErrNotExist")) \in GoodReader /\ Fail(r, Err("ErrNoChange")) \in GoodReader
    BY ReaderShapes, SentErrors
  <2>4. r.from \in Int /\ r.to \in Int
    BY DEF Reader
  <2> QED
    BY <2>1, <2>2, <2>3, <2>4 DEF readStart
<1>0. [r EXCEPT !.pc = "loop"] \in GoodReader
  BY DEF Reader, GoodReader
<1>2. readUpStart(r) \in GoodReader
  BY <1>0, ReaderShapes, SentErrors DEF readUpStart
<1>3. readDownStart(r) \in GoodReader
  BY <1>0, ReaderShapes, SentErrors DEF readDownStart
<1> QED
  BY <1>1, <1>2, <1>3 DEF Start

\* One iteration of a loop that neither stops nor panics.
LEMMA LoopType ==
  ASSUME NEW r \in Reader, LoopCond(r), ~Panics(r)
  PROVE  Loop(r) \in GoodReader
<1>0. r.from \in Int /\ r.to \in Int /\ r.count \in Nat
  BY DEF Reader
<1>1. ASSUME NEW v \in Nat
      PROVE  EmitUp(r, v) \in GoodReader
  BY ConversionType, ItemType, ReaderShapes DEF EmitUp
<1>2. upToLoop(r) \in GoodReader
  BY <1>1, LookupType, ReaderShapes, SentErrors DEF upToLoop
<1>3. ASSUME r.from >= 0, HasPrev(Index, r.from)
      PROVE  Emit(r, newMigration(r.from, toInt(PrevVersion(Index, r.from)))) \in GoodReader
  <2>1. r.from \in Nat /\ toInt(PrevVersion(Index, r.from)) \in Int
    BY <1>0, <1>3, LookupType, ConversionType, SMT
  <2>2. newMigration(r.from, toInt(PrevVersion(Index, r.from))) \in Item
    BY <2>1, ItemType
  <2> QED
    BY <2>2, ReaderShapes
<1>4. ASSUME r.from >= 0
      PROVE  downToLoop(r) \in GoodReader
  <2>1. newMigration(r.from, -1) \in Item
    BY <1>0, <1>4, ItemType, SMT
  <2> QED
    BY <1>3, <1>4, <2>1, ReaderShapes, SentErrors DEF downToLoop
<1>5. readUpLoop(r) \in GoodReader
  <2>1. ErrShortLimit(r.to - r.count) \in Item
    BY <1>0, ItemType, SMT
  <2> QED
    BY <1>1, <2>1, LookupType, ReaderShapes, SentErrors DEF readUpLoop
<1>6. ASSUME r.from >= 0
      PROVE  readDownLoop(r) \in GoodReader
  <2>1. ErrShortLimit(r.to - (r.count + 1)) \in Item
    BY <1>0, ItemType, SMT
  <2>2. ASSUME HasFirst(Index)
        PROVE  newMigration(FirstVersion(Index), -1) \in Item
    BY <2>2, LookupType, ItemType, SMT
  <2> QED
    BY <1>3, <1>6, <2>1, <2>2, ReaderShapes, SentErrors DEF readDownLoop
<1> QED
  BY <1>0, <1>2, <1>4, <1>5, <1>6, SMT DEF Loop, LoopCond, Panics

\* The two values of the version that are no migration are integers.
LEMMA DbConstants == NilVersion \in Int /\ Torn \in Int
BY MaxIntAssumption, SMT DEF NilVersion, Torn, MinInt

\* Receiving from a channel leaves a channel that holds no more than before.
LEMMA ShorterTail ==
  ASSUME NEW s \in Seq(Item), s # <<>>
  PROVE  \E t \in Seq(Item) : t = Tail(s) /\ Len(t) <= Len(s)
<1>1. PICK t \in Seq(Item) : t = Tail(s) /\ Len(t) = Len(s) - 1
  BY TailProperties
<1>2. Len(t) <= Len(s)
  BY <1>1, SMT
<1> QED
  BY <1>1, <1>2

\* A completed send.
LEMMA SentType ==
  \A r \in Reader :
    r.pend # <<>> /\ r.pc = "send" =>
      Sent(r) \in GoodReader
\* A reader with several items left to send still has one after sending the first.
<1>LongTail.
  ASSUME NEW s \in Seq(Item), Len(s) > 1
  PROVE  Tail(s) # <<>>
  <2> USE <1>LongTail
  <2>0. s # <<>>
    BY SMT
  <2>1. PICK t \in Seq(Item) : t = Tail(s) /\ Len(t) = Len(s) - 1
    BY <2>0, TailProperties
  <2>2. Len(t) # 0
    BY <2>0, <2>1, EmptySeq, NumberFacts
  <2>3. t # <<>>
    BY <2>2, EmptySeq
  <2> QED
    BY <2>1, <2>3
<1> SUFFICES ASSUME NEW r \in Reader, r.pend # <<>>, r.pc = "send"
             PROVE  Sent(r) \in GoodReader
  OBVIOUS
<1>1. r.pend \in Seq(Item) /\ Tail(r.pend) \in Seq(Item) /\ <<>> \in Seq(Item)
  BY SMT DEF Reader
<1>2. CASE Len(r.pend) > 1
  <2>2. Tail(r.pend) # <<>>
    BY <1>1, <1>2, <1>LongTail
  <2> QED
    BY <1>1, <1>2, <2>2 DEF Sent, Reader, GoodReader
<1>3. CASE ~(Len(r.pend) > 1)
  BY <1>1, <1>3 DEF Sent, Reader, GoodReader
<1> QED
  BY <1>2, <1>3

\* The readers operations start, and the one of a process that has none.
LEMMA NewReaderType ==
  ASSUME NEW k \in Kinds, NEW f \in Int, NEW t \in Int
  PROVE  NewReader(k, f, t) \in GoodReader
<1>1. <<>> \in Seq(Item)
  BY SMT
<1> QED
  BY <1>1 DEF NewReader, GoodReader, Reader

\* A process without a reader is typed as one whose reader has ended.
LEMMA NoReaderType == NoReader \in GoodReader
<1>1. NewReader("feed", NilVersion, 0) \in GoodReader
  BY NewReaderType, DbConstants, SMT DEF Kinds
<1> QED
  BY <1>1 DEF NoReader, GoodReader, Reader

-----------------------------------------------------------------------------
(***************************************************************************)
(* Types.  TypeOK is not inductive by itself: a send needs a reader that   *)
(* has something to send, and the feeder of Run gets a list that is not    *)
(* empty because the callers of Run with an empty one have returned.       *)
(***************************************************************************)
ReaderInv == ReaderTypeOK /\ rd \in [Procs -> GoodReader]

CallInv ==
  /\ CallTypeOK
  /\ \A p \in Procs :
       pc[p] \notin {"closed", "idle"} => op[p] \in Ops /\ EarlyResult(op[p]) = "nil"

TypeInv == DbTypeOK /\ LockTypeOK /\ ReaderInv /\ StopTypeOK /\ CallInv

\* What SetVersion stores.
LEMMA StoresType ==
  ASSUME NEW v \in Int, NEW d \in BOOLEAN, Stores(v, d)
  PROVE  version' \in Nat \cup {NilVersion} /\ dirty' \in BOOLEAN
<1>1. version' \in Nat \cup {NilVersion}
  BY SMT DEF Stores, NilVersion
<1>2. dirty' \in BOOLEAN
  BY DEF Stores
<1> QED
  BY <1>1, <1>2

\* The place-holder of a caller without an operation.
LEMMA NoOpType == NoOp \in Op
<1>1. <<>> \in Seq(Item)
  BY SMT
<1> QED
  BY <1>1, SMT DEF NoOp, Op, OpKinds

\* Every step of a process, of its reader and of the runner keeps the types.
LEMMA TypeStep ==
  TypeInv /\ [Next]_vars => TypeInv'
\* What a step leaves alone keeps its type.
<1>TypeFrame.
  ASSUME TypeInv
  PROVE  /\ UNCHANGED dbVars => DbTypeOK'
         /\ UNCHANGED lockVars => LockTypeOK'
         /\ UNCHANGED readerVars => ReaderInv'
         /\ UNCHANGED stopVars => StopTypeOK'
         /\ UNCHANGED callVars => CallInv'
  BY <1>TypeFrame DEF TypeInv, DbTypeOK, LockTypeOK, ReaderInv, ReaderTypeOK, StopTypeOK,
    CallInv, CallTypeOK, dbVars, lockVars, readerVars, stopVars, callVars
\* Moving on inside an operation.
<1>MoveType.
  ASSUME CallInv, NEW p \in Procs, pc[p] \notin {"closed", "idle"},
         NEW s \in Critical, pc' = [pc EXCEPT ![p] = s],
         result' \in [Procs -> Item], UNCHANGED <<op, cur, start>>
  PROVE  CallInv'
  <2> USE <1>MoveType
  <2>1. pc' \in [Procs -> {"closed", "idle", "lock", "locking"} \cup Critical]
    BY DEF CallInv, CallTypeOK
  <2>2. CallTypeOK'
    BY <2>1 DEF CallInv, CallTypeOK
  <2>3. ASSUME NEW q \in Procs, pc'[q] \notin {"closed", "idle"}
        PROVE  op'[q] \in Ops /\ EarlyResult(op'[q]) = "nil"
    <3>1. pc[q] \notin {"closed", "idle"}
      BY <2>3 DEF CallInv, CallTypeOK
    <3> QED
      BY <2>3, <3>1 DEF CallInv
  <2> QED
    BY <2>2, <2>3 DEF CallInv
\* Returning from an operation.
<1>ReturnType.
  ASSUME CallInv, NEW p \in Procs, NEW s, NEW e \in Item, Return(p, s, e)
  PROVE  CallInv'
  BY <1>ReturnType, NoOpType, SentErrors, DbConstants DEF Return, GotoResult, Goto, CallInv,
    CallTypeOK
\* A step of a reader that touches nothing else.
<1>ReaderGoesType.
  ASSUME ReaderInv, NEW p \in Procs, NEW r \in GoodReader, ReaderGoes(p, r)
  PROVE  ReaderInv'
  BY <1>ReaderGoesType DEF ReaderGoes, ReaderInv, ReaderTypeOK, GoodReader
<1>OperationType.
  ASSUME NEW o \in Op, o.kind \notin {"Drop", "Force"}, EarlyResult(o) = "nil",
         NEW v \in Int
  PROVE  Operation(o, v) \in GoodReader
  <2> USE <1>OperationType
  <2>0. o.n \in Int /\ o.list \in Seq(Item)
    BY DEF Op
  <2>1. CASE o.kind = "Migrate"
    <3>1. toInt(o.n) \in Int
      BY <2>0, MaxIntAssumption, SMT DEF toInt, MaxUint
    <3> QED
      BY <2>1, <3>1, NewReaderType DEF Operation, Migrate, Kinds
  <2>2. CASE o.kind = "Steps"
    BY <2>0, <2>2, ConversionType, NewReaderType DEF Operation, Steps, Kinds
  <2>3. CASE o.kind = "Up"
    BY <2>3, NewReaderType, SMT DEF Operation, Up, Kinds
  <2>4. CASE o.kind = "Down"
    BY <2>4, NewReaderType, SMT DEF Operation, Down, Kinds
  <2>5. CASE o.kind = "Run"
    <3>1. o.list # <<>>
      BY <2>5 DEF EarlyResult
    <3>2. NewReader("feed", v, 0) \in GoodReader
      BY NewReaderType, SMT DEF Kinds
    <3>3. Run(v, o.list) \in GoodReader
      BY <2>0, <3>1, <3>2 DEF Run, GoodReader, Reader
    <3> QED
      BY <2>5, <3>3 DEF Operation
  <2> QED
    BY <2>1, <2>2, <2>3, <2>4, <2>5 DEF Op, OpKinds
\* The end of a process.
<1>ResetType.
  ASSUME TypeInv, NEW p \in Procs, Reset(p)
  PROVE  TypeInv'
  <2> USE <1>ResetType
  <2>1. DbTypeOK'
    <3>1. cur[p].target \in Int
      BY DEF TypeInv, CallInv, CallTypeOK, Item
    <3> QED
      BY <3>1, DbConstants DEF TypeInv, DbTypeOK, Reset
  <2>2. LockTypeOK'
    BY DEF TypeInv, LockTypeOK, Reset
  <2>3. ReaderInv'
    <3>1. rd' \in [Procs -> GoodReader] /\ rd' \in [Procs -> Reader]
      BY NoReaderType DEF TypeInv, ReaderInv, ReaderTypeOK, Reset, GoodReader
    <3>2. ch' \in [Procs -> Seq(Item)] /\ stray' \in [Procs -> BOOLEAN] /\ strayStop' \in [Procs -> BOOLEAN]
      BY SMT DEF TypeInv, ReaderInv, ReaderTypeOK, Reset
    <3>3. \A q \in Procs : ch'[q] = ch[q] \/ Len(ch'[q]) = 0
      BY DEF TypeInv, ReaderInv, ReaderTypeOK, Reset
    <3> QED
      BY <3>1, <3>2, <3>3, MigrateAssumption, SMT DEF TypeInv, ReaderInv, ReaderTypeOK
  <2>4. StopTypeOK'
    BY SMT DEF TypeInv, StopTypeOK, Reset
  <2>5. CallInv'
    <3>1. NoOp \in Op
      BY NoOpType
    <3> QED
      BY <3>1, SentErrors, DbConstants DEF TypeInv, CallInv, CallTypeOK, Reset
  <2> QED
    BY <2>1, <2>2, <2>3, <2>4, <2>5 DEF TypeInv
<1> SUFFICES ASSUME TypeInv, [Next]_vars
             PROVE  TypeInv'
  OBVIOUS
<1>1. ASSUME NEW p \in Procs, Open(p)
      PROVE  TypeInv'
  <2>1. LockTypeOK' /\ ReaderInv' /\ StopTypeOK'
    BY <1>1, <1>TypeFrame DEF Open, Goto, lockVars, readerVars, stopVars
  <2>2. DbTypeOK'
    BY <1>1, SentErrors, MigrateAssumption DEF TypeInv, DbTypeOK, dbVars, Open, Goto
  <2>3. CallInv'
    BY <1>1, SentErrors, MigrateAssumption DEF TypeInv, CallInv, CallTypeOK, Critical, Open, Goto
  <2> QED
    BY <2>1, <2>2, <2>3 DEF TypeInv
<1>2. ASSUME NEW p \in Procs, Crash(p)
      PROVE  TypeInv'
  BY <1>2, <1>ResetType DEF Crash
<1>3. ASSUME NEW p \in Procs, RequestStop(p)
      PROVE  TypeInv'
  <2>1. DbTypeOK' /\ LockTypeOK' /\ ReaderInv' /\ CallInv'
    BY <1>3, <1>TypeFrame DEF RequestStop, dbVars, lockVars, readerVars, callVars
  <2>2. StopTypeOK'
    BY <1>3, SentErrors, MigrateAssumption, SMT DEF TypeInv, StopTypeOK, RequestStop
  <2> QED
    BY <2>1, <2>2 DEF TypeInv
<1>4. ASSUME NEW p \in Procs, LateLock(p)
      PROVE  TypeInv'
  <2>1. DbTypeOK' /\ ReaderInv' /\ StopTypeOK' /\ CallInv'
    BY <1>4, <1>TypeFrame DEF LateLock, dbVars, readerVars, stopVars, callVars
  <2>2. LockTypeOK'
    BY <1>4, SentErrors, MigrateAssumption DEF TypeInv, LockTypeOK, LateLock
  <2> QED
    BY <2>1, <2>2 DEF TypeInv
<1>5. ASSUME NEW p \in Procs, SourceFailed(p)
      PROVE  TypeInv'
  <2>1. DbTypeOK' /\ LockTypeOK' /\ StopTypeOK' /\ CallInv'
    BY <1>5, <1>TypeFrame DEF SourceFailed, ReaderGoes, dbVars, lockVars, stopVars, callVars
  <2>2. ReaderInv'
    BY <1>5, <1>ReaderGoesType, ReaderShapes, SentErrors DEF TypeInv, ReaderInv,
      ReaderTypeOK, SourceFailed
  <2> QED
    BY <2>1, <2>2 DEF TypeInv
<1>6. ASSUME NEW p \in Procs, StrayTakesStop(p)
      PROVE  TypeInv'
  <2>1. DbTypeOK' /\ LockTypeOK' /\ CallInv'
    BY <1>6, <1>TypeFrame DEF StrayTakesStop, dbVars, lockVars, callVars
  <2>2. ReaderInv'
    BY <1>6, SentErrors, MigrateAssumption DEF TypeInv, ReaderInv, ReaderTypeOK, StrayTakesStop
  <2>3. StopTypeOK'
    <3>1. stopCh' = [stopCh EXCEPT ![p] = 0] /\ UNCHANGED <<isGracefulStop, afterStop>>
      BY <1>6 DEF StrayTakesStop
    <3> QED
      BY <3>1, SMT DEF TypeInv, StopTypeOK
  <2> QED
    BY <2>1, <2>2, <2>3 DEF TypeInv
<1>7. ASSUME NEW p \in Procs, LockRefused(p)
      PROVE  TypeInv'
  <2>1. DbTypeOK' /\ LockTypeOK' /\ ReaderInv' /\ StopTypeOK'
    BY <1>7, <1>TypeFrame DEF LockRefused, Return, GotoResult, Goto, dbVars, lockVars,
      readerVars, stopVars
  <2>2. CallInv'
    BY <1>7, <1>ReturnType, ItemType DEF TypeInv, Errors, LockRefused
  <2> QED
    BY <2>1, <2>2 DEF TypeInv
<1>8. ASSUME NEW p \in Procs, LockWaits(p)
      PROVE  TypeInv'
  <2>1. DbTypeOK' /\ ReaderInv' /\ StopTypeOK'
    BY <1>8, <1>TypeFrame DEF LockWaits, Goto, dbVars, readerVars, stopVars
  <2>2. LockTypeOK'
    BY <1>8, SentErrors, MigrateAssumption DEF TypeInv, LockTypeOK, LockWaits, Goto
  <2>3. CallInv'
    BY <1>8, SentErrors, MigrateAssumption DEF TypeInv, CallInv, CallTypeOK, Critical,
      LockWaits, Goto
  <2> QED
    BY <2>1, <2>2, <2>3 DEF TypeInv
<1>9. ASSUME NEW p \in Procs, LockGranted(p)
      PROVE  TypeInv'
  <2>1. DbTypeOK' /\ ReaderInv' /\ StopTypeOK'
    BY <1>9, <1>TypeFrame DEF LockGranted, Goto, dbVars, readerVars, stopVars
  <2>2. LockTypeOK'
    BY <1>9, SentErrors, MigrateAssumption DEF TypeInv, LockTypeOK, LockGranted, Goto
  <2>3. CallInv'
    BY <1>9, SentErrors, MigrateAssumption DEF TypeInv, CallInv, CallTypeOK, Critical,
      LockGranted, Goto
  <2> QED
    BY <2>1, <2>2, <2>3 DEF TypeInv
<1>10. ASSUME NEW p \in Procs, LockFailed(p)
      PROVE  TypeInv'
  <2>1. DbTypeOK' /\ ReaderInv' /\ StopTypeOK'
    BY <1>10, <1>TypeFrame DEF LockFailed, Return, GotoResult, Goto, dbVars, readerVars, stopVars
  <2>2. LockTypeOK'
    BY <1>10, SentErrors, MigrateAssumption DEF TypeInv, LockTypeOK, LockFailed, Return,
      GotoResult, Goto
  <2>3. CallInv'
    BY <1>10, <1>ReturnType, ItemType DEF TypeInv, Errors, LockFailed
  <2> QED
    BY <2>1, <2>2, <2>3 DEF TypeInv
<1>11. ASSUME NEW p \in Procs, LockTimedOut(p)
      PROVE  TypeInv'
  <2>1. DbTypeOK' /\ ReaderInv' /\ StopTypeOK'
    BY <1>11, <1>TypeFrame DEF LockTimedOut, Return, GotoResult, Goto, dbVars, readerVars, stopVars
  <2>2. LockTypeOK'
    BY <1>11, SentErrors, MigrateAssumption DEF TypeInv, LockTypeOK, LockTimedOut, Return,
      GotoResult, Goto
  <2>3. CallInv'
    BY <1>11, <1>ReturnType, ItemType DEF TypeInv, Errors, LockTimedOut
  <2> QED
    BY <2>1, <2>2, <2>3 DEF TypeInv
<1>12. ASSUME NEW p \in Procs, ReadVersion(p)
      PROVE  TypeInv'
  <2>1. DbTypeOK' /\ LockTypeOK' /\ StopTypeOK'
    BY <1>12, <1>TypeFrame DEF ReadVersion, GotoResult, Goto, dbVars, lockVars, stopVars
  <2>2. ReaderInv'
    <3>1. CASE dirty
      BY <1>12, <3>1, <1>TypeFrame DEF ReadVersion
    <3>2. CASE ~dirty
      <4>1. Operation(op[p], version) \in GoodReader
        <5>1. op[p] \in Op /\ EarlyResult(op[p]) = "nil"
          BY <1>12, <3>2 DEF TypeInv, CallInv, CallTypeOK, ReadVersion, Goto
        <5>2. op[p].kind \notin {"Drop", "Force"}
          BY <1>12 DEF ReadVersion
        <5>3. version \in Int
          BY DbConstants, SMT DEF TypeInv, DbTypeOK
        <5> QED
          BY <5>1, <5>2, <5>3, <1>OperationType
      <4>2. rd' \in [Procs -> GoodReader] /\ rd' \in [Procs -> Reader]
        BY <1>12, <3>2, <4>1, ZenonT(30) DEF TypeInv, ReaderInv, ReaderTypeOK,
          ReadVersion, GoodReader
      <4>3. ch' \in [Procs -> Seq(Item)]
        <5>1. <<>> \in Seq(Item)
          BY SMT
        <5> QED
          BY <5>1, <1>12, <3>2 DEF TypeInv, ReaderInv, ReaderTypeOK, ReadVersion
      <4>4. \A q \in Procs : ch'[q] = ch[q] \/ Len(ch'[q]) = 0
        <5>1. ch' = [ch EXCEPT ![p] = <<>>]
          BY <1>12, <3>2 DEF ReadVersion
        <5> QED
          BY <5>1 DEF TypeInv, ReaderInv, ReaderTypeOK
      <4>5. stray' \in [Procs -> BOOLEAN] /\ strayStop' \in [Procs -> BOOLEAN]
        BY <1>12, <3>2 DEF TypeInv, ReaderInv, ReaderTypeOK, ReadVersion
      <4> QED
        BY <4>2, <4>3, <4>4, <4>5, MigrateAssumption, SMT DEF TypeInv, ReaderInv, ReaderTypeOK
    <3> QED
      BY <3>1, <3>2
  <2>3. CallInv'
    <3>1. version \in Int /\ Err("ErrDirty") \in Item
      BY DbConstants, ItemType, SMT DEF TypeInv, DbTypeOK, Errors
    <3> QED
      BY <1>12, <3>1 DEF TypeInv, CallInv, CallTypeOK, Critical, ReadVersion, GotoResult, Goto
  <2> QED
    BY <2>1, <2>2, <2>3 DEF TypeInv
<1>13. ASSUME NEW p \in Procs, VersionFailed(p)
      PROVE  TypeInv'
  <2>1. DbTypeOK' /\ LockTypeOK' /\ ReaderInv' /\ StopTypeOK'
    BY <1>13, <1>TypeFrame DEF VersionFailed, GotoResult, Goto, dbVars, lockVars,
      readerVars, stopVars
  <2>2. CallInv'
    BY <1>13, SentErrors, MigrateAssumption DEF TypeInv, CallInv, CallTypeOK, Critical,
      VersionFailed, GotoResult, Goto
  <2> QED
    BY <2>1, <2>2 DEF TypeInv
<1>14. ASSUME NEW p \in Procs, Drop(p)
      PROVE  TypeInv'
  <2>1. LockTypeOK' /\ ReaderInv' /\ StopTypeOK'
    BY <1>14, <1>TypeFrame DEF Drop, GotoResult, Goto, lockVars, readerVars, stopVars
  <2>2. DbTypeOK'
    BY <1>14, DbConstants DEF TypeInv, DbTypeOK, Drop
  <2>3. CallInv'
    BY <1>14, SentErrors, MigrateAssumption DEF TypeInv, CallInv, CallTypeOK, Critical,
      Drop, GotoResult, Goto
  <2> QED
    BY <2>1, <2>2, <2>3 DEF TypeInv
<1>15. ASSUME NEW p \in Procs, DropFailed(p)
      PROVE  TypeInv'
  <2>1. LockTypeOK' /\ ReaderInv' /\ StopTypeOK'
    BY <1>15, <1>TypeFrame DEF DropFailed, GotoResult, Goto, lockVars, readerVars, stopVars
  <2>2. DbTypeOK'
    <3>1. CASE UNCHANGED dbVars
      BY <3>1, <1>TypeFrame
    <3>2. CASE /\ schema' = Torn /\ tracked' = FALSE
               /\ \/ UNCHANGED <<version, dirty, table>>
                  \/ version' = NilVersion /\ dirty' = FALSE /\ table' = FALSE
      BY <3>2, DbConstants DEF TypeInv, DbTypeOK
    <3> QED
      BY <1>15, <3>1, <3>2 DEF DropFailed
  <2>3. CallInv'
    BY <1>15, SentErrors, MigrateAssumption DEF TypeInv, CallInv, CallTypeOK, Critical,
      DropFailed, GotoResult, Goto
  <2> QED
    BY <2>1, <2>2, <2>3 DEF TypeInv
<1>16. ASSUME NEW p \in Procs, ForceVersion(p)
      PROVE  TypeInv'
  <2>1. LockTypeOK' /\ ReaderInv' /\ StopTypeOK'
    BY <1>16, <1>TypeFrame DEF ForceVersion, GotoResult, Goto, Stores, lockVars,
      readerVars, stopVars
  <2>2. DbTypeOK'
    <3>1. op[p].n \in Int
      BY DEF TypeInv, CallInv, CallTypeOK, Op
    <3>2. tracked' \in BOOLEAN
      BY <1>16 DEF ForceVersion
    <3> QED
      BY <1>16, <3>1, <3>2, StoresType DEF TypeInv, DbTypeOK, ForceVersion
  <2>3. CallInv'
    BY <1>16, SentErrors, MigrateAssumption DEF TypeInv, CallInv, CallTypeOK, Critical,
      ForceVersion, GotoResult, Goto, Stores
  <2> QED
    BY <2>1, <2>2, <2>3 DEF TypeInv
<1>17. ASSUME NEW p \in Procs, ForceFailed(p)
      PROVE  TypeInv'
  <2>1. LockTypeOK' /\ ReaderInv' /\ StopTypeOK'
    BY <1>17, <1>TypeFrame DEF ForceFailed, GotoResult, Goto, Stores, lockVars, readerVars, stopVars
  <2>2. DbTypeOK'
    <3>1. op[p].n \in Int
      BY DEF TypeInv, CallInv, CallTypeOK, Op
    <3>2. tracked' \in BOOLEAN
      BY <1>17 DEF ForceFailed, TypeInv, DbTypeOK
    <3> QED
      BY <1>17, <3>1, <3>2, StoresType DEF TypeInv, DbTypeOK, ForceFailed
  <2>3. CallInv'
    BY <1>17, SentErrors, MigrateAssumption DEF TypeInv, CallInv, CallTypeOK, Critical,
      ForceFailed, GotoResult, Goto, Stores
  <2> QED
    BY <2>1, <2>2, <2>3 DEF TypeInv
<1>18. ASSUME NEW p \in Procs, Unlock(p)
      PROVE  TypeInv'
  <2>1. DbTypeOK' /\ ReaderInv' /\ StopTypeOK'
    BY <1>18, <1>TypeFrame DEF Unlock, Return, GotoResult, Goto, dbVars, readerVars, stopVars
  <2>2. LockTypeOK'
    BY <1>18, SentErrors, MigrateAssumption DEF TypeInv, LockTypeOK, Unlock, Return,
      GotoResult, Goto
  <2>3. CallInv'
    BY <1>18, <1>ReturnType DEF TypeInv, CallInv, CallTypeOK, Unlock
  <2> QED
    BY <2>1, <2>2, <2>3 DEF TypeInv
<1>19. ASSUME NEW p \in Procs, UnlockFailed(p)
      PROVE  TypeInv'
  <2>1. DbTypeOK' /\ ReaderInv' /\ StopTypeOK'
    BY <1>19, <1>TypeFrame DEF UnlockFailed, Return, GotoResult, Goto, dbVars, readerVars, stopVars
  <2>2. LockTypeOK'
    BY <1>19, SentErrors, MigrateAssumption DEF TypeInv, LockTypeOK, UnlockFailed, Return,
      GotoResult, Goto
  <2>3. CallInv'
    BY <1>19, <1>ReturnType, ItemType DEF TypeInv, Errors, UnlockFailed
  <2> QED
    BY <2>1, <2>2, <2>3 DEF TypeInv
<1>20. ASSUME NEW p \in Procs, ReaderStart(p)
      PROVE  TypeInv'
  <2>1. DbTypeOK' /\ LockTypeOK' /\ StopTypeOK' /\ CallInv'
    BY <1>20, <1>TypeFrame DEF ReaderStart, ReaderGoes, dbVars, lockVars, stopVars, callVars
  <2>2. ReaderInv'
    BY <1>20, <1>ReaderGoesType, StartType DEF TypeInv, ReaderInv, ReaderTypeOK, ReaderStart
  <2> QED
    BY <2>1, <2>2 DEF TypeInv
<1>21. ASSUME NEW p \in Procs, ReaderLoop(p)
      PROVE  TypeInv'
  <2>1. DbTypeOK' /\ LockTypeOK' /\ StopTypeOK' /\ CallInv'
    BY <1>21, <1>TypeFrame DEF ReaderLoop, ReaderGoes, dbVars, lockVars, stopVars, callVars
  <2>2. ReaderInv'
    BY <1>21, <1>ReaderGoesType, LoopType, ReaderShapes DEF TypeInv, ReaderInv,
      ReaderTypeOK, ReaderLoop
  <2> QED
    BY <2>1, <2>2 DEF TypeInv
<1>22. ASSUME NEW p \in Procs, ReaderPanics(p)
      PROVE  TypeInv'
  BY <1>22, <1>ResetType DEF ReaderPanics
<1>23. ASSUME NEW p \in Procs, ReaderSeesStop(p)
      PROVE  TypeInv'
  <2>1. DbTypeOK' /\ LockTypeOK' /\ StopTypeOK' /\ CallInv'
    BY <1>23, <1>TypeFrame DEF ReaderSeesStop, ReaderGoes, dbVars, lockVars, stopVars, callVars
  <2>2. ReaderInv'
    BY <1>23, <1>ReaderGoesType, ReaderShapes DEF TypeInv, ReaderInv, ReaderTypeOK, ReaderSeesStop
  <2> QED
    BY <2>1, <2>2 DEF TypeInv
<1>24. ASSUME NEW p \in Procs, ReaderTakesStop(p)
      PROVE  TypeInv'
  <2>1. DbTypeOK' /\ LockTypeOK' /\ CallInv'
    BY <1>24, <1>TypeFrame DEF ReaderTakesStop, ReaderGoes, dbVars, lockVars, callVars
  <2>2. ReaderInv'
    <3>1. [rd[p] EXCEPT !.pc = "stopping"] \in GoodReader
      BY ZenonT(30) DEF TypeInv, ReaderInv, ReaderTypeOK, Reader, GoodReader
    <3> QED
      BY <1>24, <3>1, <1>ReaderGoesType DEF TypeInv, ReaderTakesStop
  <2>3. StopTypeOK'
    BY <1>24, SentErrors, MigrateAssumption, SMT DEF TypeInv, StopTypeOK, ReaderTakesStop,
      ReaderGoes
  <2> QED
    BY <2>1, <2>2, <2>3 DEF TypeInv
<1>25. ASSUME NEW p \in Procs, ReaderSetsStop(p)
      PROVE  TypeInv'
  <2>1. DbTypeOK' /\ LockTypeOK' /\ CallInv'
    BY <1>25, <1>TypeFrame DEF ReaderSetsStop, ReaderGoes, dbVars, lockVars, callVars
  <2>2. ReaderInv'
    BY <1>25, <1>ReaderGoesType, ReaderShapes DEF TypeInv, ReaderInv, ReaderTypeOK, ReaderSetsStop
  <2>3. StopTypeOK'
    BY <1>25, SentErrors, MigrateAssumption DEF TypeInv, StopTypeOK, ReaderSetsStop, ReaderGoes
  <2> QED
    BY <2>1, <2>2, <2>3 DEF TypeInv
<1>26. ASSUME NEW p \in Procs, ReaderSend(p)
      PROVE  TypeInv'
  <2>1. DbTypeOK' /\ LockTypeOK' /\ StopTypeOK' /\ CallInv'
    BY <1>26, <1>TypeFrame DEF ReaderSend, dbVars, lockVars, stopVars, callVars
  <2>2. ReaderInv'
    <3>1. rd[p].pend \in Seq(Item) /\ rd[p].pend # <<>> /\ rd[p].pc = "send"
      BY <1>26 DEF TypeInv, ReaderInv, GoodReader, Reader, ReaderSend
    <3>2. Head(rd[p].pend) \in Item /\ Append(ch[p], Head(rd[p].pend)) \in Seq(Item)
      BY <3>1, SMT DEF TypeInv, ReaderInv, ReaderTypeOK
    <3>3. ch' \in [Procs -> Seq(Item)]
      BY <1>26, <3>2 DEF TypeInv, ReaderInv, ReaderTypeOK, ReaderSend
    <3>4. Sent(rd[p]) \in GoodReader
      BY <3>1, SentType DEF TypeInv, ReaderInv, ReaderTypeOK
    <3>5. rd' \in [Procs -> GoodReader] /\ rd' \in [Procs -> Reader]
      BY <1>26, <3>4 DEF TypeInv, ReaderInv, ReaderTypeOK, ReaderSend, GoodReader
    <3>6. \A q \in Procs : Len(ch'[q]) <= IF Prefetch = 0 THEN 1 ELSE Prefetch
      <4>1. Len(Append(ch[p], Head(rd[p].pend))) = Len(ch[p]) + 1 /\ Len(ch[p]) \in Nat
        BY <3>2, SMT DEF TypeInv, ReaderInv, ReaderTypeOK
      <4>2. ch[p] = <<>> => Len(ch[p]) = 0
        BY SMT
      <4> QED
        BY <1>26, <4>1, <4>2, MigrateAssumption, SMT DEF TypeInv, ReaderInv,
          ReaderTypeOK, ReaderSend
    <3> QED
      BY <1>26, <3>3, <3>5, <3>6 DEF TypeInv, ReaderInv, ReaderTypeOK, ReaderSend
  <2> QED
    BY <2>1, <2>2 DEF TypeInv
<1>27. ASSUME NEW p \in Procs, StraySetsStop(p)
      PROVE  TypeInv'
  <2>1. DbTypeOK' /\ LockTypeOK' /\ CallInv'
    BY <1>27, <1>TypeFrame DEF StraySetsStop, dbVars, lockVars, callVars
  <2>2. ReaderInv'
    BY <1>27, SentErrors, MigrateAssumption DEF TypeInv, ReaderInv, ReaderTypeOK, StraySetsStop
  <2>3. StopTypeOK'
    BY <1>27, SentErrors, MigrateAssumption DEF TypeInv, StopTypeOK, StraySetsStop
  <2> QED
    BY <2>1, <2>2, <2>3 DEF TypeInv
<1>28. ASSUME NEW p \in Procs, Receive(p)
      PROVE  TypeInv'
  <2>1. DbTypeOK' /\ LockTypeOK' /\ StopTypeOK'
    BY <1>28, <1>TypeFrame DEF Receive, Goto, dbVars, lockVars, stopVars
  <2>2. ReaderInv'
    <3>1. ch[p] # <<>> /\ ch' = [ch EXCEPT ![p] = Tail(@)] /\ UNCHANGED <<rd, stray, strayStop>>
      BY <1>28 DEF Receive
    <3>2. PICK t \in Seq(Item) : t = Tail(ch[p]) /\ Len(t) <= Len(ch[p])
      <4>1. ch[p] \in Seq(Item)
        BY DEF TypeInv, ReaderInv, ReaderTypeOK
      <4> QED
        BY <3>1, <4>1, ShorterTail
    <3>3. /\ ch' \in [Procs -> Seq(Item)]
          /\ \A q \in Procs : ch'[q] = ch[q] \/ (q = p /\ ch'[q] = t)
      BY <3>1, <3>2 DEF TypeInv, ReaderInv, ReaderTypeOK
    <3>4. \A q \in Procs : Len(ch'[q]) <= IF Prefetch = 0 THEN 1 ELSE Prefetch
      BY <3>2, <3>3, MigrateAssumption, SMT DEF TypeInv, ReaderInv, ReaderTypeOK
    <3> QED
      BY <3>1, <3>3, <3>4 DEF TypeInv, ReaderInv, ReaderTypeOK
  <2>3. CallInv'
    <3>1. Head(ch[p]) \in Item
      BY <1>28, SMT DEF TypeInv, ReaderInv, ReaderTypeOK, Receive
    <3> QED
      BY <1>28, <3>1 DEF TypeInv, CallInv, CallTypeOK, Critical, Receive, Goto
  <2> QED
    BY <2>1, <2>2, <2>3 DEF TypeInv
<1>29. ASSUME NEW p \in Procs, RunnerDone(p)
      PROVE  TypeInv'
  <2>1. DbTypeOK' /\ LockTypeOK' /\ ReaderInv' /\ StopTypeOK'
    BY <1>29, <1>TypeFrame DEF RunnerDone, GotoResult, Goto, dbVars, lockVars, readerVars, stopVars
  <2>2. CallInv'
    BY <1>29, SentErrors, MigrateAssumption DEF TypeInv, CallInv, CallTypeOK, Critical,
      RunnerDone, GotoResult, Goto
  <2> QED
    BY <2>1, <2>2 DEF TypeInv
<1>30. ASSUME NEW p \in Procs, RunnerSeesStop(p)
      PROVE  TypeInv'
  <2>1. DbTypeOK' /\ LockTypeOK' /\ ReaderInv' /\ StopTypeOK'
    BY <1>30, <1>TypeFrame DEF RunnerSeesStop, GotoResult, Goto, dbVars, lockVars,
      readerVars, stopVars
  <2>2. CallInv'
    BY <1>30, SentErrors, MigrateAssumption DEF TypeInv, CallInv, CallTypeOK, Critical,
      RunnerSeesStop, GotoResult, Goto
  <2> QED
    BY <2>1, <2>2 DEF TypeInv
<1>31. ASSUME NEW p \in Procs, RunnerTakesStop(p)
      PROVE  TypeInv'
  <2>1. DbTypeOK' /\ LockTypeOK' /\ ReaderInv'
    BY <1>31, <1>TypeFrame DEF RunnerTakesStop, Goto, dbVars, lockVars, readerVars
  <2>2. StopTypeOK'
    BY <1>31, SentErrors, MigrateAssumption, SMT DEF TypeInv, StopTypeOK, RunnerTakesStop, Goto
  <2>3. CallInv'
    BY <1>31, SentErrors, MigrateAssumption DEF TypeInv, CallInv, CallTypeOK, Critical,
      RunnerTakesStop, Goto
  <2> QED
    BY <2>1, <2>2, <2>3 DEF TypeInv
<1>32. ASSUME NEW p \in Procs, RunnerSetsStop(p)
      PROVE  TypeInv'
  <2>1. DbTypeOK' /\ LockTypeOK' /\ ReaderInv'
    BY <1>32, <1>TypeFrame DEF RunnerSetsStop, GotoResult, Goto, dbVars, lockVars, readerVars
  <2>2. StopTypeOK'
    BY <1>32, SentErrors, MigrateAssumption DEF TypeInv, StopTypeOK, RunnerSetsStop,
      GotoResult, Goto
  <2>3. CallInv'
    BY <1>32, SentErrors, MigrateAssumption DEF TypeInv, CallInv, CallTypeOK, Critical,
      RunnerSetsStop, GotoResult, Goto
  <2> QED
    BY <2>1, <2>2, <2>3 DEF TypeInv
<1>33. ASSUME NEW p \in Procs, RunnerGoes(p)
      PROVE  TypeInv'
  <2>1. DbTypeOK' /\ LockTypeOK' /\ ReaderInv' /\ StopTypeOK'
    BY <1>33, <1>TypeFrame DEF RunnerGoes, GotoResult, Goto, dbVars, lockVars, readerVars, stopVars
  <2>2. CallInv'
    <3>1. PICK s \in {"unlock", "dirty"} :
            pc[p] = "got" /\ pc' = [pc EXCEPT ![p] = s]
      BY <1>33 DEF RunnerGoes, GotoResult, Goto
    <3>2. result' \in [Procs -> Item] /\ UNCHANGED <<op, cur, start>>
      BY <1>33 DEF TypeInv, CallInv, CallTypeOK, RunnerGoes, GotoResult
    <3>3. s \in Critical
      BY DEF Critical
    <3> QED
      BY <3>1, <3>2, <3>3, <1>MoveType DEF TypeInv
  <2> QED
    BY <2>1, <2>2 DEF TypeInv
<1>34. ASSUME NEW p \in Procs, SetDirty(p)
      PROVE  TypeInv'
  <2>1. LockTypeOK' /\ ReaderInv'
    BY <1>34, <1>TypeFrame DEF SetDirty, Goto, Stores, lockVars, readerVars
  <2>2. DbTypeOK'
    <3>1. cur[p].target \in Int
      BY DEF TypeInv, CallInv, CallTypeOK, Item
    <3> QED
      BY <1>34, <3>1, StoresType DEF TypeInv, DbTypeOK, SetDirty
  <2>3. StopTypeOK'
    <3>1. /\ afterStop' = [afterStop EXCEPT ![p] =
                              IF @ = -1 \/ @ > Prefetch + 2 THEN @ ELSE @ + 1]
          /\ UNCHANGED <<stopCh, isGracefulStop>>
      BY <1>34 DEF SetDirty
    <3> QED
      BY <3>1, MigrateAssumption, SMT DEF TypeInv, StopTypeOK
  <2>4. CallInv'
    BY <1>34, SentErrors, MigrateAssumption DEF TypeInv, CallInv, CallTypeOK, Critical,
      SetDirty, Goto, Stores
  <2> QED
    BY <2>1, <2>2, <2>3, <2>4 DEF TypeInv
<1>35. ASSUME NEW p \in Procs, RunBody(p)
      PROVE  TypeInv'
  <2>1. LockTypeOK' /\ ReaderInv' /\ StopTypeOK'
    BY <1>35, <1>TypeFrame DEF RunBody, Goto, lockVars, readerVars, stopVars
  <2>2. DbTypeOK'
    <3>1. cur[p].target \in Int
      BY DEF TypeInv, CallInv, CallTypeOK, Item
    <3> QED
      BY <1>35, <3>1 DEF TypeInv, DbTypeOK, RunBody
  <2>3. CallInv'
    BY <1>35, SentErrors, MigrateAssumption DEF TypeInv, CallInv, CallTypeOK, Critical,
      RunBody, Goto
  <2> QED
    BY <2>1, <2>2, <2>3 DEF TypeInv
<1>36. ASSUME NEW p \in Procs, BodyFailed(p)
      PROVE  TypeInv'
  <2>1. LockTypeOK' /\ ReaderInv' /\ StopTypeOK'
    BY <1>36, <1>TypeFrame DEF BodyFailed, GotoResult, Goto, lockVars, readerVars, stopVars
  <2>2. DbTypeOK'
    <3>1. cur[p].target \in Int
      BY DEF TypeInv, CallInv, CallTypeOK, Item
    <3> QED
      BY <1>36, <3>1, DbConstants DEF TypeInv, DbTypeOK, BodyFailed
  <2>3. CallInv'
    BY <1>36, SentErrors, MigrateAssumption DEF TypeInv, CallInv, CallTypeOK, Critical,
      BodyFailed, GotoResult, Goto
  <2> QED
    BY <2>1, <2>2, <2>3 DEF TypeInv
<1>37. ASSUME NEW p \in Procs, SetClean(p)
      PROVE  TypeInv'
  <2>1. LockTypeOK' /\ ReaderInv' /\ StopTypeOK'
    BY <1>37, <1>TypeFrame DEF SetClean, Goto, Stores, lockVars, readerVars, stopVars
  <2>2. DbTypeOK'
    <3>1. cur[p].target \in Int
      BY DEF TypeInv, CallInv, CallTypeOK, Item
    <3> QED
      BY <1>37, <3>1, StoresType DEF TypeInv, DbTypeOK, SetClean
  <2>3. CallInv'
    BY <1>37, SentErrors, MigrateAssumption DEF TypeInv, CallInv, CallTypeOK, Critical,
      SetClean, Goto, Stores
  <2> QED
    BY <2>1, <2>2, <2>3 DEF TypeInv
<1>38. ASSUME NEW p \in Procs, SetVersionFailed(p)
      PROVE  TypeInv'
  <2>1. LockTypeOK' /\ ReaderInv' /\ StopTypeOK'
    BY <1>38, <1>TypeFrame DEF SetVersionFailed, GotoResult, Goto, Stores, lockVars,
      readerVars, stopVars
  <2>2. DbTypeOK'
    <3>1. cur[p].target \in Int
      BY DEF TypeInv, CallInv, CallTypeOK, Item
    <3>2. version' \in Nat \cup {NilVersion} /\ dirty' \in BOOLEAN
      BY <1>38, <3>1, StoresType DEF TypeInv, DbTypeOK, SetVersionFailed
    <3> QED
      BY <1>38, <3>2 DEF TypeInv, DbTypeOK, SetVersionFailed
  <2>3. CallInv'
    <3>1. pc[p] \in {"dirty", "clean"} /\ pc' = [pc EXCEPT ![p] = "unlock"]
      BY <1>38 DEF SetVersionFailed, GotoResult, Goto
    <3>2. result' \in [Procs -> Item] /\ UNCHANGED <<op, cur, start>>
      BY <1>38, SentErrors DEF TypeInv, CallInv, CallTypeOK, SetVersionFailed, GotoResult
    <3>3. "unlock" \in Critical
      BY DEF Critical
    <3> QED
      BY <3>1, <3>2, <3>3, <1>MoveType DEF TypeInv
  <2> QED
    BY <2>1, <2>2, <2>3 DEF TypeInv
<1>39. ASSUME NEW p \in Procs, NEW o \in Ops, Call(p, o)
      PROVE  TypeInv'
  <2>1. DbTypeOK' /\ LockTypeOK' /\ ReaderInv' /\ StopTypeOK'
    BY <1>39, <1>TypeFrame DEF Call
  <2>2. CallInv'
    <3>1. CASE EarlyResult(o) = "nil"
      <4>1. CallTypeOK'
        BY <1>39, <3>1, SentErrors, MigrateAssumption, SMT
        DEF TypeInv, CallInv, CallTypeOK, Call, GotoResult, Goto
      <4>2. ASSUME NEW q \in Procs, pc'[q] \notin {"closed", "idle"}
            PROVE  op'[q] \in Ops /\ EarlyResult(op'[q]) = "nil"
        BY <1>39, <3>1, <4>2 DEF TypeInv, CallInv, CallTypeOK, Call, GotoResult, Goto
      <4> QED
        BY <4>1, <4>2 DEF CallInv
    <3>2. CASE EarlyResult(o) # "nil"
      <4>1. EarlyResult(o) \in Errors
        BY DEF EarlyResult, Errors
      <4> QED
        BY <1>39, <3>2, <4>1, <1>ReturnType, ItemType DEF TypeInv, Call
    <3> QED
      BY <3>1, <3>2
  <2> QED
    BY <2>1, <2>2 DEF TypeInv
<1>40. CASE Repair
  BY <1>40, IndexType, <1>TypeFrame, SMT DEF Repair, TypeInv, DbTypeOK
<1>41. CASE UNCHANGED vars
  BY <1>41, <1>TypeFrame DEF vars, TypeInv
<1> QED
  BY <1>1, <1>2, <1>3, <1>4, <1>5, <1>6, <1>7, <1>8, <1>9, <1>10, <1>11, <1>12, <1>13, <1>14,
    <1>15, <1>16, <1>17, <1>18, <1>19, <1>20, <1>21, <1>22, <1>23, <1>24, <1>25, <1>26,
    <1>27, <1>28, <1>29, <1>30, <1>31, <1>32, <1>33, <1>34, <1>35, <1>36, <1>37, <1>38,
    <1>39, <1>40, <1>41 DEF Next, CallStep, ReaderStep, RunnerStep

\* The state in which processes open the database is typed.
LEMMA TypeInit == Init => TypeInv
<1> SUFFICES ASSUME Init
             PROVE  TypeInv
  OBVIOUS
<1>1. DbTypeOK
  <2>1. table \in BOOLEAN
    BY DEF Init
  <2>2. version \in Nat \cup {NilVersion} /\ schema = version
    BY MigrateAssumption DEF Init
  <2>3. dirty \in BOOLEAN /\ tracked \in BOOLEAN
    BY DEF Init
  <2> QED
    BY <2>1, <2>2, <2>3, DbConstants, SMT DEF DbTypeOK
<1>2. LockTypeOK /\ StopTypeOK
  BY SMT DEF Init, LockTypeOK, StopTypeOK
<1>3. ReaderInv
  <2>1. \A p \in Procs : Len(ch[p]) = 0
    BY DEF Init
  <2> QED
    <3>1. rd \in [Procs -> GoodReader] /\ rd \in [Procs -> Reader]
      BY NoReaderType DEF Init, GoodReader
    <3>2. ch \in [Procs -> Seq(Item)]
      BY SMT DEF Init
    <3>3. stray \in [Procs -> BOOLEAN] /\ strayStop \in [Procs -> BOOLEAN]
      BY DEF Init
    <3> QED
      BY <2>1, <3>1, <3>2, <3>3, MigrateAssumption, SMT DEF ReaderInv, ReaderTypeOK
<1>4. CallInv
  <2>1. NoOp \in Op
    BY NoOpType
  <2> QED
    BY <2>1, SentErrors, DbConstants DEF Init, CallInv, CallTypeOK
<1> QED
  BY <1>1, <1>2, <1>3, <1>4 DEF TypeInv

\* The types of Migrate's variables, the bound of the ret channel included: no
\* operation, fault, stop or crash leads outside of them.
THEOREM TypeCorrect == Spec => []TypeOK
<1>1. TypeInv => TypeOK
  BY DEF TypeInv, TypeOK, ReaderInv, CallInv
<1> QED
  BY <1>1, TypeInit, TypeStep, PTL DEF Spec

-----------------------------------------------------------------------------
(***************************************************************************)
(* The engine implements LockService: at most one process is between a     *)
(* successful lock() and the end of its unlock(), and only while its       *)
(* session owns the database lock.                                         *)
(***************************************************************************)
Inside == {p \in Procs : pc[p] \in Critical}

\* The inductive invariant: who is inside owns the lock.
LockInv == \A p \in Procs : pc[p] \in Critical => holder = p

\* A step that changes neither the owner of the lock nor who is inside.
Quiet == UNCHANGED holder /\ \A q \in Procs : pc'[q] \in Critical <=> pc[q] \in Critical

\* The actions of p that are such steps.
QuietStep(p) ==
  \/ Open(p) \/ RequestStop(p) \/ SourceFailed(p) \/ StrayTakesStop(p)
  \/ LockRefused(p) \/ LockWaits(p) \/ LockFailed(p) \/ LockTimedOut(p)
  \/ ReadVersion(p) \/ VersionFailed(p) \/ Drop(p) \/ DropFailed(p)
  \/ ForceVersion(p) \/ ForceFailed(p) \/ ReaderStart(p) \/ ReaderLoop(p)
  \/ ReaderSeesStop(p) \/ ReaderTakesStop(p) \/ ReaderSetsStop(p) \/ ReaderSend(p)
  \/ StraySetsStop(p) \/ Receive(p) \/ RunnerDone(p) \/ RunnerSeesStop(p)
  \/ RunnerTakesStop(p) \/ RunnerSetsStop(p) \/ RunnerGoes(p) \/ SetDirty(p)
  \/ RunBody(p) \/ BodyFailed(p) \/ SetClean(p) \/ SetVersionFailed(p)

-----------------------------------------------------------------------------
\* One step of the engine keeps LockInv and is a step of LockService: a grant
\* is Enter, the end of unlock() Leave, a late grant Acquire, a death Crash.
LEMMA LockStep ==
  TypeInv /\ LockInv /\ [Next]_vars =>
    LockInv' /\ [Lock!Next]_(Lock!vars)
<1>QuietSteps.
  ASSUME TypeInv, NEW p \in Procs, QuietStep(p)
  PROVE  Quiet
  <2> USE <1>QuietSteps
  <2> USE DEF Quiet, Critical, lockVars
  <2>1. CASE Open(p)
    BY <2>1, SMT DEF Open, Goto
  <2>2. CASE RequestStop(p)
    BY <2>2 DEF RequestStop, callVars
  <2>3. CASE SourceFailed(p)
    BY <2>3 DEF SourceFailed, ReaderGoes, callVars, lockVars
  <2>4. CASE StrayTakesStop(p)
    BY <2>4 DEF StrayTakesStop, callVars, lockVars
  <2>5. CASE LockRefused(p)
    BY <2>5, SMT DEF LockRefused, Return, GotoResult, Goto
  <2>6. CASE LockWaits(p)
    BY <2>6, SMT DEF LockWaits, Goto
  <2>7. CASE LockFailed(p)
    BY <2>7, SMT DEF LockFailed, Return, GotoResult, Goto
  <2>8. CASE LockTimedOut(p)
    BY <2>8, SMT DEF LockTimedOut, Return, GotoResult, Goto
  <2>9. CASE ReadVersion(p)
    BY <2>9 DEF ReadVersion, GotoResult, Goto, TypeInv, CallInv, CallTypeOK
  <2>10. CASE VersionFailed(p)
    BY <2>10, SMT DEF VersionFailed, GotoResult, Goto
  <2>11. CASE Drop(p)
    BY <2>11, SMT DEF Drop, GotoResult, Goto
  <2>12. CASE DropFailed(p)
    BY <2>12, SMT DEF DropFailed, GotoResult, Goto
  <2>13. CASE ForceVersion(p)
    BY <2>13, SMT DEF ForceVersion, GotoResult, Goto
  <2>14. CASE ForceFailed(p)
    BY <2>14, SMT DEF ForceFailed, GotoResult, Goto
  <2>15. CASE ReaderStart(p)
    BY <2>15 DEF ReaderStart, ReaderGoes, callVars
  <2>16. CASE ReaderLoop(p)
    BY <2>16 DEF ReaderLoop, ReaderGoes, callVars
  <2>17. CASE ReaderSeesStop(p)
    BY <2>17 DEF ReaderSeesStop, ReaderGoes, callVars
  <2>18. CASE ReaderTakesStop(p)
    BY <2>18 DEF ReaderTakesStop, ReaderGoes, callVars
  <2>19. CASE ReaderSetsStop(p)
    BY <2>19 DEF ReaderSetsStop, ReaderGoes, callVars
  <2>20. CASE ReaderSend(p)
    BY <2>20 DEF ReaderSend, callVars
  <2>21. CASE StraySetsStop(p)
    BY <2>21 DEF StraySetsStop, callVars
  <2>22. CASE Receive(p)
    BY <2>22, SMT DEF Receive, Goto
  <2>23. CASE RunnerDone(p)
    BY <2>23, SMT DEF RunnerDone, GotoResult, Goto
  <2>24. CASE RunnerSeesStop(p)
    BY <2>24, SMT DEF RunnerSeesStop, GotoResult, Goto
  <2>25. CASE RunnerTakesStop(p)
    BY <2>25, SMT DEF RunnerTakesStop, Goto
  <2>26. CASE RunnerSetsStop(p)
    BY <2>26, SMT DEF RunnerSetsStop, GotoResult, Goto
  <2>27. CASE RunnerGoes(p)
    BY <2>27 DEF RunnerGoes, GotoResult, Goto, TypeInv, CallInv, CallTypeOK
  <2>28. CASE SetDirty(p)
    BY <2>28, SMT DEF SetDirty, Goto
  <2>29. CASE RunBody(p)
    BY <2>29, SMT DEF RunBody, Goto
  <2>30. CASE BodyFailed(p)
    BY <2>30, SMT DEF BodyFailed, GotoResult, Goto
  <2>31. CASE SetClean(p)
    BY <2>31, SMT DEF SetClean, Goto
  <2>32. CASE SetVersionFailed(p)
    BY <2>32, SMT DEF SetVersionFailed, GotoResult, Goto
  <2> QED
    BY <2>1, <2>2, <2>3, <2>4, <2>5, <2>6, <2>7, <2>8, <2>9, <2>10, <2>11, <2>12, <2>13,
      <2>14, <2>15, <2>16, <2>17, <2>18, <2>19, <2>20, <2>21, <2>22, <2>23, <2>24, <2>25,
      <2>26, <2>27, <2>28, <2>29, <2>30, <2>31, <2>32 DEF QuietStep
<1> SUFFICES ASSUME TypeInv, LockInv, [Next]_vars
             PROVE  LockInv' /\ [Lock!Next]_(Lock!vars)
  OBVIOUS
<1> DEFINE Goal == LockInv' /\ [Lock!Next]_(Lock!vars)
<1>0. ASSUME Quiet
      PROVE  Goal
  <2>1. Inside' = Inside
    BY <1>0 DEF Quiet, Inside
  <2>2. UNCHANGED Lock!vars
    BY <1>0, <2>1 DEF Quiet, Inside, Lock!vars
  <2> QED
    BY <1>0, <2>2 DEF Quiet, LockInv
<1>1. ASSUME NEW p \in Procs, QuietStep(p)
      PROVE  Goal
  BY <1>0, <1>1, <1>QuietSteps
<1>2. ASSUME NEW p \in Procs, Reset(p)
      PROVE  Goal
  <2>1. \A q \in Procs : pc'[q] = IF q = p THEN "closed" ELSE pc[q]
    BY <1>2 DEF Reset, TypeInv, CallInv, CallTypeOK
  <2>2. holder' = IF holder = p THEN NoProc ELSE holder
    BY <1>2 DEF Reset
  <2>3. LockInv'
    BY <2>1, <2>2 DEF LockInv, Critical
  <2>4. Inside' = {q \in Inside : q # p}
    BY <2>1 DEF Inside, Critical
  <2>5. Lock!Crash(p)
    BY <2>2, <2>4 DEF Lock!Crash, Inside
  <2> QED
    BY <2>3, <2>5 DEF Lock!Next
<1>3. ASSUME NEW p \in Procs, LateLock(p)
      PROVE  Goal
  <2>1. \A q \in Procs : pc'[q] = pc[q]
    BY <1>3 DEF LateLock, callVars
  <2>2. Inside' = Inside
    BY <2>1 DEF Inside
  <2>3. CASE holder' = holder
    BY <1>0, <2>1, <2>3 DEF Quiet
  <2>4. CASE holder = NoProc /\ holder' = p
    <3>1. LockInv'
      BY <2>1, <2>4, MigrateAssumption DEF LockInv
    <3>2. Lock!Acquire(p)
      BY <2>2, <2>4 DEF Lock!Acquire, Inside
    <3> QED
      BY <3>1, <3>2 DEF Lock!Next
  <2> QED
    BY <1>3, <2>3, <2>4 DEF LateLock
<1>4. ASSUME NEW p \in Procs, LockGranted(p)
      PROVE  Goal
  <2>1. holder = NoProc /\ holder' = p /\ pc[p] = "locking"
    BY <1>4 DEF LockGranted, Goto
  <2>2. \A q \in Procs : pc'[q] = IF q = p THEN "held" ELSE pc[q]
    BY <1>4 DEF LockGranted, Goto, TypeInv, CallInv, CallTypeOK
  <2>3. \A q \in Procs : pc[q] \notin Critical
    BY <2>1, MigrateAssumption DEF LockInv
  <2>4. LockInv'
    BY <2>1, <2>2, <2>3 DEF LockInv
  <2>5. Inside = {} /\ Inside' = {p}
    BY <2>2, <2>3 DEF Inside, Critical
  <2>6. Lock!Enter(p)
    BY <2>1, <2>5 DEF Lock!Enter, Inside
  <2> QED
    BY <2>4, <2>6 DEF Lock!Next
<1>5. ASSUME NEW p \in Procs, Unlock(p) \/ UnlockFailed(p)
      PROVE  Goal
  <2>1. pc[p] = "unlock" /\ \A q \in Procs : pc'[q] = IF q = p THEN "idle" ELSE pc[q]
    BY <1>5 DEF Unlock, UnlockFailed, Return, GotoResult, Goto, TypeInv, CallInv, CallTypeOK
  <2>2. p \in Inside /\ holder = p /\ holder' \in {holder, NoProc}
    BY <1>5, <2>1 DEF Unlock, UnlockFailed, Inside, LockInv, Critical
  <2>3. \A q \in Procs : pc[q] \in Critical => q = p
    BY <2>2 DEF LockInv
  <2>4. LockInv'
    BY <2>1, <2>3 DEF LockInv, Critical
  <2>5. Inside' = Inside \ {p}
    BY <2>1 DEF Inside, Critical
  <2>6. Lock!Leave(p)
    BY <2>2, <2>5 DEF Lock!Leave, Inside
  <2> QED
    BY <2>4, <2>6 DEF Lock!Next
<1>6. ASSUME NEW p \in Procs, NEW o \in Ops, Call(p, o)
      PROVE  Goal
  BY <1>0, <1>6, SMT DEF Quiet, Critical, Call, Return, GotoResult, Goto, lockVars, TypeInv,
    CallInv, CallTypeOK
<1>7. ASSUME Repair
      PROVE  Goal
  BY <1>0, <1>7 DEF Quiet, Repair, lockVars, callVars
<1>8. ASSUME UNCHANGED vars
      PROVE  Goal
  BY <1>0, <1>8 DEF Quiet, vars, lockVars, callVars
<1> HIDE DEF Goal
<1>9. ASSUME NEW p \in Procs, CallStep(p) \/ ReaderStep(p) \/ RunnerStep(p)
      PROVE  Goal
  <2>1. QuietStep(p) \/ Reset(p) \/ LockGranted(p) \/ Unlock(p) \/ UnlockFailed(p)
    BY <1>9 DEF CallStep, ReaderStep, RunnerStep, QuietStep, ReaderPanics
  <2> QED
    BY <2>1, <1>1, <1>2, <1>4, <1>5
<1>10. ASSUME NEW p \in Procs, \/ Open(p) \/ Crash(p) \/ RequestStop(p) \/ LateLock(p)
                               \/ SourceFailed(p) \/ StrayTakesStop(p)
       PROVE  Goal
  <2>1. QuietStep(p) \/ Reset(p) \/ LateLock(p)
    BY <1>10 DEF QuietStep, Crash
  <2> QED
    BY <2>1, <1>1, <1>2, <1>3
<1>11. Goal
  BY <1>6, <1>7, <1>8, <1>9, <1>10 DEF Next
<1> QED
  BY <1>11 DEF Goal

\* The engine implements LockService, whatever its callers ask for and whichever
\* lock attempts fail, time out or are granted late, unlocks fail or processes
\* die: lock() and unlock() of migrate.go and their use in every operation.
THEOREM LockRefinement == Spec => LockDiscipline
<1>1. Init => TypeInv /\ LockInv /\ Lock!Init
  <2>1. Init => LockInv
    BY DEF Init, LockInv, Critical
  <2>2. Init => Inside = {} /\ holder = NoProc
    BY DEF Init, Inside, Critical
  <2> QED
    BY <2>1, <2>2, TypeInit DEF Lock!Init, Inside
<1>2. TypeInv /\ LockInv /\ [Next]_vars => (TypeInv /\ LockInv)' /\ [Lock!Next]_(Lock!vars)
  BY TypeStep, LockStep
<1> QED
  BY <1>1, <1>2, PTL DEF Spec, LockDiscipline, Lock!Spec

\* Mutual exclusion: two processes are never both between lock() and unlock().
COROLLARY MutualExclusion ==
  Spec => [](\A p, q \in Procs : pc[p] \in Critical /\ pc[q] \in Critical => p = q)
<1>1. Init => TypeInv /\ LockInv
  BY TypeInit DEF Init, LockInv, Critical
<1>2. TypeInv /\ LockInv /\ [Next]_vars => (TypeInv /\ LockInv)'
  BY TypeStep, LockStep
<1>3. LockInv => \A p, q \in Procs : pc[p] \in Critical /\ pc[q] \in Critical => p = q
  BY DEF LockInv
<1> QED
  BY <1>1, <1>2, <1>3, PTL DEF Spec

-----------------------------------------------------------------------------
(***************************************************************************)
(* What a process does to its own Migrate value is no concern of the       *)
(* values of the others.                                                   *)
(***************************************************************************)
StepBy(p) ==
  \/ Open(p) \/ Crash(p) \/ RequestStop(p) \/ LateLock(p) \/ SourceFailed(p)
  \/ StrayTakesStop(p) \/ CallStep(p) \/ ReaderStep(p) \/ RunnerStep(p)
  \/ \E o \in Ops : Call(p, o)

\* The variables of the Migrate value of q, its operation and its reader.
Untouched(q) ==
  /\ pc'[q] = pc[q] /\ op'[q] = op[q] /\ cur'[q] = cur[q]
  /\ result'[q] = result[q] /\ start'[q] = start[q]
  /\ rd'[q] = rd[q] /\ ch'[q] = ch[q] /\ stray'[q] = stray[q] /\ strayStop'[q] = strayStop[q]
  /\ stopCh'[q] = stopCh[q] /\ isGracefulStop'[q] = isGracefulStop[q]
  /\ afterStop'[q] = afterStop[q]

\* A step of p changes nothing that another process keeps in its own memory.
LEMMA OthersKeep ==
  ASSUME TypeInv, NEW p \in Procs, NEW q \in Procs, q # p, StepBy(p)
  PROVE  Untouched(q)
<1> USE DEF Untouched
<1>1. CASE \/ Open(p) \/ RequestStop(p) \/ LateLock(p) \/ SourceFailed(p) \/ StrayTakesStop(p)
  BY <1>1 DEF Open, RequestStop, LateLock, SourceFailed, StrayTakesStop, ReaderGoes, Goto,
    readerVars, stopVars, callVars, TypeInv, CallInv, CallTypeOK, ReaderInv, ReaderTypeOK, StopTypeOK
<1>2. CASE Reset(p)
  BY <1>2, SMT DEF Reset
<1>3. CASE \E o \in Ops : Call(p, o)
  BY <1>3, SMT DEF Call, Return, GotoResult, Goto, readerVars, stopVars, TypeInv, CallInv,
    CallTypeOK
<1>4. CASE CallStep(p)
  <2>1. CASE \/ LockRefused(p) \/ LockFailed(p) \/ LockTimedOut(p) \/ Unlock(p) \/ UnlockFailed(p)
    BY <2>1 DEF LockRefused, LockFailed, LockTimedOut, Unlock, UnlockFailed, Return, GotoResult,
      Goto, readerVars, stopVars, TypeInv, CallInv, CallTypeOK
  <2>2. CASE \/ LockWaits(p) \/ LockGranted(p) \/ VersionFailed(p)
    BY <2>2 DEF LockWaits, LockGranted, VersionFailed, GotoResult, Goto, readerVars,
      stopVars, TypeInv, CallInv, CallTypeOK
  <2>3. CASE Drop(p) \/ DropFailed(p) \/ ForceVersion(p) \/ ForceFailed(p)
    BY <2>3 DEF Drop, DropFailed, ForceVersion, ForceFailed, GotoResult, Goto, readerVars,
      stopVars, TypeInv, CallInv, CallTypeOK
  <2>4. CASE ReadVersion(p)
    BY <2>4, SMT DEF ReadVersion, GotoResult, Goto, readerVars, stopVars, TypeInv, CallInv,
      CallTypeOK, ReaderInv, ReaderTypeOK
  <2> QED
    BY <1>4, <2>1, <2>2, <2>3, <2>4 DEF CallStep
<1>5. CASE ReaderStep(p)
  <2>1. CASE \/ ReaderStart(p) \/ ReaderLoop(p) \/ ReaderSeesStop(p) \/ ReaderTakesStop(p)
             \/ ReaderSetsStop(p) \/ ReaderSend(p) \/ StraySetsStop(p)
    BY <2>1 DEF ReaderStart, ReaderLoop, ReaderSeesStop, ReaderTakesStop, ReaderSetsStop,
      ReaderSend, StraySetsStop, ReaderGoes, stopVars, callVars, TypeInv, ReaderInv, ReaderTypeOK, StopTypeOK
  <2> QED
    BY <1>2, <1>5, <2>1 DEF ReaderStep, ReaderPanics
<1>6. CASE RunnerStep(p)
  BY <1>6 DEF RunnerStep, Receive, RunnerDone, RunnerSeesStop, RunnerTakesStop, RunnerSetsStop,
    RunnerGoes, SetDirty, RunBody, BodyFailed, SetClean, SetVersionFailed, GotoResult, Goto,
    readerVars, stopVars, TypeInv, CallInv, CallTypeOK, ReaderInv, ReaderTypeOK, StopTypeOK
<1> QED
  BY <1>1, <1>2, <1>3, <1>4, <1>5, <1>6 DEF StepBy, Crash

-----------------------------------------------------------------------------
(***************************************************************************)
(* A stop.  The request is in exactly one place at a time: in the channel, *)
(* with the reader or the runner that took it from there, or in the flag.  *)
(* While it is in the channel or with the runner no migration can pass     *)
(* stop(); while it is with the reader those that were read before can.    *)
(***************************************************************************)
Marking(p) == IF pc[p] = "dirty" THEN 1 ELSE 0

Coming(p) == IF pc[p] \in {"got", "dirty"} THEN Len(ch[p]) + 1 ELSE Len(ch[p])

InChannel(p) == stopCh[p] = 1 /\ afterStop[p] + Marking(p) <= 1

InFlag(p) == isGracefulStop[p] /\ afterStop[p] + Marking(p) <= Prefetch + 2

WithReader(p) == rd[p].pc = "stopping" /\ afterStop[p] + Coming(p) <= Prefetch + 2

WithRunner(p) == pc[p] = "stopping" /\ afterStop[p] <= 1

Stopping(p) ==
  /\ strayStop[p] => stray[p]
  /\ Prefetch = 0 /\ ch[p] # <<>> => pc[p] = "recv"
  /\ rd[p].kind = "feed" => rd[p].pc = "done" \/ (rd[p].pc = "send" /\ rd[p].then = "done")
  /\ ~stray[p] /\ afterStop[p] # -1 =>
       InChannel(p) \/ InFlag(p) \/ WithReader(p) \/ WithRunner(p)

StopInv == \A p \in Procs : Stopping(p)

\* Wherever a stop is on its way (Stopping), a step moves it on or leaves it there.
LEMMA StopStep ==
  TypeInv /\ StopInv /\ [Next]_vars => StopInv'
\* What is counted.
<1>StopNumbers.
  ASSUME TypeInv, NEW p \in Procs
  PROVE  afterStop[p] \in Int /\ Len(ch[p]) \in Nat /\ Prefetch \in Nat
  <2>1. afterStop[p] \in Int /\ ch[p] \in Seq(Item)
    BY <1>StopNumbers DEF TypeInv, StopTypeOK, ReaderInv, ReaderTypeOK
  <2> QED
    BY <2>1, EmptySeq, MigrateAssumption
\* A reader stays the kind of reader it is, but for read, which turns into a loop.
<1>KindShapes.
  ASSUME NEW r \in Reader
  PROVE  /\ \A m : Emit(r, m).kind = r.kind
         /\ \A s : Finish(r, s).kind = r.kind
         /\ \A e : Fail(r, e).kind = r.kind
         /\ Close(r).kind = r.kind /\ Close(r).pc = "done"
  <2>1. ASSUME NEW s, NEW t
        PROVE  Sending(r, s, t).kind = r.kind
    BY DEF Sending, Reader
  <2>2. ASSUME NEW m
        PROVE  Emit(r, m).kind = r.kind
    <3>1. Sending(r, <<m>>, "loop").kind = r.kind
      BY <2>1
    <3>2. \A q : q.kind = [q EXCEPT !.from = m.target, !.count = r.count + 1].kind
      BY SMT
    <3> QED
      BY <3>1, <3>2 DEF Emit
  <2>3. Close(r).kind = r.kind /\ Close(r).pc = "done"
    BY DEF Close, Reader
  <2> QED
    BY <2>1, <2>2, <2>3 DEF Finish, Fail
<1>NotFeeding.
  ASSUME NEW r \in Reader, r.kind # "feed"
  PROVE  Start(r).kind # "feed" /\ Loop(r).kind # "feed"
  <2> USE <1>NotFeeding
  <2>1. readStart(r).kind # "feed"
    <3>1. PICK u \in Reader : u = [r EXCEPT !.kind = "upTo"] /\ u.kind = "upTo"
      <4>1. [r EXCEPT !.kind = "upTo"] \in Reader /\ [r EXCEPT !.kind = "upTo"].kind = "upTo"
        BY DEF Reader, Kinds
      <4> QED
        BY <4>1
    <3>2. EmitUp(u, FirstVersion(Index)).kind = "upTo"
      BY <3>1, <1>KindShapes DEF EmitUp
    <3>3. /\ [r EXCEPT !.kind = "upTo", !.pc = "loop"].kind = "upTo"
          /\ [r EXCEPT !.kind = "downTo", !.pc = "loop"].kind = "downTo"
      BY DEF Reader
    <3>4. r.from \in Int /\ r.to \in Int
      BY DEF Reader
    <3> QED
      BY <3>1, <3>2, <3>3, <3>4, <1>KindShapes, SMT DEF readStart
  <2>2. [r EXCEPT !.pc = "loop"].kind = r.kind
    BY DEF Reader
  <2>3. readUpStart(r).kind # "feed" /\ readDownStart(r).kind # "feed"
    BY <2>2, <1>KindShapes DEF readUpStart, readDownStart
  <2>4. upToLoop(r).kind # "feed" /\ downToLoop(r).kind # "feed"
    BY <1>KindShapes DEF upToLoop, downToLoop, EmitUp
  <2>5. readUpLoop(r).kind # "feed" /\ readDownLoop(r).kind # "feed"
    BY <1>KindShapes, SMT DEF readUpLoop, readDownLoop, EmitUp
  <2> QED
    BY <2>1, <2>3, <2>4, <2>5 DEF Start, Loop
\* Steps of the caller that neither receive nor begin a migration.
<1>CallerStops.
  ASSUME TypeInv, NEW p \in Procs, Stopping(p),
         rd'[p] = rd[p], ch'[p] = ch[p], stray'[p] = stray[p], strayStop'[p] = strayStop[p],
         stopCh'[p] = stopCh[p], isGracefulStop'[p] = isGracefulStop[p],
         afterStop'[p] = afterStop[p],
         \/ pc'[p] = pc[p]
         \/ /\ pc'[p] \notin {"got", "dirty"} /\ pc[p] # "stopping"
            /\ pc[p] = "recv" => ch[p] = <<>>
  PROVE  Stopping(p)'
  <2> USE <1>CallerStops
  <2>0. afterStop[p] \in Int /\ Len(ch[p]) \in Nat /\ Prefetch \in Nat
    BY <1>StopNumbers
  <2>1. InChannel(p) => InChannel(p)'
    BY <2>0, SMT DEF InChannel, Marking
  <2>2. InFlag(p) => InFlag(p)'
    BY <2>0, SMT DEF InFlag, Marking
  <2>3. WithReader(p) => WithReader(p)'
    BY <2>0, SMT DEF WithReader, Coming
  <2>4. WithRunner(p) => WithRunner(p)'
    BY <2>0 DEF WithRunner
  <2> QED
    BY <2>1, <2>2, <2>3, <2>4 DEF Stopping
<1>CallStops.
  ASSUME TypeInv, NEW p \in Procs, Stopping(p),
         \/ Open(p) \/ LateLock(p) \/ (\E o \in Ops : Call(p, o))
         \/ (CallStep(p) /\ ~(ReadVersion(p) /\ ~dirty))
  PROVE  Stopping(p)'
  <2> USE <1>CallStops
  <2>1. UNCHANGED <<readerVars, stopVars>>
    BY DEF Open, LateLock, Call, CallStep, LockRefused, LockWaits, LockGranted, LockFailed,
      LockTimedOut, ReadVersion, VersionFailed, Drop, DropFailed, ForceVersion, ForceFailed,
      Unlock, UnlockFailed
  <2>2. \/ pc'[p] = pc[p]
        \/ /\ pc'[p] \in {"idle", "lock", "locking", "held", "unlock"}
           /\ pc[p] \in {"closed", "idle", "lock", "locking", "held", "unlock"}

    <3>1. CASE \/ LockRefused(p) \/ LockFailed(p) \/ LockTimedOut(p) \/ Unlock(p) \/ UnlockFailed(p)
      BY <3>1 DEF LockRefused, LockFailed, LockTimedOut, Unlock, UnlockFailed, Return, GotoResult,
        Goto, TypeInv, CallInv, CallTypeOK
    <3>2. CASE \/ LockWaits(p) \/ LockGranted(p) \/ VersionFailed(p) \/ Open(p)
      BY <3>2 DEF LockWaits, LockGranted, VersionFailed, Open, GotoResult, Goto, TypeInv,
        CallInv, CallTypeOK
    <3>3. CASE Drop(p) \/ DropFailed(p) \/ ForceVersion(p) \/ ForceFailed(p)
      BY <3>3 DEF Drop, DropFailed, ForceVersion, ForceFailed, GotoResult, Goto, TypeInv,
        CallInv, CallTypeOK
    <3>4. CASE ReadVersion(p) /\ dirty
      BY <3>4 DEF ReadVersion, GotoResult, Goto, TypeInv, CallInv, CallTypeOK
    <3>5. CASE LateLock(p)
      BY <3>5 DEF LateLock, callVars
    <3>6. CASE \E o \in Ops : Call(p, o)
      BY <3>6, SMT DEF Call, Return, GotoResult, Goto, TypeInv, CallInv, CallTypeOK
    <3> QED
      BY <3>1, <3>2, <3>3, <3>4, <3>5, <3>6 DEF CallStep
  <2>3. /\ rd'[p] = rd[p] /\ ch'[p] = ch[p] /\ stray'[p] = stray[p] /\ strayStop'[p] = strayStop[p]
        /\ stopCh'[p] = stopCh[p] /\ isGracefulStop'[p] = isGracefulStop[p]
        /\ afterStop'[p] = afterStop[p]
    BY <2>1 DEF readerVars, stopVars
  <2> QED
    BY <2>2, <2>3, <1>CallerStops
\* The start of a reader: one that has taken the signal is left over.
<1>ReadVersionStops.
  ASSUME TypeInv, NEW p \in Procs, Stopping(p), ReadVersion(p), ~dirty
  PROVE  Stopping(p)'
  <2> USE <1>ReadVersionStops
  <2>0. afterStop[p] \in Int /\ Len(ch[p]) \in Nat /\ Prefetch \in Nat
    BY MigrateAssumption, SMT DEF TypeInv, StopTypeOK, ReaderInv, ReaderTypeOK
  <2>1. /\ pc[p] = "held" /\ pc'[p] = "recv" /\ ch'[p] = <<>>
        /\ rd'[p] = Operation(op[p], version)
        /\ stray'[p] = (stray[p] \/ Unblocked(p))
        /\ strayStop'[p] = (strayStop[p] \/ rd[p].pc = "stopping")
    BY DEF ReadVersion, Goto, TypeInv, CallInv, CallTypeOK, ReaderInv, ReaderTypeOK
  <2>2. UNCHANGED stopVars
    BY DEF ReadVersion
  <2>3. rd[p].pc = "stopping" => Unblocked(p)
    BY DEF Unblocked, Stopping
  <2>4. strayStop'[p] => stray'[p]
    BY <2>1, <2>3 DEF Stopping
  <2>5. rd'[p].kind = "feed" => rd'[p].pc = "send" /\ rd'[p].then = "done"
    <3>1. \A k, f, t : NewReader(k, f, t).kind = k
      BY DEF NewReader
    <3>2. Run(version, op[p].list).pc = "send" /\ Run(version, op[p].list).then = "done"
      BY DEF Run, NewReader
    <3> QED
      BY <2>1, <3>1, <3>2, SMT DEF Operation, Migrate, Steps, Up, Down
  <2>6. ASSUME ~stray'[p], afterStop'[p] # -1
        PROVE  InChannel(p)' \/ InFlag(p)'
    <3>1. ~stray[p] /\ rd[p].pc # "stopping" /\ afterStop[p] # -1
      BY <2>1, <2>2, <2>3, <2>6 DEF stopVars
    <3>2. InChannel(p) \/ InFlag(p)
      BY <2>1, <3>1 DEF Stopping, WithReader, WithRunner
    <3> QED
      BY <2>0, <2>1, <2>2, <3>2 DEF InChannel, InFlag, Marking, stopVars
  <2> QED
    BY <2>1, <2>4, <2>5, <2>6 DEF Stopping
\* The steps of a reader that does not hold the signal, and of one that takes it.
<1>ReaderStops.
  ASSUME TypeInv, NEW p \in Procs, Stopping(p),
         \/ SourceFailed(p) \/ ReaderStart(p) \/ ReaderLoop(p) \/ ReaderSeesStop(p)
         \/ ReaderTakesStop(p) \/ ReaderSetsStop(p)
  PROVE  Stopping(p)'
  <2> USE <1>ReaderStops
  <2>0. /\ afterStop[p] \in Int /\ Len(ch[p]) \in Nat /\ Prefetch \in Nat /\ rd[p] \in Reader
        /\ Len(ch[p]) <= IF Prefetch = 0 THEN 1 ELSE Prefetch
        /\ ch[p] # <<>> \/ Len(ch[p]) = 0
    BY MigrateAssumption, SMT DEF TypeInv, StopTypeOK, ReaderInv, ReaderTypeOK
  <2>1. PICK r : ReaderGoes(p, r) /\ r.kind # "feed" /\ rd[p].kind # "feed"
                 /\ (ReaderTakesStop(p) => r.pc = "stopping")
    <3>1. rd[p].pc \in {"start", "loop", "stopping"} /\ rd[p].kind # "feed"
      BY DEF SourceFailed, ReaderStart, ReaderLoop, ReaderSeesStop, ReaderTakesStop,
        ReaderSetsStop, Stopping
    <3>2. /\ Start(rd[p]).kind # "feed" /\ Loop(rd[p]).kind # "feed"
          /\ Close(rd[p]).kind # "feed" /\ Fail(rd[p], Err("error")).kind # "feed"
      BY <2>0, <3>1, <1>NotFeeding, <1>KindShapes
    <3>3. /\ [rd[p] EXCEPT !.pc = "stopping"].kind # "feed"
          /\ [rd[p] EXCEPT !.pc = "stopping"].pc = "stopping"
      BY <2>0, <3>1 DEF Reader
    <3>4. CASE ReaderTakesStop(p)
      BY <3>1, <3>3, <3>4 DEF ReaderTakesStop
    <3>5. CASE ~ReaderTakesStop(p)
      BY <3>1, <3>2, <3>5 DEF SourceFailed, ReaderStart, ReaderLoop, ReaderSeesStop, ReaderSetsStop
    <3> QED
      BY <3>4, <3>5
  <2>2. rd'[p] = r /\ pc'[p] = pc[p] /\ ch'[p] = ch[p] /\ UNCHANGED <<stray, strayStop>>
    BY <2>1 DEF ReaderGoes, callVars, TypeInv, ReaderInv, ReaderTypeOK
  <2>3. ASSUME ~stray'[p], afterStop'[p] # -1
        PROVE  InChannel(p)' \/ InFlag(p)' \/ WithReader(p)' \/ WithRunner(p)'
    <3>1. afterStop'[p] = afterStop[p]
      BY DEF SourceFailed, ReaderStart, ReaderLoop, ReaderSeesStop, ReaderTakesStop,
        ReaderSetsStop, stopVars
    <3>2. InChannel(p) \/ InFlag(p) \/ WithReader(p) \/ WithRunner(p)
      BY <2>2, <2>3, <3>1 DEF Stopping
    <3>3. CASE \/ SourceFailed(p) \/ ReaderStart(p) \/ ReaderLoop(p) \/ ReaderSeesStop(p)
      <4>1. UNCHANGED stopVars /\ rd[p].pc # "stopping"
        BY <3>3 DEF SourceFailed, ReaderStart, ReaderLoop, ReaderSeesStop
      <4> QED
        BY <2>2, <3>2, <4>1 DEF InChannel, InFlag, WithReader, WithRunner, Marking, stopVars
    <3>4. CASE ReaderTakesStop(p)
      <4>1. /\ rd[p].pc = "loop" /\ ~isGracefulStop[p] /\ rd'[p].pc = "stopping"
            /\ isGracefulStop' = isGracefulStop
        BY <2>1, <2>2, <3>4 DEF ReaderTakesStop
      <4>2. CASE InChannel(p)
        <5>0. Prefetch = 0 /\ ch[p] # <<>> => pc[p] = "recv"
          BY DEF Stopping
        <5>1. afterStop[p] + Coming(p) <= Prefetch + 2
          <6>1. CASE pc[p] = "dirty"
            <7>1. Coming(p) = Len(ch[p]) + 1 /\ afterStop[p] + 1 <= 1
              BY <4>2, <6>1 DEF InChannel, Marking, Coming
            <7>2. Prefetch = 0 => ch[p] = <<>>
              BY <5>0, <6>1
            <7> QED
              BY <2>0, <7>1, <7>2, SMT
          <6>2. CASE pc[p] = "got"
            <7>1. Coming(p) = Len(ch[p]) + 1 /\ afterStop[p] + 0 <= 1
              BY <4>2, <6>2 DEF InChannel, Marking, Coming
            <7>2. Prefetch = 0 => ch[p] = <<>>
              BY <5>0, <6>2
            <7> QED
              BY <2>0, <7>1, <7>2, SMT
          <6>3. CASE pc[p] \notin {"got", "dirty"}
            <7>1. Coming(p) = Len(ch[p]) /\ afterStop[p] + 0 <= 1
              BY <4>2, <6>3 DEF InChannel, Marking, Coming
            <7> QED
              BY <2>0, <7>1, SMT
          <6> QED
            BY <6>1, <6>2, <6>3
        <5> QED
          BY <2>2, <3>1, <4>1, <5>1 DEF WithReader, Coming
      <4>3. CASE WithRunner(p)
        BY <2>2, <3>1, <4>3 DEF WithRunner
      <4> QED
        BY <3>2, <4>1, <4>2, <4>3 DEF InFlag, WithReader
    <3>5. CASE ReaderSetsStop(p)
      <4>1. isGracefulStop'[p] /\ stopCh' = stopCh
        BY <3>5 DEF ReaderSetsStop, TypeInv, StopTypeOK
      <4>2. afterStop[p] + Marking(p) <= Prefetch + 2
        <5>1. CASE InChannel(p)
          <6>1. afterStop[p] + Marking(p) <= 1 /\ Marking(p) \in 0..1
            BY <5>1, SMT DEF InChannel, Marking
          <6> QED
            BY <2>0, <6>1, SMT
        <5>2. CASE WithReader(p)
          <6>1. afterStop[p] + Coming(p) <= Prefetch + 2
            BY <5>2 DEF WithReader
          <6>2. Coming(p) \in Nat /\ Marking(p) \in Nat /\ Marking(p) <= Coming(p)
            BY <2>0, SMT DEF Marking, Coming
          <6> QED
            BY <2>0, <6>1, <6>2, SMT
        <5>3. CASE WithRunner(p)
          <6>1. Marking(p) = 0 /\ afterStop[p] <= 1
            BY <5>3 DEF WithRunner, Marking
          <6> QED
            BY <2>0, <6>1, SMT
        <5> QED
          BY <3>2, <5>1, <5>2, <5>3 DEF InFlag
      <4> QED
        BY <2>2, <3>1, <4>1, <4>2 DEF InFlag, Marking
    <3> QED
      BY <3>3, <3>4, <3>5
  <2> QED
    BY <2>1, <2>2, <2>3 DEF Stopping
\* A send, and the steps of a reader left over from an earlier operation.
<1>SendStops.
  ASSUME TypeInv, NEW p \in Procs, Stopping(p),
         ReaderSend(p) \/ StrayTakesStop(p) \/ StraySetsStop(p)
  PROVE  Stopping(p)'
  <2> USE <1>SendStops
  <2>1. CASE ReaderSend(p)
    <3>0. rd[p] \in Reader /\ rd[p].pc = "send"
      BY <2>1 DEF ReaderSend, TypeInv, ReaderInv, ReaderTypeOK
    <3>1. UNCHANGED <<stray, strayStop, stopVars, callVars>> /\ rd'[p] = Sent(rd[p])
      BY <2>1 DEF ReaderSend, TypeInv, ReaderInv, ReaderTypeOK
    <3>2. Prefetch = 0 => pc'[p] = "recv"
      <4>1. Prefetch = 0 => ~(Len(ch[p]) < Prefetch)
        BY SMT DEF TypeInv, ReaderInv, ReaderTypeOK
      <4> QED
        BY <2>1, <3>1, <4>1 DEF ReaderSend, callVars
    <3>3. /\ Sent(rd[p]).kind = rd[p].kind /\ Sent(rd[p]).then = rd[p].then
          /\ Sent(rd[p]).pc \in {"send", rd[p].then}
      BY <3>0 DEF Sent, Reader
    <3>4. WithReader(p) => FALSE
      BY <3>0 DEF WithReader
    <3>5. /\ InChannel(p) => InChannel(p)'
          /\ InFlag(p) => InFlag(p)'
          /\ WithRunner(p) => WithRunner(p)'
      BY <3>1 DEF InChannel, InFlag, WithRunner, Marking, stopVars, callVars
    <3> QED
      BY <3>0, <3>1, <3>2, <3>3, <3>4, <3>5 DEF Stopping, stopVars
  <2>2. CASE StrayTakesStop(p) \/ StraySetsStop(p)
    <3>1. UNCHANGED <<rd, ch, stray, callVars>> /\ stray[p]
      BY <2>2 DEF StrayTakesStop, StraySetsStop, Stopping
    <3> QED
      BY <3>1 DEF Stopping, callVars
  <2> QED
    BY <2>1, <2>2
\* The steps of runMigrations.
<1>RunnerStops.
  ASSUME TypeInv, NEW p \in Procs, Stopping(p), RunnerStep(p)
  PROVE  Stopping(p)'
  <2> USE <1>RunnerStops
  <2>0. /\ afterStop[p] \in Int /\ Len(ch[p]) \in Nat /\ Prefetch \in Nat
        /\ Len(ch[p]) <= IF Prefetch = 0 THEN 1 ELSE Prefetch
        /\ ch[p] \in Seq(Item)
    BY MigrateAssumption, SMT DEF StopTypeOK, ReaderInv, ReaderTypeOK, TypeInv, CallInv, CallTypeOK
  <2>1. CASE Receive(p)
    <3>1. /\ pc[p] = "recv" /\ pc'[p] = "got" /\ ch[p] # <<>> /\ ch'[p] = Tail(ch[p])
          /\ UNCHANGED <<rd, stray, strayStop, stopVars>>
      BY <2>1 DEF Receive, Goto, ReaderInv, ReaderTypeOK, TypeInv, CallInv, CallTypeOK
    <3>2. PICK t \in Seq(Item) : t = Tail(ch[p]) /\ Len(t) = Len(ch[p]) - 1
      BY <2>0, <3>1, TailProperties
    <3>3. Prefetch = 0 => ch'[p] = <<>>
      <4>1. Prefetch = 0 => Len(t) <= 0 /\ Len(t) \in Nat
        BY <2>0, <3>2, SMT
      <4>2. Len(t) = 0 => t = <<>>
        BY EmptySeq
      <4> QED
        BY <3>1, <3>2, <4>1, <4>2, SMT
    <3>4. InChannel(p) => InChannel(p)'
      BY <3>1 DEF InChannel, Marking, stopVars
    <3>5. InFlag(p) => InFlag(p)'
      BY <3>1 DEF InFlag, Marking, stopVars
    <3>6. WithReader(p) => WithReader(p)'
      <4>1. Coming(p)' = Coming(p)
        BY <2>0, <3>1, <3>2, SMT DEF Coming
      <4> QED
        BY <3>1, <4>1 DEF WithReader, stopVars
    <3> QED
      BY <3>1, <3>3, <3>4, <3>5, <3>6 DEF Stopping, WithRunner, stopVars
  <2>2. CASE \/ RunnerDone(p) \/ RunnerSeesStop(p) \/ RunBody(p) \/ BodyFailed(p) \/ SetClean(p)
             \/ SetVersionFailed(p) \/ (RunnerGoes(p) /\ cur[p].err # "nil")
    <3>1. UNCHANGED <<readerVars, stopVars>>
      BY <2>2 DEF RunnerDone, RunnerSeesStop, RunBody, BodyFailed, SetClean, SetVersionFailed,
        RunnerGoes
    <3>2. /\ pc'[p] \in {"unlock", "clean", "recv"} /\ pc[p] # "stopping"
          /\ pc[p] = "recv" => ch[p] = <<>>
      BY <2>2 DEF RunnerDone, RunnerSeesStop, RunBody, BodyFailed, SetClean, SetVersionFailed,
        RunnerGoes, GotoResult, Goto, TypeInv, CallInv, CallTypeOK
    <3>3. /\ rd'[p] = rd[p] /\ ch'[p] = ch[p] /\ stray'[p] = stray[p] /\ strayStop'[p] = strayStop[p]
          /\ stopCh'[p] = stopCh[p] /\ isGracefulStop'[p] = isGracefulStop[p]
          /\ afterStop'[p] = afterStop[p]
      BY <3>1 DEF readerVars, stopVars
    <3> QED
      BY <3>2, <3>3, <1>CallerStops
  <2>3. CASE RunnerGoes(p) /\ cur[p].err = "nil"
    <3>1. /\ pc[p] = "got" /\ pc'[p] = "dirty" /\ ~isGracefulStop[p] /\ stopCh[p] = 0
          /\ UNCHANGED <<readerVars, stopVars>>
      BY <2>3 DEF RunnerGoes, Goto, TypeInv, CallInv, CallTypeOK
    <3>2. WithReader(p) => WithReader(p)'
      BY <3>1 DEF WithReader, Coming, readerVars, stopVars
    <3> QED
      BY <3>1, <3>2, SMT DEF Stopping, InChannel, InFlag, WithRunner, readerVars, stopVars
  <2>4. CASE SetDirty(p)
    <3>1. /\ pc[p] = "dirty" /\ pc'[p] \in {"body", "clean"}
          /\ UNCHANGED <<readerVars, stopCh, isGracefulStop>>
          /\ afterStop'[p] = IF afterStop[p] = -1 \/ afterStop[p] > Prefetch + 2
                             THEN afterStop[p] ELSE afterStop[p] + 1
      BY <2>4 DEF SetDirty, Goto, StopTypeOK, TypeInv, CallInv, CallTypeOK
    <3>2. ASSUME ~stray[p], afterStop'[p] # -1
          PROVE  InChannel(p)' \/ InFlag(p)' \/ WithReader(p)'
      <4>1. CASE afterStop[p] = -1
        BY <3>1, <3>2, <4>1
      <4>2. CASE afterStop[p] # -1
        <5>1. afterStop'[p] <= afterStop[p] + 1 /\ afterStop'[p] \in Int
          BY <2>0, <3>1, SMT
        <5>2. InChannel(p) => InChannel(p)'
          BY <2>0, <3>1, <5>1, SMT DEF InChannel, Marking
        <5>3. InFlag(p) => InFlag(p)'
          BY <2>0, <3>1, <5>1, SMTT(20) DEF InFlag, Marking
        <5>4. WithReader(p) => WithReader(p)'
          <6>1. /\ ch'[p] = ch[p] /\ rd'[p] = rd[p]
                /\ Coming(p) = Len(ch[p]) + 1 /\ Coming(p)' = Len(ch[p])
            BY <3>1 DEF Coming, readerVars
          <6>2. afterStop[p] + (Len(ch[p]) + 1) <= Prefetch + 2 =>
                  afterStop'[p] + Len(ch[p]) <= Prefetch + 2
            <7>1. \A a, b \in Int, i, n \in Nat :
                    b <= a + 1 /\ a + (i + 1) <= n + 2 => b + i <= n + 2
              BY SMT
            <7> QED
              BY <2>0, <5>1, <7>1
          <6> QED
            BY <6>1, <6>2 DEF WithReader
        <5> QED
          BY <3>1, <3>2, <4>2, <5>2, <5>3, <5>4 DEF Stopping, WithRunner
      <4> QED
        BY <4>1, <4>2
    <3> QED
      BY <3>1, <3>2 DEF Stopping, readerVars
  <2>5. CASE RunnerTakesStop(p)
    <3>1. /\ pc[p] = "got" /\ pc'[p] = "stopping" /\ ~isGracefulStop[p]
          /\ UNCHANGED <<readerVars, isGracefulStop, afterStop>>
      BY <2>5 DEF RunnerTakesStop, Goto, TypeInv, CallInv, CallTypeOK
    <3>2. InChannel(p) => WithRunner(p)'
      BY <2>0, <3>1, SMT DEF InChannel, WithRunner, Marking
    <3>3. WithReader(p) => WithReader(p)'
      BY <2>0, <3>1, SMT DEF WithReader, Coming, readerVars
    <3> QED
      BY <3>1, <3>2, <3>3 DEF Stopping, InFlag, WithRunner, readerVars
  <2>6. CASE RunnerSetsStop(p)
    <3>1. /\ pc[p] = "stopping" /\ pc'[p] = "unlock" /\ isGracefulStop'[p]
          /\ UNCHANGED <<readerVars, stopCh, afterStop>>
      BY <2>6 DEF RunnerSetsStop, GotoResult, Goto, StopTypeOK, TypeInv, CallInv, CallTypeOK
    <3>2. ASSUME ~stray[p], afterStop[p] # -1
          PROVE  InFlag(p)'
      <4>1. afterStop[p] <= Prefetch + 2
        BY <2>0, <3>1, <3>2, SMT DEF Stopping, InChannel, InFlag, WithReader,
          WithRunner, Marking, Coming
      <4> QED
        BY <2>0, <3>1, <4>1, SMTT(20) DEF InFlag, Marking
    <3> QED
      BY <3>1, <3>2 DEF Stopping, readerVars
  <2> QED
    BY <2>1, <2>2, <2>3, <2>4, <2>5, <2>6 DEF RunnerStep
<1> SUFFICES ASSUME TypeInv, StopInv, [Next]_vars
             PROVE  StopInv'
  OBVIOUS
<1>1. ASSUME NEW q \in Procs, Untouched(q)
      PROVE  Stopping(q)'
  BY <1>1, SMT DEF StopInv, Stopping, Untouched, InChannel, InFlag, WithReader, WithRunner,
    Marking, Coming
<1>2. ASSUME NEW p \in Procs, StepBy(p)
      PROVE  Stopping(p)'
  <2>0. Stopping(p)
    BY DEF StopInv
  <2>1. CASE Reset(p)
    <3>1. /\ rd'[p] = NoReader /\ ch'[p] = <<>> /\ ~strayStop'[p] /\ afterStop'[p] = -1
      BY <2>1 DEF Reset, TypeInv, ReaderInv, ReaderTypeOK, StopTypeOK
    <3>2. NoReader.pc = "done"
      BY DEF NoReader, NewReader
    <3> QED
      BY <3>1, <3>2 DEF Stopping
  <2>2. CASE RequestStop(p)
    <3>1. /\ stopCh'[p] = 1 /\ afterStop'[p] = 0
          /\ UNCHANGED <<readerVars, callVars>>
      BY <2>2 DEF RequestStop, TypeInv, StopTypeOK
    <3>2. InChannel(p)'
      BY <3>1, SMT DEF InChannel, Marking
    <3> QED
      BY <2>0, <3>1, <3>2 DEF Stopping, readerVars, callVars
  <2> QED
    BY <1>2, <2>0, <2>1, <2>2, <1>CallStops, <1>ReadVersionStops, <1>ReaderStops,
      <1>SendStops, <1>RunnerStops
    DEF StepBy, Crash, ReaderStep, ReaderPanics, CallStep
<1>3. ASSUME Repair \/ UNCHANGED vars, NEW q \in Procs
      PROVE  Untouched(q)
  BY <1>3 DEF Repair, vars, readerVars, stopVars, callVars, Untouched
<1>4. CASE \E p \in Procs : StepBy(p)
  BY <1>1, <1>2, <1>4, OthersKeep DEF StopInv
<1>5. CASE Repair \/ UNCHANGED vars
  BY <1>1, <1>3, <1>5 DEF StopInv
<1> QED
  BY <1>4, <1>5 DEF Next, StepBy

\* "... will stop executing migrations as soon as possible": after a request at
\* most PrefetchMigrations + 2 migrations are begun, wherever readers, runners and
\* the signal are when it comes, as long as no earlier operation left a reader.
THEOREM StopsSoon == Spec => []StopBound
<1>1. Init => StopInv
  <2>1. NoReader.pc = "done"
    BY DEF NoReader, NewReader
  <2> QED
    BY <2>1, SMT DEF Init, StopInv, Stopping
<1>2. TypeInv /\ StopInv => StopBound
  <2> SUFFICES ASSUME TypeInv, StopInv, NEW p \in Procs, ~stray[p] PROVE afterStop[p] <= Prefetch + 2
    BY DEF StopBound
  <2>0. afterStop[p] \in Int /\ Len(ch[p]) \in Nat /\ Prefetch \in Nat
    BY MigrateAssumption, SMT DEF TypeInv, StopTypeOK, ReaderInv, ReaderTypeOK
  <2>1. CASE afterStop[p] = -1
    BY <2>0, <2>1, SMT
  <2>2. CASE InChannel(p) \/ InFlag(p) \/ WithReader(p) \/ WithRunner(p)
    BY <2>0, <2>2, SMT DEF InChannel, InFlag, WithReader, WithRunner, Marking, Coming
  <2> QED
    BY <2>1, <2>2 DEF StopInv, Stopping
<1>3. TypeInv /\ StopInv /\ [Next]_vars => StopInv'
  BY StopStep
<1> QED
  BY <1>1, <1>2, <1>3, TypeInit, TypeStep, PTL DEF Spec

\* The versions of the source fit an int.
NarrowSource == Versions \subseteq 0..MaxInt

\* Errors, and migrations to a version that SetVersion can store as dirty.
NarrowItem == {m \in Item : m.err = "nil" => m.target >= NilVersion}

\* An error carries no target, so it is narrow.
LEMMA NarrowErr ==
  /\ \A e \in Errors : Err(e) \in NarrowItem
  /\ \A n \in Int : ErrShortLimit(n) \in NarrowItem
<1>1. ASSUME NEW e \in Errors
      PROVE  Err(e) \in NarrowItem
  <2>1. Err(e) \in Item /\ Err(e).target = 0
    BY ItemType DEF Err
  <2> QED
    BY <2>1, SMT DEF NarrowItem, NilVersion
<1>2. ASSUME NEW n \in Int
      PROVE  ErrShortLimit(n) \in NarrowItem
  BY ItemType DEF NarrowItem, Err, ErrShortLimit
<1> QED
  BY <1>1, <1>2

\* A migration whose target fits the version column is narrow.
LEMMA NarrowMigration ==
  ASSUME NEW v \in Nat, NEW t \in Int, t >= NilVersion
  PROVE  newMigration(v, t) \in NarrowItem
BY ItemType DEF NarrowItem, newMigration

\* Converting a version of a narrow source from uint to int does not change it.
LEMMA NarrowToInt ==
  ASSUME NarrowSource, NEW v \in Versions
  PROVE  v \in Nat /\ toInt(v) = v /\ toInt(v) \in Nat /\ toInt(v) >= NilVersion
BY MaxIntAssumption, SMT DEF NarrowSource, toInt, NilVersion

\* What a piece of the reader's code leaves to be sent.
LEMMA NarrowShapes ==
  ASSUME NEW r \in Reader
  PROVE  /\ \A m \in NarrowItem : Emit(r, m).pend \in Seq(NarrowItem)
         /\ \A m \in NarrowItem : Finish(r, <<m>>).pend \in Seq(NarrowItem)
         /\ \A m, n \in NarrowItem : Finish(r, <<m, n>>).pend \in Seq(NarrowItem)
         /\ \A e \in NarrowItem : Fail(r, e).pend \in Seq(NarrowItem)
         /\ Close(r).pend = r.pend
<1>1. ASSUME NEW s, NEW t
      PROVE  Sending(r, s, t).pend = s
  BY DEF Sending, Reader
<1>2. ASSUME NEW m
      PROVE  Emit(r, m).pend = <<m>>
  <2>1. Sending(r, <<m>>, "loop").pend = <<m>>
    BY <1>1
  <2>2. \A q : q.pend = [q EXCEPT !.from = m.target, !.count = r.count + 1].pend
    BY SMT
  <2> QED
    BY <2>1, <2>2 DEF Emit
<1>3. Close(r).pend = r.pend
  BY DEF Close, Reader
<1>4. ASSUME NEW m \in NarrowItem, NEW n \in NarrowItem
      PROVE  <<m>> \in Seq(NarrowItem) /\ <<m, n>> \in Seq(NarrowItem)
  BY SMT
<1>5. \A m \in NarrowItem : Emit(r, m).pend \in Seq(NarrowItem)
  BY <1>2, <1>4
<1>6. /\ \A m \in NarrowItem : Finish(r, <<m>>).pend \in Seq(NarrowItem)
      /\ \A m, n \in NarrowItem : Finish(r, <<m, n>>).pend \in Seq(NarrowItem)
  BY <1>1, <1>4 DEF Finish
<1> QED
  BY <1>3, <1>5, <1>6 DEF Fail

\* read, readUp and readDown up to their loops.
LEMMA StartNarrow ==
  ASSUME NarrowSource, NEW r \in Reader, r.pend \in Seq(NarrowItem)
  PROVE  Start(r).pend \in Seq(NarrowItem)
<1>0. Err("ErrNotExist") \in NarrowItem /\ Err("ErrNoChange") \in NarrowItem
  BY NarrowErr DEF Errors
<1>1. readStart(r).pend \in Seq(NarrowItem)
  <2>1. ASSUME HasFirst(Index)
        PROVE  EmitUp([r EXCEPT !.kind = "upTo"], FirstVersion(Index)).pend \in Seq(NarrowItem)
    <3>1. [r EXCEPT !.kind = "upTo"] \in Reader
      BY DEF Reader, Kinds
    <3>2. newMigration(FirstVersion(Index), toInt(FirstVersion(Index))) \in NarrowItem
      BY <2>1, LookupVersions, NarrowToInt, NarrowMigration, SMT
    <3> QED
      BY <3>1, <3>2, NarrowShapes DEF EmitUp
  <2>2. /\ [r EXCEPT !.kind = "upTo", !.pc = "loop"].pend = r.pend
        /\ [r EXCEPT !.kind = "downTo", !.pc = "loop"].pend = r.pend
    BY DEF Reader
  <2>3. /\ Fail(r, Err("ErrNotExist")).pend \in Seq(NarrowItem)
        /\ Fail(r, Err("ErrNoChange")).pend \in Seq(NarrowItem)
    BY <1>0, NarrowShapes
  <2>4. r.from \in Int /\ r.to \in Int
    BY DEF Reader
  <2> QED
    BY <2>1, <2>2, <2>3, <2>4 DEF readStart
<1>2. [r EXCEPT !.pc = "loop"].pend = r.pend
  BY DEF Reader
<1>3. readUpStart(r).pend \in Seq(NarrowItem)
  BY <1>0, <1>2, NarrowShapes DEF readUpStart
<1>4. readDownStart(r).pend \in Seq(NarrowItem)
  BY <1>0, <1>2, NarrowShapes DEF readDownStart
<1> QED
  BY <1>1, <1>3, <1>4 DEF Start

\* One iteration of a loop.
LEMMA LoopNarrow ==
  ASSUME NarrowSource, NEW r \in Reader, r.pend \in Seq(NarrowItem), LoopCond(r), ~Panics(r)
  PROVE  Loop(r).pend \in Seq(NarrowItem)
<1>0. r.from \in Int /\ r.to \in Int /\ r.count \in Nat
  BY DEF Reader
<1>1. ASSUME NEW v \in Versions
      PROVE  EmitUp(r, v).pend \in Seq(NarrowItem)
  BY NarrowToInt, NarrowMigration, NarrowShapes, SMT DEF EmitUp
<1>2. /\ Fail(r, Err("ErrNotExist")).pend \in Seq(NarrowItem)
      /\ Fail(r, Err("ErrNoChange")).pend \in Seq(NarrowItem)
      /\ Close(r).pend \in Seq(NarrowItem)
  BY NarrowErr, NarrowShapes DEF Errors
<1>3. upToLoop(r).pend \in Seq(NarrowItem)
  BY <1>1, <1>2, LookupVersions DEF upToLoop
<1>4. ASSUME r.from >= 0, HasPrev(Index, r.from)
      PROVE  Emit(r, newMigration(r.from, toInt(PrevVersion(Index, r.from)))).pend \in Seq(NarrowItem)
  <2>1. newMigration(r.from, toInt(PrevVersion(Index, r.from))) \in NarrowItem
    BY <1>0, <1>4, LookupVersions, NarrowToInt, NarrowMigration, SMT
  <2> QED
    BY <2>1, NarrowShapes
<1>5. ASSUME NEW v \in Nat
      PROVE  newMigration(v, -1) \in NarrowItem
  BY NarrowMigration, SMT DEF NilVersion
<1>6. ASSUME r.from >= 0
      PROVE  downToLoop(r).pend \in Seq(NarrowItem)
  <2>1. Finish(r, <<newMigration(r.from, -1)>>).pend \in Seq(NarrowItem)
    BY <1>0, <1>5, <1>6, NarrowShapes, SMT
  <2> QED
    BY <1>2, <1>4, <1>6, <2>1 DEF downToLoop
<1>7. readUpLoop(r).pend \in Seq(NarrowItem)
  <2>1. Fail(r, ErrShortLimit(r.to - r.count)).pend \in Seq(NarrowItem)
    BY <1>0, NarrowErr, NarrowShapes, SMT
  <2> QED
    BY <1>1, <1>2, <2>1, LookupVersions DEF readUpLoop
<1>8. ASSUME r.from >= 0
      PROVE  readDownLoop(r).pend \in Seq(NarrowItem)
  <2>1. ErrShortLimit(r.to - (r.count + 1)) \in NarrowItem
    BY <1>0, NarrowErr, SMT
  <2>2. ASSUME HasFirst(Index)
        PROVE  newMigration(FirstVersion(Index), -1) \in NarrowItem
    BY <1>5, <2>2, LookupType
  <2>3. ASSUME HasFirst(Index)
        PROVE  /\ Finish(r, <<newMigration(FirstVersion(Index), -1)>>).pend \in Seq(NarrowItem)
               /\ Finish(r, <<newMigration(FirstVersion(Index), -1),
                              ErrShortLimit(r.to - (r.count + 1))>>).pend \in Seq(NarrowItem)
    BY <2>1, <2>2, <2>3, NarrowShapes
  <2> QED
    BY <1>2, <1>4, <1>8, <2>3 DEF readDownLoop
<1> QED
  BY <1>0, <1>3, <1>6, <1>7, <1>8, SMT DEF Loop, LoopCond, Panics

\* The versions of the source fit an int, and callers of Run pass no target
\* below the nil version.
Narrow ==
  /\ NarrowSource
  /\ \A o \in Ops : \A k \in DOMAIN o.list : o.list[k].target >= NilVersion

-----------------------------------------------------------------------------
\* What is in the pipeline between the source and the database is narrow.
PipeInv ==
  \A p \in Procs : /\ cur[p] \in NarrowItem
                   /\ ch[p] \in Seq(NarrowItem)
                   /\ rd[p].pend \in Seq(NarrowItem)

\* The pipeline of a process moves in one of these ways.
LEMMA PipeStep ==
  Narrow /\ TypeInv /\ PipeInv /\ [Next]_vars =>
    PipeInv'
\* The reader an operation starts, or the list that Run feeds.
<1>OperationNarrow.
  ASSUME Narrow, NEW o \in Ops, NEW v
  PROVE  Operation(o, v).pend \in Seq(NarrowItem)
  <2> USE <1>OperationNarrow
  <2>1. <<>> \in Seq(NarrowItem)
    BY SMT
  <2>2. o.list \in Seq(NarrowItem)
    <3>1. o.list \in Seq(Item)
      BY MigrateAssumption DEF Op
    <3>2. \A k \in 1..Len(o.list) : o.list[k] \in NarrowItem
      BY <3>1, SMT DEF Narrow, NarrowItem
    <3> QED
      BY <3>1, <3>2, SMT
  <2>3. \A k, t : NewReader(k, v, t).pend = <<>>
    BY DEF NewReader
  <2>4. Run(v, o.list).pend = o.list
    BY DEF Run, NewReader
  <2> QED
    BY <2>1, <2>2, <2>3, <2>4 DEF Operation, Migrate, Steps, Up, Down
<1> SUFFICES ASSUME Narrow, TypeInv, PipeInv, [Next]_vars
             PROVE  PipeInv'
  OBVIOUS
<1> DEFINE Keeps(q) == cur'[q] = cur[q] /\ ch'[q] = ch[q] /\ rd'[q] = rd[q]
           Fine(q) == /\ cur'[q] \in NarrowItem
                      /\ ch'[q] \in Seq(NarrowItem)
                      /\ rd'[q].pend \in Seq(NarrowItem)
<1>0. Err("nil") \in NarrowItem /\ <<>> \in Seq(NarrowItem) /\ NoReader.pend = <<>>
  <2>1. NoReader.pend = <<>>
    BY DEF NoReader, NewReader
  <2> QED
    BY <2>1, NarrowErr, SMT DEF Errors
<1>a. SUFFICES ASSUME NEW q \in Procs
               PROVE  Fine(q)
  BY DEF PipeInv
<1>b. Keeps(q) => Fine(q)
  BY DEF PipeInv

<1>1. ASSUME NEW p \in Procs,
             \/ Open(p) \/ RequestStop(p) \/ LateLock(p) \/ StrayTakesStop(p)
             \/ LockWaits(p) \/ LockGranted(p) \/ VersionFailed(p) \/ Drop(p)
             \/ DropFailed(p) \/ ForceVersion(p) \/ ForceFailed(p) \/ StraySetsStop(p)
             \/ RunnerDone(p) \/ RunnerSeesStop(p) \/ RunnerTakesStop(p)
             \/ RunnerSetsStop(p) \/ RunnerGoes(p) \/ SetDirty(p) \/ RunBody(p)
             \/ BodyFailed(p) \/ SetClean(p) \/ SetVersionFailed(p)
      PROVE  Fine(q)
  <2>1. UNCHANGED <<cur, ch, rd>>
    BY <1>1 DEF Open, RequestStop, LateLock, StrayTakesStop, LockWaits, LockGranted,
      VersionFailed, Drop, DropFailed, ForceVersion, ForceFailed, StraySetsStop, RunnerDone,
      RunnerSeesStop, RunnerTakesStop, RunnerSetsStop, RunnerGoes, SetDirty, RunBody,
      BodyFailed, SetClean, SetVersionFailed, readerVars, callVars
  <2> QED
    BY <1>b, <2>1
<1>2. ASSUME NEW p \in Procs, NEW s, NEW e, Return(p, s, e), UNCHANGED readerVars
      PROVE  Fine(q)
  BY <1>0, <1>2, SMT DEF Return, readerVars, PipeInv
<1>3. ASSUME NEW p \in Procs, \/ LockRefused(p) \/ LockFailed(p) \/ LockTimedOut(p)
                              \/ Unlock(p) \/ UnlockFailed(p)
      PROVE  Fine(q)
  BY <1>2, <1>3 DEF LockRefused, LockFailed, LockTimedOut, Unlock, UnlockFailed
<1>4. ASSUME NEW p \in Procs, Reset(p)
      PROVE  Fine(q)
  BY <1>0, <1>4 DEF Reset, PipeInv, TypeInv, CallInv, CallTypeOK, ReaderInv, ReaderTypeOK
<1>5. ASSUME NEW p \in Procs, ReadVersion(p)
      PROVE  Fine(q)
  <2>1. CASE dirty
    BY <1>b, <1>5, <2>1 DEF ReadVersion, readerVars
  <2>2. CASE ~dirty
    <3>1. op[p] \in Ops
      BY <1>5, <2>2 DEF ReadVersion, Goto, TypeInv, CallInv, CallTypeOK
    <3>2. Operation(op[p], version).pend \in Seq(NarrowItem)
      BY <1>0, <3>1, <1>OperationNarrow
    <3> QED
      BY <1>0, <1>5, <2>2, <3>2 DEF ReadVersion, PipeInv, TypeInv, ReaderInv, ReaderTypeOK
  <2> QED
    BY <2>1, <2>2
<1>6. ASSUME NEW p \in Procs, NEW r, ReaderGoes(p, r), r.pend \in Seq(NarrowItem)
      PROVE  Fine(q)
  BY <1>6, SMT DEF ReaderGoes, callVars, PipeInv
<1>7. ASSUME NEW p \in Procs, \/ SourceFailed(p) \/ ReaderStart(p) \/ ReaderLoop(p)
                              \/ ReaderSeesStop(p) \/ ReaderTakesStop(p) \/ ReaderSetsStop(p)
      PROVE  Fine(q)
  <2>1. rd[p] \in Reader /\ rd[p].pend \in Seq(NarrowItem)
    BY DEF PipeInv, TypeInv, ReaderInv, ReaderTypeOK
  <2>2. Close(rd[p]).pend = rd[p].pend /\ Fail(rd[p], Err("error")).pend \in Seq(NarrowItem)
    BY <2>1, NarrowShapes, NarrowErr DEF Errors
  <2>3. [rd[p] EXCEPT !.pc = "stopping"].pend = rd[p].pend
    BY <2>1 DEF Reader
  <2>4. Start(rd[p]).pend \in Seq(NarrowItem)
    BY <2>1, StartNarrow DEF Narrow
  <2>5. ASSUME ReaderLoop(p)
        PROVE  Fine(q)
    <3>1. LoopCond(rd[p]) => Loop(rd[p]).pend \in Seq(NarrowItem)
      BY <2>1, <2>5, LoopNarrow DEF ReaderLoop, Narrow
    <3> QED
      BY <1>6, <2>1, <2>2, <2>5, <3>1 DEF ReaderLoop
  <2> QED
    BY <1>6, <1>7, <2>1, <2>2, <2>3, <2>4, <2>5
    DEF SourceFailed, ReaderStart, ReaderSeesStop, ReaderTakesStop, ReaderSetsStop
<1>8. ASSUME NEW p \in Procs, ReaderSend(p)
      PROVE  Fine(q)
  <2>1. rd[p] \in Reader /\ rd[p].pend \in Seq(NarrowItem) /\ rd[p].pend # <<>>
    BY <1>8 DEF PipeInv, GoodReader, ReaderSend, TypeInv, ReaderInv, ReaderTypeOK
  <2>2. Head(rd[p].pend) \in NarrowItem /\ Sent(rd[p]).pend \in Seq(NarrowItem)
    <3>1. Tail(rd[p].pend) \in Seq(NarrowItem) /\ Head(rd[p].pend) \in NarrowItem
      BY <2>1, SMT
    <3>2. Sent(rd[p]).pend \in {Tail(rd[p].pend), <<>>}
      BY <2>1 DEF Sent, Reader
    <3> QED
      BY <1>0, <3>1, <3>2
  <2>3. Append(ch[p], Head(rd[p].pend)) \in Seq(NarrowItem)
    BY <2>2, AppendType DEF PipeInv
  <2> QED
    BY <1>8, <2>2, <2>3, SMT DEF ReaderSend, callVars, PipeInv
<1>9. ASSUME NEW p \in Procs, Receive(p)
      PROVE  Fine(q)
  <2>1. Head(ch[p]) \in NarrowItem /\ Tail(ch[p]) \in Seq(NarrowItem)
    BY <1>9, SMT DEF Receive, PipeInv
  <2> QED
    BY <1>9, <2>1, SMT DEF Receive, PipeInv
<1>10. ASSUME NEW p \in Procs, NEW o \in Ops, Call(p, o)
       PROVE  Fine(q)
  <2>1. CASE EarlyResult(o) = "nil"
    BY <1>b, <1>10, <2>1 DEF Call, readerVars
  <2>2. CASE EarlyResult(o) # "nil"
    BY <1>2, <1>10, <2>2 DEF Call
  <2> QED
    BY <2>1, <2>2
<1>11. ASSUME Repair \/ UNCHANGED vars
       PROVE  Fine(q)
  BY <1>b, <1>11 DEF Repair, vars, readerVars, callVars
<1> HIDE DEF Fine
<1>12. ASSUME NEW p \in Procs, CallStep(p)
       PROVE  Fine(q)
  BY <1>1, <1>3, <1>5, <1>12 DEF CallStep
<1>13. ASSUME NEW p \in Procs, ReaderStep(p)
       PROVE  Fine(q)
  BY <1>1, <1>4, <1>7, <1>8, <1>13 DEF ReaderStep, ReaderPanics
<1>14. ASSUME NEW p \in Procs, RunnerStep(p)
       PROVE  Fine(q)
  BY <1>1, <1>9, <1>14 DEF RunnerStep
<1> QED
  BY <1>1, <1>4, <1>7, <1>10, <1>11, <1>12, <1>13, <1>14 DEF Next, Crash

-----------------------------------------------------------------------------
(***************************************************************************)
(* The inductive invariant.  Between the two calls of SetVersion the       *)
(* database is dirty at the target; outside of them the owner of the lock  *)
(* knows it to be clean; and after the body the schema is at the target.   *)
(***************************************************************************)
VersionInv ==
  /\ VersionTellsSchema
  /\ \A p \in Procs :
       /\ pc[p] \in {"recv", "got", "stopping", "dirty"} => ~dirty
       /\ pc[p] \in {"dirty", "body", "clean"} => cur[p].err = "nil"
       /\ pc[p] \in {"body", "clean"} => dirty /\ version = cur[p].target
       /\ pc[p] = "clean" => schema = cur[p].target
       /\ pc[p] = "unlock" /\ op[p].kind \in Reads /\ result[p].err = "nil" => ~dirty

\* SetVersion of a narrow target keeps the row it is given.
LEMMA NarrowStores ==
  ASSUME NEW v \in Int, v >= NilVersion, NEW d \in BOOLEAN, Stores(v, d)
  PROVE  version' = v /\ dirty' = d
<1>1. v = NilVersion \/ v >= 0
  BY SMT DEF NilVersion
<1>2. version' = v
  BY <1>1 DEF Stores
<1>3. d => dirty'
  BY <1>1 DEF Stores
<1>4. ~d => ~dirty'
  BY DEF Stores
<1> QED
  BY <1>2, <1>3, <1>4, StoresType

\* A step that touches neither the database nor a running operation.
Calm ==
  /\ UNCHANGED <<version, dirty, schema, tracked>>
  /\ \A q \in Procs :
       pc'[q] \in Critical \ {"held"} =>
         pc'[q] = pc[q] /\ cur'[q] = cur[q] /\ op'[q] = op[q] /\ result'[q] = result[q]

\* A step of the owner p of the lock: the others are not inside.
Alone(p) ==
  /\ \A q \in Procs : q # p => pc'[q] = pc[q] /\ pc[q] \notin Critical

\* Every step keeps what the version table tells about the schema.
LEMMA VersionStep ==
  Narrow /\ TypeInv /\ LockInv /\ PipeInv /\ VersionInv /\ [Next]_vars =>
    VersionInv'
<1>CalmKeeps.
  ASSUME VersionInv, Calm
  PROVE  VersionInv'
  <2> USE <1>CalmKeeps
  <2>1. VersionTellsSchema'
    BY DEF VersionInv, VersionTellsSchema, Calm
  <2>2. ASSUME NEW q \in Procs, pc'[q] \in Critical \ {"held"}
        PROVE  /\ pc'[q] = pc[q] /\ cur'[q] = cur[q]
               /\ op'[q] = op[q] /\ result'[q] = result[q]
    BY <2>2 DEF Calm
  <2>3. UNCHANGED <<version, dirty, schema>>
    BY DEF Calm
  <2>4. \A s \in {"recv", "got", "stopping", "dirty", "body", "clean", "unlock"} :
          s \in Critical \ {"held"}
    BY DEF Critical
  <2>5. ASSUME NEW q \in Procs
        PROVE  /\ pc'[q] \in {"recv", "got", "stopping", "dirty"} => ~dirty'
               /\ pc'[q] \in {"dirty", "body", "clean"} => cur'[q].err = "nil"
               /\ pc'[q] \in {"body", "clean"} => dirty' /\ version' = cur'[q].target
               /\ pc'[q] = "clean" => schema' = cur'[q].target
               /\ pc'[q] = "unlock" /\ op'[q].kind \in Reads /\ result'[q].err = "nil" => ~dirty'
    <3>1. CASE pc'[q] \in Critical \ {"held"}
      BY <2>2, <2>3, <3>1, SMT DEF VersionInv
    <3>2. CASE pc'[q] \notin Critical \ {"held"}
      BY <2>4, <3>2
    <3> QED
      BY <3>1, <3>2
  <2> QED
    BY <2>1, <2>5 DEF VersionInv
<1>AloneInside.
  ASSUME TypeInv, LockInv, NEW p \in Procs, pc[p] \in Critical,
         NEW s, pc' = [pc EXCEPT ![p] = s]
  PROVE  Alone(p) /\ pc'[p] = s /\ holder = p
  <2> USE <1>AloneInside
  <2>1. holder = p
    BY DEF LockInv
  <2>2. \A q \in Procs : q # p => pc[q] \notin Critical
    BY <2>1 DEF LockInv
  <2> QED
    BY <2>1, <2>2 DEF Alone, TypeInv, CallInv, CallTypeOK
\* What is left to show of such a step is about p.
<1>AloneKeeps.
  ASSUME NEW p \in Procs, Alone(p), VersionTellsSchema',
         /\ pc'[p] \in {"recv", "got", "stopping", "dirty"} => ~dirty'
         /\ pc'[p] \in {"dirty", "body", "clean"} => cur'[p].err = "nil"
         /\ pc'[p] \in {"body", "clean"} => dirty' /\ version' = cur'[p].target
         /\ pc'[p] = "clean" => schema' = cur'[p].target
         /\ pc'[p] = "unlock" /\ op'[p].kind \in Reads /\ result'[p].err = "nil" => ~dirty'
  PROVE  VersionInv'
  BY <1>AloneKeeps DEF VersionInv, Alone, Critical
<1> SUFFICES ASSUME Narrow, TypeInv, LockInv, PipeInv, VersionInv, [Next]_vars
             PROVE  VersionInv'
  OBVIOUS
<1>a. ASSUME NEW p \in Procs
      PROVE  cur[p].target \in Int /\ (cur[p].err = "nil" => cur[p].target >= NilVersion)
  BY DEF PipeInv, NarrowItem, Item

<1>1. ASSUME NEW p \in Procs,
             \/ Open(p) \/ RequestStop(p) \/ LateLock(p) \/ SourceFailed(p)
             \/ StrayTakesStop(p) \/ LockWaits(p) \/ LockGranted(p)
             \/ ReaderStart(p) \/ ReaderLoop(p) \/ ReaderSeesStop(p) \/ ReaderTakesStop(p)
             \/ ReaderSetsStop(p) \/ ReaderSend(p) \/ StraySetsStop(p)
      PROVE  Calm
  <2>1. CASE \/ RequestStop(p) \/ LateLock(p) \/ SourceFailed(p) \/ StrayTakesStop(p)
             \/ ReaderStart(p) \/ ReaderLoop(p) \/ ReaderSeesStop(p) \/ ReaderTakesStop(p)
             \/ ReaderSetsStop(p) \/ ReaderSend(p) \/ StraySetsStop(p)
    <3>1. UNCHANGED <<dbVars, callVars>>
      BY <2>1 DEF RequestStop, LateLock, SourceFailed, StrayTakesStop, ReaderStart,
        ReaderLoop, ReaderSeesStop, ReaderTakesStop, ReaderSetsStop, ReaderSend,
        StraySetsStop, ReaderGoes
    <3> QED
      BY <3>1 DEF Calm, dbVars, callVars
  <2>2. CASE Open(p)
    BY <2>2, SMT DEF Calm, Critical, Open, Goto
  <2>3. CASE LockWaits(p)
    BY <2>3, SMT DEF Calm, Critical, LockWaits, Goto, dbVars
  <2>4. CASE LockGranted(p)
    BY <2>4, SMT DEF Calm, Critical, LockGranted, Goto, dbVars
  <2> QED
    BY <1>1, <2>1, <2>2, <2>3, <2>4
<1>2. ASSUME NEW p \in Procs, NEW s, NEW e, Return(p, s, e), UNCHANGED dbVars
      PROVE  Calm
  BY <1>2 DEF Calm, Critical, Return, GotoResult, Goto, dbVars, TypeInv, CallInv, CallTypeOK
<1>3. ASSUME NEW p \in Procs, \/ LockRefused(p) \/ LockFailed(p) \/ LockTimedOut(p)
                              \/ Unlock(p) \/ UnlockFailed(p)
      PROVE  Calm
  BY <1>2, <1>3 DEF LockRefused, LockFailed, LockTimedOut, Unlock, UnlockFailed
<1>4. ASSUME NEW p \in Procs, NEW o \in Ops, Call(p, o)
      PROVE  Calm
  <2>1. CASE EarlyResult(o) = "nil"
    <3>1. UNCHANGED <<version, dirty, schema, tracked>>
      BY <1>4 DEF Call, dbVars
    <3>2. /\ pc' = [pc EXCEPT ![p] = "lock"] /\ op' = [op EXCEPT ![p] = o]
          /\ result' = [result EXCEPT ![p] = Err("nil")] /\ UNCHANGED cur
      BY <1>4, <2>1 DEF Call, GotoResult, Goto
    <3>3. "lock" \notin Critical
      BY DEF Critical
    <3> QED
      BY <3>1, <3>2, <3>3 DEF Calm, TypeInv, CallInv, CallTypeOK
  <2>2. CASE EarlyResult(o) # "nil"
    BY <1>2, <1>4, <2>2 DEF Call
  <2> QED
    BY <2>1, <2>2
<1>5. ASSUME UNCHANGED vars
      PROVE  Calm
  BY <1>5 DEF Calm, vars, dbVars, callVars
<1>6. ASSUME Repair
      PROVE  VersionInv'
  <2>1. \A q \in Procs : pc[q] \notin Critical
    BY <1>6, MigrateAssumption DEF Repair, LockInv
  <2>2. ~(tracked /\ ~dirty)
    BY <1>6, MaxIntAssumption, SMT
    DEF Repair, VersionInv, VersionTellsSchema, DbTypeOK, Torn, MinInt, NilVersion, TypeInv, CallInv, CallTypeOK
  <2>3. UNCHANGED <<version, dirty, tracked, pc>>
    BY <1>6 DEF Repair, callVars
  <2> QED
    BY <2>1, <2>2, <2>3 DEF VersionInv, VersionTellsSchema, Critical
<1>7. ASSUME NEW p \in Procs, Reset(p)
      PROVE  VersionInv'
  <2>1. \A q \in Procs : /\ pc'[q] = IF q = p THEN "closed" ELSE pc[q]
                         /\ q # p => /\ cur'[q] = cur[q] /\ op'[q] = op[q]
                                     /\ result'[q] = result[q]
    BY <1>7 DEF Reset, TypeInv, CallInv, CallTypeOK
  <2>2. UNCHANGED <<version, dirty, tracked>>
    BY <1>7 DEF Reset
  <2>3. CASE pc[p] = "body"
    <3>1. dirty /\ \A q \in Procs : q # p => pc[q] \notin Critical
      BY <2>3 DEF VersionInv, LockInv, Critical
    <3> QED
      BY <2>1, <2>2, <3>1 DEF VersionInv, VersionTellsSchema, Critical
  <2>4. CASE pc[p] # "body"
    <3>1. schema' = schema
      BY <1>7, <2>4 DEF Reset
    <3> QED
      <4>1. "closed" \notin Critical
        BY DEF Critical
      <4>2. Calm
        BY <2>1, <2>2, <3>1, <4>1 DEF Calm
      <4> QED
        BY <4>2, <1>CalmKeeps
  <2> QED
    BY <2>3, <2>4
<1>8. ASSUME NEW p \in Procs, ReadVersion(p) \/ VersionFailed(p)
      PROVE  VersionInv'
  <2>1. UNCHANGED <<version, dirty, schema, tracked>>
    BY <1>8 DEF ReadVersion, VersionFailed, dbVars
  <2>2. PICK s \in {"recv", "unlock"} :
          /\ pc[p] = "held" /\ pc' = [pc EXCEPT ![p] = s]
          /\ s = "recv" => ~dirty
          /\ s = "unlock" => result'[p].err # "nil"
    <3>1. CASE ReadVersion(p) /\ ~dirty
      BY <3>1 DEF ReadVersion, Goto
    <3>2. CASE VersionFailed(p) \/ (ReadVersion(p) /\ dirty)
      <4>1. PICK e \in {"error", "ErrDirty"} : GotoResult(p, "held", "unlock", Err(e))
        BY <3>2 DEF ReadVersion, VersionFailed
      <4>2. result'[p].err # "nil"
        BY <4>1 DEF GotoResult, Err, TypeInv, CallInv, CallTypeOK
      <4> QED
        BY <4>1, <4>2 DEF GotoResult, Goto
    <3> QED
      BY <1>8, <3>1, <3>2
  <2>3. Alone(p) /\ pc'[p] = s
    BY <2>2, <1>AloneInside DEF Critical
  <2> QED
    BY <2>1, <2>2, <2>3, <1>AloneKeeps DEF VersionInv, VersionTellsSchema
<1>9. ASSUME NEW p \in Procs, \/ Drop(p) \/ DropFailed(p) \/ ForceVersion(p) \/ ForceFailed(p)
      PROVE  VersionInv'
  <2>1. pc[p] = "held" /\ pc' = [pc EXCEPT ![p] = "unlock"] /\ op' = op
    BY <1>9 DEF Drop, DropFailed, ForceVersion, ForceFailed, GotoResult, Goto
  <2>2. op'[p].kind \notin Reads
    BY <1>9, <2>1 DEF Drop, DropFailed, ForceVersion, ForceFailed, Reads
  <2>3. Alone(p) /\ pc'[p] = "unlock"
    BY <2>1, <1>AloneInside DEF Critical
  <2>4. ASSUME op[p].kind = "Force", Stores(op[p].n, FALSE)
        PROVE  version' = op[p].n
    <3>1. op[p].n \in Int /\ op[p].n >= NilVersion
      <4>1. op[p] \in Op /\ EarlyResult(op[p]) = "nil"
        BY <2>1 DEF TypeInv, CallInv, CallTypeOK
      <4>2. op[p].n \in Int
        BY <4>1 DEF Op
      <4> QED
        BY <2>4, <4>1, <4>2, SMT DEF EarlyResult, NilVersion
    <3> QED
      BY <2>4, <3>1, NarrowStores
  <2>5. VersionTellsSchema'
    <3>1. CASE Drop(p)
      BY <3>1 DEF Drop, VersionTellsSchema
    <3>2. CASE DropFailed(p)
      <4>1. CASE UNCHANGED dbVars
        BY <4>1 DEF VersionInv, VersionTellsSchema, dbVars
      <4>2. CASE tracked' = FALSE
        BY <4>2 DEF VersionTellsSchema
      <4> QED
        BY <3>2, <4>1, <4>2 DEF DropFailed
    <3>3. CASE ForceVersion(p)
      BY <2>4, <3>3 DEF ForceVersion, VersionTellsSchema
    <3>4. CASE ForceFailed(p)
      <4>1. CASE UNCHANGED <<version, dirty, tracked>>
        BY <3>4, <4>1 DEF ForceFailed, VersionInv, VersionTellsSchema
      <4>2. CASE Stores(op[p].n, FALSE) /\ tracked' = (schema = op[p].n)
        BY <2>4, <3>4, <4>2 DEF ForceFailed, VersionTellsSchema
      <4> QED
        BY <3>4, <4>1, <4>2 DEF ForceFailed
    <3> QED
      BY <1>9, <3>1, <3>2, <3>3, <3>4
  <2> QED
    BY <2>2, <2>3, <2>5, <1>AloneKeeps
<1>10. ASSUME NEW p \in Procs,
              \/ Receive(p) \/ RunnerDone(p) \/ RunnerSeesStop(p) \/ RunnerTakesStop(p)
              \/ RunnerSetsStop(p) \/ RunnerGoes(p)
       PROVE  VersionInv'
  <2>1. UNCHANGED <<version, dirty, schema, tracked>>
    BY <1>10 DEF Receive, RunnerDone, RunnerSeesStop, RunnerTakesStop, RunnerSetsStop,
      RunnerGoes, dbVars
  <2>2. PICK s \in {"got", "stopping", "dirty", "unlock"} :
          /\ pc[p] \in {"recv", "got", "stopping"} /\ pc' = [pc EXCEPT ![p] = s]
          /\ s = "dirty" => cur'[p].err = "nil"
    BY <1>10 DEF Receive, RunnerDone, RunnerSeesStop, RunnerTakesStop, RunnerSetsStop,
      RunnerGoes, GotoResult, Goto
  <2>3. ~dirty
    BY <2>2 DEF VersionInv
  <2>4. Alone(p) /\ pc'[p] = s
    BY <2>2, <1>AloneInside DEF Critical
  <2> QED
    BY <2>1, <2>2, <2>3, <2>4, <1>AloneKeeps DEF VersionInv, VersionTellsSchema
<1>11. ASSUME NEW p \in Procs, SetDirty(p)
       PROVE  VersionInv'
  <2>1. PICK s \in {"body", "clean"} :
          /\ pc[p] = "dirty" /\ pc' = [pc EXCEPT ![p] = s] /\ cur' = cur
          /\ s = "clean" => schema' = cur[p].target
    BY <1>11 DEF SetDirty, Goto
  <2>2. Alone(p) /\ pc'[p] = s
    BY <2>1, <1>AloneInside DEF Critical
  <2>3. cur[p].err = "nil" /\ cur[p].target >= NilVersion /\ cur[p].target \in Int
    BY <1>a, <2>1 DEF VersionInv
  <2>4. version' = cur[p].target /\ dirty'
    BY <1>11, <2>3, NarrowStores DEF SetDirty
  <2>5. VersionTellsSchema'
    BY <2>4 DEF VersionTellsSchema
  <2> QED
    BY <2>1, <2>2, <2>3, <2>4, <2>5, <1>AloneKeeps
<1>12. ASSUME NEW p \in Procs, RunBody(p) \/ BodyFailed(p)
       PROVE  VersionInv'
  <2>1. PICK s \in {"clean", "unlock"} :
          /\ pc[p] = "body" /\ pc' = [pc EXCEPT ![p] = s] /\ cur' = cur
          /\ s = "clean" => schema' = cur[p].target
          /\ s = "unlock" => result'[p].err # "nil"
    BY <1>12, SMT DEF RunBody, BodyFailed, GotoResult, Goto, Err, TypeInv, CallInv, CallTypeOK
  <2>2. Alone(p) /\ pc'[p] = s
    BY <2>1, <1>AloneInside DEF Critical
  <2>3. cur[p].err = "nil" /\ dirty /\ version = cur[p].target
    BY <2>1 DEF VersionInv
  <2>4. dirty' /\ version' = version
    BY <1>12, <2>3 DEF RunBody, BodyFailed
  <2>5. VersionTellsSchema'
    BY <2>4 DEF VersionTellsSchema
  <2> QED
    BY <2>1, <2>2, <2>3, <2>4, <2>5, <1>AloneKeeps
<1>13. ASSUME NEW p \in Procs, SetClean(p)
       PROVE  VersionInv'
  <2>1. pc[p] = "clean" /\ pc' = [pc EXCEPT ![p] = "recv"] /\ schema' = schema
    BY <1>13 DEF SetClean, Goto
  <2>2. Alone(p) /\ pc'[p] = "recv"
    BY <2>1, <1>AloneInside DEF Critical
  <2>3. cur[p].err = "nil" /\ schema = cur[p].target
    BY <2>1 DEF VersionInv
  <2>4. version' = cur[p].target /\ ~dirty'
    BY <1>a, <1>13, <2>3, NarrowStores DEF SetClean
  <2>5. VersionTellsSchema'
    BY <2>1, <2>3, <2>4 DEF VersionTellsSchema
  <2> QED
    BY <2>1, <2>2, <2>4, <2>5, <1>AloneKeeps
<1>14. ASSUME NEW p \in Procs, SetVersionFailed(p)
       PROVE  VersionInv'
  <2>1. PICK s \in {"dirty", "clean"} :
          /\ pc[p] = s /\ pc' = [pc EXCEPT ![p] = "unlock"]
          /\ result'[p].err # "nil" /\ UNCHANGED <<schema, tracked>>
          /\ \/ UNCHANGED <<version, dirty>>
             \/ Stores(cur[p].target, s = "dirty")
    BY <1>14, SMT DEF SetVersionFailed, GotoResult, Goto, Err, TypeInv, CallInv, CallTypeOK
  <2>2. Alone(p) /\ pc'[p] = "unlock"
    BY <2>1, <1>AloneInside DEF Critical
  <2>3. cur[p].err = "nil" /\ cur[p].target >= NilVersion /\ cur[p].target \in Int
    BY <1>a, <2>1 DEF VersionInv
  <2>4. VersionTellsSchema'
    <3>1. CASE UNCHANGED <<version, dirty>>
      BY <2>1, <3>1 DEF VersionInv, VersionTellsSchema
    <3>2. CASE s = "dirty" /\ Stores(cur[p].target, TRUE)
      BY <2>3, <3>2, NarrowStores DEF VersionTellsSchema
    <3>3. CASE s = "clean" /\ Stores(cur[p].target, FALSE)
      BY <2>1, <2>3, <3>3, NarrowStores DEF VersionInv, VersionTellsSchema
    <3> QED
      BY <2>1, <3>1, <3>2, <3>3
  <2> QED
    BY <2>1, <2>2, <2>4, <1>AloneKeeps
<1>15. ASSUME NEW p \in Procs, CallStep(p)
       PROVE  VersionInv'
  BY <1>1, <1>3, <1>8, <1>9, <1>15, <1>CalmKeeps DEF CallStep
<1>16. ASSUME NEW p \in Procs, ReaderStep(p)
       PROVE  VersionInv'
  BY <1>1, <1>7, <1>16, <1>CalmKeeps DEF ReaderStep, ReaderPanics
<1>17. ASSUME NEW p \in Procs, RunnerStep(p)
       PROVE  VersionInv'
  BY <1>10, <1>11, <1>12, <1>13, <1>14, <1>17 DEF RunnerStep
<1>18. ASSUME NEW p \in Procs, \/ Open(p) \/ Crash(p) \/ RequestStop(p) \/ LateLock(p)
                               \/ SourceFailed(p) \/ StrayTakesStop(p)
       PROVE  VersionInv'
  BY <1>1, <1>7, <1>18, <1>CalmKeeps DEF Crash
<1> QED
  BY <1>4, <1>5, <1>6, <1>15, <1>16, <1>17, <1>18, <1>CalmKeeps DEF Next

-----------------------------------------------------------------------------
\* The invariants of the engine hold when the processes open the database.
LEMMA VersionInit == Init => LockInv /\ PipeInv /\ VersionInv
<1> SUFFICES ASSUME Init
             PROVE  LockInv /\ PipeInv /\ VersionInv
  OBVIOUS
<1>1. LockInv
  BY DEF Init, LockInv, Critical
<1>2. PipeInv
  <2>1. Err("nil") \in NarrowItem /\ <<>> \in Seq(NarrowItem) /\ NoReader.pend = <<>>
    <3>1. NoReader.pend = <<>>
      BY DEF NoReader, NewReader
    <3> QED
      BY <3>1, NarrowErr, SMT DEF Errors
  <2> QED
    BY <2>1 DEF Init, PipeInv
<1>3. VersionInv
  BY DEF Init, VersionInv, VersionTellsSchema
<1> QED
  BY <1>1, <1>2, <1>3

EngineInv == TypeInv /\ LockInv /\ PipeInv /\ VersionInv

\* Together the invariants of the engine are inductive.
LEMMA EngineInvariance ==
  ASSUME Narrow
  PROVE  /\ Init => EngineInv
         /\ EngineInv /\ [Next]_vars => EngineInv'
BY TypeInit, TypeStep, VersionInit, LockStep, PipeStep, VersionStep DEF EngineInv

\* SetVersion around every body in runMigrations does what it is for: while the
\* version table says clean, the schema is at the version it names, whichever
\* steps failed and whichever processes died, as long as callers force only
\* versions that are true and the versions of the source fit an int.
THEOREM VersionCorrect == Narrow => (Spec => []VersionTellsSchema)
<1> SUFFICES ASSUME Narrow
             PROVE  Spec => []VersionTellsSchema
  OBVIOUS
<1>1. EngineInv => VersionTellsSchema
  BY DEF EngineInv, VersionInv
<1> QED
  BY <1>1, EngineInvariance, PTL DEF Spec

\* stop() is asked where runMigrations holds no dirty mark: an operation that
\* returns nil leaves a clean database.
THEOREM StopsSafely == Narrow => (Spec => []SafeBreakPoint)
<1> SUFFICES ASSUME Narrow
             PROVE  Spec => []SafeBreakPoint
  OBVIOUS
<1>1. EngineInv => SafeBreakPoint
  BY DEF EngineInv, VersionInv, VersionTellsSchema, SafeBreakPoint
<1> QED
  BY <1>1, EngineInvariance, PTL DEF Spec

\* "The dirty state persists": only the second SetVersion of runMigrations, for
\* the migration whose mark it is, and Force and Drop take a dirty mark away,
\* each under the lock.
THEOREM DirtyStays ==
  Narrow => (Spec => DirtyPersists)
\* The steps that can take a dirty mark away.
<1>DirtyStep.
  ASSUME Narrow, EngineInv, [Next]_vars, dirty, ~dirty'
  PROVE  \E p \in Procs :
           /\ holder = p
           /\ \/ pc[p] = "clean" /\ version = cur[p].target
              \/ pc[p] = "held" /\ op[p].kind \in {"Force", "Drop"}
  <2> USE <1>DirtyStep
  <2> USE DEF dbVars
  <2>1. ASSUME NEW p \in Procs, CallStep(p)
        PROVE  \/ Drop(p) \/ DropFailed(p) \/ ForceVersion(p) \/ ForceFailed(p)
    BY <2>1 DEF CallStep, LockRefused, LockWaits, LockGranted, LockFailed, LockTimedOut,
      ReadVersion, VersionFailed, Unlock, UnlockFailed
  <2>2. ASSUME NEW p \in Procs, ReaderStep(p)
        PROVE  FALSE
    BY <2>2 DEF ReaderStep, ReaderStart, ReaderLoop, ReaderPanics, Reset, ReaderSeesStop,
      ReaderTakesStop, ReaderSetsStop, ReaderSend, StraySetsStop, ReaderGoes
  <2>3. ASSUME NEW p \in Procs, RunnerStep(p)
        PROVE  SetClean(p) \/ SetDirty(p) \/ SetVersionFailed(p)
    BY <2>3 DEF RunnerStep, Receive, RunnerDone, RunnerSeesStop, RunnerTakesStop,
      RunnerSetsStop, RunnerGoes, RunBody, BodyFailed
  <2>4. ASSUME NEW p \in Procs, \/ Open(p) \/ Crash(p) \/ RequestStop(p) \/ LateLock(p)
                                \/ SourceFailed(p) \/ StrayTakesStop(p)
                                \/ \E o \in Ops : Call(p, o)
        PROVE  FALSE
    BY <2>4 DEF Open, Crash, Reset, RequestStop, LateLock, SourceFailed, ReaderGoes,
      StrayTakesStop, Call
  <2>5. ~Repair /\ ~UNCHANGED vars
    BY DEF Repair, vars
  <2>6. PICK p \in Procs : \/ Drop(p) \/ DropFailed(p) \/ ForceVersion(p) \/ ForceFailed(p)
                           \/ SetClean(p) \/ SetDirty(p) \/ SetVersionFailed(p)
    BY <2>1, <2>2, <2>3, <2>4, <2>5 DEF Next
  <2>7. CASE \/ Drop(p) \/ DropFailed(p) \/ ForceVersion(p) \/ ForceFailed(p)
    BY <2>7 DEF Drop, DropFailed, ForceVersion, ForceFailed, GotoResult, Goto, EngineInv,
      LockInv, Critical
  <2>8. CASE SetClean(p) \/ SetDirty(p) \/ SetVersionFailed(p)
    <3>1. pc[p] \in {"dirty", "clean"} /\ (pc[p] = "dirty" => SetDirty(p) \/ SetVersionFailed(p))
      BY <2>8 DEF SetClean, SetDirty, SetVersionFailed, GotoResult, Goto
    <3>2. pc[p] # "dirty"
      BY DEF EngineInv, VersionInv
    <3> QED
      BY <3>1, <3>2 DEF EngineInv, VersionInv, LockInv, Critical
  <2> QED
    BY <2>6, <2>7, <2>8
<1> SUFFICES ASSUME Narrow
             PROVE  Spec => DirtyPersists
  OBVIOUS
<1>1. EngineInv /\ [Next]_vars =>
        [dirty /\ ~dirty' =>
           \E p \in Procs :
             /\ holder = p
             /\ \/ pc[p] = "clean" /\ version = cur[p].target
                \/ pc[p] = "held" /\ op[p].kind \in {"Force", "Drop"}]_vars
  BY <1>DirtyStep
<1> QED
  BY <1>1, EngineInvariance, PTL DEF Spec, DirtyPersists

-----------------------------------------------------------------------------
(***************************************************************************)
(* What goes through the ret channel, as a chain: each migration follows   *)
(* from the version the one before it leads to, and an error tells what    *)
(* was done up to it.                                                      *)
(***************************************************************************)

\* Versions that Migrate and numbers that Steps can be asked for without wrapping
\* around: Migrate takes a uint and makes an int of it, Steps negates an int.
Fits(o) ==
  /\ o.kind = "Migrate" => o.n \in 0..MaxInt
  /\ o.kind = "Steps" => o.n # MinInt

\* The version after item m; nothing comes after an error.
After(m) == IF m.err = "nil" THEN m.target ELSE Torn

\* Item m is right for operation o, started at st, at version v.
Link(o, st, v, m) ==
  /\ m.err = "nil" /\ o.kind # "Run" => Follows(v, m)
  /\ m.err # "nil" /\ Fits(o) => Tells(o, st, v, m)

Chained(o, st, v, s) ==
  \A k \in 1..Len(s) : Link(o, st, IF k = 1 THEN v ELSE After(s[k-1]), s[k])

EndOf(v, s) == IF s = <<>> THEN v ELSE After(s[Len(s)])

\* The items end with an error, or where the operation wanted to be.
GoodEnd(o, st, v) == v = Torn \/ (Fits(o) => Reached(o, st, v))

\* A reader of o in or before one of its loops, at from.
LoopsAt(o, st, kind, from, to, count) ==
  \/ /\ kind = "upTo" /\ o.kind = "Migrate" /\ from \in Versions
     /\ Fits(o) => to = o.n /\ to \in Versions /\ st < to /\ from <= to
  \/ /\ kind = "downTo" /\ o.kind = "Migrate" /\ from \in Versions \cup {NilVersion}
     /\ Fits(o) => to = o.n /\ to \in Versions /\ st > to /\ from >= to
  \/ /\ kind = "readUp" /\ from \in Versions \cup {NilVersion}
     /\ count = 0 => from = st
     /\ count > 0 => from > st
     /\ \/ o.kind = "Up" /\ to = -1
        \/ /\ o.kind = "Steps" /\ o.n > 0 /\ to = o.n /\ count <= to
           /\ Rank(from) - Rank(st) = count
  \/ /\ kind = "readDown" /\ from \in Versions \cup {NilVersion}
     /\ from = NilVersion => to < -1
     /\ \/ o.kind = "Down" /\ to = -1 /\ st # NilVersion
        \/ /\ o.kind = "Steps"
           /\ Fits(o) => /\ o.n < 0 /\ to = -o.n /\ count <= to
                         /\ Rank(st) - Rank(from) = count

InLoop(o, st, r) == LoopsAt(o, st, r.kind, r.from, r.to, r.count)

\* The reader r of operation o, started at st, when what it has sent ends at v.
Reading(o, st, v, r) ==
  /\ r.pc = "start" => o.kind # "Run" /\ r = Operation(o, st) /\ v = st
  /\ r.pc = "loop" => r.from = v /\ InLoop(o, st, r)
  /\ r.pc = "send" =>
       /\ Chained(o, st, v, r.pend)
       /\ r.then = "loop" =>
            /\ Len(r.pend) = 1 /\ r.pend[1].err = "nil" /\ r.from = r.pend[1].target
            /\ InLoop(o, st, r)
       /\ r.then = "done" => GoodEnd(o, st, EndOf(v, r.pend))

-----------------------------------------------------------------------------
\* The index of the source has no gaps: First, Prev and Next lead from one version
\* to the next.
LEMMA IndexFacts ==
  /\ Len(Index) \in Nat /\ DOMAIN Index = 1..Len(Index)
  /\ \A k \in 1..Len(Index) : Index[k] \in Versions /\ Index[k] \in Nat
  /\ \A j, k \in 1..Len(Index) : j < k <=> Index[j] < Index[k]
  /\ \A v \in Versions : \E k \in 1..Len(Index) : v = Index[k]
<1>1. /\ Len(Index) \in Nat /\ DOMAIN Index = 1..Len(Index)
      /\ \A k \in 1..Len(Index) : Index[k] \in Versions /\ Index[k] \in Nat
  BY IndexType, SMT DEF Versions, VersionsOf
<1>2. \A v \in Versions : \E k \in 1..Len(Index) : v = Index[k]
  BY <1>1 DEF Versions, VersionsOf
<1>3. \A j, k \in 1..Len(Index) : j < k => Index[j] < Index[k]
  BY <1>1, SourceAssumption DEF StrictlyIncreasing
<1>4. ASSUME NEW j \in 1..Len(Index), NEW k \in 1..Len(Index), Index[j] < Index[k]
      PROVE  j < k
  <2>1. CASE k < j
    BY <1>1, <1>3, <1>4, <2>1, SMT
  <2>2. CASE k = j
    BY <1>1, <1>4, <2>2, SMT
  <2> QED
    BY <2>1, <2>2, SMT
<1> QED
  BY <1>1, <1>2, <1>3, <1>4

Adjacent(s, t) == s < t /\ \A u \in Versions : ~(s < u /\ u < t)

\* Versions that are neighbours in the index are neighbours.
LEMMA NeighbourFacts ==
  \A j, k \in 1..Len(Index) : k = j + 1 => Adjacent(Index[j], Index[k])
<1>1. ASSUME NEW j \in 1..Len(Index), NEW k \in 1..Len(Index), k = j + 1
      PROVE  Adjacent(Index[j], Index[k])
  <2>1. j < k /\ \A i \in 1..Len(Index) : ~(j < i /\ i < k)
    BY <1>1, SMT
  <2>2. \A i \in 1..Len(Index) : ~(Index[j] < Index[i] /\ Index[i] < Index[k])
    BY <2>1, IndexFacts
  <2>3. Index[j] < Index[k]
    BY <2>1, IndexFacts
  <2>4. ASSUME NEW u \in Versions
        PROVE  ~(Index[j] < u /\ u < Index[k])
    <3>1. PICK i \in 1..Len(Index) : u = Index[i]
      BY IndexFacts
    <3> QED
      BY <2>2, <3>1
  <2> QED
    BY <2>3, <2>4 DEF Adjacent
<1> QED
  BY <1>1

\* First is the least version.
LEMMA FirstFacts ==
  /\ HasFirst(Index) <=> Versions # {}
  /\ HasFirst(Index) => FirstVersion(Index) \in Versions /\ Adjacent(NilVersion, FirstVersion(Index))
<1>1. HasFirst(Index) <=> Versions # {}
  BY IndexFacts, SMT DEF HasFirst
<1>2. ASSUME HasFirst(Index)
      PROVE  FirstVersion(Index) \in Versions /\ Adjacent(NilVersion, FirstVersion(Index))
  <2>1. 1 \in 1..Len(Index)
    BY <1>2, IndexFacts, SMT DEF HasFirst
  <2>2. \A k \in 1..Len(Index) : Index[1] <= Index[k]
    BY <2>1, IndexFacts, SMT
  <2>3. \A u \in Versions : Index[1] <= u
    BY <2>2, IndexFacts
  <2> QED
    BY <2>1, <2>3, IndexFacts, SMT DEF FirstVersion, Adjacent, NilVersion
<1> QED
  BY <1>1, <1>2

-----------------------------------------------------------------------------
\* Ranks begin at 0, end at the number of versions and grow by one from version
\* to version.
LEMMA RankFacts ==
  /\ \A v : Rank(v) \in Nat
  /\ Rank(NilVersion) = 0
  /\ \A v \in Versions : (\A u \in Versions : u <= v) => Rank(v) = Len(Index)
  /\ \A s \in Versions \cup {NilVersion}, t \in Versions : Adjacent(s, t) => Rank(t) = Rank(s) + 1
<1>0. Versions \subseteq Nat /\ NilVersion \notin Versions
  BY IndexType, SMT DEF NilVersion
<1>1. \A k \in 1..Len(Index) : Index[k] \in Versions /\ Rank(Index[k]) = k
  <2> SUFFICES ASSUME NEW k \in 1..Len(Index)
               PROVE  Index[k] \in Versions /\ Rank(Index[k]) = k
    OBVIOUS
  <2>1. ASSUME NEW j \in 1..Len(Index), Index[j] = Index[k]
        PROVE  j = k
    <3>1. ~(j < k) /\ ~(k < j)
      BY <2>1, IndexFacts, SMT
    <3> QED
      BY <3>1, SMT
  <2> QED
    BY <2>1, IndexFacts DEF Rank
<1>2. Rank(NilVersion) = 0
  BY <1>0 DEF Rank
<1>3. ASSUME NEW v
      PROVE  Rank(v) \in Nat
  <2>1. CASE v \in Versions
    BY <1>1, <2>1, IndexFacts, SMT
  <2>2. CASE v \notin Versions
    BY <2>2 DEF Rank
  <2> QED
    BY <2>1, <2>2
<1>4. ASSUME NEW v \in Versions, \A u \in Versions : u <= v
      PROVE  Rank(v) = Len(Index)
  <2>1. PICK k \in 1..Len(Index) : v = Index[k]
    BY IndexFacts
  <2>2. Len(Index) \in 1..Len(Index) /\ Index[Len(Index)] <= Index[k]
    BY <1>4, <2>1, IndexFacts, SMT
  <2>3. ~(Index[k] < Index[Len(Index)])
    BY <2>2, IndexFacts, SMT
  <2>4. ~(k < Len(Index)) /\ Len(Index) \in Nat
    BY <2>2, <2>3, IndexFacts
  <2>5. k = Len(Index)
    BY <2>4, SMT
  <2> QED
    BY <1>1, <2>1, <2>5
<1>5. ASSUME NEW s \in Versions \cup {NilVersion}, NEW t \in Versions, Adjacent(s, t)
      PROVE  Rank(t) = Rank(s) + 1
  <2>0. s \in Int /\ t \in Int /\ s < t /\ (s = NilVersion \/ s \in Versions)
    BY <1>0, <1>5, SMT DEF Adjacent, NilVersion
  <2>1. PICK k \in 1..Len(Index) : t = Index[k]
    BY IndexFacts
  <2>2. CASE k = 1
    <3>1. \A j \in 1..Len(Index) : ~(Index[j] < t)
      BY <2>1, <2>2, IndexFacts, SMT
    <3>2. s = NilVersion
      BY <2>0, <3>1, IndexFacts, SMT
    <3> QED
      BY <1>1, <1>2, <2>1, <2>2, <3>2, SMT
  <2>3. CASE k # 1
    <3>1. k - 1 \in 1..Len(Index) /\ k - 1 < k
      BY <2>3, SMT
    <3>2. Index[k - 1] \in Versions /\ Index[k - 1] < t /\ Index[k - 1] \in Nat
      BY <2>1, <3>1, IndexFacts
    <3>3. ~(s < Index[k - 1])
      BY <1>5, <3>2 DEF Adjacent
    <3>4. s # NilVersion
      BY <3>2, <3>3, SMT DEF NilVersion
    <3>5. PICK j \in 1..Len(Index) : s = Index[j]
      BY <2>0, <3>4, IndexFacts
    <3>6. j < k /\ ~(j < k - 1)
      BY <2>0, <2>1, <3>1, <3>3, <3>5, IndexFacts
    <3>7. k = j + 1
      BY <3>6, SMT
    <3> QED
      BY <1>1, <2>1, <3>5, <3>7
  <2> QED
    BY <2>2, <2>3
<1> QED
  BY <1>2, <1>3, <1>4, <1>5

-----------------------------------------------------------------------------
\* Chains of at most two items.
LEMMA ChainSmall ==
  ASSUME NEW o, NEW st, NEW v
  PROVE  /\ Chained(o, st, v, <<>>) /\ EndOf(v, <<>>) = v
         /\ \A m : Link(o, st, v, m) => Chained(o, st, v, <<m>>)
         /\ \A m : EndOf(v, <<m>>) = After(m)
         /\ \A m, n : Link(o, st, v, m) /\ Link(o, st, After(m), n) => Chained(o, st, v, <<m, n>>)
         /\ \A m, n : EndOf(v, <<m, n>>) = After(n)
<1>1. Chained(o, st, v, <<>>) /\ EndOf(v, <<>>) = v
  BY SMT DEF Chained, EndOf
<1>2. \A m : Link(o, st, v, m) => Chained(o, st, v, <<m>>)
  BY SMT DEF Chained
<1>3. ASSUME NEW m, NEW n, Link(o, st, v, m), Link(o, st, After(m), n)
      PROVE  Chained(o, st, v, <<m, n>>)
  BY <1>3, SMT DEF Chained
<1>4. \A m : EndOf(v, <<m>>) = After(m)
  BY DEF EndOf
<1>5. \A m, n : EndOf(v, <<m, n>>) = After(n)
  BY DEF EndOf
<1> QED
  BY <1>1, <1>2, <1>3, <1>4, <1>5

\* The first item of a chain is linked to v, and the others to it.
HeadLinked(o, st, v, s) ==
  /\ Link(o, st, v, Head(s))
  /\ Chained(o, st, After(Head(s)), Tail(s))
  /\ EndOf(After(Head(s)), Tail(s)) = EndOf(v, s)

\* Taking the first item off a chain.
LEMMA ChainHead ==
  ASSUME NEW o, NEW st, NEW v, NEW s \in Seq(Item), s # <<>>, Chained(o, st, v, s)
  PROVE  HeadLinked(o, st, v, s)
<1>1. PICK t \in Seq(Item) : t = Tail(s) /\ Len(t) = Len(s) - 1
  BY TailProperties
<1>2. \A k \in 1..Len(t) : t[k] = s[k + 1]
  BY <1>1, SMT
<1>3. Head(s) = s[1] /\ Len(s) \in Nat /\ Len(s) >= 1 /\ Len(t) \in Nat
  BY <1>1, SMT
<1>4. Link(o, st, v, Head(s))
  BY <1>3, SMT DEF Chained
<1>5. ASSUME NEW k \in 1..Len(t)
      PROVE  Link(o, st, IF k = 1 THEN After(Head(s)) ELSE After(t[k-1]), t[k])
  <2>1. k + 1 \in 1..Len(s) /\ k + 1 # 1 /\ (k + 1) - 1 = k
    BY <1>1, <1>3, SMT
  <2>2. Link(o, st, After(s[k]), s[k + 1])
    BY <2>1 DEF Chained
  <2>3. CASE k = 1
    BY <1>2, <1>3, <2>2, <2>3
  <2>4. CASE k # 1
    <3>1. k - 1 \in 1..Len(t) /\ (k - 1) + 1 = k
      BY <2>4, SMT
    <3>2. t[k - 1] = s[k]
      BY <1>2, <3>1
    <3> QED
      BY <1>2, <2>2, <2>4, <3>2
  <2> QED
    BY <2>3, <2>4
<1>6. EndOf(After(Head(s)), t) = EndOf(v, s)
  <2>1. CASE t = <<>>
    <3>0. Len(t) = 0
      BY <2>1, EmptySeq
    <3>1. Len(s) = 1
      BY <1>1, <1>3, <3>0, SMT
    <3>2. EndOf(After(Head(s)), t) = After(Head(s))
      BY <2>1 DEF EndOf
    <3>3. EndOf(v, s) = After(s[1])
      BY <3>1 DEF EndOf
    <3> QED
      BY <1>3, <3>2, <3>3
  <2>2. CASE t # <<>>
    <3>1. Len(t) >= 1
      BY <2>2, EmptySeq, SMT
    <3>2. t[Len(t)] = s[Len(s)]
      BY <1>1, <1>2, <1>3, <3>1, SMT
    <3> QED
      BY <2>2, <3>2 DEF EndOf
  <2> QED
    BY <2>1, <2>2
<1> QED
  BY <1>1, <1>4, <1>5, <1>6 DEF Chained, HeadLinked

-----------------------------------------------------------------------------
(***************************************************************************)
(* What a reader leaves to be sent continues the chain.                    *)
(***************************************************************************)

\* The ways a piece of the reader's code can end, field by field.
LEMMA EndShapes ==
  ASSUME NEW r \in Reader
  PROVE  /\ \A m \in Item : Emit(r, m).kind = r.kind
         /\ \A m \in Item : Emit(r, m).from = m.target
         /\ \A m \in Item : Emit(r, m).to = r.to
         /\ \A m \in Item : Emit(r, m).count = r.count + 1
         /\ \A m \in Item : Emit(r, m).pend = <<m>>
         /\ \A m \in Item : Emit(r, m).then = "loop"
         /\ \A m \in Item : Emit(r, m).pc = "send"
         /\ \A s \in Seq(Item) : Finish(r, s).pend = s
         /\ \A s \in Seq(Item) : Finish(r, s).then = "done"
         /\ \A s \in Seq(Item) : Finish(r, s).pc = "send"
         /\ Close(r).pc = "done"
<1>1. ASSUME NEW s \in Seq(Item), NEW t \in {"loop", "done"}
      PROVE  /\ Sending(r, s, t) \in Reader
             /\ Sending(r, s, t).kind = r.kind /\ Sending(r, s, t).to = r.to
             /\ Sending(r, s, t).pend = s /\ Sending(r, s, t).then = t
             /\ Sending(r, s, t).pc = "send"
  BY DEF Sending, Reader
<1>2. ASSUME NEW m \in Item
      PROVE  /\ Emit(r, m).kind = r.kind /\ Emit(r, m).from = m.target
             /\ Emit(r, m).to = r.to /\ Emit(r, m).count = r.count + 1
             /\ Emit(r, m).pend = <<m>> /\ Emit(r, m).then = "loop"
             /\ Emit(r, m).pc = "send"
  <2>0. <<m>> \in Seq(Item)
    BY SMT
  <2>1. PICK q \in Reader : /\ q = Sending(r, <<m>>, "loop")
                            /\ q.kind = r.kind /\ q.to = r.to /\ q.pend = <<m>>
                            /\ q.then = "loop" /\ q.pc = "send"
    BY <1>1, <2>0, ZenonT(30)
  <2>2. Emit(r, m) = [q EXCEPT !.from = m.target, !.count = r.count + 1]
    BY <2>1 DEF Emit
  <2> QED
    BY <2>1, <2>2 DEF Reader
<1>3. Close(r).pc = "done"
  BY ZenonT(30) DEF Close, Reader
<1> QED
  BY <1>1, <1>2, <1>3 DEF Finish

\* A migration that is sent on the way.
LEMMA EmitReading ==
  ASSUME NEW o, NEW st, NEW v, NEW r \in Reader, NEW m \in Item, m.err = "nil",
         Follows(v, m), InLoop(o, st, Emit(r, m))
  PROVE  Reading(o, st, v, Emit(r, m)) /\ Emit(r, m).pc = "send"
<1>1. PICK q : q = Emit(r, m)
  OBVIOUS
<1>2. q.pend = <<m>> /\ q.from = m.target /\ q.then = "loop" /\ q.pc = "send"
  BY <1>1, EndShapes
<1>3. Link(o, st, v, m)
  BY DEF Link
<1>4. Chained(o, st, v, <<m>>)
  BY <1>3, ChainSmall
<1>5. Len(q.pend) = 1 /\ q.pend[1] = m
  BY <1>2, OneItem
<1>6. InLoop(o, st, q)
  BY <1>1
<1>7. Reading(o, st, v, q)
  BY <1>2, <1>4, <1>5, <1>6 DEF Reading
<1> QED
  BY <1>1, <1>2, <1>7

\* The last items of a reader.
LEMMA FinishReading ==
  ASSUME NEW o, NEW st, NEW v, NEW r \in Reader, NEW s \in Seq(Item),
         Chained(o, st, v, s), GoodEnd(o, st, EndOf(v, s))
  PROVE  Reading(o, st, v, Finish(r, s)) /\ Finish(r, s).pc = "send"
<1>1. PICK q : q = Finish(r, s)
  OBVIOUS
<1>2. q.pend = s /\ q.then = "done" /\ q.pc = "send"
  BY <1>1, EndShapes
<1> QED
  BY <1>1, <1>2 DEF Reading

\* Nothing comes after an error.
LEMMA FailReading ==
  ASSUME NEW o, NEW st, NEW v, NEW r \in Reader, NEW e \in Item, e.err # "nil",
         Fits(o) => Tells(o, st, v, e)
  PROVE  Reading(o, st, v, Fail(r, e)) /\ Fail(r, e).pc = "send"
<1>1. Link(o, st, v, e) /\ After(e) = Torn /\ <<e>> \in Seq(Item)
  BY SMT DEF Link, After
<1>2. Chained(o, st, v, <<e>>) /\ EndOf(v, <<e>>) = Torn
  BY <1>1, ChainSmall
<1> QED
  BY <1>1, <1>2, FinishReading DEF Fail, GoodEnd

\* What the errors of a reader say.
LEMMA ErrorTells ==
  ASSUME NEW o, NEW st, NEW v
  PROVE  /\ Tells(o, st, v, Err("error"))
         /\ v = st => Tells(o, st, v, Err("ErrNotExist"))
         /\ v = st /\ NothingToDo(o, v) => Tells(o, st, v, Err("ErrNoChange"))
BY DEF Tells, Err

\* A source that fails.
LEMMA SourceReading ==
  ASSUME NEW o, NEW st, NEW v, NEW r \in Reader
  PROVE  Reading(o, st, v, Fail(r, Err("error"))) /\ Fail(r, Err("error")).pc = "send"
BY FailReading, ErrorTells, SentErrors DEF Err

\* An operation that finds nothing where it starts ...
LEMMA AbsentReading ==
  ASSUME NEW o, NEW st, NEW r \in Reader
  PROVE  /\ Reading(o, st, st, Fail(r, Err("ErrNotExist")))
         /\ Fail(r, Err("ErrNotExist")).pc = "send"
BY FailReading, ErrorTells, SentErrors DEF Err

\* ... and one that has nothing to do.
LEMMA NoChangeReading ==
  ASSUME NEW o, NEW st, NEW r \in Reader, Fits(o) => NothingToDo(o, st)
  PROVE  /\ Reading(o, st, st, Fail(r, Err("ErrNoChange")))
         /\ Fail(r, Err("ErrNoChange")).pc = "send"
<1>1. Fits(o) => Tells(o, st, st, Err("ErrNoChange"))
  BY ErrorTells
<1> QED
  BY <1>1, FailReading, SentErrors DEF Err

-----------------------------------------------------------------------------
\* The next version is sent.
LEMMA EmitUpReading ==
  \A o : \A st : \A r \in Reader : \A v \in Versions \cup {NilVersion} : \A t \in Versions :
    NarrowSource /\ Adjacent(v, t) /\ LoopsAt(o, st, r.kind, t, r.to, r.count + 1) =>
      Reading(o, st, v, EmitUp(r, t)) /\ EmitUp(r, t).pc = "send"
\* An up migration leads to the next version ...
<1>UpFollows.
  ASSUME NarrowSource, NEW v \in Versions \cup {NilVersion}, NEW t \in Versions, Adjacent(v, t)
  PROVE  /\ newMigration(t, toInt(t)) \in Item
         /\ newMigration(t, toInt(t)).err = "nil"
         /\ newMigration(t, toInt(t)).target = t
         /\ Follows(v, newMigration(t, toInt(t)))
  <2> USE <1>UpFollows
  <2>1. toInt(t) = t /\ t \in Nat /\ t \in Int
    BY NarrowToInt, SMT
  <2>2. PICK m : m = newMigration(t, toInt(t))
    OBVIOUS
  <2>3. m \in Item /\ m.err = "nil" /\ m.target = t /\ m.version = t
    BY <2>1, <2>2, ItemType DEF newMigration
  <2> QED
    BY <2>2, <2>3 DEF Follows, Adjacent
<1> SUFFICES ASSUME NarrowSource, NEW o, NEW st, NEW r \in Reader,
                    NEW v \in Versions \cup {NilVersion}, NEW t \in Versions, Adjacent(v, t),
                    LoopsAt(o, st, r.kind, t, r.to, r.count + 1)
             PROVE  Reading(o, st, v, EmitUp(r, t)) /\ EmitUp(r, t).pc = "send"
  OBVIOUS
<1>1. PICK m \in Item : /\ m = newMigration(t, toInt(t))
                        /\ m.err = "nil" /\ m.target = t /\ Follows(v, m)
  BY <1>UpFollows
<1>2. EmitUp(r, t) = Emit(r, m)
  BY <1>1 DEF EmitUp
<1>3. InLoop(o, st, Emit(r, m))
  BY <1>1, EndShapes DEF InLoop
<1> QED
  BY <1>1, <1>2, <1>3, EmitReading

-----------------------------------------------------------------------------
\* One iteration of a loop, and the end of the loop when its condition fails.
LEMMA LoopReading ==
  \A o \in Op : \A st \in Nat \cup {NilVersion} : \A r \in Reader :
    NarrowSource /\ InLoop(o, st, r) /\ LoopCond(r) =>
      /\ Reading(o, st, r.from, Loop(r))
      /\ Loop(r).pc = "done" => GoodEnd(o, st, r.from)
\* findPos finds a version where it is.
<1>Found.
  ASSUME NEW k \in 1..Len(Index)
  PROVE  findPos(Index, Index[k]) = k
  <2>1. IsSearch(Index, Index[k], k)
    BY IndexFacts, SMT DEF IsSearch
  <2>2. ASSUME NEW j \in 1..Len(Index), IsSearch(Index, Index[k], j)
        PROVE  j = k
    <3>1. ~(k < j)
      <4>1. Index[k] \in Int
        BY IndexFacts, SMT
      <4> QED
        BY <2>2, <4>1, IndexFacts, NumberFacts DEF IsSearch
    <3>2. ~(j < k)
      BY <2>2, IndexFacts, SMT DEF IsSearch
    <3> QED
      BY <3>1, <3>2, SMT
  <2>3. Search(Index, Index[k]) = k
    BY <2>1, <2>2, IndexFacts DEF Search
  <2> QED
    BY <2>1, <2>3, IndexFacts DEF findPos
\* Next leads to the next version, and fails at the greatest only.
<1>NextFacts.
  ASSUME NEW v \in Versions
  PROVE  /\ HasNext(Index, v) => NextVersion(Index, v) \in Versions /\ Adjacent(v, NextVersion(Index, v))
         /\ ~HasNext(Index, v) => \A u \in Versions : u <= v
  <2>1. PICK k \in 1..Len(Index) : v = Index[k] /\ findPos(Index, v) = k
    BY <1>Found, IndexFacts
  <2>2. ASSUME HasNext(Index, v)
        PROVE  NextVersion(Index, v) \in Versions /\ Adjacent(v, NextVersion(Index, v))
    <3>1. k + 1 \in 1..Len(Index) /\ NextVersion(Index, v) = Index[k + 1]
      BY <2>1, <2>2, IndexFacts, SMT DEF HasNext, NextVersion
    <3> QED
      BY <2>1, <3>1, IndexFacts, NeighbourFacts
  <2>3. ASSUME ~HasNext(Index, v), NEW u \in Versions
        PROVE  u <= v
    <3>0. Len(Index) \in Nat /\ k \in Nat /\ 1 <= k /\ k <= Len(Index)
      BY IndexFacts, SMT
    <3>1. k = Len(Index)
      BY <2>1, <2>3, <3>0, SMT DEF HasNext
    <3>2. PICK j \in 1..Len(Index) : u = Index[j]
      BY IndexFacts
    <3>3. ~(Index[k] < Index[j])
      BY <3>1, IndexFacts, SMT
    <3> QED
      BY <2>1, <3>2, <3>3, IndexFacts, SMT
  <2> QED
    BY <2>2, <2>3
\* Prev leads to the version before, and fails at the first only.
<1>PrevFacts.
  ASSUME NEW v \in Versions
  PROVE  /\ HasPrev(Index, v) => PrevVersion(Index, v) \in Versions /\ Adjacent(PrevVersion(Index, v), v)
         /\ ~HasPrev(Index, v) => HasFirst(Index) /\ v = FirstVersion(Index)
  <2>1. PICK k \in 1..Len(Index) : v = Index[k] /\ findPos(Index, v) = k
    BY <1>Found, IndexFacts
  <2>2. ASSUME HasPrev(Index, v)
        PROVE  PrevVersion(Index, v) \in Versions /\ Adjacent(PrevVersion(Index, v), v)
    <3>1. k - 1 \in 1..Len(Index) /\ PrevVersion(Index, v) = Index[k - 1]
      BY <2>1, <2>2, IndexFacts, SMT DEF HasPrev, PrevVersion
    <3>2. k = (k - 1) + 1
      BY SMT
    <3> QED
      BY <2>1, <3>1, <3>2, IndexFacts, NeighbourFacts
  <2>3. ASSUME ~HasPrev(Index, v)
        PROVE  HasFirst(Index) /\ v = FirstVersion(Index)
    BY <2>1, <2>3, IndexFacts, SMT DEF HasPrev, HasFirst, FirstVersion
  <2> QED
    BY <2>2, <2>3
\* ... and a down migration to the version before.
<1>DownFollows.
  ASSUME NarrowSource, NEW v \in Versions, NEW t \in Versions \cup {NilVersion}, Adjacent(t, v)
  PROVE  /\ newMigration(v, t) \in Item
         /\ newMigration(v, t).err = "nil"
         /\ newMigration(v, t).target = t
         /\ Follows(v, newMigration(v, t))
  <2> USE <1>DownFollows
  <2>1. v \in Nat /\ t \in Int
    BY NarrowToInt, SMT DEF NilVersion
  <2>2. PICK m : m = newMigration(v, t)
    OBVIOUS
  <2>3. m \in Item /\ m.err = "nil" /\ m.target = t /\ m.version = v
    BY <2>1, <2>2, ItemType DEF newMigration
  <2> QED
    BY <2>2, <2>3 DEF Follows, Adjacent
\* The version at hand is undone.
<1>EmitDownReading.
  ASSUME NarrowSource, NEW o, NEW st, NEW r \in Reader,
         NEW v \in Versions, NEW t \in Versions, Adjacent(t, v),
         LoopsAt(o, st, r.kind, t, r.to, r.count + 1)
  PROVE  /\ Reading(o, st, v, Emit(r, newMigration(v, toInt(t))))
         /\ Emit(r, newMigration(v, toInt(t))).pc = "send"
  <2> USE <1>EmitDownReading
  <2>0. toInt(t) = t
    BY NarrowToInt
  <2>1. PICK m \in Item : /\ m = newMigration(v, t)
                          /\ m.err = "nil" /\ m.target = t /\ Follows(v, m)
    BY <1>DownFollows
  <2>2. /\ Emit(r, m).kind = r.kind /\ Emit(r, m).from = t
        /\ Emit(r, m).to = r.to /\ Emit(r, m).count = r.count + 1
    BY <2>1, EndShapes
  <2>3. InLoop(o, st, Emit(r, m))
    BY <2>2 DEF InLoop
  <2> QED
    BY <2>0, <2>1, <2>3, EmitReading
\* The nil version is the one before the first.
<1>UndoFirst.
  ASSUME NarrowSource, NEW o, NEW st, NEW v \in Versions, ~HasPrev(Index, v)
  PROVE  /\ HasFirst(Index) /\ v = FirstVersion(Index) /\ Adjacent(NilVersion, v)
         /\ newMigration(v, -1) \in Item
         /\ After(newMigration(v, -1)) = NilVersion
         /\ Link(o, st, v, newMigration(v, -1))
  <2> USE <1>UndoFirst
  <2>1. HasFirst(Index) /\ v = FirstVersion(Index) /\ Adjacent(NilVersion, v)
    BY <1>PrevFacts, FirstFacts
  <2>2. PICK m \in Item : /\ m = newMigration(v, NilVersion)
                          /\ m.err = "nil" /\ m.target = NilVersion /\ Follows(v, m)
    BY <2>1, <1>DownFollows
  <2>3. Link(o, st, v, m) /\ After(m) = NilVersion
    BY <2>2 DEF Link, After
  <2> QED
    BY <2>1, <2>2, <2>3 DEF NilVersion
\* The loops of read: the way up ...
<1>UpToReading.
  ASSUME NarrowSource, NEW o, NEW st \in Nat \cup {NilVersion}, NEW r \in Reader,
         r.kind = "upTo", InLoop(o, st, r), LoopCond(r)
  PROVE  Reading(o, st, r.from, upToLoop(r)) /\ upToLoop(r).pc = "send"
  <2> USE <1>UpToReading
  <2>1. /\ o.kind = "Migrate" /\ r.from \in Versions /\ r.from < r.to
        /\ Fits(o) => r.to = o.n /\ r.to \in Versions /\ st < r.to /\ r.from <= r.to
    BY DEF InLoop, LoopsAt, LoopCond
  <2>0. r.from \in Nat /\ r.to \in Int /\ Versions \subseteq Nat
    BY <2>1, IndexType DEF Reader
  <2>2. CASE HasNext(Index, r.from)
    <3>1. PICK t \in Versions : t = NextVersion(Index, r.from) /\ Adjacent(r.from, t)
      BY <2>1, <2>2, <1>NextFacts
    <3>2. Fits(o) => t <= r.to
      BY <2>0, <2>1, <3>1, SMT DEF Adjacent
    <3>3. LoopsAt(o, st, r.kind, t, r.to, r.count + 1)
      BY <2>1, <3>2 DEF LoopsAt
    <3> QED
      BY <2>1, <2>2, <3>1, <3>3, EmitUpReading DEF upToLoop
  <2>3. CASE ~HasNext(Index, r.from)
    <3>1. ~Fits(o)
      BY <2>0, <2>1, <2>3, <1>NextFacts, SMT
    <3> QED
      BY <2>3, <3>1, FailReading, SentErrors DEF upToLoop, Err
  <2> QED
    BY <2>2, <2>3
\* ... and the way down.
<1>DownToReading.
  ASSUME NarrowSource, NEW o, NEW st \in Nat \cup {NilVersion}, NEW r \in Reader,
         r.kind = "downTo", InLoop(o, st, r), LoopCond(r)
  PROVE  Reading(o, st, r.from, downToLoop(r)) /\ downToLoop(r).pc = "send"
  <2> USE <1>DownToReading
  <2>1. /\ o.kind = "Migrate" /\ r.from \in Versions /\ r.from > r.to
        /\ Fits(o) => r.to = o.n /\ r.to \in Versions /\ st > r.to /\ r.from >= r.to
    BY SMT DEF InLoop, LoopsAt, LoopCond, NilVersion
  <2>0. r.from \in Nat /\ r.to \in Int /\ Versions \subseteq Nat
    BY <2>1, IndexType DEF Reader
  <2>2. CASE HasPrev(Index, r.from)
    <3>1. PICK t \in Versions : t = PrevVersion(Index, r.from) /\ Adjacent(t, r.from)
      BY <2>1, <2>2, <1>PrevFacts
    <3>2. Fits(o) => t >= r.to
      BY <2>0, <2>1, <3>1, SMT DEF Adjacent
    <3>3. LoopsAt(o, st, r.kind, t, r.to, r.count + 1)
      BY <2>1, <3>2 DEF LoopsAt
    <3> QED
      BY <2>1, <2>2, <3>1, <3>3, <1>EmitDownReading DEF downToLoop
  <2>3. CASE ~HasPrev(Index, r.from)
    <3>0. Adjacent(NilVersion, r.from)
      BY <2>1, <2>3, <1>UndoFirst
    <3>1. ~Fits(o)
      BY <2>0, <2>1, <3>0, SMT DEF Adjacent, NilVersion
    <3>2. CASE r.to = -1
      <4>1. PICK m \in Item : m = newMigration(r.from, -1) /\ Link(o, st, r.from, m)
        BY <2>1, <2>3, <1>UndoFirst
      <4>2. Chained(o, st, r.from, <<m>>) /\ GoodEnd(o, st, EndOf(r.from, <<m>>))
        BY <3>1, <4>1, ChainSmall DEF GoodEnd
      <4>3. downToLoop(r) = Finish(r, <<m>>) /\ <<m>> \in Seq(Item)
        BY <2>3, <3>2, <4>1, SMT DEF downToLoop
      <4>4. PICK s \in Seq(Item) : s = <<m>>
        BY <4>3
      <4>5. /\ downToLoop(r) = Finish(r, s) /\ Chained(o, st, r.from, s)
            /\ GoodEnd(o, st, EndOf(r.from, s))
        BY <4>2, <4>3, <4>4
      <4>6. Reading(o, st, r.from, Finish(r, s)) /\ Finish(r, s).pc = "send"
        BY <4>5, FinishReading
      <4> QED
        BY <4>5, <4>6
    <3>3. CASE r.to # -1
      BY <2>3, <3>1, <3>3, FailReading, SentErrors DEF downToLoop, Err
    <3> QED
      BY <3>2, <3>3
  <2> QED
    BY <2>2, <2>3
\* ErrShortLimit carries the number it is given.
<1>ShortLimit.
  ASSUME NEW n \in Int
  PROVE  \E e \in Item : e = ErrShortLimit(n) /\ e.err = "ErrShortLimit" /\ e.target = n
  <2>1. ErrShortLimit(n) \in Item
    BY ItemType
  <2>2. ErrShortLimit(n).err = "ErrShortLimit" /\ ErrShortLimit(n).target = n
    BY DEF ErrShortLimit, Err
  <2> QED
    BY <2>1, <2>2
\* The loop of readUp.
<1>ReadUpReading.
  ASSUME NarrowSource, NEW o \in Op, NEW st \in Nat \cup {NilVersion}, NEW r \in Reader,
         r.kind = "readUp", InLoop(o, st, r), LoopCond(r)
  PROVE  /\ Reading(o, st, r.from, readUpLoop(r))
         /\ readUpLoop(r).pc # "send" => GoodEnd(o, st, r.from) /\ readUpLoop(r).pc = "done"
  <2> USE <1>ReadUpReading
  <2>0. /\ r.from \in Int /\ r.to \in Int /\ r.count \in Nat /\ Versions \subseteq Nat
        /\ o.n \in Int /\ st \in Int /\ st >= NilVersion
    BY IndexType, SMT DEF Reader, Op, NilVersion
  <2>1. /\ r.from \in Versions \cup {NilVersion}
        /\ r.count = 0 => r.from = st
        /\ r.count > 0 => r.from > st
        /\ \/ o.kind = "Up" /\ r.to = -1
           \/ /\ o.kind = "Steps" /\ o.n > 0 /\ r.to = o.n /\ r.count <= r.to
              /\ Rank(r.from) - Rank(st) = r.count
    BY DEF InLoop, LoopsAt
  <2>2. r.count < r.to \/ r.to = -1
    BY DEF LoopCond
  <2>3. Rank(r.from) \in Nat /\ Rank(st) \in Nat
    BY <2>0, RankFacts
  <2>4. ASSUME NEW t \in Versions, Adjacent(r.from, t)
        PROVE  Reading(o, st, r.from, EmitUp(r, t)) /\ EmitUp(r, t).pc = "send"
    <3>1. Rank(t) = Rank(r.from) + 1 /\ t \in Nat /\ r.from < t
      BY <2>0, <2>1, <2>4, RankFacts DEF Adjacent
    <3>2. t > st /\ r.count + 1 > 0 /\ r.count + 1 # 0
      BY <2>0, <2>1, <3>1, SMTT(20)
    <3>3. o.kind = "Steps" => r.count + 1 <= r.to \/ o.kind = "Up"
      BY <2>0, <2>1, <2>2, SMT
    <3>4. Rank(r.from) - Rank(st) = r.count => Rank(t) - Rank(st) = r.count + 1
      BY <2>0, <2>3, <3>1, SMT
    <3>5. LoopsAt(o, st, r.kind, t, r.to, r.count + 1)
      BY <2>1, <3>2, <3>3, <3>4 DEF LoopsAt
    <3> QED
      BY <2>1, <2>4, <3>5, EmitUpReading
  <2>5. CASE r.from = -1 /\ HasFirst(Index)
    BY <2>4, <2>5, FirstFacts DEF readUpLoop, NilVersion
  <2>6. CASE r.from = -1 /\ ~HasFirst(Index)
    <3>1. r.from = st
      BY <2>0, <2>1, <2>6, SMT DEF NilVersion
    <3>2. readUpLoop(r) = Fail(r, Err("ErrNotExist"))
      BY <2>6 DEF readUpLoop
    <3> QED
      BY <3>1, <3>2, AbsentReading
  <2>7. CASE r.from # -1 /\ HasNext(Index, r.from)
    <3>1. r.from \in Versions
      BY <2>1, <2>7 DEF NilVersion
    <3> QED
      BY <2>4, <2>7, <3>1, <1>NextFacts DEF readUpLoop
  <2>8. CASE r.from # -1 /\ ~HasNext(Index, r.from)
    <3>0. r.from \in Versions
      BY <2>1, <2>8 DEF NilVersion
    <3>1. Rank(r.from) = Len(Index)
      BY <2>0, <2>8, <3>0, <1>NextFacts, RankFacts
    <3>2. CASE r.to = -1 /\ r.count = 0
      <4>1. r.from = st /\ NothingToDo(o, r.from)
        BY <2>0, <2>1, <3>1, <3>2, SMT DEF NothingToDo
      <4>2. readUpLoop(r) = Fail(r, Err("ErrNoChange"))
        BY <2>8, <3>2 DEF readUpLoop
      <4> QED
        BY <4>1, <4>2, NoChangeReading
    <3>3. CASE r.to = -1 /\ r.count # 0
      <4>1. readUpLoop(r) = Close(r)
        BY <2>8, <3>3 DEF readUpLoop
      <4>2. o.kind = "Up" /\ r.from # st
        BY <2>0, <2>1, <3>3, SMT
      <4>3. GoodEnd(o, st, r.from)
        BY <3>1, <4>2 DEF GoodEnd, Reached
      <4> QED
        BY <4>1, <4>3, EndShapes DEF Reading
    <3>4. CASE r.to # -1 /\ r.count = 0
      <4>1. r.from = st
        BY <2>1, <3>4
      <4>2. readUpLoop(r) = Fail(r, Err("ErrNotExist"))
        BY <2>8, <3>4 DEF readUpLoop
      <4> QED
        BY <4>1, <4>2, AbsentReading
    <3>5. CASE r.to # -1 /\ r.count # 0
      <4>1. readUpLoop(r) = Fail(r, ErrShortLimit(r.to - r.count))
        BY <2>8, <3>5 DEF readUpLoop
      <4>2. PICK e \in Item : /\ e = ErrShortLimit(r.to - r.count)
                              /\ e.err = "ErrShortLimit" /\ e.target = r.to - r.count
        <5>1. r.to - r.count \in Int
          BY <2>0, SMT
        <5> QED
          BY <5>1, <1>ShortLimit
      <4>3. o.kind = "Steps" /\ e.target > 0 /\ o.n > 0
        BY <2>0, <2>1, <2>2, <3>5, <4>2, SMT
      <4>4. Rank(r.from) - Rank(st) = o.n - e.target
        <5>1. r.to = o.n /\ Rank(r.from) - Rank(st) = r.count
          BY <2>1, <3>5
        <5>2. r.count = o.n - (o.n - r.count)
          BY <2>0, SMT
        <5> QED
          BY <4>2, <5>1, <5>2
      <4>5. Tells(o, st, r.from, e)
        BY <3>1, <4>2, <4>3, <4>4 DEF Tells
      <4> QED
        BY <4>1, <4>2, <4>5, FailReading
    <3> QED
      BY <3>2, <3>3, <3>4, <3>5
  <2> QED
    BY <2>5, <2>6, <2>7, <2>8
\* The loop of readDown.
<1>ReadDownReading.
  ASSUME NarrowSource, NEW o \in Op, NEW st \in Nat \cup {NilVersion}, NEW r \in Reader,
         r.kind = "readDown", InLoop(o, st, r), LoopCond(r)
  PROVE  Reading(o, st, r.from, readDownLoop(r)) /\ readDownLoop(r).pc = "send"
  <2> USE <1>ReadDownReading
  <2>0. /\ r.from \in Int /\ r.to \in Int /\ r.count \in Nat /\ Versions \subseteq Nat
        /\ o.n \in Int /\ st \in Int /\ st >= NilVersion
    BY IndexType, SMT DEF Reader, Op, NilVersion
  <2>1. /\ r.from \in Versions \cup {NilVersion}
        /\ r.from = NilVersion => r.to < -1
        /\ \/ o.kind = "Down" /\ r.to = -1 /\ st # NilVersion
           \/ /\ o.kind = "Steps"
              /\ Fits(o) => /\ o.n < 0 /\ r.to = -o.n /\ r.count <= r.to
                            /\ Rank(st) - Rank(r.from) = r.count
    BY DEF InLoop, LoopsAt
  <2>2. (r.count < r.to \/ r.to = -1) /\ r.from \in Versions
    BY <2>0, <2>1, SMT DEF LoopCond
  <2>3. Rank(r.from) \in Nat /\ Rank(st) \in Nat /\ Rank(NilVersion) = 0
    BY <2>0, RankFacts
  <2>4. CASE HasPrev(Index, r.from)
    <3>0. PICK t \in Versions : t = PrevVersion(Index, r.from) /\ Adjacent(t, r.from)
      BY <2>2, <2>4, <1>PrevFacts
    <3>1. Rank(r.from) = Rank(t) + 1 /\ Rank(t) \in Nat /\ t # NilVersion
      <4>1. t \in Int /\ t # NilVersion
        BY <2>0, SMT DEF NilVersion
      <4> QED
        BY <2>2, <3>0, <4>1, RankFacts
    <3>2. Fits(o) /\ o.kind = "Steps" =>
            r.count + 1 <= r.to /\ Rank(st) - Rank(t) = r.count + 1
      <4>1. SUFFICES ASSUME Fits(o), o.kind = "Steps"
                     PROVE  r.count + 1 <= r.to /\ Rank(st) - Rank(t) = r.count + 1
        OBVIOUS
      <4>2. o.n < 0 /\ r.to = -o.n /\ Rank(st) - Rank(r.from) = r.count
        BY <2>1, <4>1
      <4>3. r.count + 1 <= r.to
        BY <2>0, <2>2, <4>2, SMT
      <4>4. Rank(st) - Rank(t) = r.count + 1
        BY <2>0, <2>3, <3>1, <4>2, SMT
      <4> QED
        BY <4>3, <4>4
    <3>3. LoopsAt(o, st, r.kind, t, r.to, r.count + 1)
      BY <2>1, <3>1, <3>2 DEF LoopsAt
    <3>4. readDownLoop(r) = Emit(r, newMigration(r.from, toInt(t)))
      BY <2>4, <3>0 DEF readDownLoop
    <3>5. PICK v \in Versions : v = r.from /\ Adjacent(t, v)
      BY <2>2, <3>0
    <3>6. /\ Reading(o, st, v, Emit(r, newMigration(v, toInt(t))))
          /\ Emit(r, newMigration(v, toInt(t))).pc = "send"
      BY <3>3, <3>5, <1>EmitDownReading
    <3> QED
      BY <3>4, <3>5, <3>6
  <2>5. CASE ~HasPrev(Index, r.from)
    <3>0. HasFirst(Index) /\ r.from = FirstVersion(Index) /\ Adjacent(NilVersion, r.from)
      BY <2>2, <2>5, <1>UndoFirst
    <3>1. PICK m \in Item : /\ m = newMigration(r.from, -1) /\ Link(o, st, r.from, m)
                            /\ After(m) = NilVersion
      BY <2>2, <2>5, <1>UndoFirst
    <3>2. Rank(r.from) = 1
      BY <2>2, <2>3, <3>0, RankFacts, NumberFacts
    <3>3. CASE r.count + 1 < r.to
      <4>1. PICK e \in Item : /\ e = ErrShortLimit(r.to - (r.count + 1))
                              /\ e.err = "ErrShortLimit" /\ e.target = r.to - (r.count + 1)
        <5>1. r.to - (r.count + 1) \in Int
          BY <2>0, SMT
        <5> QED
          BY <5>1, <1>ShortLimit
      <4>2. readDownLoop(r) = Finish(r, <<m, e>>)
        BY <2>5, <3>0, <3>1, <3>3, <4>1 DEF readDownLoop
      <4>3. o.kind = "Steps"
        <5>1. r.to # -1
          BY <2>0, <3>3, SMT
        <5> QED
          BY <2>1, <5>1
      <4>4. Fits(o) => e.target > 0 /\ ~(o.n > 0) /\ Rank(NilVersion) - Rank(st) = o.n + e.target
        BY <2>0, <2>1, <2>3, <3>2, <3>3, <4>1, <4>3, SMT
      <4>5. Fits(o) => Tells(o, st, NilVersion, e)
        BY <4>1, <4>3, <4>4 DEF Tells
      <4>6. Link(o, st, After(m), e) /\ After(e) = Torn
        BY <3>1, <4>1, <4>5 DEF Link, After
      <4>7. Chained(o, st, r.from, <<m, e>>) /\ EndOf(r.from, <<m, e>>) = Torn
        <5>1. Chained(o, st, r.from, <<m, e>>)
          BY <3>1, <4>6, ChainSmall
        <5>2. EndOf(r.from, <<m, e>>) = After(e)
          BY DEF EndOf
        <5> QED
          BY <4>6, <5>1, <5>2
      <4>8. <<m, e>> \in Seq(Item)
        BY SMT
      <4>9. PICK s \in Seq(Item) : s = <<m, e>>
        BY <4>8
      <4>10. readDownLoop(r) = Finish(r, s) /\ Chained(o, st, r.from, s)
        BY <4>2, <4>7, <4>9
      <4>11. GoodEnd(o, st, EndOf(r.from, s))
        BY <4>7, <4>9 DEF GoodEnd
      <4>12. Reading(o, st, r.from, Finish(r, s)) /\ Finish(r, s).pc = "send"
        BY <4>10, <4>11, FinishReading
      <4> QED
        BY <4>10, <4>12
    <3>4. CASE ~(r.count + 1 < r.to)
      <4>1. readDownLoop(r) = Finish(r, <<m>>)
        BY <2>5, <3>0, <3>1, <3>4 DEF readDownLoop
      <4>2. Chained(o, st, r.from, <<m>>) /\ EndOf(r.from, <<m>>) = NilVersion
        BY <3>1, ChainSmall
      <4>3. o.kind = "Steps" /\ Fits(o) => Rank(NilVersion) - Rank(st) = o.n
        BY <2>0, <2>1, <2>2, <2>3, <3>2, <3>4, SMT
      <4>4. GoodEnd(o, st, NilVersion)
        BY <2>1, <4>3 DEF GoodEnd, Reached
      <4>5. <<m>> \in Seq(Item)
        BY SMT
      <4>6. PICK s \in Seq(Item) : s = <<m>>
        BY <4>5
      <4>7. /\ readDownLoop(r) = Finish(r, s) /\ Chained(o, st, r.from, s)
            /\ GoodEnd(o, st, EndOf(r.from, s))
        BY <4>1, <4>2, <4>4, <4>6
      <4>8. Reading(o, st, r.from, Finish(r, s)) /\ Finish(r, s).pc = "send"
        BY <4>7, FinishReading
      <4> QED
        BY <4>7, <4>8
    <3> QED
      BY <3>3, <3>4
  <2> QED
    BY <2>4, <2>5
<1> SUFFICES ASSUME NarrowSource, NEW o \in Op, NEW st \in Nat \cup {NilVersion}, NEW r \in Reader,
                    InLoop(o, st, r), LoopCond(r)
             PROVE  /\ Reading(o, st, r.from, Loop(r))
                    /\ Loop(r).pc = "done" => GoodEnd(o, st, r.from)
  OBVIOUS
<1>1. r.kind \in {"upTo", "downTo", "readUp", "readDown"}
  BY DEF InLoop, LoopsAt
<1>2. CASE r.kind = "upTo"
  BY <1>2, <1>UpToReading DEF Loop
<1>3. CASE r.kind = "downTo"
  BY <1>3, <1>DownToReading DEF Loop
<1>4. CASE r.kind = "readUp"
  BY <1>4, <1>ReadUpReading DEF Loop
<1>5. CASE r.kind = "readDown"
  BY <1>5, <1>ReadDownReading DEF Loop
<1> QED
  BY <1>1, <1>2, <1>3, <1>4, <1>5

\* A loop whose condition fails has done its work.
LEMMA CloseReading ==
  ASSUME NEW o \in Op, NEW st \in Nat \cup {NilVersion}, NEW r \in Reader,
         InLoop(o, st, r), ~LoopCond(r)
  PROVE  GoodEnd(o, st, r.from)
<1>0. /\ r.from \in Int /\ r.to \in Int /\ r.count \in Nat /\ Versions \subseteq Nat
      /\ o.n \in Int /\ st \in Int
  BY IndexType, SMT DEF Reader, Op, NilVersion
<1>1. SUFFICES ASSUME Fits(o)
               PROVE  Reached(o, st, r.from)
  BY DEF GoodEnd
<1>2. CASE r.kind = "upTo"
  <2>1. o.kind = "Migrate" /\ r.from = o.n /\ r.from # st
    BY <1>0, <1>1, <1>2, SMT DEF InLoop, LoopsAt, LoopCond
  <2> QED
    BY <2>1 DEF Reached
<1>3. CASE r.kind = "downTo"
  <2>1. o.kind = "Migrate" /\ r.from = o.n /\ r.from # st
    BY <1>0, <1>1, <1>3, SMT DEF InLoop, LoopsAt, LoopCond
  <2> QED
    BY <2>1 DEF Reached
<1>4. Rank(r.from) \in Nat /\ Rank(st) \in Nat
  BY <1>0, RankFacts
<1>5. CASE r.kind = "readUp"
  <2>1. ~(r.count < r.to) /\ r.to # -1
    BY <1>5 DEF LoopCond
  <2>2. o.kind = "Steps" /\ r.to = o.n /\ r.count <= r.to /\ Rank(r.from) - Rank(st) = r.count
    BY <1>5, <2>1 DEF InLoop, LoopsAt
  <2>3. r.count = o.n
    BY <1>0, <2>1, <2>2, SMT
  <2> QED
    BY <2>2, <2>3 DEF Reached
<1>6. CASE r.kind = "readDown"
  <2>1. ~(r.count < r.to) /\ r.to # -1
    BY <1>6 DEF LoopCond
  <2>2. o.kind = "Steps" /\ r.to = -o.n /\ r.count <= r.to /\ Rank(st) - Rank(r.from) = r.count
    BY <1>1, <1>6, <2>1 DEF InLoop, LoopsAt
  <2>3. r.count = -o.n
    BY <1>0, <2>1, <2>2, SMTT(20)
  <2>4. Rank(r.from) - Rank(st) = o.n
    BY <1>0, <1>4, <2>2, <2>3, SMT
  <2> QED
    BY <2>2, <2>4 DEF Reached
<1> QED
  BY <1>2, <1>3, <1>5, <1>6 DEF InLoop, LoopsAt

\* The fields of a reader that an operation starts.
LEMMA NewFields ==
  ASSUME NEW k \in Kinds, NEW f \in Int, NEW t \in Int
  PROVE  /\ NewReader(k, f, t) \in Reader
         /\ NewReader(k, f, t).kind = k /\ NewReader(k, f, t).from = f
         /\ NewReader(k, f, t).to = t /\ NewReader(k, f, t).count = 0
         /\ NewReader(k, f, t).pc = "start"
BY NewReaderType DEF NewReader, GoodReader

\* The same of a reader that has a name.
IsNew(r, k, f, t) ==
  /\ r \in Reader
  /\ r.kind = k /\ r.from = f /\ r.to = t /\ r.count = 0

LEMMA NewReaderFields ==
  ASSUME NEW k \in Kinds, NEW f \in Int, NEW t \in Int, NEW r, r = NewReader(k, f, t)
  PROVE  IsNew(r, k, f, t)
BY NewReaderType DEF NewReader, GoodReader, IsNew

\* A reader that goes to its loop without sending anything.
Enter(r, k) == [r EXCEPT !.kind = k, !.pc = "loop"]

-----------------------------------------------------------------------------
\* The reader of an operation up to its loop.
LEMMA StartReading ==
  \A o \in Op : \A st \in Nat \cup {NilVersion} : \A r :
    NarrowSource /\ o.kind \in Reads /\ o.kind # "Run" /\ EarlyResult(o) = "nil" /\ r = Operation(o, st) =>
      Reading(o, st, st, Start(r)) /\ Start(r).pc # "done"
<1>EnterReading.
  ASSUME NEW o, NEW st, NEW r \in Reader, NEW k \in Kinds,
         LoopsAt(o, st, k, r.from, r.to, r.count)
  PROVE  Reading(o, st, r.from, Enter(r, k)) /\ Enter(r, k).pc = "loop"
  <2> USE <1>EnterReading
  <2>1. PICK q : q = Enter(r, k)
    OBVIOUS
  <2>2. /\ q.pc = "loop" /\ q.kind = k /\ q.from = r.from /\ q.to = r.to
        /\ q.count = r.count
    BY <2>1 DEF Reader, Enter
  <2> QED
    BY <2>1, <2>2 DEF Reading, InLoop
\* versionExists, for a version that is not nil.
<1>ExistsVersions.
  ASSUME NEW v \in Int, versionExists(v)
  PROVE  v >= 0 => v \in Versions
  <2>1. ~(v >= 0 /\ v < 0)
    BY SMT
  <2> QED
    BY <1>ExistsVersions, <2>1 DEF versionExists
\* read up to its loops.
<1>MigrateReading.
  ASSUME NarrowSource, NEW o \in Op, o.kind = "Migrate", NEW st \in Nat \cup {NilVersion},
         NEW r, r = Migrate(st, o.n)
  PROVE  Reading(o, st, st, readStart(r)) /\ readStart(r).pc # "done"
  <2> USE <1>MigrateReading
  <2>0. o.n \in Int /\ st \in Int /\ st >= NilVersion /\ toInt(o.n) \in Int /\ Versions \subseteq Nat
    BY IndexType, StartFacts, ConversionFacts DEF Op
  <2>1. r \in Reader /\ r.from = st /\ r.to = toInt(o.n) /\ r.count = 0
    <3>1. "read" \in Kinds
      BY DEF Kinds
    <3>2. IsNew(r, "read", st, toInt(o.n))
      BY <2>0, <3>1, NewReaderFields DEF Migrate
    <3> QED
      BY <3>2 DEF IsNew
  <2>2. Fits(o) => r.to = o.n /\ o.n >= 0
    BY <2>1, ConversionFacts DEF Fits
  <2>a. r.from \in Int /\ r.to \in Int
    BY <2>0, <2>1
  <2>3. CASE ~versionExists(r.from) \/ ~versionExists(r.to)
    <3>1. readStart(r) = Fail(r, Err("ErrNotExist"))
      BY <2>3 DEF readStart
    <3> QED
      BY <2>1, <3>1, AbsentReading
  <2>4. CASE versionExists(r.from) /\ versionExists(r.to) /\ r.from = r.to
    <3>1. readStart(r) = Fail(r, Err("ErrNoChange"))
      BY <2>4 DEF readStart
    <3>2. Fits(o) => NothingToDo(o, st)
      BY <2>1, <2>2, <2>4 DEF NothingToDo
    <3> QED
      BY <2>1, <3>1, <3>2, NoChangeReading
  <2>5. CASE versionExists(r.from) /\ versionExists(r.to) /\ r.from < r.to /\ r.from # -1
    <3>1. readStart(r) = Enter(r, "upTo")
      <4>1. ~(r.from > r.to) /\ r.from # r.to
        BY <2>a, <2>5, OrderFacts
      <4> QED
        BY <2>5, <4>1 DEF readStart, Enter
    <3>2. r.from \in Versions /\ (Fits(o) => r.to \in Versions)
      BY <2>0, <2>1, <2>2, <2>5, <1>ExistsVersions, SMT DEF NilVersion
    <3>3. LoopsAt(o, st, "upTo", r.from, r.to, r.count)
      <4>1. Fits(o) => r.to = o.n /\ r.to \in Versions /\ st < r.to /\ r.from <= r.to
        BY <2>0, <2>1, <2>2, <2>5, <3>2, SMT
      <4> QED
        BY <3>2, <4>1 DEF LoopsAt
    <3>4. Reading(o, st, r.from, Enter(r, "upTo")) /\ Enter(r, "upTo").pc = "loop"
      <4>1. "upTo" \in Kinds
        BY DEF Kinds
      <4> QED
        BY <2>1, <3>3, <4>1, <1>EnterReading
    <3> QED
      BY <2>1, <3>1, <3>4
  <2>6. CASE versionExists(r.from) /\ versionExists(r.to) /\ r.from < r.to /\ r.from = -1
    <3>1. r.to \in Versions
      BY <2>0, <2>1, <2>6, <1>ExistsVersions, SMT
    <3>2. HasFirst(Index)
      BY <3>1, FirstFacts
    <3>3. PICK t \in Versions : t = FirstVersion(Index) /\ Adjacent(NilVersion, t)
      BY <3>2, FirstFacts
    <3>4. PICK q \in Reader : /\ q = [r EXCEPT !.kind = "upTo"]
                              /\ q.kind = "upTo" /\ q.to = r.to /\ q.count = 0
      <4>1. [r EXCEPT !.kind = "upTo"] \in Reader
        BY <2>1 DEF Reader, Kinds
      <4>2. /\ [r EXCEPT !.kind = "upTo"].kind = "upTo"
            /\ [r EXCEPT !.kind = "upTo"].to = r.to
            /\ [r EXCEPT !.kind = "upTo"].count = 0
        BY <2>1 DEF Reader
      <4> QED
        BY <4>1, <4>2
    <3>5. readStart(r) = EmitUp(q, t)
      <4>1. readStart(r) = EmitUp([r EXCEPT !.kind = "upTo"], FirstVersion(Index))
        <5>1. ~(r.from > r.to) /\ r.from # r.to
          BY <2>a, <2>6, OrderFacts
        <5> QED
          BY <2>6, <3>2, <5>1 DEF readStart
      <4> QED
        BY <3>3, <3>4, <4>1
    <3>6. t <= r.to /\ st = NilVersion /\ st < r.to
      BY <2>0, <2>1, <2>6, <3>1, <3>3, SMT DEF Adjacent, NilVersion
    <3>7. LoopsAt(o, st, q.kind, t, q.to, q.count + 1)
      BY <2>2, <3>1, <3>4, <3>6 DEF LoopsAt
    <3> QED
      BY <3>3, <3>5, <3>6, <3>7, EmitUpReading
  <2>7. CASE versionExists(r.from) /\ versionExists(r.to) /\ r.from > r.to
    <3>1. readStart(r) = Enter(r, "downTo")
      <4>1. r.from # r.to
        BY <2>a, <2>7, OrderFacts
      <4> QED
        BY <2>7, <4>1 DEF readStart, Enter
    <3>2. r.from \in Versions \cup {NilVersion} /\ (Fits(o) => r.to \in Versions)
      BY <2>0, <2>1, <2>2, <2>7, <1>ExistsVersions, SMT DEF NilVersion
    <3>3. LoopsAt(o, st, "downTo", r.from, r.to, r.count)
      <4>1. Fits(o) => r.to = o.n /\ r.to \in Versions /\ st > r.to /\ r.from >= r.to
        BY <2>0, <2>1, <2>2, <2>7, <3>2, SMT
      <4> QED
        BY <3>2, <4>1 DEF LoopsAt
    <3>4. Reading(o, st, r.from, Enter(r, "downTo")) /\ Enter(r, "downTo").pc = "loop"
      <4>1. "downTo" \in Kinds
        BY DEF Kinds
      <4> QED
        BY <2>1, <3>3, <4>1, <1>EnterReading
    <3> QED
      BY <2>1, <3>1, <3>4
  <2>8. r.from < r.to \/ r.from = r.to \/ r.from > r.to
    BY <2>a, OrderFacts
  <2> QED
    BY <2>3, <2>4, <2>5, <2>6, <2>7, <2>8
\* readUp up to its loop.
<1>UpReading.
  ASSUME NEW o \in Op, NEW st \in Nat \cup {NilVersion}, NEW n \in Int, NEW r,
         r = NewReader("readUp", st, n),
         \/ o.kind = "Up" /\ n = -1
         \/ o.kind = "Steps" /\ o.n > 0 /\ n = o.n
  PROVE  Reading(o, st, st, readUpStart(r)) /\ readUpStart(r).pc # "done"
  <2> USE <1>UpReading
  <2>0. st \in Int /\ st >= NilVersion /\ Rank(st) \in Nat
    BY RankFacts, StartFacts
  <2>1. r \in Reader /\ r.kind = "readUp" /\ r.from = st /\ r.to = n /\ r.count = 0
    <3>1. "readUp" \in Kinds
      BY DEF Kinds
    <3>2. IsNew(r, "readUp", st, n)
      BY <2>0, <3>1, NewReaderFields
    <3> QED
      BY <3>2 DEF IsNew
  <2>2. CASE ~versionExists(r.from)
    <3>1. readUpStart(r) = Fail(r, Err("ErrNotExist"))
      BY <2>2 DEF readUpStart
    <3> QED
      BY <2>1, <3>1, AbsentReading
  <2>3. CASE versionExists(r.from)
    <3>0. r.to # 0 /\ o.n \in Int
      BY <2>1, SMT DEF Op
    <3>1. readUpStart(r) = [r EXCEPT !.pc = "loop"]
      BY <2>3, <3>0 DEF readUpStart
    <3>2. r.from \in Versions \cup {NilVersion}
      BY <2>0, <2>1, <2>3, <1>ExistsVersions, SMT DEF NilVersion
    <3>3. LoopsAt(o, st, "readUp", r.from, r.to, r.count)
      <4>1. r.count = 0 /\ r.from = st /\ ~(r.count > 0)
        BY <2>1, SMT
      <4>2. o.kind = "Steps" /\ n = o.n => (r.to = o.n /\ r.count <= r.to) \/ ~(o.n > 0)
        BY <2>1, <3>0, SMT
      <4>3. Rank(r.from) - Rank(st) = r.count
        BY <2>0, <2>1, SMT
      <4> QED
        BY <2>1, <3>2, <4>1, <4>2, <4>3 DEF LoopsAt
    <3>4. Reading(o, st, r.from, Enter(r, "readUp")) /\ Enter(r, "readUp").pc = "loop"
      <4>1. "readUp" \in Kinds
        BY DEF Kinds
      <4> QED
        BY <2>1, <3>3, <4>1, <1>EnterReading
    <3>5. [r EXCEPT !.pc = "loop"] = Enter(r, "readUp")
      BY <2>1 DEF Enter, Reader
    <3> QED
      BY <2>1, <3>1, <3>4, <3>5
  <2> QED
    BY <2>2, <2>3
\* readDown up to its loop.
<1>DownReading.
  ASSUME NEW o \in Op, NEW st \in Nat \cup {NilVersion}, NEW n \in Int, NEW r,
         r = NewReader("readDown", st, n),
         \/ o.kind = "Down" /\ n = -1
         \/ o.kind = "Steps" /\ o.n < 0 /\ n = negInt(o.n)
  PROVE  Reading(o, st, st, readDownStart(r)) /\ readDownStart(r).pc # "done"
  <2> USE <1>DownReading
  <2>0. st \in Int /\ st >= NilVersion /\ Rank(st) \in Nat /\ o.n \in Int
    BY RankFacts, StartFacts DEF Op
  <2>1. r \in Reader /\ r.kind = "readDown" /\ r.from = st /\ r.to = n /\ r.count = 0
    <3>1. "readDown" \in Kinds
      BY DEF Kinds
    <3>2. IsNew(r, "readDown", st, n)
      BY <2>0, <3>1, NewReaderFields
    <3> QED
      BY <3>2 DEF IsNew
  <2>2. Fits(o) /\ o.kind = "Steps" => n = -o.n
    BY DEF Fits, negInt
  <2>3. n # 0
    BY <2>0, ConversionFacts, NumberFacts
  <2>4. CASE ~versionExists(r.from)
    <3>1. readDownStart(r) = Fail(r, Err("ErrNotExist"))
      BY <2>4 DEF readDownStart
    <3> QED
      BY <2>1, <3>1, AbsentReading
  <2>5. CASE versionExists(r.from) /\ r.from = -1 /\ r.to = -1
    <3>1. readDownStart(r) = Fail(r, Err("ErrNoChange"))
      BY <2>5 DEF readDownStart
    <3>2. Fits(o) => o.kind = "Down"
      BY <2>0, <2>1, <2>2, <2>5, SMT
    <3>3. Fits(o) => NothingToDo(o, st)
      BY <2>1, <2>5, <3>2 DEF NothingToDo, NilVersion
    <3> QED
      BY <2>1, <3>1, <3>3, NoChangeReading
  <2>6. CASE versionExists(r.from) /\ r.from = -1 /\ r.to > 0
    <3>1. readDownStart(r) = Fail(r, Err("ErrNotExist"))
      BY <2>1, <2>6, SMT DEF readDownStart
    <3> QED
      BY <2>1, <3>1, AbsentReading
  <2>7. CASE versionExists(r.from) /\ ~(r.from = -1 /\ (r.to = -1 \/ r.to > 0))
    <3>1. readDownStart(r) = [r EXCEPT !.pc = "loop"]
      BY <2>1, <2>3, <2>7 DEF readDownStart
    <3>2. r.from \in Versions \cup {NilVersion} /\ (r.from = NilVersion => r.to < -1)
      BY <2>0, <2>1, <2>3, <2>7, <1>ExistsVersions, SMT DEF NilVersion
    <3>3. o.kind = "Down" => st # NilVersion
      BY <2>1, <2>7 DEF NilVersion
    <3>4. o.kind = "Steps" /\ Fits(o) =>
            o.n < 0 /\ r.to = -o.n /\ r.count <= r.to /\ Rank(st) - Rank(r.from) = r.count
      BY <2>0, <2>1, <2>2, SMT
    <3>5. LoopsAt(o, st, "readDown", r.from, r.to, r.count)
      <4>1. o.kind = "Down" => r.to = -1
        BY <2>1
      <4>2. o.kind \in {"Down", "Steps"}
        OBVIOUS
      <4> QED
        BY <3>2, <3>3, <3>4, <4>1, <4>2 DEF LoopsAt
    <3>6. Reading(o, st, r.from, Enter(r, "readDown")) /\ Enter(r, "readDown").pc = "loop"
      <4>1. "readDown" \in Kinds
        BY DEF Kinds
      <4> QED
        BY <2>1, <3>5, <4>1, <1>EnterReading
    <3>7. [r EXCEPT !.pc = "loop"] = Enter(r, "readDown")
      BY <2>1 DEF Enter, Reader
    <3> QED
      BY <2>1, <3>1, <3>6, <3>7
  <2> QED
    BY <2>1, <2>4, <2>5, <2>6, <2>7
<1> SUFFICES ASSUME NarrowSource, NEW o \in Op, o.kind \in Reads, o.kind # "Run", EarlyResult(o) = "nil",
                    NEW st \in Nat \cup {NilVersion}, NEW r, r = Operation(o, st)
             PROVE  Reading(o, st, st, Start(r)) /\ Start(r).pc # "done"
  OBVIOUS
<1>0. o.n \in Int /\ st \in Int /\ -1 \in Int /\ negInt(o.n) \in Int /\ toInt(o.n) \in Int
  BY ConversionType, MaxIntAssumption, SMT DEF Op, NilVersion, toInt, MaxUint
<1>1. CASE o.kind = "Migrate"
  <2>1. r = Migrate(st, o.n)
    BY <1>1 DEF Operation
  <2>2. Start(r) = readStart(r)
    BY <1>0, <2>1, NewFields, SMT DEF Start, Migrate, Kinds
  <2> QED
    BY <1>1, <2>1, <2>2, <1>MigrateReading
<1>2. CASE o.kind = "Up"
  <2>1. r = NewReader("readUp", st, -1)
    BY <1>2 DEF Operation, Up
  <2>2. Start(r) = readUpStart(r)
    BY <1>0, <2>1, NewFields, SMT DEF Start, Kinds
  <2> QED
    BY <1>0, <1>2, <2>1, <2>2, <1>UpReading
<1>3. CASE o.kind = "Down"
  <2>1. r = NewReader("readDown", st, -1)
    BY <1>3 DEF Operation, Down
  <2>2. Start(r) = readDownStart(r)
    BY <1>0, <2>1, NewFields, SMT DEF Start, Kinds
  <2> QED
    BY <1>0, <1>3, <2>1, <2>2, <1>DownReading
<1>4. CASE o.kind = "Steps" /\ o.n > 0
  <2>1. r = NewReader("readUp", st, o.n)
    BY <1>4 DEF Operation, Steps
  <2>2. Start(r) = readUpStart(r)
    BY <1>0, <2>1, NewFields, SMT DEF Start, Kinds
  <2> QED
    BY <1>0, <1>4, <2>1, <2>2, <1>UpReading
<1>5. CASE o.kind = "Steps" /\ ~(o.n > 0)
  <2>1. r = NewReader("readDown", st, negInt(o.n))
    BY <1>5 DEF Operation, Steps
  <2>2. Start(r) = readDownStart(r)
    BY <1>0, <2>1, NewFields, SMT DEF Start, Kinds
  <2>3. o.n < 0
    BY <1>0, <1>5, SMT DEF EarlyResult
  <2> QED
    BY <1>0, <1>5, <2>1, <2>2, <2>3, <1>DownReading
<1> QED
  BY <1>1, <1>2, <1>3, <1>4, <1>5 DEF Reads

\* Adding an item to a chain.
LEMMA ChainAppend ==
  ASSUME NEW o, NEW st, NEW v, NEW s \in Seq(Item), NEW m \in Item,
         Chained(o, st, v, s), Link(o, st, EndOf(v, s), m)
  PROVE  Chained(o, st, v, Append(s, m)) /\ EndOf(v, Append(s, m)) = After(m)
<1>1. PICK t \in Seq(Item) : /\ t = Append(s, m)
                             /\ Len(s) \in Nat /\ Len(t) = Len(s) + 1 /\ t[Len(t)] = m
                             /\ \A k \in 1..Len(s) : t[k] = s[k]
  BY AppendProperties
<1>2. Len(s) \in Nat /\ Len(t) = Len(s) + 1 /\ t[Len(t)] = m
  BY <1>1
<1>3. \A k \in 1..Len(s) : t[k] = s[k]
  BY <1>1
<1>4. EndOf(v, t) = After(m)
  <2>1. t # <<>>
    BY <1>2, SMT
  <2> QED
    BY <1>2, <2>1 DEF EndOf
<1>5. ASSUME NEW k \in 1..Len(t)
      PROVE  Link(o, st, IF k = 1 THEN v ELSE After(t[k-1]), t[k])
  <2>1. CASE k = Len(t)
    <3>1. CASE Len(s) = 0
      <4>1. s = <<>> /\ k = 1
        BY <1>2, <2>1, <3>1, SMT
      <4> QED
        BY <1>2, <2>1, <4>1 DEF EndOf
    <3>2. CASE Len(s) # 0
      <4>1. s # <<>> /\ k # 1 /\ k - 1 = Len(s) /\ Len(s) \in 1..Len(s)
        BY <1>2, <2>1, <3>2, SMT
      <4>2. t[k-1] = s[Len(s)]
        BY <1>3, <4>1
      <4> QED
        BY <1>2, <2>1, <4>1, <4>2 DEF EndOf
    <3> QED
      BY <3>1, <3>2
  <2>2. CASE k # Len(t)
    <3>1. k \in 1..Len(s) /\ t[k] = s[k]
      BY <1>2, <1>3, <2>2, SMT
    <3>2. CASE k = 1
      BY <3>1, <3>2 DEF Chained
    <3>3. CASE k # 1
      <4>1. k - 1 \in 1..Len(s)
        BY <1>2, <3>1, <3>3, SMT
      <4>2. t[k-1] = s[k-1]
        BY <1>3, <4>1
      <4> QED
        BY <3>1, <3>3, <4>2 DEF Chained
    <3> QED
      BY <3>2, <3>3
  <2> QED
    BY <2>1, <2>2
<1> QED
  BY <1>1, <1>4, <1>5 DEF Chained

\* A send: the item goes to the end of the channel.
LEMMA SentReading ==
  ASSUME NEW o, NEW st, NEW v, NEW c \in Seq(Item), NEW r \in Reader,
         r.pc = "send", r.pend # <<>>, Chained(o, st, v, c), Reading(o, st, EndOf(v, c), r)
  PROVE  /\ Chained(o, st, v, Append(c, Head(r.pend)))
         /\ Reading(o, st, EndOf(v, Append(c, Head(r.pend))), Sent(r))
         /\ Sent(r).pc = "done" => GoodEnd(o, st, EndOf(v, Append(c, Head(r.pend))))
<1>0. r.pend \in Seq(Item) /\ Len(r.pend) \in Nat /\ Len(r.pend) >= 1 /\ <<>> \in Seq(Item)
  <2>1. r.pend \in Seq(Item)
    BY DEF Reader
  <2> QED
    BY <2>1, EmptySeq, SMT
<1>1. PICK m \in Item : m = Head(r.pend) /\ m = r.pend[1]
  BY <1>0, SMT
<1>2. Chained(o, st, EndOf(v, c), r.pend)
  BY ZenonT(30) DEF Reading
<1>3. /\ Link(o, st, EndOf(v, c), m)
      /\ Chained(o, st, After(m), Tail(r.pend))
      /\ EndOf(After(m), Tail(r.pend)) = EndOf(EndOf(v, c), r.pend)
  <2>1. PICK s \in Seq(Item) : s = r.pend
    BY <1>0
  <2>2. PICK u : u = EndOf(v, c)
    OBVIOUS
  <2>3. s # <<>> /\ m = Head(s) /\ Chained(o, st, u, s)
    BY <1>1, <1>2, <2>1, <2>2
  <2>4. HeadLinked(o, st, u, s)
    BY <2>3, ChainHead
  <2> QED
    BY <2>1, <2>2, <2>3, <2>4 DEF HeadLinked
<1>4. PICK d : d = Append(c, m) /\ Chained(o, st, v, d) /\ EndOf(v, d) = After(m)
  BY <1>3, ChainAppend
<1>5. CASE Len(r.pend) > 1
  <2>0. Tail(r.pend) \in Seq(Item)
    BY <1>0, SMT
  <2>1. PICK q : q = Sent(r) /\ q.pc = "send" /\ q.then = r.then /\ q.pend = Tail(r.pend)
    <3>1. Sent(r) = [r EXCEPT !.pend = Tail(r.pend)]
      BY <1>5 DEF Sent, Reader
    <3>2. /\ [r EXCEPT !.pend = Tail(r.pend)].pc = "send"
          /\ [r EXCEPT !.pend = Tail(r.pend)].then = r.then
          /\ [r EXCEPT !.pend = Tail(r.pend)].pend = Tail(r.pend)
      BY <2>0 DEF Reader
    <3> QED
      BY <3>1, <3>2
  <2>2. r.then = "done"
    <3>0. ~(1 > 1)
      BY SMT
    <3>1. Len(r.pend) # 1
      BY <1>5, <3>0
    <3>2. r.then # "loop"
      BY <3>1 DEF Reading
    <3> QED
      BY <3>2 DEF Reader
  <2>3. GoodEnd(o, st, EndOf(After(m), Tail(r.pend)))
    BY <1>3, <2>2 DEF Reading
  <2>4. Reading(o, st, After(m), q) /\ q.pc # "done"
    BY <1>3, <2>1, <2>2, <2>3 DEF Reading
  <2> QED
    BY <1>1, <1>4, <2>1, <2>4
<1>6. CASE ~(Len(r.pend) > 1)
  <2>0. Len(r.pend) = 1
    <3>1. \A k \in Nat : k >= 1 /\ ~(k > 1) => k = 1
      BY SMT
    <3> QED
      BY <1>0, <1>6, <3>1
  <2>1. EndOf(EndOf(v, c), r.pend) = After(m)
    BY <1>1, <2>0 DEF EndOf
  <2>2. PICK q : /\ q = Sent(r) /\ q.pc = r.then /\ q.kind = r.kind /\ q.from = r.from
                 /\ q.to = r.to /\ q.count = r.count
    <3>1. Sent(r) = [r EXCEPT !.pend = <<>>, !.pc = r.then]
      BY <1>6 DEF Sent
    <3>2. /\ Sent(r).pc = r.then /\ Sent(r).kind = r.kind /\ Sent(r).from = r.from
          /\ Sent(r).to = r.to /\ Sent(r).count = r.count
      BY <3>1 DEF Reader
    <3> QED
      BY <3>2
  <2>3. r.then = "loop" \/ r.then = "done"
    BY DEF Reader
  <2>4. CASE r.then = "loop"
    <3>1. m.err = "nil" /\ r.from = m.target /\ InLoop(o, st, r)
      BY <1>1, <2>4 DEF Reading
    <3>2. q.from = After(m) /\ InLoop(o, st, q)
      BY <2>2, <3>1 DEF After, InLoop
    <3>3. Reading(o, st, After(m), q) /\ q.pc # "done"
      BY <2>2, <2>4, <3>2 DEF Reading
    <3> QED
      BY <1>1, <1>4, <2>2, <3>3
  <2>5. CASE r.then = "done"
    <3>1. GoodEnd(o, st, After(m))
      BY <2>1, <2>5 DEF Reading
    <3>2. Reading(o, st, After(m), q)
      BY <2>2, <2>5 DEF Reading
    <3> QED
      BY <1>1, <1>4, <2>2, <3>1, <3>2
  <2> QED
    BY <2>3, <2>4, <2>5
<1> QED
  BY <1>5, <1>6

-----------------------------------------------------------------------------
(***************************************************************************)
(* The inductive invariant of the order of migrations.                     *)
(***************************************************************************)
Running == {"recv", "got", "stopping", "dirty", "body", "clean"}

\* The version after the migration at hand.
Ahead(p) == IF pc[p] \in {"got", "stopping", "dirty"} THEN After(cur[p]) ELSE version

\* The process has not been asked to stop, or it has, and counts.
NoStop(p) ==
  /\ afterStop[p] >= -1
  /\ afterStop[p] = -1 => /\ stopCh[p] = 0 /\ ~isGracefulStop[p] /\ ~strayStop[p]
                          /\ rd[p].pc # "stopping" /\ pc[p] # "stopping"

\* From version v on: what is in the channel c, and what the reader r will send; a is
\* -1 if nobody has asked for a stop.
Flow(o, st, v, c, r, a) ==
  /\ st \in Nat \cup {NilVersion}
  /\ Chained(o, st, v, c)
  /\ Reading(o, st, EndOf(v, c), r)
  /\ r.pc = "done" /\ a = -1 => GoodEnd(o, st, EndOf(v, c))

OrderOf(p) ==
  /\ NoStop(p)
  /\ pc[p] \in Running =>
       /\ op[p].kind \in Reads
       /\ Flow(op[p], start[p], Ahead(p), ch[p], rd[p], afterStop[p])
       /\ pc[p] \in {"got", "stopping", "dirty"} => Link(op[p], start[p], version, cur[p])
       /\ pc[p] = "body" /\ tracked /\ op[p].kind # "Run" => Follows(schema, cur[p])
  /\ pc[p] = "unlock" /\ op[p].kind \in Reads /\ afterStop[p] = -1 /\ Fits(op[p]) =>
       Tells(op[p], start[p], version, result[p])

OrderInv == \A p \in Procs : OrderOf(p)

\* Every step keeps the invariant.
LEMMA OrderStep ==
  Narrow /\ EngineInv /\ OrderInv /\ [Next]_vars =>
    OrderInv'
\* The reader that an operation starts.
<1>OperationReading.
  ASSUME NEW o \in Ops, o.kind \in Reads, EarlyResult(o) = "nil",
         NEW st \in Nat \cup {NilVersion}
  PROVE  /\ Reading(o, st, st, Operation(o, st))
         /\ Operation(o, st).pc \in {"start", "send"}
  <2> USE <1>OperationReading
  <2>0. /\ o.n \in Int /\ st \in Int /\ -1 \in Int /\ negInt(o.n) \in Int /\ toInt(o.n) \in Int
        /\ o.list \in Seq(Item)
    BY ConversionType, ConversionFacts, StartFacts, NumberFacts, MigrateAssumption DEF Op
  <2>1. CASE o.kind # "Run"
    <3>1. Operation(o, st).pc = "start"
      BY <2>0, <2>1, NewFields, SMT DEF Reads, Operation, Migrate, Steps, Up, Down, Kinds
    <3> QED
      BY <2>1, <3>1 DEF Reading
  <2>2. CASE o.kind = "Run"
    <3>1. o.list # <<>>
      BY <2>2 DEF EarlyResult
    <3>2. Operation(o, st) = Run(st, o.list)
      BY <2>2 DEF Operation
    <3>3. PICK q \in Reader : q = NewReader("feed", st, 0)
      <4>1. "feed" \in Kinds /\ 0 \in Int
        BY NumberFacts DEF Kinds
      <4> QED
        BY <2>0, <4>1, NewFields
    <3>4. Run(st, o.list) = [q EXCEPT !.pend = o.list, !.then = "done", !.pc = "send"]
      BY <3>3 DEF Run
    <3>5. PICK r : r = Operation(o, st) /\ r.pend = o.list /\ r.then = "done" /\ r.pc = "send"
      <4>1. /\ Run(st, o.list).pend = o.list /\ Run(st, o.list).then = "done"
            /\ Run(st, o.list).pc = "send"
        BY <3>3, <3>4 DEF Reader
      <4> QED
        BY <3>2, <4>1
    <3>6. \A k \in 1..Len(o.list) : o.list[k].err = "nil"
      BY <2>0, MigrateAssumption, SMT
    <3>7. Chained(o, st, st, o.list)
      BY <2>2, <3>6 DEF Chained, Link
    <3>8. Len(o.list) \in 1..Len(o.list)
      BY <2>0, <3>1, EmptySeq, SMT
    <3>9. EndOf(st, o.list) = o.list[Len(o.list)].target
      BY <3>1, <3>6, <3>8 DEF EndOf, After
    <3>10. GoodEnd(o, st, EndOf(st, o.list))
      BY <2>2, <3>9 DEF GoodEnd, Reached
    <3> QED
      BY <3>5, <3>7, <3>10 DEF Reading
  <2> QED
    BY <2>1, <2>2
\* Where the pieces of a reader's code leave it.
<1>PcShapes.
  ASSUME NEW r \in Reader
  PROVE  /\ Start(r).pc # "stopping" /\ Loop(r).pc # "stopping"
         /\ r.pc = "send" => Sent(r).pc # "stopping"
         /\ Fail(r, Err("error")).pc = "send" /\ Close(r).pc = "done"
  <2>0. ASSUME NEW q \in Reader
        PROVE  /\ \A m : Emit(q, m).pc = "send"
               /\ \A s : Finish(q, s).pc = "send"
               /\ \A e : Fail(q, e).pc = "send"
    <3>1. ASSUME NEW s, NEW t
          PROVE  Sending(q, s, t).pc = "send"
      BY DEF Sending, Reader
    <3>2. ASSUME NEW m
          PROVE  Emit(q, m).pc = "send"
      <4>1. Sending(q, <<m>>, "loop").pc = "send"
        BY <3>1
      <4>2. \A u : u.pc = [u EXCEPT !.from = m.target, !.count = q.count + 1].pc
        BY SMT
      <4> QED
        BY <4>1, <4>2 DEF Emit
    <3> QED
      BY <3>1, <3>2 DEF Finish, Fail
  <2>1. Close(r).pc = "done" /\ [r EXCEPT !.pc = "loop"].pc = "loop"
    BY DEF Close, Reader
  <2>2. readStart(r).pc # "stopping"
    <3>1. PICK u \in Reader : u = [r EXCEPT !.kind = "upTo"]
      <4>1. [r EXCEPT !.kind = "upTo"] \in Reader
        BY DEF Reader, Kinds
      <4> QED
        BY <4>1
    <3>2. EmitUp(u, FirstVersion(Index)).pc = "send"
      BY <2>0 DEF EmitUp
    <3>3. /\ [r EXCEPT !.kind = "upTo", !.pc = "loop"].pc = "loop"
          /\ [r EXCEPT !.kind = "downTo", !.pc = "loop"].pc = "loop"
      BY DEF Reader
    <3> QED
      BY <2>0, <3>1, <3>2, <3>3 DEF readStart
  <2>3. readUpStart(r).pc # "stopping" /\ readDownStart(r).pc # "stopping"
    BY <2>0, <2>1 DEF readUpStart, readDownStart
  <2>4. r.pc = "send" => Sent(r).pc # "stopping"
    BY DEF Sent, Reader
  <2>5. upToLoop(r).pc # "stopping" /\ downToLoop(r).pc # "stopping"
    BY <2>0 DEF upToLoop, downToLoop, EmitUp
  <2>6. readUpLoop(r).pc # "stopping" /\ readDownLoop(r).pc # "stopping"
    BY <2>0, <2>1 DEF readUpLoop, readDownLoop, EmitUp
  <2> QED
    BY <2>0, <2>1, <2>2, <2>3, <2>4, <2>5, <2>6 DEF Start, Loop
\* Only the owner of the lock changes the database.
<1>DbSteady.
  ASSUME NEW p \in Procs, pc[p] \notin Critical, StepBy(p)
  PROVE  UNCHANGED <<version, schema, tracked>>
  <2> USE <1>DbSteady
  <2>1. ASSUME Reset(p)
        PROVE  UNCHANGED <<version, schema, tracked>>
    BY <2>1 DEF Reset, Critical
  <2>2. CASE \/ Open(p) \/ Crash(p) \/ RequestStop(p) \/ LateLock(p) \/ SourceFailed(p)
             \/ StrayTakesStop(p) \/ \E o \in Ops : Call(p, o)
    BY <2>1, <2>2 DEF Open, Crash, RequestStop, LateLock, SourceFailed, StrayTakesStop, Call,
      ReaderGoes, dbVars
  <2>3. CASE CallStep(p)
    BY <2>3 DEF CallStep, LockRefused, LockWaits, LockGranted, LockFailed, LockTimedOut,
      ReadVersion, VersionFailed, Drop, DropFailed, ForceVersion, ForceFailed, Unlock, UnlockFailed,
      Return, GotoResult, Goto, Critical, dbVars
  <2>4. CASE ReaderStep(p)
    BY <2>1, <2>4 DEF ReaderStep, ReaderStart, ReaderLoop, ReaderPanics, ReaderSeesStop,
      ReaderTakesStop, ReaderSetsStop, ReaderSend, StraySetsStop, ReaderGoes, dbVars
  <2>5. CASE RunnerStep(p)
    BY <2>5 DEF RunnerStep, Receive, RunnerDone, RunnerSeesStop, RunnerTakesStop, RunnerSetsStop,
      RunnerGoes, SetDirty, RunBody, BodyFailed, SetClean, SetVersionFailed, GotoResult, Goto, Critical
  <2> QED
    BY <2>2, <2>3, <2>4, <2>5 DEF StepBy
\* Once a stop has been asked for, NoStop says no more than that steps are counted.
<1>Asked.
  ASSUME NEW p \in Procs, afterStop'[p] >= -1, afterStop'[p] # -1
  PROVE  NoStop(p)'
  BY <1>Asked DEF NoStop
\* A signal that is anywhere has been sent.
<1>Signalled.
  ASSUME NEW p \in Procs, NoStop(p),
         \/ stopCh[p] = 1 \/ isGracefulStop[p] \/ strayStop[p]
         \/ rd[p].pc = "stopping" \/ pc[p] = "stopping"
  PROVE  afterStop[p] >= -1 /\ afterStop[p] # -1
  BY <1>Signalled, SmallNumbers DEF NoStop
\* A step that leaves what OrderOf(q) speaks of alone.
<1>OrderKept.
  ASSUME NEW q \in Procs, OrderOf(q), Untouched(q),
         pc[q] \in Critical => UNCHANGED <<version, schema, tracked>>
  PROVE  OrderOf(q)'
  <2> USE <1>OrderKept
  <2>1. NoStop(q)'
    BY DEF OrderOf, NoStop, Untouched
  <2>2. CASE pc[q] \in Critical
    <3>1. Ahead(q)' = Ahead(q)
      BY <2>2 DEF Ahead, Untouched
    <3>2. /\ Flow(op'[q], start'[q], Ahead(q)', ch'[q], rd'[q], afterStop'[q])
               = Flow(op[q], start[q], Ahead(q), ch[q], rd[q], afterStop[q])
          /\ Link(op'[q], start'[q], version', cur'[q]) = Link(op[q], start[q], version, cur[q])
          /\ Follows(schema', cur'[q]) = Follows(schema, cur[q])
          /\ Tells(op'[q], start'[q], version', result'[q]) = Tells(op[q], start[q], version, result[q])
          /\ pc'[q] = pc[q] /\ op'[q] = op[q] /\ afterStop'[q] = afterStop[q] /\ tracked' = tracked
      BY <2>2, <3>1 DEF Untouched
    <3> QED
      BY <2>1, <3>2 DEF OrderOf
  <2>3. CASE pc[q] \notin Critical
    <3>1. pc'[q] \notin Running /\ pc'[q] # "unlock"
      BY <2>3 DEF Untouched, Running, Critical
    <3> QED
      BY <2>1, <3>1 DEF OrderOf
  <2> QED
    BY <2>2, <2>3
\* A step of another process.
<1>OthersOrder.
  ASSUME TypeInv, LockInv, NEW p \in Procs, NEW q \in Procs, q # p, StepBy(p), OrderOf(q)
  PROVE  OrderOf(q)'
  <2> USE <1>OthersOrder
  <2>1. Untouched(q)
    BY OthersKeep
  <2>2. pc[q] \in Critical => pc[p] \notin Critical
    BY DEF LockInv
  <2> QED
    BY <2>1, <2>2, <1>DbSteady, <1>OrderKept
\* The operator mends the schema, or nothing happens.
<1>RepairOrder.
  ASSUME TypeInv, LockInv, NEW q \in Procs, Repair \/ UNCHANGED vars, OrderOf(q)
  PROVE  OrderOf(q)'
  <2> USE <1>RepairOrder
  <2>1. Untouched(q)
    BY DEF Repair, vars, readerVars, stopVars, callVars, Untouched
  <2>2. Repair => pc[q] \notin Critical
    BY MigrateAssumption DEF Repair, LockInv
  <2>3. UNCHANGED vars => UNCHANGED <<version, schema, tracked>>
    BY DEF vars, dbVars
  <2> QED
    BY <2>1, <2>2, <2>3, <1>OrderKept
\* Steps that do not concern the stop signal.
<1>NoStopKept.
  ASSUME NEW p \in Procs, NoStop(p), afterStop'[p] = afterStop[p], stopCh'[p] = stopCh[p],
         isGracefulStop'[p] = isGracefulStop[p], strayStop'[p] = strayStop[p],
         rd'[p] = rd[p] \/ rd'[p].pc # "stopping",
         pc'[p] = pc[p] \/ pc'[p] # "stopping"
  PROVE  NoStop(p)'
  BY <1>NoStopKept DEF NoStop
\* A process that was reset, or whose operation is not running.
<1>ResetOrder.
  ASSUME TypeInv, NEW p \in Procs, Reset(p)
  PROVE  OrderOf(p)'
  <2> USE <1>ResetOrder
  <2>1. /\ pc'[p] = "closed" /\ rd'[p] = NoReader /\ strayStop'[p] = FALSE /\ stopCh'[p] = 0
        /\ isGracefulStop'[p] = FALSE /\ afterStop'[p] = -1
    BY DEF Reset, TypeInv, ReaderInv, ReaderTypeOK, StopTypeOK, CallInv, CallTypeOK
  <2>2. NoReader.pc = "done"
    BY DEF NoReader, NewReader
  <2>3. NoStop(p)'
    BY <2>1, <2>2, SmallNumbers DEF NoStop
  <2> QED
    BY <2>1, <2>3 DEF OrderOf, Running
\* Steps of the caller outside of runMigrations.
<1>CallOrder.
  ASSUME TypeInv, NEW p \in Procs, OrderOf(p),
         \/ Open(p) \/ (\E o \in Ops : Call(p, o)) \/ LockRefused(p) \/ LockWaits(p)
         \/ LockGranted(p) \/ LockFailed(p) \/ LockTimedOut(p) \/ VersionFailed(p) \/ Drop(p)
         \/ DropFailed(p) \/ ForceVersion(p) \/ ForceFailed(p) \/ Unlock(p) \/ UnlockFailed(p)
  PROVE  OrderOf(p)'
  <2> USE <1>CallOrder
  <2>1. UNCHANGED <<readerVars, stopVars>>
    BY DEF Open, Call, LockRefused, LockWaits, LockGranted, LockFailed, LockTimedOut, VersionFailed,
      Drop, DropFailed, ForceVersion, ForceFailed, Unlock, UnlockFailed, readerVars, stopVars
  <2>2. CASE \/ Open(p) \/ (\E o \in Ops : Call(p, o)) \/ LockRefused(p) \/ LockWaits(p)
             \/ LockGranted(p) \/ LockFailed(p) \/ LockTimedOut(p) \/ Unlock(p) \/ UnlockFailed(p)
    <3>1. pc'[p] \in {"idle", "lock", "locking", "held"}
      <4>1. CASE Open(p) \/ LockWaits(p) \/ LockGranted(p)
        BY <4>1 DEF Open, LockWaits, LockGranted, Goto, TypeInv, CallInv, CallTypeOK
      <4>2. CASE \E o \in Ops : Call(p, o)
        <5>1. PICK o \in Ops : Call(p, o)
          BY <4>2
        <5>2. pc' = [pc EXCEPT ![p] = "idle"] \/ pc' = [pc EXCEPT ![p] = "lock"]
          BY <5>1 DEF Call, Return, GotoResult, Goto
        <5> QED
          BY <5>2 DEF TypeInv, CallInv, CallTypeOK
      <4>3. CASE LockRefused(p) \/ LockFailed(p) \/ LockTimedOut(p) \/ Unlock(p) \/ UnlockFailed(p)
        BY <4>3 DEF LockRefused, LockFailed, LockTimedOut, Unlock, UnlockFailed,
          Return, GotoResult, Goto, TypeInv, CallInv, CallTypeOK
      <4> QED
        BY <2>2, <4>1, <4>2, <4>3
    <3>2. NoStop(p)'
      BY <2>1, <3>1, <1>NoStopKept DEF OrderOf, readerVars, stopVars
    <3> QED
      BY <3>1, <3>2 DEF OrderOf, Running
  <2>3. CASE \/ VersionFailed(p) \/ Drop(p) \/ DropFailed(p) \/ ForceVersion(p) \/ ForceFailed(p)
    <3>1. pc'[p] = "unlock" /\ op'[p] = op[p] /\ (result'[p] = Err("error") \/ op[p].kind \notin Reads)
      BY <2>3 DEF VersionFailed, Drop, DropFailed, ForceVersion, ForceFailed, GotoResult,
        Goto, Reads, TypeInv, CallInv, CallTypeOK
    <3>2. NoStop(p)'
      BY <2>1, <3>1, <1>NoStopKept DEF OrderOf, readerVars, stopVars
    <3> QED
      BY <3>1, <3>2, ErrorTells DEF OrderOf, Running
  <2> QED
    BY <2>2, <2>3
\* Steps that concern the stop signal only, or the lock.
<1>SignalOrder.
  ASSUME TypeInv, NEW p \in Procs, OrderOf(p),
         RequestStop(p) \/ LateLock(p) \/ StrayTakesStop(p) \/ StraySetsStop(p)
  PROVE  OrderOf(p)'
  <2> USE <1>SignalOrder
  <2>1. /\ UNCHANGED <<dbVars, callVars, rd, ch>>
        /\ afterStop'[p] = afterStop[p] \/ afterStop'[p] = 0
    BY DEF RequestStop, LateLock, StrayTakesStop, StraySetsStop, readerVars, stopVars,
      TypeInv, StopTypeOK
  <2>2. NoStop(p)'
    <3>1. CASE RequestStop(p)
      <4>1. afterStop'[p] = 0
        BY <3>1 DEF RequestStop, TypeInv, StopTypeOK
      <4> QED
        BY <4>1, SmallNumbers, <1>Asked
    <3>2. CASE LateLock(p)
      BY <3>2 DEF LateLock, NoStop, OrderOf, readerVars, stopVars, callVars
    <3>3. CASE StrayTakesStop(p) \/ StraySetsStop(p)
      <4>1. afterStop' = afterStop /\ (stopCh[p] = 1 \/ strayStop[p])
        BY <3>3 DEF StrayTakesStop, StraySetsStop
      <4> QED
        BY <4>1, <1>Signalled, <1>Asked DEF OrderOf
    <3> QED
      BY <3>1, <3>2, <3>3
  <2>3. Ahead(p)' = Ahead(p)
    BY <2>1 DEF Ahead, dbVars, callVars
  <2>4. /\ afterStop'[p] = -1 => afterStop[p] = -1
        /\ UNCHANGED <<version, schema, tracked, pc, op, cur, result, start, rd, ch>>
    BY <2>1, SmallNumbers DEF dbVars, callVars
  <2>5. ASSUME Flow(op[p], start[p], Ahead(p), ch[p], rd[p], afterStop[p])
        PROVE  Flow(op[p], start[p], Ahead(p), ch[p], rd[p], afterStop'[p])
    BY <2>4, <2>5 DEF Flow
  <2> QED
    BY <2>2, <2>3, <2>4, <2>5 DEF OrderOf
\* The reader is started.
<1>ReadVersionOrder.
  ASSUME TypeInv, NEW p \in Procs, OrderOf(p), ReadVersion(p)
  PROVE  OrderOf(p)'
  <2> USE <1>ReadVersionOrder
  <2>0. op[p] \in Ops /\ EarlyResult(op[p]) = "nil" /\ op[p].kind \in Reads
    <3>1. pc[p] = "held" /\ op[p].kind \notin {"Drop", "Force"}
      BY DEF ReadVersion, GotoResult, Goto
    <3>2. op[p] \in Ops /\ EarlyResult(op[p]) = "nil"
      BY <3>1 DEF TypeInv, CallInv, CallTypeOK
    <3>3. op[p].kind \in OpKinds
      BY DEF Op, TypeInv, CallInv, CallTypeOK
    <3> QED
      BY <3>1, <3>2, <3>3 DEF OpKinds, Reads
  <2>1. CASE dirty
    <3>1. pc'[p] = "unlock" /\ result'[p] = Err("ErrDirty")
      BY <2>1 DEF ReadVersion, GotoResult, Goto, TypeInv, CallInv, CallTypeOK
    <3>2. NoStop(p)'
      BY <2>1, <3>1, <1>NoStopKept DEF OrderOf, ReadVersion, readerVars, stopVars
    <3>3. Tells(op'[p], start'[p], version', Err("ErrDirty"))
      BY DEF Tells, Err
    <3> QED
      BY <3>1, <3>2, <3>3 DEF OrderOf, Running
  <2>2. CASE ~dirty
    <3>1. PICK r : r = Operation(op[p], version) /\ Reading(op[p], version, version, r)
                   /\ r.pc \in {"start", "send"}
      BY <2>0, <1>OperationReading DEF TypeInv, DbTypeOK
    <3>2. /\ pc'[p] = "recv" /\ op'[p] = op[p] /\ start'[p] = version /\ version' = version
          /\ rd'[p] = r /\ ch'[p] = <<>> /\ afterStop'[p] = afterStop[p]
      BY <2>2, <3>1 DEF ReadVersion, Goto, dbVars, stopVars, TypeInv, CallInv,
        CallTypeOK, ReaderInv, ReaderTypeOK
    <3>3. NoStop(p)'
      <4>1. stopCh'[p] = stopCh[p] /\ isGracefulStop'[p] = isGracefulStop[p]
        BY DEF ReadVersion, stopVars
      <4>2. strayStop'[p] => strayStop[p] \/ rd[p].pc = "stopping"
        BY <2>2 DEF ReadVersion, TypeInv, ReaderInv, ReaderTypeOK
      <4> QED
        BY <3>1, <3>2, <4>1, <4>2 DEF OrderOf, NoStop
    <3>4. Chained(op[p], version, version, <<>>) /\ EndOf(version, <<>>) = version
      BY ChainSmall
    <3>5. Flow(op[p], version, version, <<>>, r, afterStop[p])
      BY <3>1, <3>4 DEF Flow, TypeInv, DbTypeOK
    <3>6. Ahead(p)' = version
      BY <3>2 DEF Ahead
    <3> QED
      BY <2>0, <3>2, <3>3, <3>5, <3>6 DEF OrderOf
  <2> QED
    BY <2>1, <2>2
\* A step of the reader that changes the reader and nothing but the stop signal.
<1>GoesOrder.
  ASSUME NEW p \in Procs, OrderOf(p), NoStop(p)',
         UNCHANGED <<version, schema, tracked>>,
         pc'[p] = pc[p], op'[p] = op[p], cur'[p] = cur[p], result'[p] = result[p],
         start'[p] = start[p], ch'[p] = ch[p], afterStop'[p] = afterStop[p],
         pc[p] \in Running =>
           LET v == EndOf(Ahead(p), ch[p])
           IN  /\ Reading(op[p], start[p], v, rd'[p])
               /\ rd'[p].pc = "done" /\ afterStop[p] = -1 => GoodEnd(op[p], start[p], v)
  PROVE  OrderOf(p)'
  <2> USE <1>GoesOrder
  <2>1. Ahead(p)' = Ahead(p)
    BY DEF Ahead
  <2>2. pc[p] \in Running => Flow(op[p], start[p], Ahead(p), ch[p], rd'[p], afterStop[p])
    BY DEF OrderOf, Flow
  <2> QED
    BY <2>1, <2>2 DEF OrderOf
\* Steps of the reader up to its next send.
<1>ReaderOrder.
  ASSUME Narrow, TypeInv, NEW p \in Procs, OrderOf(p),
         \/ SourceFailed(p) \/ ReaderStart(p) \/ ReaderLoop(p) \/ ReaderSeesStop(p)
         \/ ReaderTakesStop(p) \/ ReaderSetsStop(p)
  PROVE  OrderOf(p)'
  <2> USE <1>ReaderOrder
  <2> DEFINE v == EndOf(Ahead(p), ch[p])
  <2>0. /\ rd[p] \in Reader /\ op[p] \in Op
        /\ pc[p] \in Running => op[p] \in Ops /\ EarlyResult(op[p]) = "nil"
    <3>1. pc[p] \in Running => pc[p] \notin {"closed", "idle"}
      BY DEF Running
    <3> QED
      BY <3>1 DEF TypeInv, CallInv, CallTypeOK, ReaderInv, ReaderTypeOK
  <2>1. /\ UNCHANGED <<version, schema, tracked>>
        /\ pc'[p] = pc[p] /\ op'[p] = op[p] /\ cur'[p] = cur[p] /\ result'[p] = result[p]
        /\ start'[p] = start[p] /\ ch'[p] = ch[p] /\ afterStop'[p] = afterStop[p]
        /\ strayStop'[p] = strayStop[p]
    BY DEF SourceFailed, ReaderStart, ReaderLoop, ReaderSeesStop, ReaderTakesStop, ReaderSetsStop,
      ReaderGoes, dbVars, stopVars, callVars
  <2>2. pc[p] \in Running =>
          /\ op[p].kind \in Reads /\ start[p] \in Nat \cup {NilVersion}
          /\ Reading(op[p], start[p], v, rd[p])
    BY DEF OrderOf, Flow
  <2>3. NoStop(p)
    BY DEF OrderOf
  <2> HIDE DEF v
  <2>4. ASSUME NoStop(p)',
               pc[p] \in Running =>
                 /\ Reading(op[p], start[p], v, rd'[p])
                 /\ rd'[p].pc = "done" /\ afterStop[p] = -1 => GoodEnd(op[p], start[p], v)
        PROVE  OrderOf(p)'
    BY <2>1, <2>4, <1>GoesOrder DEF v
  <2>5. CASE SourceFailed(p)
    <3>1. rd'[p] = Fail(rd[p], Err("error")) /\ UNCHANGED stopVars
      BY <2>5 DEF SourceFailed, ReaderGoes, TypeInv, ReaderInv, ReaderTypeOK
    <3>2. NoStop(p)'
      BY <2>0, <2>1, <2>3, <3>1, <1>PcShapes, <1>NoStopKept DEF stopVars
    <3>3. Reading(op[p], start[p], v, rd'[p]) /\ rd'[p].pc = "send"
      BY <2>0, <3>1, SourceReading
    <3> QED
      BY <2>4, <3>2, <3>3
  <2>6. CASE ReaderStart(p)
    <3>1. rd[p].pc = "start" /\ rd'[p] = Start(rd[p]) /\ UNCHANGED stopVars
      BY <2>6 DEF ReaderStart, ReaderGoes, TypeInv, ReaderInv, ReaderTypeOK
    <3>2. NoStop(p)'
      BY <2>0, <2>1, <2>3, <3>1, <1>PcShapes, <1>NoStopKept DEF stopVars
    <3>3. ASSUME pc[p] \in Running
          PROVE  Reading(op[p], start[p], v, rd'[p]) /\ rd'[p].pc # "done"
      <4>1. op[p].kind # "Run" /\ rd[p] = Operation(op[p], start[p]) /\ v = start[p]
        BY <2>2, <3>1, <3>3 DEF Reading
      <4> QED
        BY <2>0, <2>2, <3>1, <3>3, <4>1, StartReading DEF Narrow
    <3> QED
      BY <2>4, <3>2, <3>3
  <2>7. CASE ReaderLoop(p)
    <3>1. /\ rd[p].pc = "loop" /\ UNCHANGED stopVars
          /\ rd'[p] = IF LoopCond(rd[p]) THEN Loop(rd[p]) ELSE Close(rd[p])
      BY <2>7 DEF ReaderLoop, ReaderGoes, TypeInv, ReaderInv, ReaderTypeOK
    <3>2. NoStop(p)'
      BY <2>0, <2>1, <2>3, <3>1, <1>PcShapes, <1>NoStopKept DEF stopVars
    <3>3. pc[p] \in Running => InLoop(op[p], start[p], rd[p]) /\ v = rd[p].from
      BY <2>2, <3>1 DEF Reading
    <3>4. CASE LoopCond(rd[p])
      <4>1. ASSUME pc[p] \in Running
            PROVE  /\ Reading(op[p], start[p], v, rd'[p])
                   /\ rd'[p].pc = "done" => GoodEnd(op[p], start[p], v)
        BY <2>0, <2>2, <3>1, <3>3, <3>4, <4>1, LoopReading DEF Narrow
      <4> QED
        BY <2>4, <3>2, <4>1
    <3>5. CASE ~LoopCond(rd[p])
      <4>1. rd'[p].pc = "done"
        BY <2>0, <3>1, <3>5, <1>PcShapes
      <4>2. ASSUME pc[p] \in Running
            PROVE  Reading(op[p], start[p], v, rd'[p]) /\ GoodEnd(op[p], start[p], v)
        <5>1. GoodEnd(op[p], start[p], v)
          BY <2>0, <2>2, <3>3, <3>5, <4>2, CloseReading DEF Narrow
        <5> QED
          BY <4>1, <5>1 DEF Reading
      <4> QED
        BY <2>4, <3>2, <4>2
    <3> QED
      BY <3>4, <3>5
  <2>8. CASE ReaderSeesStop(p) \/ ReaderTakesStop(p) \/ ReaderSetsStop(p)
    <3>1. afterStop[p] # -1
      <4>1. isGracefulStop[p] \/ stopCh[p] = 1 \/ rd[p].pc = "stopping"
        BY <2>8 DEF ReaderSeesStop, ReaderTakesStop, ReaderSetsStop
      <4> QED
        BY <2>3, <4>1, <1>Signalled
    <3>2. NoStop(p)'
      BY <2>1, <2>3, <3>1 DEF NoStop
    <3>3. rd'[p].pc \in {"done", "stopping"}
      <4>1. rd'[p] = Close(rd[p]) \/ rd'[p] = [rd[p] EXCEPT !.pc = "stopping"]
        BY <2>8 DEF ReaderSeesStop, ReaderTakesStop, ReaderSetsStop, ReaderGoes,
          TypeInv, ReaderInv, ReaderTypeOK
      <4>2. Close(rd[p]).pc = "done" /\ [rd[p] EXCEPT !.pc = "stopping"].pc = "stopping"
        BY <2>0 DEF Close, Reader
      <4> QED
        BY <4>1, <4>2
    <3>4. Reading(op[p], start[p], v, rd'[p])
      BY <3>3 DEF Reading
    <3> QED
      BY <2>4, <3>1, <3>2, <3>4
  <2> QED
    BY <2>5, <2>6, <2>7, <2>8
\* A send of the reader.
<1>SendOrder.
  ASSUME TypeInv, NEW p \in Procs, OrderOf(p), ReaderSend(p)
  PROVE  OrderOf(p)'
  <2> USE <1>SendOrder
  <2>0. rd[p] \in Reader /\ rd[p].pc = "send" /\ rd[p].pend # <<>> /\ ch[p] \in Seq(Item)
    BY DEF ReaderSend, GoodReader, TypeInv, ReaderInv, ReaderTypeOK
  <2>1. /\ UNCHANGED <<version, schema, tracked>>
        /\ pc'[p] = pc[p] /\ op'[p] = op[p] /\ cur'[p] = cur[p] /\ result'[p] = result[p]
        /\ start'[p] = start[p] /\ afterStop'[p] = afterStop[p] /\ stopCh'[p] = stopCh[p]
        /\ isGracefulStop'[p] = isGracefulStop[p] /\ strayStop'[p] = strayStop[p]
    BY DEF ReaderSend, dbVars, stopVars, callVars
  <2>2. rd'[p] = Sent(rd[p]) /\ ch'[p] = Append(ch[p], Head(rd[p].pend))
    BY DEF ReaderSend, TypeInv, ReaderInv, ReaderTypeOK
  <2>3. NoStop(p)'
    BY <2>0, <2>1, <2>2, <1>PcShapes, <1>NoStopKept DEF OrderOf
  <2>4. Ahead(p)' = Ahead(p)
    BY <2>1 DEF Ahead
  <2>5. ASSUME Flow(op[p], start[p], Ahead(p), ch[p], rd[p], afterStop[p])
        PROVE  Flow(op[p], start[p], Ahead(p), ch'[p], rd'[p], afterStop[p])
    <3>1. Chained(op[p], start[p], Ahead(p), ch[p]) /\ start[p] \in Nat \cup {NilVersion}
          /\ Reading(op[p], start[p], EndOf(Ahead(p), ch[p]), rd[p])
      BY <2>5 DEF Flow
    <3> QED
      BY <2>0, <2>2, <3>1, SentReading DEF Flow
  <2> QED
    BY <2>1, <2>3, <2>4, <2>5 DEF OrderOf
\* runMigrations receives an item, or finds the channel closed.
<1>ReceiveOrder.
  ASSUME TypeInv, NEW p \in Procs, OrderOf(p), Receive(p) \/ RunnerDone(p)
  PROVE  OrderOf(p)'
  <2> USE <1>ReceiveOrder
  <2>0. /\ pc[p] = "recv" /\ UNCHANGED <<version, schema, tracked>>
        /\ op'[p] = op[p] /\ start'[p] = start[p] /\ rd'[p] = rd[p] /\ strayStop'[p] = strayStop[p]
        /\ UNCHANGED stopVars
    BY DEF Receive, RunnerDone, GotoResult, Goto, dbVars, readerVars
  <2>1. Ahead(p) = version /\ pc[p] \in Running
    BY <2>0 DEF Ahead, Running
  <2>2. /\ op[p].kind \in Reads /\ start[p] \in Nat \cup {NilVersion}
        /\ Chained(op[p], start[p], version, ch[p])
        /\ Reading(op[p], start[p], EndOf(version, ch[p]), rd[p])
        /\ rd[p].pc = "done" /\ afterStop[p] = -1 => GoodEnd(op[p], start[p], EndOf(version, ch[p]))
    BY <2>1 DEF OrderOf, Flow
  <2>3. CASE Receive(p)
    <3>1. pc'[p] = "got" /\ cur'[p] = Head(ch[p]) /\ ch'[p] = Tail(ch[p]) /\ ch[p] # <<>>
      BY <2>3 DEF Receive, Goto, TypeInv, CallInv, CallTypeOK, ReaderInv, ReaderTypeOK
    <3>2. NoStop(p)'
      BY <2>0, <3>1, <1>NoStopKept DEF OrderOf, stopVars
    <3>3. /\ Link(op[p], start[p], version, cur'[p])
          /\ Chained(op[p], start[p], After(cur'[p]), ch'[p])
          /\ EndOf(After(cur'[p]), ch'[p]) = EndOf(version, ch[p])
      <4>1. PICK c \in Seq(Item) : c = ch[p] /\ c # <<>> /\ Chained(op[p], start[p], version, c)
        BY <2>2, <3>1 DEF TypeInv, ReaderInv, ReaderTypeOK
      <4>2. /\ Link(op[p], start[p], version, Head(c))
            /\ Chained(op[p], start[p], After(Head(c)), Tail(c))
            /\ EndOf(After(Head(c)), Tail(c)) = EndOf(version, c)
        <5>1. HeadLinked(op[p], start[p], version, c)
          BY <4>1, ChainHead
        <5> QED
          BY <5>1 DEF HeadLinked
      <4>3. cur'[p] = Head(c) /\ ch'[p] = Tail(c) /\ ch[p] = c
        BY <3>1, <4>1
      <4> QED
        BY <4>2, <4>3
    <3>4. Flow(op[p], start[p], After(cur'[p]), ch'[p], rd[p], afterStop[p])
      BY <2>2, <3>3 DEF Flow
    <3>5. Ahead(p)' = After(cur'[p])
      BY <3>1 DEF Ahead
    <3> QED
      BY <2>0, <2>2, <3>1, <3>2, <3>3, <3>4, <3>5 DEF OrderOf, stopVars
  <2>4. CASE RunnerDone(p)
    <3>1. pc'[p] = "unlock" /\ result'[p] = Err("nil") /\ ch[p] = <<>> /\ rd[p].pc = "done"
      BY <2>4 DEF RunnerDone, GotoResult, Goto, TypeInv, CallInv, CallTypeOK
    <3>2. NoStop(p)'
      BY <2>0, <3>1, <1>NoStopKept DEF OrderOf, stopVars
    <3>3. afterStop[p] = -1 => GoodEnd(op[p], start[p], version)
      BY <2>2, <3>1, ChainSmall
    <3>4. version # Torn
      BY MaxIntAssumption, SMT DEF Torn, MinInt, NilVersion, TypeInv, DbTypeOK
    <3>5. afterStop[p] = -1 /\ Fits(op[p]) => Reached(op[p], start[p], version)
      BY <3>3, <3>4 DEF GoodEnd
    <3>6. afterStop[p] = -1 /\ Fits(op[p]) => Tells(op[p], start[p], version, Err("nil"))
      BY <3>5 DEF Tells, Err
    <3> QED
      BY <2>0, <3>1, <3>2, <3>6 DEF OrderOf, Running, stopVars
  <2> QED
    BY <2>3, <2>4
\* runMigrations asks for the stop signal, and takes the item or returns the error.
<1>DecideOrder.
  ASSUME TypeInv, NEW p \in Procs, OrderOf(p),
         RunnerSeesStop(p) \/ RunnerTakesStop(p) \/ RunnerSetsStop(p) \/ RunnerGoes(p)
  PROVE  OrderOf(p)'
  <2> USE <1>DecideOrder
  <2>0. /\ pc[p] \in {"got", "stopping"} /\ UNCHANGED <<version, schema, tracked>>
        /\ op'[p] = op[p] /\ start'[p] = start[p] /\ cur'[p] = cur[p] /\ afterStop'[p] = afterStop[p]
        /\ rd'[p] = rd[p] /\ ch'[p] = ch[p] /\ strayStop'[p] = strayStop[p]
    BY DEF RunnerSeesStop, RunnerTakesStop, RunnerSetsStop, RunnerGoes, GotoResult, Goto,
      dbVars, readerVars, stopVars
  <2>1. /\ op[p].kind \in Reads
        /\ Flow(op[p], start[p], After(cur[p]), ch[p], rd[p], afterStop[p])
        /\ Link(op[p], start[p], version, cur[p])
    BY <2>0 DEF OrderOf, Ahead, Running
  <2>2. ASSUME NoStop(p)', pc'[p] \in {"stopping", "dirty"}
        PROVE  OrderOf(p)'
    <3>1. Ahead(p)' = After(cur[p])
      BY <2>0, <2>2 DEF Ahead
    <3> QED
      BY <2>0, <2>1, <2>2, <3>1 DEF OrderOf
  <2>3. CASE RunnerSeesStop(p) \/ RunnerTakesStop(p) \/ RunnerSetsStop(p)
    <3>1. afterStop[p] # -1
      <4>1. isGracefulStop[p] \/ stopCh[p] = 1 \/ pc[p] = "stopping"
        BY <2>3 DEF RunnerSeesStop, RunnerTakesStop, RunnerSetsStop, GotoResult, Goto
      <4> QED
        BY <4>1, <1>Signalled DEF OrderOf
    <3>2. NoStop(p)'
      BY <2>0, <3>1 DEF NoStop, OrderOf
    <3>3. pc'[p] \in {"unlock", "stopping"}
      BY <2>3 DEF RunnerSeesStop, RunnerTakesStop, RunnerSetsStop, GotoResult, Goto,
        TypeInv, CallInv, CallTypeOK
    <3>4. CASE pc'[p] = "stopping"
      BY <2>2, <3>2, <3>4
    <3>5. CASE pc'[p] = "unlock"
      BY <2>0, <3>1, <3>2, <3>5 DEF OrderOf, Running
    <3> QED
      BY <3>3, <3>4, <3>5
  <2>4. CASE RunnerGoes(p)
    <3>1. UNCHANGED stopVars
      BY <2>4 DEF RunnerGoes
    <3>2. CASE cur[p].err # "nil"
      <4>1. pc'[p] = "unlock" /\ result'[p] = cur[p]
        BY <2>4, <3>2 DEF RunnerGoes, GotoResult, Goto, TypeInv, CallInv, CallTypeOK
      <4>2. NoStop(p)'
        BY <2>0, <3>1, <4>1, <1>NoStopKept DEF OrderOf, stopVars
      <4>3. Fits(op[p]) => Tells(op[p], start[p], version, cur[p])
        BY <2>1, <3>2 DEF Link
      <4> QED
        BY <2>0, <4>1, <4>2, <4>3 DEF OrderOf, Running
    <3>3. CASE cur[p].err = "nil"
      <4>1. pc'[p] = "dirty"
        BY <2>4, <3>3 DEF RunnerGoes, Goto, TypeInv, CallInv, CallTypeOK
      <4>2. NoStop(p)'
        BY <2>0, <3>1, <4>1, <1>NoStopKept DEF OrderOf, stopVars
      <4> QED
        BY <2>2, <4>1, <4>2
    <3> QED
      BY <3>2, <3>3
  <2> QED
    BY <2>3, <2>4
\* runMigrations runs one migration.
<1>RunOrder.
  ASSUME EngineInv, NEW p \in Procs, OrderOf(p),
         \/ SetDirty(p) \/ RunBody(p) \/ BodyFailed(p) \/ SetClean(p) \/ SetVersionFailed(p)
  PROVE  OrderOf(p)'
  <2> USE <1>RunOrder
  <2> USE DEF EngineInv
  <2>0. /\ pc[p] \in {"dirty", "body", "clean"} /\ UNCHANGED <<tracked, readerVars>>
        /\ op'[p] = op[p] /\ start'[p] = start[p] /\ cur'[p] = cur[p]
        /\ stopCh'[p] = stopCh[p] /\ isGracefulStop'[p] = isGracefulStop[p]
    BY DEF SetDirty, RunBody, BodyFailed, SetClean, SetVersionFailed, GotoResult, Goto, stopVars
  <2>1. rd'[p] = rd[p] /\ ch'[p] = ch[p] /\ strayStop'[p] = strayStop[p] /\ tracked' = tracked
    BY <2>0 DEF readerVars
  <2>2. /\ op[p].kind \in Reads
        /\ Flow(op[p], start[p], Ahead(p), ch[p], rd[p], afterStop[p])
    BY <2>0 DEF OrderOf, Running
  <2>3. cur[p].err = "nil" /\ cur[p].target \in Int /\ cur[p].target >= NilVersion
        /\ After(cur[p]) = cur[p].target
    <3>1. cur[p].err = "nil"
      BY <2>0 DEF VersionInv
    <3>2. cur[p] \in NarrowItem
      BY DEF PipeInv
    <3> QED
      BY <3>1, <3>2 DEF NarrowItem, Item, After
  <2>4. CASE BodyFailed(p) \/ SetVersionFailed(p)
    <3>1. pc'[p] = "unlock" /\ result'[p] = Err("error") /\ afterStop'[p] = afterStop[p]
      BY <2>4 DEF BodyFailed, SetVersionFailed, GotoResult, Goto, stopVars, TypeInv,
        CallInv, CallTypeOK
    <3>2. NoStop(p)'
      BY <2>0, <2>1, <3>1, <1>NoStopKept DEF OrderOf
    <3> QED
      BY <3>1, <3>2, ErrorTells DEF OrderOf, Running
  <2>5. CASE RunBody(p)
    <3>1. /\ pc[p] = "body" /\ pc'[p] = "clean" /\ afterStop'[p] = afterStop[p]
          /\ version' = version
      BY <2>5 DEF RunBody, Goto, stopVars, TypeInv, CallInv, CallTypeOK
    <3>2. NoStop(p)'
      BY <2>0, <2>1, <3>1, <1>NoStopKept DEF OrderOf
    <3>3. Ahead(p)' = Ahead(p)
      BY <3>1 DEF Ahead
    <3> QED
      BY <2>0, <2>1, <2>2, <3>1, <3>2, <3>3 DEF OrderOf
  <2>6. CASE SetClean(p)
    <3>1. /\ pc[p] = "clean" /\ pc'[p] = "recv" /\ afterStop'[p] = afterStop[p]
          /\ Stores(cur[p].target, FALSE)
      BY <2>6 DEF SetClean, Goto, stopVars, TypeInv, CallInv, CallTypeOK
    <3>2. NoStop(p)'
      BY <2>0, <2>1, <3>1, <1>NoStopKept DEF OrderOf
    <3>3. version' = version
      <4>1. version' = cur[p].target
        BY <2>3, <3>1, NarrowStores
      <4> QED
        BY <3>1, <4>1 DEF VersionInv
    <3>4. Ahead(p)' = Ahead(p)
      BY <3>1, <3>3 DEF Ahead
    <3> QED
      BY <2>0, <2>1, <2>2, <3>1, <3>2, <3>4 DEF OrderOf
  <2>7. CASE SetDirty(p)
    <3>1. /\ pc[p] = "dirty" /\ pc'[p] = IF cur[p].body THEN "body" ELSE "clean"
          /\ Stores(cur[p].target, TRUE)
          /\ schema' = IF cur[p].body THEN schema ELSE cur[p].target
      BY <2>7 DEF SetDirty, Goto, TypeInv, CallInv, CallTypeOK
    <3>2. (afterStop'[p] = -1 <=> afterStop[p] = -1) /\ afterStop'[p] >= -1
      <4>1. /\ afterStop[p] \in Int
            /\ afterStop'[p] \in {afterStop[p], afterStop[p] + 1}
            /\ afterStop[p] = -1 => afterStop'[p] = afterStop[p]
        BY <2>7 DEF SetDirty, TypeInv, StopTypeOK
      <4>2. afterStop[p] >= -1
        BY DEF OrderOf, NoStop
      <4> QED
        BY <4>1, <4>2, SmallNumbers
    <3>3. NoStop(p)'
      BY <2>0, <2>1, <3>1, <3>2 DEF OrderOf, NoStop
    <3>4. version' = cur[p].target
      BY <2>3, <3>1, NarrowStores
    <3>5. Ahead(p) = After(cur[p]) /\ Ahead(p)' = After(cur[p])
      BY <2>3, <3>1, <3>4 DEF Ahead
    <3>6. Flow(op[p], start[p], After(cur[p]), ch[p], rd[p], afterStop'[p])
      BY <2>2, <3>2, <3>5 DEF Flow
    <3>7. tracked' /\ pc'[p] = "body" /\ op'[p].kind # "Run" => Follows(schema', cur'[p])
      <4> SUFFICES ASSUME tracked', pc'[p] = "body", op'[p].kind # "Run"
                   PROVE  Follows(schema', cur'[p])
        OBVIOUS
      <4>t. tracked
        BY <2>1, StillTracked
      <4>0. op[p].kind # "Run" /\ cur'[p] = cur[p]
        BY <2>0
      <4>1. schema' = version
        BY <3>1, <4>t DEF VersionInv, VersionTellsSchema
      <4>2. Link(op[p], start[p], version, cur[p])
        BY <3>1 DEF OrderOf, Running
      <4>3. Follows(version, cur[p])
        BY <2>3, <4>0, <4>2 DEF Link
      <4> QED
        BY <4>0, <4>1, <4>3
    <3>8. pc'[p] # "unlock" /\ pc'[p] \notin {"got", "stopping", "dirty"}
      BY <3>1
    <3>9. Flow(op'[p], start'[p], Ahead(p)', ch'[p], rd'[p], afterStop'[p]) /\ op'[p].kind \in Reads
      BY <2>0, <2>1, <2>2, <3>5, <3>6
    <3> QED
      BY <3>3, <3>7, <3>8, <3>9 DEF OrderOf
  <2> QED
    BY <2>4, <2>5, <2>6, <2>7
<1> SUFFICES ASSUME Narrow, EngineInv, OrderInv, [Next]_vars
             PROVE  OrderInv'
  OBVIOUS
<1>0. SUFFICES ASSUME NEW q \in Procs
               PROVE  OrderOf(q)'
  BY DEF OrderInv
<1>1. OrderOf(q) /\ TypeInv /\ LockInv
  BY DEF OrderInv, EngineInv
<1>2. CASE Repair \/ UNCHANGED vars
  BY <1>1, <1>2, <1>RepairOrder
<1>3. ASSUME NEW p \in Procs, StepBy(p)
      PROVE  OrderOf(q)'
  <2>1. CASE q # p
    BY <1>1, <1>3, <2>1, <1>OthersOrder
  <2>2. CASE q = p
    <3>1. CASE CallStep(q)
      BY <1>1, <3>1, <1>CallOrder, <1>ReadVersionOrder DEF CallStep
    <3>2. CASE ReaderStep(q)
      BY <1>1, <3>2, <1>ReaderOrder, <1>SendOrder, <1>ResetOrder, <1>SignalOrder DEF
        ReaderStep, ReaderPanics
    <3>3. CASE RunnerStep(q)
      BY <1>1, <3>3, <1>ReceiveOrder, <1>DecideOrder, <1>RunOrder DEF RunnerStep
    <3>4. CASE \/ Open(q) \/ Crash(q) \/ RequestStop(q) \/ LateLock(q) \/ SourceFailed(q)
               \/ StrayTakesStop(q) \/ \E o \in Ops : Call(q, o)
      BY <1>1, <3>4, <1>CallOrder, <1>ResetOrder, <1>SignalOrder, <1>ReaderOrder DEF Crash
    <3> QED
      BY <1>3, <2>2, <3>1, <3>2, <3>3, <3>4 DEF StepBy
  <2> QED
    BY <2>1, <2>2
<1> QED
  BY <1>2, <1>3 DEF Next, StepBy

\* The initial states satisfy it.
LEMMA OrderInit == Init => OrderInv
<1>1. SUFFICES ASSUME Init, NEW p \in Procs
               PROVE  OrderOf(p)
  BY DEF OrderInv
<1>2. NoReader.pc = "done"
  BY DEF NoReader, NewReader
<1>3. /\ pc[p] = "closed" /\ rd[p] = NoReader /\ strayStop[p] = FALSE /\ stopCh[p] = 0
      /\ isGracefulStop[p] = FALSE /\ afterStop[p] = -1
  BY <1>1 DEF Init
<1> QED
  BY <1>2, <1>3, SmallNumbers DEF OrderOf, NoStop, Running

\* Both invariants together are inductive.
LEMMA OrderInvariance ==
  ASSUME Narrow
  PROVE  /\ Init => EngineInv /\ OrderInv
         /\ EngineInv /\ OrderInv /\ [Next]_vars => EngineInv' /\ OrderInv'
BY EngineInvariance, OrderInit, OrderStep

\* read, readUp and readDown send, and runMigrations runs, the migrations in the
\* order of the source: whenever a body is about to be run, it is the one that
\* follows from the version the schema is at, whatever was read ahead, failed or
\* was stopped before, and whoever else works on the database, as long as the
\* versions of the source fit an int.
THEOREM RunsInOrder == Narrow => (Spec => []AppliedInOrder)
<1> SUFFICES ASSUME Narrow
             PROVE  Spec => []AppliedInOrder
  OBVIOUS
<1>1. EngineInv /\ OrderInv => AppliedInOrder
  <2>1. SUFFICES ASSUME EngineInv, OrderInv, NEW p \in Procs, tracked,
                        pc[p] \in {"dirty", "body"}, op[p].kind # "Run"
                 PROVE  Follows(schema, cur[p])
    BY DEF AppliedInOrder
  <2>2. OrderOf(p) /\ VersionInv
    BY <2>1 DEF OrderInv, EngineInv
  <2>3. CASE pc[p] = "body"
    BY <2>1, <2>2, <2>3 DEF OrderOf, Running
  <2>4. CASE pc[p] = "dirty"
    <3>1. Link(op[p], start[p], version, cur[p])
      BY <2>2, <2>4 DEF OrderOf, Running
    <3>2. schema = version /\ cur[p].err = "nil"
      BY <2>1, <2>2, <2>4 DEF VersionInv, VersionTellsSchema
    <3> QED
      BY <2>1, <3>1, <3>2 DEF Link
  <2> QED
    BY <2>1, <2>3, <2>4
<1> QED
  BY <1>1, OrderInvariance, PTL DEF Spec

\* What Migrate, Steps, Up, Down and Run return says what they did, if nobody asked
\* for a stop and the numbers they were given do not wrap around: nil means that
\* the goal is reached, ErrNoChange that there was nothing to do, ErrNotExist that
\* nothing was done, and ErrShortLimit tells how many steps are missing.
THEOREM ReportsTruly ==
  Narrow /\ (\A o \in Ops : Fits(o)) => (Spec => []ReportsWhatItDid)
<1> SUFFICES ASSUME Narrow, \A o \in Ops : Fits(o)
             PROVE  Spec => []ReportsWhatItDid
  OBVIOUS
<1>1. EngineInv /\ OrderInv => ReportsWhatItDid
  <2>1. SUFFICES ASSUME EngineInv, OrderInv, NEW p \in Procs, pc[p] = "unlock",
                        op[p].kind \in Reads, afterStop[p] = -1
                 PROVE  Tells(op[p], start[p], version, result[p])
    BY DEF ReportsWhatItDid
  <2>2. Fits(op[p])
    BY <2>1 DEF EngineInv, TypeInv, CallInv
  <2> QED
    BY <2>1, <2>2 DEF OrderInv, OrderOf
<1> QED
  BY <1>1, OrderInvariance, PTL DEF Spec
=============================================================================
