--------------------------- MODULE SourceDirProofs ---------------------------
(***************************************************************************)
(* The source drivers keep the contract the engine builds on, for any      *)
(* directory, page size and order of the listing.                          *)
(***************************************************************************)
EXTENDS SourceDir, FiniteSetTheorems, TLAPS

\* Most steps need no arithmetic: a step that does not say SMT is one for Zenon.
USE Zenon

\* An index in increasing order.
Sorted(ix) == ix \in Seq(0..MaxUint) /\ StrictlyIncreasing(ix)

\* The numbers of Go's uint.
LEMMA UintType == MaxUint \in Nat /\ 0..MaxUint \subseteq Nat
BY MaxIntAssumption, SMT DEF MaxUint

\* findPos finds a version where it is.
LEMMA FindPosFinds ==
  ASSUME NEW ix, Sorted(ix), NEW k \in 1..Len(ix)
  PROVE  findPos(ix, ix[k]) = k
<1> DEFINE v == ix[k]
<1>1. /\ Len(ix) \in Nat /\ DOMAIN ix = 1..Len(ix)
      /\ \A j \in 1..Len(ix) : ix[j] \in Nat
  BY UintType, SMT DEF Sorted
<1>2. IsSearch(ix, v, k)
  BY <1>1, SMT DEF Sorted, StrictlyIncreasing, IsSearch
<1>3. PICK s \in 1..Len(ix) : s = Search(ix, v) /\ IsSearch(ix, v, s)
  BY <1>1, <1>2 DEF Search
<1>4. s = k
  BY <1>1, <1>3, SMT DEF Sorted, StrictlyIncreasing, IsSearch
<1> QED
  BY <1>1, <1>2, <1>3, <1>4 DEF findPos

\* findPos finds nothing else.
LEMMA FindPosMisses ==
  ASSUME NEW ix, Sorted(ix), NEW v, v \notin VersionsOf(ix)
  PROVE  findPos(ix, v) = 0
<1>1. DOMAIN ix = 1..Len(ix)
  BY SMT DEF Sorted
<1>2. ASSUME \E k \in DOMAIN ix : IsSearch(ix, v, k)
      PROVE  ix[Search(ix, v)] # v
  BY <1>2 DEF Search, VersionsOf
<1> QED
  BY <1>2 DEF findPos

-----------------------------------------------------------------------------
\* What First, Next and Prev return, in terms of the versions in the index.
LEMMA FirstIsLeast ==
  ASSUME NEW ix, Sorted(ix)
  PROVE  /\ HasFirst(ix) => /\ FirstVersion(ix) \in VersionsOf(ix)
                            /\ \A u \in VersionsOf(ix) : FirstVersion(ix) <= u
         /\ ~HasFirst(ix) => VersionsOf(ix) = {}
<1>1. /\ Len(ix) \in Nat /\ DOMAIN ix = 1..Len(ix)
      /\ \A j \in 1..Len(ix) : ix[j] \in Nat
  BY UintType, SMT DEF Sorted
<1>2. ASSUME HasFirst(ix)
      PROVE  1 \in 1..Len(ix) /\ \A j \in 1..Len(ix) : ix[1] <= ix[j]
  BY <1>1, <1>2, SMT DEF HasFirst, Sorted, StrictlyIncreasing
<1>3. ASSUME ~HasFirst(ix)
      PROVE  1..Len(ix) = {}
  BY <1>1, <1>3, SMT DEF HasFirst
<1> QED
  BY <1>1, <1>2, <1>3 DEF FirstVersion, VersionsOf

\* The versions above and below v, if v is one.
Above(ix, v) == {w \in VersionsOf(ix) : v \in VersionsOf(ix) /\ v < w}
Below(ix, v) == {w \in VersionsOf(ix) : v \in VersionsOf(ix) /\ w < v}

\* Next returns the least version above v, and finds none only if there is none.
LEMMA NextIsLeast ==
  ASSUME NEW ix, Sorted(ix), NEW v
  PROVE  /\ HasNext(ix, v) => /\ NextVersion(ix, v) \in Above(ix, v)
                              /\ \A u \in Above(ix, v) : NextVersion(ix, v) <= u
         /\ ~HasNext(ix, v) => Above(ix, v) = {}
<1>1. /\ Len(ix) \in Nat /\ DOMAIN ix = 1..Len(ix)
      /\ \A j \in 1..Len(ix) : ix[j] \in Nat
      /\ \A i, j \in 1..Len(ix) : i < j => ix[i] < ix[j]
  BY UintType, SMT DEF Sorted, StrictlyIncreasing
<1>2. CASE v \notin VersionsOf(ix)
  BY <1>2, FindPosMisses, SMT DEF HasNext, Above
<1>3. CASE v \in VersionsOf(ix)
  <2>1. PICK k \in 1..Len(ix) : ix[k] = v
    BY <1>1, <1>3 DEF VersionsOf
  <2>2. findPos(ix, v) = k
    BY <2>1, FindPosFinds
  <2>3. Above(ix, v) = {ix[j] : j \in (k + 1)..Len(ix)}
    <3>1. ASSUME NEW j \in 1..Len(ix)
          PROVE  v < ix[j] <=> j \in (k + 1)..Len(ix)
      BY <1>1, <2>1, SMT
    <3> QED
      BY <1>1, <1>3, <2>1, <3>1, SMT DEF Above, VersionsOf
  <2>4. ASSUME k < Len(ix)
        PROVE  k + 1 \in (k + 1)..Len(ix) /\ \A j \in (k + 1)..Len(ix) : ix[k + 1] <= ix[j]
    BY <1>1, <2>4, SMT
  <2>5. ASSUME ~(k < Len(ix))
        PROVE  (k + 1)..Len(ix) = {}
    BY <1>1, <2>5, SMT
  <2>6. HasNext(ix, v) <=> k < Len(ix)
    BY <1>1, <2>2, SMT DEF HasNext
  <2> QED
    BY <2>2, <2>3, <2>4, <2>5, <2>6 DEF NextVersion
<1> QED
  BY <1>2, <1>3

\* Prev returns the greatest version below v.
LEMMA PrevIsGreatest ==
  ASSUME NEW ix, Sorted(ix), NEW v
  PROVE  /\ HasPrev(ix, v) => /\ PrevVersion(ix, v) \in Below(ix, v)
                              /\ \A u \in Below(ix, v) : u <= PrevVersion(ix, v)
         /\ ~HasPrev(ix, v) => Below(ix, v) = {}
<1>1. /\ Len(ix) \in Nat /\ DOMAIN ix = 1..Len(ix)
      /\ \A j \in 1..Len(ix) : ix[j] \in Nat
      /\ \A i, j \in 1..Len(ix) : i < j => ix[i] < ix[j]
  BY UintType, SMT DEF Sorted, StrictlyIncreasing
<1>2. CASE v \notin VersionsOf(ix)
  BY <1>2, FindPosMisses, SMT DEF HasPrev, Below
<1>3. CASE v \in VersionsOf(ix)
  <2>1. PICK k \in 1..Len(ix) : ix[k] = v
    BY <1>1, <1>3 DEF VersionsOf
  <2>2. findPos(ix, v) = k
    BY <2>1, FindPosFinds
  <2>3. Below(ix, v) = {ix[j] : j \in 1..(k - 1)}
    <3>1. ASSUME NEW j \in 1..Len(ix)
          PROVE  ix[j] < v <=> j \in 1..(k - 1)
      BY <1>1, <2>1, SMT
    <3>2. 1..(k - 1) \subseteq 1..Len(ix)
      BY <1>1, SMT
    <3> QED
      BY <1>1, <1>3, <2>1, <3>1, <3>2 DEF Below, VersionsOf
  <2>4. ASSUME k >= 2
        PROVE  k - 1 \in 1..(k - 1) /\ \A j \in 1..(k - 1) : ix[j] <= ix[k - 1]
    BY <1>1, <2>4, SMT
  <2>5. ASSUME ~(k >= 2)
        PROVE  1..(k - 1) = {}
    BY <1>1, <2>5, SMT
  <2>6. HasPrev(ix, v) <=> k >= 2
    BY <2>2 DEF HasPrev
  <2> QED
    BY <2>2, <2>3, <2>4, <2>5, <2>6 DEF PrevVersion
<1> QED
  BY <1>2, <1>3

-----------------------------------------------------------------------------
\* The listing: a driver that asks for one page has not listed anything before it,
\* names do not change while they are listed, and a listing is complete before its
\* names are appended.
ListInv ==
  /\ pc \in {"new", "listing"} =>
       /\ Fits(source, dir) /\ todo = listed /\ listed \subseteq dir
       /\ source.pages = "one" => listed = {}
  /\ pc = "new" => listed = {}
  /\ pc = "appending" => listed = dir
  /\ pc = "open" => todo = {}
  /\ todo \subseteq listed

\* The Migrations value: the names taken so far, one per version and direction, and an
\* index of their versions.
AppendInv ==
  /\ pc # "failed" => migrations = {e \in listed \ todo : ~Skips(e)}
  /\ \A e \in migrations : Parse(e)
  /\ \A a, b \in migrations : Key(a) = Key(b) => a = b
  /\ Sorted(index) /\ VersionsOf(index) = VersionsIn(migrations)

\* The inductive invariant.
DirInv ==
  /\ TypeOK /\ ListInv /\ AppendInv
  /\ pc # "open" => answer = NoAnswer

\* A function on 1..n is a sequence.
LEMMA SequenceOf ==
  ASSUME NEW S, NEW n \in Nat, NEW f \in [1..n -> S]
  PROVE  f \in Seq(S)
BY SMT

\* buildIndex returns a sorted index of the versions it is given.
LEMMA IndexBuilt ==
  ASSUME NEW S \in SUBSET (0..MaxUint), NEW ix \in buildIndex(S)
  PROVE  Sorted(ix) /\ VersionsOf(ix) = S
<1>1. IsFiniteSet(S)
  <2>1. IsFiniteSet(0..MaxUint)
    BY UintType, FS_Interval, SMT
  <2> QED
    BY <2>1, FS_Subset
<1>2. Cardinality(S) \in Nat
  BY <1>1, FS_CardinalityType
<1>3. ix \in [1..Cardinality(S) -> S] /\ StrictlyIncreasing(ix) /\ VersionsOf(ix) = S
  BY DEF buildIndex
<1>4. ix \in Seq(0..MaxUint)
  <2>1. PICK n \in Nat : n = Cardinality(S)
    BY <1>2
  <2>2. ix \in [1..n -> 0..MaxUint]
    BY <1>3, <2>1
  <2> QED
    BY <2>2, SequenceOf
<1> QED
  BY <1>3, <1>4 DEF Sorted

\* The only page of a listing that is not continued has everything.
LEMMA OnePageIsAll ==
  ASSUME NEW d \in SUBSET Entries, Cardinality(d) <= PageSize,
         NEW page \in SUBSET d, Cardinality(page) = PageSize
  PROVE  page = d
<1>1. IsFiniteSet(d)
  BY SourceDirAssumption, FS_Subset
<1>2. IsFiniteSet(page) /\ Cardinality(page) <= Cardinality(d)
  BY <1>1, FS_Subset
<1>3. Cardinality(page) \in Nat /\ Cardinality(d) \in Nat
  BY <1>1, <1>2, FS_CardinalityType
<1>4. Cardinality(d) = Cardinality(page)
  BY <1>2, <1>3, SMT
<1> QED
  BY <1>1, <1>4, FS_Subset

\* The fields of an answer.
LEMMA AnswerFields ==
  /\ \A call, v, d, err :
       /\ Refused(call, v, d, err).call = call /\ Refused(call, v, d, err).v = v
       /\ Refused(call, v, d, err).d = d /\ Refused(call, v, d, err).err = err
  /\ \A k, e :
       /\ Body(k, e).call = "read" /\ Body(k, e).v = k[1]
       /\ Body(k, e).d = k[2] /\ Body(k, e).err = "nil"
  /\ \A call, v, w : Version(call, v, w).call = call
BY SMT DEF Refused, Body, Version

\* At the start nothing is listed, appended or asked.
LEMMA DirInit == Init => DirInv
<1> SUFFICES ASSUME Init
             PROVE  DirInv
  OBVIOUS
<1>1. TypeOK
  <2>1. answer.call = "none"
    BY AnswerFields, SMT DEF Init, NoAnswer
  <2>2. index \in Seq(0..MaxUint)
    BY SMT DEF Init
  <2> QED
    BY <2>1, <2>2 DEF Init, TypeOK
<1>2. ListInv
  BY DEF Init, ListInv
<1>3. AppendInv
  BY UintType, SMT DEF Init, AppendInv, Sorted, StrictlyIncreasing, VersionsOf, VersionsIn
<1> QED
  BY <1>1, <1>2, <1>3 DEF Init, DirInv

\* A call changes nothing but the answer.
LEMMA CallKeeps ==
  ASSUME DirInv, Call, answer'.call \in {"first", "next", "prev", "read"}
  PROVE  DirInv'
<1>1. TypeOK'
  BY DEF DirInv, Call, TypeOK
<1>2. ListInv'
  BY DEF DirInv, Call, ListInv, Fits
<1>3. AppendInv'
  BY DEF DirInv, Call, AppendInv, Skips
<1> QED
  BY <1>1, <1>2, <1>3 DEF DirInv, Call

\* First, Next and Prev are calls.
LEMMA LookupKeeps ==
  ASSUME DirInv, Call, NEW call \in {"first", "next", "prev"}, NEW v, NEW ok, NEW w,
         Lookup(call, v, ok, w)
  PROVE  DirInv'
<1>1. answer'.call = call
  BY AnswerFields, SMT DEF Lookup
<1> QED
  BY <1>1, CallKeeps

\* The steps of Open and of the directory.
LEMMA OpenKeeps ==
  ASSUME DirInv, Change \/ Open \/ ListPage \/ OpenFails \/ Opened
  PROVE  DirInv'
<1>1. CASE Change
  <2>1. TypeOK' /\ ListInv'
    BY <1>1 DEF Change, DirInv, TypeOK, ListInv
  <2>2. AppendInv'
    BY <1>1 DEF Change, DirInv, AppendInv, Skips
  <2> QED
    BY <1>1, <2>1, <2>2 DEF Change, DirInv
<1>2. CASE Open
  <2>1. TypeOK' /\ ListInv'
    BY <1>2 DEF Open, DirInv, TypeOK, ListInv, Fits
  <2>2. AppendInv'
    BY <1>2 DEF Open, DirInv, AppendInv, Skips
  <2> QED
    BY <1>2, <2>1, <2>2 DEF Open, DirInv
<1>3. CASE ListPage
  <2>1. PICK page \in SUBSET (dir \ listed) :
          /\ Cardinality(page) = PageSize
               \/ (Cardinality(page) < PageSize /\ page = dir \ listed)
          /\ listed' = listed \cup page /\ todo' = todo \cup page
          /\ pc' = IF source.pages = "one" \/ listed' = dir THEN "appending" ELSE "listing"
    BY <1>3 DEF ListPage
  <2>2. /\ pc = "listing" /\ pc' \in {"appending", "listing"}
        /\ UNCHANGED <<source, dir, migrations, index, answer>>
    BY <1>3, <2>1 DEF ListPage
  <2>3. source.pages = "one" => listed' = dir
    <3> SUFFICES ASSUME source.pages = "one"
                 PROVE  listed' = dir
      OBVIOUS
    <3>1. listed = {} /\ Cardinality(dir) <= PageSize /\ dir \in SUBSET Entries
      BY <2>2 DEF DirInv, ListInv, Fits, TypeOK
    <3>2. page = dir
      BY <2>1, <3>1, OnePageIsAll
    <3> QED
      BY <2>1, <3>1, <3>2
  <2>4. TypeOK'
    BY <2>1, <2>2 DEF DirInv, TypeOK
  <2>5. ListInv'
    BY <2>1, <2>2, <2>3 DEF DirInv, ListInv, Fits
  <2>6. AppendInv'
    <3>1. migrations = {} /\ listed' = todo'
      BY <2>1, <2>2 DEF DirInv, ListInv, AppendInv
    <3> QED
      BY <2>2, <3>1 DEF DirInv, AppendInv, Skips
  <2> QED
    BY <2>2, <2>4, <2>5, <2>6 DEF DirInv
<1>4. CASE OpenFails
  <2>1. TypeOK' /\ ListInv'
    BY <1>4 DEF OpenFails, DirInv, TypeOK, ListInv
  <2>2. AppendInv'
    BY <1>4 DEF OpenFails, DirInv, AppendInv
  <2> QED
    BY <1>4, <2>1, <2>2 DEF OpenFails, DirInv
<1>5. CASE Opened
  <2>1. TypeOK' /\ ListInv'
    BY <1>5 DEF Opened, DirInv, TypeOK, ListInv
  <2>2. AppendInv'
    BY <1>5 DEF Opened, DirInv, AppendInv, Skips
  <2> QED
    BY <1>5, <2>1, <2>2 DEF Opened, DirInv
<1> QED
  BY <1>1, <1>2, <1>3, <1>4, <1>5

\* Append keeps one name per version and direction, and the index of what it has.
LEMMA AppendKeeps ==
  ASSUME DirInv, AppendNext
  PROVE  DirInv'
<1>1. PICK e \in todo :
        /\ todo' = todo \ {e}
        /\ \/ Skips(e) /\ UNCHANGED <<pc, migrations, index>>
           \/ ~Skips(e) /\ Duplicate(e) /\ pc' = "failed" /\ UNCHANGED <<migrations, index>>
           \/ ~Skips(e) /\ ~Duplicate(e) /\ AppendMigration(e) /\ UNCHANGED pc
  BY DEF AppendNext
<1>2. pc = "appending" /\ UNCHANGED <<source, dir, listed, answer>>
  BY DEF AppendNext
<1>3. /\ listed = dir /\ todo \subseteq listed /\ e \in Entries /\ answer = NoAnswer
      /\ migrations = {x \in listed \ todo : ~Skips(x)}
  BY <1>2 DEF DirInv, ListInv, AppendInv, TypeOK
<1>4. ListInv'
  BY <1>1, <1>2, <1>3 DEF ListInv
<1>5. \A x : Skips(x)' = Skips(x)
  BY <1>2 DEF Skips
<1>6. TypeOK' /\ AppendInv'
  <2>1. CASE Skips(e) /\ UNCHANGED <<pc, migrations, index>>
    BY <1>1, <1>2, <1>3, <1>5, <2>1, SMT DEF DirInv, TypeOK, AppendInv
  <2>2. CASE ~Skips(e) /\ Duplicate(e) /\ pc' = "failed" /\ UNCHANGED <<migrations, index>>
    BY <1>1, <1>2, <1>3, <2>2 DEF DirInv, TypeOK, AppendInv
  <2>3. CASE ~Skips(e) /\ ~Duplicate(e) /\ AppendMigration(e) /\ UNCHANGED pc
    <3>1. migrations' = migrations \cup {e} /\ index' \in buildIndex(VersionsIn(migrations'))
      BY <2>3 DEF AppendMigration
    <3>2. \A x \in migrations' : Parse(x)
      BY <2>3, <3>1 DEF DirInv, AppendInv, Skips
    <3>3. VersionsIn(migrations') \in SUBSET (0..MaxUint)
      BY <3>2 DEF VersionsIn, Parse
    <3>4. Sorted(index') /\ VersionsOf(index') = VersionsIn(migrations')
      BY <3>1, <3>3, IndexBuilt
    <3>5. \A a, b \in migrations' : Key(a) = Key(b) => a = b
      BY <2>3, <3>1 DEF DirInv, AppendInv, Duplicate
    <3>6. migrations' = {x \in listed \ todo' : ~Skips(x)}
      BY <1>1, <1>3, <2>3, <3>1
    <3>7. TypeOK'
      BY <1>1, <1>2, <1>3, <2>3, <3>1, <3>4 DEF DirInv, TypeOK, Sorted
    <3>8. AppendInv'
      BY <1>2, <1>5, <3>2, <3>4, <3>5, <3>6 DEF AppendInv, Sorted, StrictlyIncreasing,
        VersionsOf, VersionsIn, Parse, Key
    <3> QED
      BY <3>7, <3>8
  <2> QED
    BY <1>1, <2>1, <2>2, <2>3
<1>7. pc' # "open"
  BY <1>1, <1>2
<1> QED
  BY <1>2, <1>3, <1>4, <1>6, <1>7 DEF DirInv

\* A read is a call, whatever it answers.
LEMMA ReadKeeps ==
  ASSUME DirInv, NEW k \in Arguments \X Direction, Read(k) \/ ReadFails(k)
  PROVE  DirInv'
<1>1. Call
  BY DEF Read, ReadFails
<1>2. \/ \E e : answer' = Body(k, e)
      \/ \E err : answer' = Refused("read", k[1], k[2], err)
  BY DEF Read, ReadFails
<1>3. answer'.call = "read"
  BY <1>2, AnswerFields, SMT
<1> QED
  BY <1>1, <1>3, CallKeeps

\* DirInv is inductive.
LEMMA DirStep == DirInv /\ [Next]_vars => DirInv'
<1> SUFFICES ASSUME DirInv, [Next]_vars
             PROVE  DirInv'
  OBVIOUS
<1>1. CASE Change \/ Open \/ ListPage \/ OpenFails \/ Opened
  BY <1>1, OpenKeeps
<1>2. CASE AppendNext
  BY <1>2, AppendKeeps
<1>3. CASE First
  BY <1>3, LookupKeeps DEF First
<1>4. ASSUME NEW v \in Arguments, NextOf(v) \/ PrevOf(v)
      PROVE  DirInv'
  BY <1>4, LookupKeeps DEF NextOf, PrevOf
<1>5. ASSUME NEW k \in Arguments \X Direction, Read(k) \/ ReadFails(k)
      PROVE  DirInv'
  BY <1>5, ReadKeeps
<1>6. CASE UNCHANGED vars
  BY <1>6 DEF vars, DirInv, TypeOK, ListInv, AppendInv, Fits, Skips
<1> QED
  BY <1>1, <1>2, <1>3, <1>4, <1>5, <1>6 DEF Next

\* So DirInv holds in every behaviour.
LEMMA DirInvariance == Spec => []DirInv
<1> QED
  BY DirInit, DirStep, PTL DEF Spec

-----------------------------------------------------------------------------
\* The two modules have the same names and answers.
LEMMA SameTerms ==
  /\ \A e : (Abstract!Parse(e) <=> Parse(e)) /\ Abstract!Key(e) = Key(e)
  /\ \A call, v, d, err : Abstract!Refused(call, v, d, err) = Refused(call, v, d, err)
  /\ \A call, v, w : Abstract!Version(call, v, w) = Version(call, v, w)
  /\ \A k, e : Abstract!Body(k, e) = Body(k, e)
  /\ Abstract!NoAnswer = NoAnswer /\ Abstract!Direction = Direction
<1>1. \A e : (Abstract!Parse(e) <=> Parse(e)) /\ Abstract!Key(e) = Key(e)
  BY DEF Abstract!Parse, Parse, Abstract!MaxUint, MaxUint, Abstract!Key, Key
<1>2. \A call, v, d, err : Abstract!Refused(call, v, d, err) = Refused(call, v, d, err)
  BY DEF Abstract!Refused, Refused
<1>3. \A call, v, w : Abstract!Version(call, v, w) = Version(call, v, w)
  BY <1>2 DEF Abstract!Version, Version
<1>4. \A k, e : Abstract!Body(k, e) = Body(k, e)
  BY <1>2 DEF Abstract!Body, Body
<1>5. Abstract!NoAnswer = NoAnswer /\ Abstract!Direction = Direction
  BY <1>2 DEF Abstract!NoAnswer, NoAnswer, Abstract!Direction, Direction
<1> QED
  BY <1>1, <1>2, <1>3, <1>4, <1>5

\* What the engine knows of an open source is what its index has.
LEMMA HaveIndex ==
  ASSUME DirInv, pc = "open"
  PROVE  /\ Abstract!Versions = VersionsOf(index)
         /\ \A v : Abstract!After(v) = Above(index, v) /\ Abstract!Before(v) = Below(index, v)
<1>1. Abstract!Versions = {k[1] : k \in {Key(e) : e \in migrations}}
  BY SameTerms DEF Abstract!Versions
<1>2. Abstract!Versions = VersionsOf(index)
  <2>1. \A e : Key(e)[1] = e.num
    BY DEF Key
  <2>2. {k[1] : k \in {Key(e) : e \in migrations}} = {e.num : e \in migrations}
    BY <2>1
  <2> QED
    BY <1>1, <2>2 DEF DirInv, AppendInv, VersionsIn
<1> QED
  BY <1>2 DEF Abstract!After, Abstract!Before, Above, Below

\* A call leaves the directory and what the source has as they are.
LEMMA CallRefines ==
  ASSUME Call
  PROVE  Abstract!Call
BY DEF Call, Abstract!Call

\* Opened is the Open of the service: nothing that can be parsed is missing.
LEMMA OpenedRefines ==
  ASSUME DirInv, Opened
  PROVE  Abstract!Open
<1>1. /\ pc = "appending" /\ pc' = "open" /\ todo = {} /\ listed = dir
      /\ UNCHANGED <<source, dir, migrations, answer>>
  BY DEF Opened, DirInv, ListInv
<1>2. migrations = {e \in dir : ~Skips(e)}
  BY <1>1 DEF DirInv, AppendInv
<1>3. migrations \in {{e \in dir : Parse(e)}, {e \in dir : Parse(e) /\ ~e.isDir}}
  <2>1. CASE source.dirs
    BY <1>2, <2>1 DEF Skips
  <2>2. CASE ~source.dirs
    BY <1>2, <2>2 DEF Skips
  <2> QED
    BY <2>1, <2>2
<1>4. migrations \in {{e \in dir : Abstract!Parse(e)}, {e \in dir : Abstract!Parse(e) /\ ~e.isDir}}
  BY <1>3, SameTerms
<1>5. \A a, b \in migrations : Abstract!Key(a) = Abstract!Key(b) => a = b
  BY SameTerms DEF DirInv, AppendInv
<1>6. {Key(e) : e \in migrations} = {Abstract!Key(e) : e \in migrations}
  BY SameTerms
<1> QED
  BY <1>1, <1>4, <1>5, <1>6 DEF Abstract!Open

\* The lookups return the first, the next and the previous version.
LEMMA LookupRefines ==
  ASSUME DirInv
  PROVE  /\ First => Abstract!First
         /\ \A v : NextOf(v) => Abstract!NextOf(v)
         /\ \A v : PrevOf(v) => Abstract!PrevOf(v)
<1> USE SameTerms
<1>1. Sorted(index)
  BY DEF DirInv, AppendInv
<1>2. ASSUME First
      PROVE  Abstract!First
  <2>1. Call /\ pc = "open" /\ Abstract!Call
    BY <1>2, CallRefines DEF First, Call
  <2>2. IF HasFirst(index) THEN answer' = Version("first", 0, FirstVersion(index))
                           ELSE answer' = Refused("first", 0, "none", "ErrNotExist")
    BY <1>2 DEF First, Lookup
  <2> QED
    BY <1>1, <2>1, <2>2, HaveIndex, FirstIsLeast DEF Abstract!First
<1>3. ASSUME NEW v, NextOf(v)
      PROVE  Abstract!NextOf(v)
  <2>1. Call /\ pc = "open" /\ Abstract!Call
    BY <1>3, CallRefines DEF NextOf, Call
  <2>2. IF HasNext(index, v) THEN answer' = Version("next", v, NextVersion(index, v))
                             ELSE answer' = Refused("next", v, "none", "ErrNotExist")
    BY <1>3 DEF NextOf, Lookup
  <2> QED
    BY <1>1, <2>1, <2>2, HaveIndex, NextIsLeast DEF Abstract!NextOf
<1>4. ASSUME NEW v, PrevOf(v)
      PROVE  Abstract!PrevOf(v)
  <2>1. Call /\ pc = "open" /\ Abstract!Call
    BY <1>4, CallRefines DEF PrevOf, Call
  <2>2. IF HasPrev(index, v) THEN answer' = Version("prev", v, PrevVersion(index, v))
                             ELSE answer' = Refused("prev", v, "none", "ErrNotExist")
    BY <1>4 DEF PrevOf, Lookup
  <2> QED
    BY <1>1, <2>1, <2>2, HaveIndex, PrevIsGreatest DEF Abstract!PrevOf
<1> QED
  BY <1>2, <1>3, <1>4

\* A read returns the body of the file asked for, or an error.
LEMMA ReadRefines ==
  ASSUME DirInv, NEW k \in Arguments \X Direction, Read(k) \/ ReadFails(k)
  PROVE  Abstract!Read(k)
<1> USE SameTerms
<1>1. Call /\ pc = "open" /\ Abstract!Call
  BY CallRefines DEF Read, ReadFails, Call
<1>2. /\ source.onDir # "body" => source.onDir \in {"ErrNotExist", "error"}
      /\ source.onGone \in {"ErrNotExist", "error"}
  BY SourceDirAssumption DEF DirInv, TypeOK, Source
<1>3. k \in {Key(e) : e \in migrations} <=> Of(k) # {}
  BY DEF Of
<1>4. CASE Of(k) = {}
  <2>1. answer' = Refused("read", k[1], k[2], "ErrNotExist")
    BY <1>4 DEF Read, ReadFails
  <2> QED
    BY <1>1, <1>3, <1>4, <2>1 DEF Abstract!Read
<1>5. CASE Of(k) # {}
  <2>1. \/ \E e \in Of(k) : e \in dir /\ answer' = Body(k, e)
        \/ \E err \in {"ErrNotExist", "error"} : answer' = Refused("read", k[1], k[2], err)
    BY <1>2, <1>5 DEF Read, ReadFails
  <2>2. \A e \in Of(k) : Parse(e) /\ Key(e) = k
    BY DEF Of, DirInv, AppendInv
  <2>3. \/ \E e \in dir : Abstract!Parse(e) /\ Abstract!Key(e) = k /\ answer' = Abstract!Body(k, e)
        \/ \E err \in {"ErrNotExist", "error"} : answer' = Abstract!Refused("read", k[1], k[2], err)
    BY <2>1, <2>2
  <2> QED
    BY <1>1, <1>3, <1>5, <2>3 DEF Abstract!Read
<1> QED
  BY <1>4, <1>5

\* The source drivers implement the service that the engine builds on, for any
\* directory, page size, order of the listing and changes after it: no migration is
\* missing, two files of one version and direction are refused, First, Prev and Next
\* go through all versions in order, and a body belongs to the version and direction
\* asked for.
THEOREM SourcesKeepContract == Spec => SourceContract
<1>1. Init => Abstract!Init
  BY SameTerms DEF Init, Abstract!Init
<1>2. DirInv /\ DirInv' /\ [Next]_vars => [Abstract!Next]_Abstract!vars
  <2> SUFFICES ASSUME DirInv, DirInv', [Next]_vars
               PROVE  [Abstract!Next]_Abstract!vars
    OBVIOUS
  <2>1. CASE Change
    <3>1. Abstract!Change
      BY <2>1 DEF Change, Abstract!Change, DirInv, TypeOK
    <3> QED
      BY <3>1 DEF Abstract!Next
  <2>2. CASE Open \/ ListPage \/ OpenFails \/ AppendNext
    <3>1. pc # "open" /\ pc' # "open" /\ UNCHANGED <<dir, answer>>
      <4>1. CASE Open
        BY <4>1 DEF Open
      <4>2. CASE ListPage
        BY <4>2 DEF ListPage
      <4>3. CASE OpenFails
        BY <4>3 DEF OpenFails
      <4>4. CASE AppendNext
        BY <4>4 DEF AppendNext
      <4> QED
        BY <2>2, <4>1, <4>2, <4>3, <4>4
    <3> QED
      BY <3>1 DEF Abstract!vars
  <2>3. CASE Opened
    BY <2>3, OpenedRefines DEF Abstract!Next
  <2>4. CASE First
    BY <2>4, LookupRefines DEF Abstract!Next
  <2>5. ASSUME NEW v \in Arguments, NextOf(v) \/ PrevOf(v)
        PROVE  Abstract!Next
    BY <2>5, LookupRefines DEF Abstract!Next
  <2>6. ASSUME NEW k \in Arguments \X Direction, Read(k) \/ ReadFails(k)
        PROVE  Abstract!Next
    BY <2>6, ReadRefines, SameTerms DEF Abstract!Next
  <2>7. CASE UNCHANGED vars
    BY <2>7 DEF vars, Abstract!vars
  <2> QED
    BY <2>1, <2>2, <2>3, <2>4, <2>5, <2>6, <2>7 DEF Next
<1> QED
  BY <1>1, <1>2, DirInvariance, PTL DEF Spec, SourceContract, Abstract!Spec
=============================================================================
