----------------------------- MODULE SourceIndex -----------------------------
(***************************************************************************)
(* The ordered index of a migration source (source/migration.go).  Every   *)
(* source driver keeps its versions in a Migrations value, whose index is  *)
(* the sorted slice of the versions; First, Prev and Next are lookups in   *)
(* it.  Positions are 1-based here and 0 stands for the code's -1.  The    *)
(* module also holds the conversions between the uint versions of a source *)
(* and the int versions of a database, at the width of the constant MaxInt.*)
(***************************************************************************)
EXTENDS Integers, Sequences

CONSTANT MaxInt  \* the largest value of Go's int; 2^63 - 1 on 64-bit platforms

ASSUME MaxIntAssumption == MaxInt \in Nat

\* The largest uint and the smallest int of the same width.
MaxUint == 2 * MaxInt + 1
MinInt == -MaxInt - 1

\* The version of a database to which no migration is applied.
NilVersion == -1

\* Go's conversion int(u) of a uint: the upper half wraps to the negatives.
toInt(u) == IF u <= MaxInt THEN u ELSE u - (MaxUint + 1)

\* Go's unary minus on an int: the smallest int is its own negation.
negInt(n) == IF n = MinInt THEN n ELSE -n

-----------------------------------------------------------------------------
StrictlyIncreasing(ix) == \A j, k \in DOMAIN ix : j < k => ix[j] < ix[k]

VersionsOf(ix) == {ix[k] : k \in DOMAIN ix}

\* sort.Search over the index: the first position whose version is not below v.
IsSearch(ix, v, k) == ix[k] >= v /\ \A j \in DOMAIN ix : j < k => ix[j] < v
Search(ix, v) == CHOOSE k \in DOMAIN ix : IsSearch(ix, v, k)

findPos(ix, v) ==
  IF /\ \E k \in DOMAIN ix : IsSearch(ix, v, k)
     /\ ix[Search(ix, v)] = v
  THEN Search(ix, v)
  ELSE 0

\* First, Prev and Next return (version, ok); ok is the Has... operator.
HasFirst(ix) == Len(ix) # 0
FirstVersion(ix) == ix[1]

HasPrev(ix, v) == findPos(ix, v) >= 2
PrevVersion(ix, v) == ix[findPos(ix, v) - 1]

HasNext(ix, v) == findPos(ix, v) >= 1 /\ Len(ix) > findPos(ix, v)
NextVersion(ix, v) == ix[findPos(ix, v) + 1]
=============================================================================
