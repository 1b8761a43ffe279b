----------------------------- MODULE SourceDir -----------------------------
(***************************************************************************)
(* The source drivers: Open lists a directory, page by page where the      *)
(* service has pages, and appends what it can parse to a Migrations value; *)
(* First, Prev and Next look versions up in its index, ReadUp and ReadDown *)
(* open the file that was listed.  Files come and go after the listing.    *)
(***************************************************************************)
EXTENDS SourceFile, FiniteSets

CONSTANTS
  Sources,   \* the drivers under study
  PageSize,  \* names in a page of a listing
  Arguments, \* versions that the engine asks for
  MaxChanges \* files that have come or gone since the listing

Source ==
  [pages : {"all", "one"},                   \* the pages of the listing that are read
   dirs : BOOLEAN,                           \* a directory is taken for a file
   onDir : {"ErrNotExist", "error", "body"}, \* what reading a directory returns
   onGone : {"ErrNotExist", "error"}]        \* what reading a file returns that is gone

ASSUME SourceDirAssumption ==
  /\ Sources \subseteq Source /\ PageSize \in Nat \ {0} /\ Arguments \subseteq 0..MaxUint
  /\ MaxChanges \in Nat
  /\ IsFiniteSet(Entries)

FileSystem == [pages |-> "all", dirs |-> FALSE, onDir |-> "error", onGone |-> "ErrNotExist"]
iofs == FileSystem
file == FileSystem
httpfs == FileSystem
pkger == FileSystem
vfs == FileSystem

bindata == [FileSystem EXCEPT !.onGone = "error"]
s3 == [pages |-> "one", dirs |-> FALSE, onDir |-> "error", onGone |-> "error"]
gcs == [s3 EXCEPT !.pages = "all"]
github == [pages |-> "one", dirs |-> TRUE, onDir |-> "ErrNotExist", onGone |-> "error"]
github_ee == github
gitlab == [pages |-> "all", dirs |-> TRUE, onDir |-> "error", onGone |-> "error"]

\* Whatever the service sends for a directory is taken for its contents.
bitbucket == [gitlab EXCEPT !.onDir = "body"]

-----------------------------------------------------------------------------
VARIABLES
  source,
  dir,         \* the names in the directory
  pc,          \* "new", "listing", "appending", "open" or "failed"
  listed,      \* the names listed so far
  todo,        \* those that are not appended yet
  migrations,  \* the Migrations value
  index,       \* and its index
  answer       \* the last call and its answer

vars == <<source, dir, pc, listed, todo, migrations, index, answer>>

Abstract == INSTANCE SourceService
  WITH opened <- pc = "open",
       have <- IF pc = "open" THEN {Key(e) : e \in migrations} ELSE {}

\* The types of the variables.
TypeOK ==
  /\ source \in Sources /\ dir \subseteq Entries
  /\ pc \in {"new", "listing", "appending", "open", "failed"}
  /\ listed \subseteq Entries /\ todo \subseteq Entries /\ migrations \subseteq Entries
  /\ index \in Seq(0..MaxUint)
  /\ answer.call \in {"none", "first", "next", "prev", "read"}

\* A directory that the driver can list: the services whose further pages are not
\* asked for return all names in one page.
Fits(s, d) == s.pages = "one" => Cardinality(d) <= PageSize

Init ==
  /\ source \in Sources /\ dir \in SUBSET Entries /\ Fits(source, dir)
  /\ pc = "new" /\ listed = {} /\ todo = {} /\ migrations = {} /\ index = <<>>
  /\ answer = NoAnswer

\* Somebody adds or removes a file after the listing.
Change ==
  /\ pc = "open"
  /\ \E e \in Entries : dir' \in {dir \cup {e}, dir \ {e}}
  /\ Cardinality((dir' \ listed) \cup (listed \ dir')) <= MaxChanges
  /\ UNCHANGED <<source, pc, listed, todo, migrations, index, answer>>

-----------------------------------------------------------------------------
Open ==
  /\ pc = "new" /\ pc' = "listing"
  /\ UNCHANGED <<source, dir, listed, todo, migrations, index, answer>>

\* Pages are full, except the last one.
ListPage ==
  /\ pc = "listing"
  /\ \E page \in SUBSET (dir \ listed) :
       /\ Cardinality(page) = PageSize
            \/ (Cardinality(page) < PageSize /\ page = dir \ listed)
       /\ listed' = listed \cup page /\ todo' = todo \cup page
       /\ pc' = IF source.pages = "one" \/ listed' = dir THEN "appending" ELSE "listing"
  /\ UNCHANGED <<source, dir, migrations, index, answer>>

\* The listing, or asking for a file's details, fails.
OpenFails ==
  /\ pc \in {"listing", "appending"} /\ pc' = "failed"
  /\ UNCHANGED <<source, dir, listed, todo, migrations, index, answer>>

VersionsIn(ms) == {e.num : e \in ms}

\* Mutant: the slice is not sorted.
buildIndexUnsorted(S) ==
  {ix \in [1..Cardinality(S) -> S] : VersionsOf(ix) = S}

\* sort.Slice over the keys of the map: their only increasing sequence.
buildIndex(S) ==
  {ix \in [1..Cardinality(S) -> S] : StrictlyIncreasing(ix) /\ VersionsOf(ix) = S}

AppendMigration(e) ==
  /\ migrations' = migrations \cup {e}
  /\ index' \in buildIndex(VersionsIn(migrations'))

Duplicate(e) == \E m \in migrations : Key(m) = Key(e)

Skips(e) == ~Parse(e) \/ (e.isDir /\ ~source.dirs)

\* The next name is passed over, refused as a duplicate, or appended.
AppendNext ==
  /\ pc = "appending"
  /\ \E e \in todo :
       /\ todo' = todo \ {e}
       /\ CASE Skips(e) -> UNCHANGED <<pc, migrations, index>>
            [] ~Skips(e) /\ Duplicate(e) -> pc' = "failed" /\ UNCHANGED <<migrations, index>>
            [] ~Skips(e) /\ ~Duplicate(e) -> AppendMigration(e) /\ UNCHANGED pc
  /\ UNCHANGED <<source, dir, listed, answer>>

Opened ==
  /\ pc = "appending" /\ todo = {} /\ pc' = "open"
  /\ UNCHANGED <<source, dir, listed, todo, migrations, index, answer>>

-----------------------------------------------------------------------------
Call == pc = "open" /\ UNCHANGED <<source, dir, pc, listed, todo, migrations, index>>

\* What First, Next and Prev return.
Lookup(call, v, ok, w) ==
  answer' = IF ok THEN Version(call, v, w) ELSE Refused(call, v, "none", "ErrNotExist")

First == Call /\ Lookup("first", 0, HasFirst(index), FirstVersion(index))
NextOf(v) == Call /\ Lookup("next", v, HasNext(index, v), NextVersion(index, v))
PrevOf(v) == Call /\ Lookup("prev", v, HasPrev(index, v), PrevVersion(index, v))

\* Up and Down: the file of a version and direction.
Of(k) == {e \in migrations : Key(e) = k}

\* ReadUp and ReadDown.
Read(k) ==
  /\ Call
  /\ \/ Of(k) = {} /\ answer' = Refused("read", k[1], k[2], "ErrNotExist")
     \/ \E e \in Of(k) :
          \/ e \in dir /\ (e.isDir => source.onDir = "body") /\ answer' = Body(k, e)
          \/ /\ e \in dir /\ e.isDir /\ source.onDir # "body"
             /\ answer' = Refused("read", k[1], k[2], source.onDir)
          \/ e \notin dir /\ answer' = Refused("read", k[1], k[2], source.onGone)

ReadFails(k) ==
  /\ Call /\ Of(k) # {} /\ answer' = Refused("read", k[1], k[2], "error")

Next ==
  \/ Change \/ Open \/ ListPage \/ OpenFails \/ AppendNext \/ Opened
  \/ First
  \/ \E v \in Arguments : NextOf(v) \/ PrevOf(v)
  \/ \E k \in Arguments \X Direction : Read(k) \/ ReadFails(k)

Spec == Init /\ [][Next]_vars

-----------------------------------------------------------------------------
(***************************************************************************)
(* Properties.                                                             *)
(***************************************************************************)

\* The source drivers keep the contract of source.Driver that the engine builds
\* on: no migration of the directory is missing, two files of one version and
\* direction are refused, First, Prev and Next go through all versions in order,
\* and a body belongs to the version and direction asked for.
SourceContract == Abstract!Spec
=============================================================================
