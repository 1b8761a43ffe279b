----------------------------- MODULE LockService -----------------------------
(***************************************************************************)
(* What Lock and Unlock of a database driver promise to the callers of     *)
(* Migrate (database/driver.go): a database lock, so that only one         *)
(* migration process can run at a time.  A lock belongs to an instance (a  *)
(* Migrate value with its own database session); callers are the           *)
(* goroutines that use the instance.  An instance may own the lock while   *)
(* no caller is inside: that is how a lock outlives a failed unlock or a   *)
(* lock attempt that has timed out.                                        *)
(***************************************************************************)
CONSTANTS
  Instances,   \* Migrate values, each with a database session of its own
  Callers,     \* goroutines
  InstanceOf,  \* the instance each caller uses
  NoInstance   \* nobody owns the lock

VARIABLES
  holder,  \* the instance whose session owns the database lock
  inside   \* the callers between a successful lock() and their unlock()

vars == <<holder, inside>>

TypeOK ==
  /\ holder \in Instances \cup {NoInstance}
  /\ inside \subseteq Callers

Init == holder = NoInstance /\ inside = {}

\* The database grants the lock to the session of i.
Acquire(i) ==
  /\ holder = NoInstance
  /\ holder' = i
  /\ UNCHANGED inside

\* lock() returns nil to c, in the step that grants the lock or later.
Enter(c) ==
  /\ holder \in {NoInstance, InstanceOf[c]}
  /\ inside = {}
  /\ holder' = InstanceOf[c]
  /\ inside' = {c}

\* c leaves; the database lock goes with it or later, when no one is inside.
Leave(c) ==
  /\ c \in inside
  /\ inside' = inside \ {c}
  /\ holder' \in {holder, NoInstance}

Release(i) ==
  /\ holder = i
  /\ \A c \in inside : InstanceOf[c] # i
  /\ holder' = NoInstance
  /\ UNCHANGED inside

\* The process of i dies: its callers are gone and its session ends.
Crash(i) ==
  /\ inside' = {c \in inside : InstanceOf[c] # i}
  /\ holder' = IF holder = i THEN NoInstance ELSE holder

Next ==
  \/ \E i \in Instances : Acquire(i) \/ Release(i) \/ Crash(i)
  \/ \E c \in Callers : Enter(c) \/ Leave(c)

Spec == Init /\ [][Next]_vars

\* Only one migration process runs at a time, and it owns the lock.
Exclusive ==
  /\ \A c, d \in inside : c = d
  /\ \A c \in inside : holder = InstanceOf[c]
=============================================================================
