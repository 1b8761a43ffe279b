--------------------------- MODULE VersionRegister ---------------------------
(***************************************************************************)
(* What SetVersion and Version of a database driver promise                *)
(* (database/driver.go), and what module Migrate takes for granted: a      *)
(* register that holds a version and a dirty flag.  A SetVersion that      *)
(* returns nil has taken effect; one that fails, or whose process dies,    *)
(* has taken effect or has not.  A Version that returns no error returns   *)
(* what is in the register at that moment.  Some drivers promise less: the *)
(* register may be empty while a SetVersion runs and after it failed, or a *)
(* Version that fails may look like one of an empty register.              *)
(***************************************************************************)
CONSTANTS
  Values,  \* versions with a dirty flag
  Empty    \* the nil version, clean

VARIABLES
  reg,   \* the register
  busy,  \* a SetVersion is running
  arg,   \* its arguments
  got,   \* what the latest Version returned: an error flag and a value
  torn,  \* SetVersion may empty the register first
  quiet  \* Version may report an error as an empty register

vars == <<reg, busy, arg, got, torn, quiet>>

Init ==
  /\ reg = Empty /\ busy = FALSE /\ arg = Empty /\ got = [ok |-> TRUE, value |-> Empty]
  /\ torn \in BOOLEAN /\ quiet \in BOOLEAN

Set(v) ==
  /\ ~busy
  /\ busy' = TRUE /\ arg' = v
  /\ UNCHANGED <<reg, got, torn, quiet>>

Wipe ==
  /\ busy /\ torn
  /\ reg' = Empty
  /\ UNCHANGED <<busy, arg, got, torn, quiet>>

SetOk ==
  /\ busy
  /\ reg' = arg /\ busy' = FALSE
  /\ UNCHANGED <<arg, got, torn, quiet>>

SetFails ==
  /\ busy
  /\ reg' \in {reg, arg} \/ (torn /\ reg' = Empty)
  /\ busy' = FALSE
  /\ UNCHANGED <<arg, got, torn, quiet>>

Get ==
  /\ \/ got' \in {[ok |-> TRUE, value |-> reg], [ok |-> FALSE, value |-> Empty]}
     \/ quiet /\ got' = [ok |-> TRUE, value |-> Empty]
  /\ UNCHANGED <<reg, busy, arg, torn, quiet>>

Next == (\E v \in Values : Set(v)) \/ Wipe \/ SetOk \/ SetFails \/ Get

Spec == Init /\ [][Next]_vars
=============================================================================
