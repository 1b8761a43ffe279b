------------------------- MODULE DriverTablesProofs --------------------------
(***************************************************************************)
(* Open and Drop of the drivers, for any number of processes, tables and   *)
(* drivers: what they report, and who may delete a table.  The argument is *)
(* about one process at a time: what it knows about the tables while it    *)
(* has the lock, and why the steps of the others leave that alone.         *)
(***************************************************************************)
EXTENDS DriverTables, TLAPS

\* Most steps need no arithmetic: a step that does not say SMT is one for Zenon.
USE Zenon

Types ==
  /\ driver \in Drivers /\ team \subseteq Procs
  /\ tables \subseteq Tables /\ holder \in Procs \cup {NoProc}
  /\ pc \in [Procs -> Places] /\ op \in [Procs -> {"open", "drop"}]
  /\ todo \in [Procs -> SUBSET Tables]
  /\ result \in [Procs -> {"nil", "error", "clash"}]

\* Places between Lock and Unlock.
Guarded == {"checking", "creating", "listing", "dropping", "unlocking"}

Owns(p) == driver.lock = "session" /\ pc[p] \in Guarded => holder = p

About(p) ==
  /\ pc[p] \in {"checking", "creating"} => op[p] = "open"
  /\ pc[p] \in {"listing", "dropping"} => op[p] = "drop"
  /\ pc[p] = "lockTable" => driver.lockTable = "table"
  /\ pc[p] = "newLockTable" => driver.lockTable # "none"

Thorough == driver.listing = "error" /\ driver.drop # "nothing"

\* The tables that Drop passes over.
Spared == IF driver.spares = "nothing" THEN {} ELSE {VersionTable}

\* Drop knows all the other tables that are left.
Listed(p) ==
  pc[p] = "dropping" /\ driver.drop # "all" /\ Undisturbed(p) /\ Thorough =>
    tables \subseteq todo[p] \cup Spared

Dropped(p) == DropSucceeds(p) /\ Thorough => tables \subseteq Spared

Opened(p) ==
  op[p] = "open" /\ pc[p] = "unlocking" /\ result[p] = "nil" /\ Undisturbed(p)
    /\ driver.create # "none" => VersionTable \in tables

Knows(p) == Owns(p) /\ About(p) /\ Listed(p) /\ Dropped(p) /\ Opened(p)

TablesInv == Types /\ \A p \in Procs : Knows(p)

-----------------------------------------------------------------------------
\* A step of p, as the other processes see it: if one of them owns the lock of a
\* session, p changes neither the tables nor the lock.
Considerate(p) ==
  /\ UNCHANGED <<driver, team>>
  /\ \A q \in Procs : q # p =>
       pc'[q] = pc[q] /\ op'[q] = op[q] /\ todo'[q] = todo[q] /\ result'[q] = result[q]
  /\ driver.lock = "session" /\ holder \notin {p, NoProc} =>
       tables' = tables /\ holder' = holder

\* What the others know stays true.
LEMMA OthersKnow ==
  ASSUME TablesInv, NEW p \in Procs, p \in team, Considerate(p),
         NEW q \in Procs, q # p
  PROVE  Knows(q)'
<1>1. NoProc # q
  BY DriverTablesAssumption
<1>2. /\ driver' = driver /\ team' = team
      /\ pc'[q] = pc[q] /\ op'[q] = op[q] /\ todo'[q] = todo[q] /\ result'[q] = result[q]
  BY DEF Considerate
<1>3. Knows(q)
  BY DEF TablesInv
<1>4. driver.lock = "session" /\ pc[q] \in Guarded => tables' = tables /\ holder' = holder
  BY <1>1, <1>3 DEF Knows, Owns, Considerate
<1>5. Undisturbed(q) => driver.lock = "session"
  BY DEF Undisturbed
<1>6. Undisturbed(q)' = Undisturbed(q)
  BY <1>2 DEF Undisturbed
<1>7. Owns(q)'
  BY <1>2, <1>3, <1>4 DEF Knows, Owns
<1>8. About(q)'
  BY <1>2, <1>3 DEF Knows, About
<1>9. Listed(q)'
  BY <1>2, <1>3, <1>4, <1>5, <1>6 DEF Knows, Listed, Thorough, Spared, Guarded
<1>10. Dropped(q)'
  BY <1>2, <1>3, <1>4, <1>5, <1>6 DEF Knows, Dropped, DropSucceeds, Thorough, Spared, Guarded
<1>11. Opened(q)'
  BY <1>2, <1>3, <1>4, <1>5, <1>6 DEF Knows, Opened, Guarded
<1> QED
  BY <1>7, <1>8, <1>9, <1>10, <1>11 DEF Knows

\* So a step has to be considerate and leave p with what it has to know.
LEMMA StepOf ==
  ASSUME TablesInv, NEW p \in Procs, p \in team, Considerate(p), Types', Knows(p)'
  PROVE  TablesInv' /\ Considerate(p)
BY OthersKnow DEF TablesInv

\* Goto and Result concern p alone.
LEMMA Goes ==
  ASSUME Types, NEW p \in Procs, NEW place \in Places, Goto(p, place)
  PROVE  /\ pc' \in [Procs -> Places] /\ pc'[p] = place
         /\ \A q \in Procs : q # p => pc'[q] = pc[q]
BY DEF Types, Goto

\* A process that returns sets its own result and nobody else's.
LEMMA Results ==
  ASSUME Types, NEW p \in Procs, NEW r \in {"nil", "error", "clash"}, Result(p, r)
  PROVE  /\ result' \in [Procs -> {"nil", "error", "clash"}] /\ result'[p] = r
         /\ \A q \in Procs : q # p => result'[q] = result[q]
BY DEF Types, Result

\* The last step of Open before ensureVersionTable.
LEMMA OpenGoes ==
  ASSUME Types, NEW p \in Procs, OpenStep(p), ~(step[p] < Len(driver.open))
  PROVE  /\ pc' \in [Procs -> Places] /\ \A q \in Procs : q # p => pc'[q] = pc[q]
         /\ pc'[p] \in {"lockTable", "newLockTable", "locking"}
         /\ pc'[p] = "lockTable" => driver.lockTable = "table"
         /\ pc'[p] = "newLockTable" => driver.lockTable = "index"
<1> USE DEF Places
<1>1. CASE driver.lockTable = "table"
  BY <1>1, Goes DEF OpenStep
<1>2. CASE driver.lockTable = "index"
  BY <1>2, Goes DEF OpenStep
<1>3. CASE driver.lockTable \notin {"table", "index"}
  BY <1>3, Goes DEF OpenStep
<1> QED
  BY <1>1, <1>2, <1>3

-----------------------------------------------------------------------------
\* Steps outside of the lock that change neither tables nor lock.
LEMMA OpeningStep ==
  ASSUME TablesInv, NEW p \in Procs, p \in team,
         Open(p) \/ OpenStep(p) \/ FindLockTable(p) \/ Drop(p)
  PROVE  TablesInv' /\ Considerate(p)
<1>1. UNCHANGED <<driver, team, tables, holder, todo>>
  BY DEF Open, OpenStep, FindLockTable, Drop
<1>2. Types /\ Knows(p)
  BY DEF TablesInv
<1>3. /\ op' \in [Procs -> {"open", "drop"}] /\ \A q \in Procs : q # p => op'[q] = op[q]
      /\ result' \in [Procs -> {"nil", "error", "clash"}]
      /\ \A q \in Procs : q # p => result'[q] = result[q]
  BY <1>2 DEF Open, OpenStep, FindLockTable, Drop, Result, Types
<1>4. /\ pc' \in [Procs -> Places] /\ \A q \in Procs : q # p => pc'[q] = pc[q]
      /\ pc'[p] \notin Guarded
      /\ pc'[p] = "lockTable" => driver.lockTable = "table"
      /\ pc'[p] = "newLockTable" => driver.lockTable # "none"
  <2> USE DEF Places, Guarded
  <2>1. CASE Open(p)
    BY <1>2, <2>1, Goes DEF Open
  <2>2. CASE OpenStep(p)
    <3>1. CASE pc' = pc
      BY <1>2, <2>2, <3>1 DEF OpenStep, Types
    <3>2. CASE ~(step[p] < Len(driver.open))
      BY <1>2, <2>2, <3>2, OpenGoes
    <3> QED
      BY <2>2, <3>1, <3>2 DEF OpenStep
  <2>3. CASE FindLockTable(p)
    BY <1>2, <2>3, Goes DEF FindLockTable, Knows, About
  <2>4. CASE Drop(p)
    BY <1>2, <2>4, Goes DEF Drop
  <2> QED
    BY <2>1, <2>2, <2>3, <2>4
<1>5. Considerate(p)
  BY <1>1, <1>3, <1>4 DEF Considerate
<1>6. Types'
  BY <1>1, <1>2, <1>3, <1>4 DEF Types
<1>7. Knows(p)'
  BY <1>1, <1>4 DEF Knows, Owns, About, Listed, Dropped, DropSucceeds, Opened, Guarded
<1> QED
  BY <1>5, <1>6, <1>7, StepOf

\* Steps outside of the lock that may create a table: of Open for the lock table,
\* which goes with a lock row, and of a migration, which needs the lock.
LEMMA CreatingStep ==
  ASSUME TablesInv, NEW p \in Procs, p \in team,
         OpenFails(p) \/ CreateLockTable(p) \/ \E t \in UserTables : Migrate(p, t)
  PROVE  TablesInv' /\ Considerate(p)
<1>1. UNCHANGED <<driver, team, todo, op>>
  BY DEF OpenFails, CreateLockTable, Migrate
<1>2. Types /\ Knows(p)
  BY DEF TablesInv
<1>3. driver.lock = "session" => driver.lockTable = "none"
  BY <1>2, DriverTablesAssumption DEF Types
<1>4. /\ holder' \in {holder, NoProc}
      /\ driver.lock = "session" => (tables' = tables /\ holder' = holder) \/ holder = NoProc
  <2>1. CASE OpenFails(p)
    BY <1>2, <1>3, <2>1 DEF OpenFails, Knows, About
  <2>2. CASE CreateLockTable(p)
    BY <1>2, <1>3, <2>2 DEF CreateLockTable, Knows, About
  <2>3. CASE \E t \in UserTables : Migrate(p, t)
    BY <1>3, <2>3 DEF Migrate, Taken
  <2> QED
    BY <2>1, <2>2, <2>3
<1>5. /\ result' \in [Procs -> {"nil", "error", "clash"}]
      /\ \A q \in Procs : q # p => result'[q] = result[q]
  BY <1>2 DEF OpenFails, CreateLockTable, Migrate, Result, Types
<1>6. /\ pc' \in [Procs -> Places] /\ \A q \in Procs : q # p => pc'[q] = pc[q]
      /\ pc'[p] \in {"failed", "locking", "ready"}
  <2> USE DEF Places
  <2>1. CASE OpenFails(p)
    BY <1>2, <2>1, Goes DEF OpenFails
  <2>2. CASE CreateLockTable(p)
    BY <1>2, <2>2, Goes DEF CreateLockTable
  <2>3. CASE \E t \in UserTables : Migrate(p, t)
    BY <1>2, <2>3 DEF Migrate, Types
  <2> QED
    BY <2>1, <2>2, <2>3
<1>7. Considerate(p)
  BY <1>1, <1>4, <1>5, <1>6 DEF Considerate
<1>8. Types'
  <2>1. tables' \subseteq Tables
    BY <1>2 DEF OpenFails, CreateLockTable, Migrate, Types, Tables
  <2> QED
    BY <1>1, <1>2, <1>4, <1>5, <1>6, <2>1 DEF Types
<1>9. Knows(p)'
  BY <1>6 DEF Knows, Owns, About, Listed, Dropped, DropSucceeds, Opened, Guarded
<1> QED
  BY <1>7, <1>8, <1>9, StepOf

\* Where an operation goes once it has the lock: Open to the version table, Drop to its
\* listing, or to its one statement.
InsideOf(p) ==
  \/ Inside(p) = "checking" /\ op[p] = "open" /\ driver.check # "none"
  \/ Inside(p) = "creating" /\ op[p] = "open" /\ driver.check = "none"
  \/ Inside(p) = "listing" /\ op[p] = "drop"
  \/ Inside(p) = "dropping" /\ op[p] = "drop" /\ driver.drop = "all"

\* Every operation goes to one of these places.
LEMMA WhereInside == ASSUME Types, NEW p \in Procs PROVE InsideOf(p)
<1>1. op[p] \in {"open", "drop"}
  BY DEF Types
<1>2. CASE op[p] = "drop"
  BY <1>2 DEF Inside, InsideOf
<1>3. CASE op[p] = "open"
  BY <1>3 DEF Inside, InsideOf
<1> QED
  BY <1>1, <1>2, <1>3

\* Lock and Unlock, and the end of a process.
LEMMA LockingStep ==
  ASSUME TablesInv, NEW p \in Procs, p \in team,
         Lock(p) \/ LockFails(p) \/ Unlock(p) \/ UnlockFails(p) \/ Close(p) \/ Crash(p)
  PROVE  TablesInv' /\ Considerate(p)
<1>1. UNCHANGED <<driver, team, tables, op>>
  BY DEF Lock, LockFails, Unlock, UnlockFails, Close, Crash, Leave
<1>2. Types /\ Knows(p)
  BY DEF TablesInv
<1>3. /\ holder' \in Procs \cup {NoProc}
      /\ driver.lock = "session" /\ holder \notin {p, NoProc} => holder' = holder
  <2>1. driver.lock = "session" => driver.lockTable = "none"
    BY <1>2, DriverTablesAssumption DEF Types
  <2>2. CASE Lock(p) \/ LockFails(p)
    BY <1>2, <2>1, <2>2 DEF Lock, LockFails, Taken, Types
  <2>3. CASE Unlock(p) \/ UnlockFails(p)
    BY <1>2, <2>3 DEF Unlock, UnlockFails, Released, Types
  <2>4. CASE Close(p) \/ Crash(p)
    BY <1>2, <2>4 DEF Close, Crash, Leave, Types
  <2> QED
    BY <2>2, <2>3, <2>4
<1>4. /\ result' \in [Procs -> {"nil", "error", "clash"}]
      /\ \A q \in Procs : q # p => result'[q] = result[q]
  BY <1>2 DEF Lock, LockFails, Unlock, UnlockFails, Close, Crash, Leave, Result, Types
<1>5. /\ todo' \in [Procs -> SUBSET Tables]
      /\ \A q \in Procs : q # p => todo'[q] = todo[q]
  BY <1>2 DEF Lock, LockFails, Unlock, UnlockFails, Close, Crash, Leave, Types
<1>6. CASE Lock(p)
  <2>1. InsideOf(p)
    BY <1>2, WhereInside
  <2>2. /\ pc' \in [Procs -> Places] /\ \A q \in Procs : q # p => pc'[q] = pc[q]
        /\ pc'[p] = Inside(p)
    BY <1>2, <1>6, <2>1, Goes DEF Lock, InsideOf, Places
  <2>3. op[p] \in {"open", "drop"}
    BY <1>2 DEF Types
  <2>4. \/ pc'[p] \in {"checking", "creating"} /\ op[p] = "open"
        \/ pc'[p] = "listing" /\ op[p] = "drop"
        \/ pc'[p] = "dropping" /\ op[p] = "drop" /\ driver.drop = "all"
    BY <2>1, <2>2 DEF InsideOf
  <2>5. driver.lock = "session" => holder' = p
    BY <1>6 DEF Lock, Locks
  <2>6. Considerate(p) /\ Types'
    BY <1>1, <1>2, <1>3, <1>4, <1>5, <2>2 DEF Considerate, Types
  <2>7. Owns(p)' /\ About(p)'
    BY <1>1, <2>3, <2>4, <2>5 DEF Owns, About
  <2>8. Listed(p)' /\ Dropped(p)' /\ Opened(p)'
    BY <1>1, <2>4 DEF Listed, Dropped, DropSucceeds, Opened
  <2> QED
    BY <2>6, <2>7, <2>8, StepOf DEF Knows
<1>7. CASE LockFails(p) \/ Unlock(p) \/ UnlockFails(p) \/ Close(p) \/ Crash(p)
  <2>1. /\ pc' \in [Procs -> Places] /\ \A q \in Procs : q # p => pc'[q] = pc[q]
        /\ pc'[p] \in {"failed", "stuck", "ready", "none"}
    <3> USE DEF Places
    <3>1. CASE LockFails(p) \/ Unlock(p)
      BY <1>2, <3>1, Goes DEF LockFails, Unlock
    <3>2. CASE UnlockFails(p)
      BY <1>2, <3>2, Goes DEF UnlockFails
    <3>3. CASE Close(p) \/ Crash(p)
      BY <1>2, <3>3, Goes DEF Close, Crash, Leave
    <3> QED
      BY <1>7, <3>1, <3>2, <3>3
  <2>2. Considerate(p) /\ Types'
    BY <1>1, <1>2, <1>3, <1>4, <1>5, <2>1 DEF Considerate, Types
  <2>3. Knows(p)'
    BY <2>1 DEF Knows, Owns, About, Listed, Dropped, DropSucceeds, Opened, Guarded
  <2> QED
    BY <2>2, <2>3, StepOf
<1> QED
  BY <1>6, <1>7

-----------------------------------------------------------------------------
\* ensureVersionTable, with the lock: it reports success only over a version table.
LEMMA EnsuringStep ==
  ASSUME TablesInv, NEW p \in Procs, p \in team,
         Check(p) \/ CheckFails(p) \/ Create(p) \/ CreateFails(p)
  PROVE  TablesInv' /\ Considerate(p)
<1>1. UNCHANGED <<driver, team, holder, op, todo>>
  BY DEF Check, CheckFails, Create, CreateFails
<1>2. Types /\ Knows(p)
  BY DEF TablesInv
<1>3. pc[p] \in {"checking", "creating"} /\ op[p] = "open"
  BY <1>2 DEF Check, CheckFails, Create, CreateFails, Knows, About
<1>4. driver.lock = "session" => holder = p
  BY <1>2, <1>3 DEF Knows, Owns, Guarded
<1>5. /\ result' \in [Procs -> {"nil", "error", "clash"}]
      /\ \A q \in Procs : q # p => result'[q] = result[q]
  BY <1>2 DEF Check, CheckFails, Create, CreateFails, Result, Types
<1>6. /\ pc' \in [Procs -> Places] /\ \A q \in Procs : q # p => pc'[q] = pc[q]
      /\ pc'[p] \in {"creating", "unlocking"}
  <2> USE DEF Places
  <2>1. CASE Check(p)
    BY <1>2, <2>1, Goes DEF Check
  <2>2. CASE CheckFails(p)
    BY <1>2, <2>2, Goes DEF CheckFails
  <2>3. CASE Create(p) \/ CreateFails(p)
    BY <1>2, <2>3, Goes DEF Create, CreateFails
  <2> QED
    BY <2>1, <2>2, <2>3
<1>7. pc'[p] = "unlocking" /\ result'[p] = "nil" /\ driver.create # "none" =>
        VersionTable \in tables'
  <2> USE DEF Places
  <2>1. CASE Check(p)
    BY <1>2, <2>1, Goes DEF Check
  <2>2. CASE CheckFails(p)
    <3>1. CASE Goto(p, "creating")
      BY <1>2, <3>1, Goes
    <3>2. CASE Result(p, "error")
      BY <1>2, <3>2, Results
    <3> QED
      BY <2>2, <3>1, <3>2 DEF CheckFails
  <2>3. CASE Create(p)
    BY <2>3 DEF Create
  <2>4. CASE CreateFails(p)
    BY <1>2, <2>4, Results DEF CreateFails
  <2> QED
    BY <2>1, <2>2, <2>3, <2>4
<1>8. Considerate(p) /\ Types'
  <2>1. tables' \subseteq Tables
    BY <1>2 DEF Check, CheckFails, Create, CreateFails, Types, Tables
  <2> QED
    BY <1>1, <1>2, <1>4, <1>5, <1>6, <2>1 DEF Considerate, Types
<1>9. Owns(p)' /\ About(p)'
  BY <1>1, <1>3, <1>4, <1>6 DEF Owns, About
<1>10. Listed(p)' /\ Dropped(p)' /\ Opened(p)'
  BY <1>1, <1>3, <1>6, <1>7 DEF Listed, Dropped, DropSucceeds, Opened
<1> QED
  BY <1>8, <1>9, <1>10, StepOf DEF Knows

\* Drop, with the lock: it reports success only over an empty database.
LEMMA DroppingStep ==
  ASSUME TablesInv, NEW p \in Procs, p \in team,
         List(p) \/ ListFails(p) \/ DropTable(p) \/ DropAll(p) \/ DropFails(p) \/ DropDone(p)
  PROVE  TablesInv' /\ Considerate(p)
<1>1. UNCHANGED <<driver, team, op>>
  BY DEF List, ListFails, DropTable, DropAll, DropFails, DropDone
<1>2. Types /\ Knows(p)
  BY DEF TablesInv
<1>3. pc[p] \in {"listing", "dropping"} /\ op[p] = "drop"
  BY <1>2 DEF List, ListFails, DropTable, DropAll, DropFails, DropDone, Knows, About
<1>4. driver.lock = "session" => holder = p
  BY <1>2, <1>3 DEF Knows, Owns, Guarded
<1>5. /\ holder' \in {holder, NoProc}
      /\ driver.lock = "session" => holder' = holder
  BY DEF List, ListFails, DropTable, DropAll, DropFails, DropDone, Without
<1>6. /\ result' \in [Procs -> {"nil", "error", "clash"}]
      /\ \A q \in Procs : q # p => result'[q] = result[q]
  BY <1>2 DEF List, ListFails, DropTable, DropAll, DropFails, DropDone, Result, Types
<1>7. /\ todo' \in [Procs -> SUBSET Tables]
      /\ \A q \in Procs : q # p => todo'[q] = todo[q]
  <2>1. CASE List(p)
    <3>1. tables \subseteq Tables
      BY DEF TablesInv, Types
    <3>2. PICK names \in SUBSET tables : todo' = [todo EXCEPT ![p] = names]
      BY <2>1 DEF List, Visible
    <3> QED
      BY <1>2, <3>1, <3>2 DEF Types
  <2>2. CASE DropTable(p)
    <3>1. \/ todo' = todo
          \/ \E t \in NextTables(p) : todo' = [todo EXCEPT ![p] = @ \ {t}]
      BY <2>2 DEF DropTable
    <3> QED
      BY <1>2, <3>1 DEF Types
  <2>3. CASE ListFails(p) \/ DropAll(p) \/ DropFails(p) \/ DropDone(p)
    BY <1>2, <2>3 DEF ListFails, DropAll, DropFails, DropDone, Types
  <2> QED
    BY <2>1, <2>2, <2>3
<1>8. /\ pc' \in [Procs -> Places] /\ \A q \in Procs : q # p => pc'[q] = pc[q]
      /\ pc'[p] \in {"dropping", "unlocking"}
  <2> USE DEF Places
  <2>1. CASE List(p)
    BY <1>2, <2>1, Goes DEF List
  <2>2. CASE DropTable(p)
    <3>1. CASE pc' = pc
      BY <1>2, <2>2, <3>1 DEF DropTable, Types
    <3>2. CASE Goto(p, "unlocking")
      BY <1>2, <3>2, Goes
    <3> QED
      BY <2>2, <3>1, <3>2 DEF DropTable
  <2>3. CASE ListFails(p) \/ DropAll(p) \/ DropFails(p) \/ DropDone(p)
    BY <1>2, <2>3, Goes DEF ListFails, DropAll, DropFails, DropDone
  <2> QED
    BY <2>1, <2>2, <2>3
<1>9. Thorough /\ Undisturbed(p) /\ driver.drop # "all" /\ pc'[p] = "dropping" =>
        tables' \subseteq todo'[p] \cup Spared
  <2> USE DEF Places
  <2>1. CASE List(p)
    <3>1. tables' = tables /\ (Thorough => todo'[p] = Visible)
      BY <1>2, <2>1 DEF List, Thorough, Types
    <3>2. tables \subseteq Visible \cup Spared
      BY DEF Visible, Spared
    <3> QED
      BY <3>1, <3>2
  <2>2. CASE DropTable(p)
    <3>1. CASE Goto(p, "unlocking")
      BY <1>2, <3>1, Goes
    <3>2. ASSUME NEW t \in NextTables(p), tables' = Gone(t),
                 todo' = [todo EXCEPT ![p] = @ \ {t}], Thorough, Undisturbed(p)
          PROVE  tables' \subseteq todo'[p] \cup Spared
      <4>1. tables \subseteq todo[p] \cup Spared
        BY <1>2, <2>2, <3>2 DEF DropTable, Knows, Listed
      <4>2. todo'[p] = todo[p] \ {t}
        BY <1>2, <3>2 DEF Types
      <4>3. tables' = tables \ {t} \/ (tables' = tables /\ t \in Spared)
        BY <3>2 DEF Gone, Thorough, Spared
      <4> QED
        BY <4>1, <4>2, <4>3
    <3> QED
      BY <2>2, <3>1, <3>2 DEF DropTable
  <2>3. CASE ListFails(p) \/ DropAll(p) \/ DropFails(p) \/ DropDone(p)
    BY <1>2, <2>3, Goes DEF ListFails, DropAll, DropFails, DropDone
  <2> QED
    BY <2>1, <2>2, <2>3
<1>10. Thorough /\ Undisturbed(p) /\ pc'[p] = "unlocking" /\ result'[p] = "nil" =>
         tables' \subseteq Spared
  <2> USE DEF Places
  <2>1. CASE List(p)
    BY <1>2, <2>1, Goes DEF List
  <2>2. CASE DropTable(p)
    <3>1. CASE Result(p, "clash")
      BY <1>2, <3>1, Results
    <3>2. CASE pc' = pc
      BY <2>2, <3>2 DEF DropTable
    <3> QED
      BY <2>2, <3>1, <3>2 DEF DropTable
  <2>3. CASE ListFails(p) \/ DropFails(p)
    BY <1>2, <2>3, Results DEF ListFails, DropFails
  <2>4. CASE DropAll(p)
    BY <2>4 DEF DropAll
  <2>5. CASE DropDone(p)
    BY <1>2, <2>5 DEF DropDone, Knows, Listed
  <2> QED
    BY <2>1, <2>2, <2>3, <2>4, <2>5
<1>11. Considerate(p) /\ Types'
  <2>1. tables' \subseteq Tables
    BY <1>2 DEF List, ListFails, DropTable, DropAll, DropFails, DropDone, Gone, Types
  <2> QED
    BY <1>1, <1>2, <1>4, <1>5, <1>6, <1>7, <1>8, <2>1 DEF Considerate, Types
<1>12. Owns(p)' /\ About(p)'
  BY <1>1, <1>3, <1>4, <1>5, <1>8 DEF Owns, About
<1>13. Undisturbed(p)' = Undisturbed(p) /\ Thorough' = Thorough /\ Spared' = Spared
  BY <1>1 DEF Undisturbed, Thorough, Spared
<1>14. Listed(p)' /\ Dropped(p)' /\ Opened(p)'
  BY <1>1, <1>3, <1>9, <1>10, <1>13 DEF Listed, Dropped, DropSucceeds, Opened
<1> QED
  BY <1>11, <1>12, <1>14, StepOf DEF Knows

-----------------------------------------------------------------------------
\* No process has opened anything.
LEMMA TablesInit == Init => TablesInv
<1> SUFFICES ASSUME Init PROVE TablesInv
  OBVIOUS
<1>1. Types
  BY DEF Init, Types, Places
<1>2. ASSUME NEW p \in Procs
      PROVE  Knows(p)
  <2>1. pc[p] = "none"
    BY DEF Init
  <2> QED
    BY <2>1 DEF Knows, Owns, About, Listed, Dropped, DropSucceeds, Opened, Guarded
<1> QED
  BY <1>1, <1>2 DEF TablesInv

\* Every step of a process keeps what all of them know.
LEMMA TablesStep == TablesInv /\ [Next]_vars => TablesInv'
<1> SUFFICES ASSUME TablesInv, [Next]_vars PROVE TablesInv'
  OBVIOUS
<1>1. CASE Next
  <2>1. PICK p \in team :
          \/ Open(p) \/ OpenStep(p) \/ OpenFails(p) \/ FindLockTable(p) \/ CreateLockTable(p)
          \/ Lock(p) \/ LockFails(p) \/ Unlock(p) \/ UnlockFails(p)
          \/ Check(p) \/ CheckFails(p) \/ Create(p) \/ CreateFails(p)
          \/ \E t \in UserTables : Migrate(p, t)
          \/ Drop(p) \/ List(p) \/ ListFails(p) \/ DropTable(p) \/ DropAll(p) \/ DropFails(p)
          \/ DropDone(p) \/ Close(p) \/ Crash(p)
    BY <1>1 DEF Next
  <2>2. p \in Procs
    BY DEF TablesInv, Types
  <2> QED
    BY <2>1, <2>2, OpeningStep, CreatingStep, LockingStep, EnsuringStep, DroppingStep
<1>2. CASE UNCHANGED vars
  <2>1. Types'
    BY <1>2 DEF TablesInv, Types, vars
  <2>2. ASSUME NEW p \in Procs
        PROVE  Knows(p)'
    <3>1. Knows(p)
      BY DEF TablesInv
    <3> QED
      BY <1>2, <3>1 DEF Knows, Owns, About, Listed, Dropped, DropSucceeds, Opened, Undisturbed,
                        Thorough, Spared, vars
  <2> QED
    BY <2>1, <2>2 DEF TablesInv
<1> QED
  BY <1>1, <1>2

\* "Drop deletes everything in the database" (database/driver.go), for any number of
\* processes and tables, as far as it is true: a Drop that reports no error has left no
\* table but a version table in a schema that it does not list, or under a name that its
\* statement misses, for drivers that look at the errors of their listing and whose
\* statements delete tables.
THEOREM DropLeavesNothing == Spec => []DropIsThorough
<1>1. TablesInv => DropIsThorough
  <2> SUFFICES ASSUME TablesInv, Thorough, NEW p \in Procs, DropSucceeds(p)
               PROVE  tables = {} \/ (driver.spares # "nothing" /\ tables = {VersionTable})
    BY DEF DropIsThorough, Thorough
  <2>1. tables \subseteq Spared
    BY DEF TablesInv, Knows, Dropped
  <2> QED
    BY <2>1 DEF Spared
<1> QED
  BY <1>1, TablesInit, TablesStep, PTL DEF Spec

\* Open of a driver returns a value only over a version table, for any number of
\* processes that open and drop beside it: ensureVersionTable has the lock.
THEOREM OpenFindsTable == Spec => []OpenedHasTable
<1>1. TablesInv => OpenedHasTable
  BY DEF TablesInv, Knows, Opened, OpenedHasTable
<1> QED
  BY <1>1, TablesInit, TablesStep, PTL DEF Spec

\* Tables, the version table among them, disappear only by the Drop of a process,
\* and with a lock of its session only while it owns the lock.
THEOREM TablesStay == Spec => OnlyDropDeletes
<1>1. TablesInv /\ [Next]_vars =>
        [tables \subseteq tables' \/ \E p \in Procs :
           pc[p] = "dropping" /\ (driver.lock = "session" => holder = p)]_vars
  <2> SUFFICES ASSUME TablesInv, [Next]_vars, ~(tables \subseteq tables')
               PROVE  \E p \in Procs :
                        pc[p] = "dropping" /\ (driver.lock = "session" => holder = p)
    OBVIOUS
  <2>1. Next
    BY DEF vars
  <2>2. PICK p \in team : DropTable(p) \/ DropAll(p) \/ DropFails(p)
    BY <2>1, ZenonT(40) DEF Next, Open, OpenStep, OpenFails, FindLockTable, CreateLockTable, Lock,
         LockFails, Unlock, UnlockFails, Check, CheckFails, Create, CreateFails, Migrate,
         Drop, List, ListFails, DropDone, Close, Crash, Leave
  <2>3. p \in Procs /\ pc[p] = "dropping"
    BY <2>2 DEF DropTable, DropAll, DropFails, TablesInv, Types
  <2>4. driver.lock = "session" => holder = p
    BY <2>3 DEF TablesInv, Knows, Owns, Guarded
  <2> QED
    BY <2>3, <2>4
<1> QED
  BY <1>1, TablesInit, TablesStep, PTL DEF Spec, OnlyDropDeletes

-----------------------------------------------------------------------------
(***************************************************************************)
(* Statements do not trip.  A process that nobody disturbs creates a table *)
(* only where it has seen none, and has only tables on its list that are   *)
(* still there; those it knows all of (Listed), so that it can tell which  *)
(* of them others refer to.                                                *)
(***************************************************************************)
Seen(p) ==
  Undisturbed(p) =>
    /\ pc[p] = "newLockTable" /\ driver.lockTable = "table" => LockTable \notin tables
    /\ pc[p] = "creating" /\ driver.check = "asks" => VersionTable \notin tables
    /\ pc[p] = "dropping" /\ driver.drop # "all" => todo[p] \subseteq tables

\* The processes that NobodyTrips speaks of.
Sure(p) ==
  /\ \/ Undisturbed(p)
     \/ driver.create # "strict" /\ driver.lockTable # "table" /\ driver.drop # "strict"
  /\ driver.order # "any" /\ (driver.check = "probes" => op[p] = "drop")

Tidy(p) == Seen(p) /\ (Sure(p) => result[p] # "clash")

TripInv == \A p \in Procs : Tidy(p)

\* The step of a process is none of the business of the others.
LEMMA OthersTidy ==
  ASSUME TablesInv, NEW p \in Procs, p \in team, Considerate(p),
         NEW q \in Procs, q # p, Tidy(q)
  PROVE  Tidy(q)'
<1>1. /\ driver' = driver /\ team' = team
      /\ pc'[q] = pc[q] /\ op'[q] = op[q] /\ todo'[q] = todo[q] /\ result'[q] = result[q]
  BY DEF Considerate
<1>2. Undisturbed(q) => driver.lock = "session"
  BY DEF Undisturbed
<1>3. Undisturbed(q)' = Undisturbed(q)
  BY <1>1 DEF Undisturbed
<1>4. Undisturbed(q) /\ pc[q] \in Guarded => tables' = tables
  <2>1. Owns(q) /\ q # NoProc
    BY DriverTablesAssumption DEF TablesInv, Knows
  <2> QED
    BY <1>2, <2>1 DEF Owns, Considerate
<1>5. Undisturbed(q) => pc[q] # "newLockTable"
  BY <1>2, DriverTablesAssumption DEF TablesInv, Types, Knows, About
<1>6. Seen(q)'
  BY <1>1, <1>3, <1>4, <1>5 DEF Tidy, Seen, Guarded
<1>7. Sure(q)' = Sure(q)
  BY <1>1, <1>3 DEF Sure
<1> QED
  BY <1>1, <1>6, <1>7 DEF Tidy

\* Open up to ensureVersionTable.
LEMMA OpeningTidy ==
  ASSUME TablesInv, NEW p \in Procs, Tidy(p),
         \/ Open(p) \/ OpenStep(p) \/ OpenFails(p) \/ FindLockTable(p) \/ CreateLockTable(p)
         \/ LockFails(p) \/ Drop(p) \/ \E t \in UserTables : Migrate(p, t)
  PROVE  Tidy(p)'
<1>0. Types /\ About(p)
  BY DEF TablesInv, Knows
<1>1. UNCHANGED <<driver, team>> /\ (op'[p] = op[p] \/ result'[p] = "nil")
  BY <1>0 DEF Open, OpenStep, OpenFails, FindLockTable, CreateLockTable, LockFails, Drop,
              Migrate, Result, Types
<1>2. Undisturbed(p)' = Undisturbed(p)
  BY <1>1 DEF Undisturbed
<1>3. /\ pc'[p] \notin {"creating", "dropping"}
      /\ pc'[p] = "newLockTable" /\ driver.lockTable = "table" => LockTable \notin tables'
  <2> USE DEF Places
  <2>1. CASE Open(p) \/ LockFails(p) \/ Drop(p) \/ OpenFails(p)
    BY <1>0, <2>1, Goes DEF Open, LockFails, Drop, OpenFails
  <2>2. CASE OpenStep(p)
    <3>1. CASE pc' = pc
      BY <2>2, <3>1 DEF OpenStep
    <3>2. CASE ~(step[p] < Len(driver.open))
      BY <1>0, <2>2, <3>2, OpenGoes
    <3> QED
      BY <2>2, <3>1, <3>2 DEF OpenStep
  <2>3. CASE FindLockTable(p)
    BY <1>0, <2>3, Goes DEF FindLockTable
  <2>4. CASE CreateLockTable(p)
    BY <1>0, <2>4, Goes DEF CreateLockTable
  <2>5. CASE \E t \in UserTables : Migrate(p, t)
    BY <2>5 DEF Migrate
  <2> QED
    BY <2>1, <2>2, <2>3, <2>4, <2>5
<1>4. Seen(p)'
  BY <1>1, <1>3 DEF Seen
<1>5. CASE result'[p] = "nil"
  BY <1>4, <1>5 DEF Tidy
<1>6. CASE result'[p] # "nil"
  <2>1. op'[p] = op[p]
    BY <1>1, <1>6
  <2>2. Sure(p)' = Sure(p)
    BY <1>1, <1>2, <2>1 DEF Sure
  <2>3. Sure(p) => result'[p] # "clash"
    <3>1. CASE CreateLockTable(p)
      <4>1. pc[p] = "newLockTable"
        BY <3>1 DEF CreateLockTable
      <4>2. Sure(p) => ~(LockTable \in tables /\ driver.lockTable = "table")
        BY <4>1 DEF Sure, Tidy, Seen
      <4> QED
        BY <3>1, <4>2 DEF CreateLockTable, Tidy
    <3>2. CASE OpenFails(p) \/ LockFails(p)
      BY <1>0, <3>2, Results DEF OpenFails, LockFails
    <3>3. CASE Open(p) \/ Drop(p)
      BY <1>0, <3>3, Results DEF Open, Drop
    <3>4. CASE OpenStep(p) \/ FindLockTable(p) \/ \E t \in UserTables : Migrate(p, t)
      BY <3>4 DEF OpenStep, FindLockTable, Migrate, Tidy
    <3> QED
      BY <3>1, <3>2, <3>3, <3>4
  <2> QED
    BY <1>4, <2>2, <2>3 DEF Tidy
<1> QED
  BY <1>5, <1>6

\* Lock and Unlock, and the end of a process.
LEMMA LockingTidy ==
  ASSUME TablesInv, NEW p \in Procs, Tidy(p),
         Lock(p) \/ Unlock(p) \/ UnlockFails(p) \/ Close(p) \/ Crash(p)
  PROVE  Tidy(p)'
<1>0. Types
  BY DEF TablesInv
<1>1. UNCHANGED <<driver, team, op>>
  BY DEF Lock, Unlock, UnlockFails, Close, Crash, Leave
<1>2. Sure(p)' = Sure(p)
  BY <1>1 DEF Sure, Undisturbed
<1>3. result'[p] = "clash" => result[p] = "clash"
  <2>1. CASE UnlockFails(p)
    <3>1. PICK r \in {"nil", "error", "clash"} :
            r = (IF result[p] = "nil" THEN "error" ELSE result[p]) /\ Result(p, r)
      BY <1>0, <2>1 DEF UnlockFails, Types
    <3> QED
      BY <1>0, <3>1, Results
  <2>2. CASE Lock(p) \/ Unlock(p) \/ Close(p) \/ Crash(p)
    BY <2>2 DEF Lock, Unlock, Close, Crash, Leave
  <2> QED
    BY <2>1, <2>2
<1>4. Seen(p)'
  <2> USE DEF Places
  <2>1. CASE Lock(p)
    <3>1. InsideOf(p)
      BY <1>0, WhereInside
    <3>2. pc'[p] = Inside(p)
      BY <1>0, <2>1, <3>1, Goes DEF Lock, InsideOf
    <3> QED
      BY <1>1, <3>1, <3>2 DEF Seen, InsideOf
  <2>2. CASE Unlock(p) \/ UnlockFails(p) \/ Close(p) \/ Crash(p)
    <3>1. pc'[p] \in {"failed", "stuck", "ready", "none"}
      BY <1>0, <2>2, Goes DEF Unlock, UnlockFails, Close, Crash, Leave
    <3> QED
      BY <3>1 DEF Seen
  <2> QED
    BY <2>1, <2>2
<1> QED
  BY <1>2, <1>3, <1>4 DEF Tidy

\* ensureVersionTable: CREATE TABLE without IF NOT EXISTS follows a look.
LEMMA EnsuringTidy ==
  ASSUME TablesInv, NEW p \in Procs, Tidy(p),
         Check(p) \/ CheckFails(p) \/ Create(p) \/ CreateFails(p)
  PROVE  Tidy(p)'
<1>0. Types /\ About(p)
  BY DEF TablesInv, Knows
<1>1. UNCHANGED <<driver, team, op>>
  BY DEF Check, CheckFails, Create, CreateFails
<1>2. Sure(p)' = Sure(p) /\ op[p] = "open"
  BY <1>0, <1>1 DEF Sure, Undisturbed, About, Check, CheckFails, Create, CreateFails
<1>3. Seen(p)'
  <2> USE DEF Places
  <2>1. CASE Check(p)
    BY <1>0, <2>1, Goes DEF Check, Seen
  <2>2. CASE CheckFails(p)
    <3>1. CASE driver.check = "probes"
      BY <1>0, <1>1, <2>2, <3>1, Goes DEF CheckFails, Seen
    <3>2. CASE driver.check # "probes"
      BY <1>0, <2>2, <3>2, Goes DEF CheckFails, Seen
    <3> QED
      BY <3>1, <3>2
  <2>3. CASE Create(p) \/ CreateFails(p)
    BY <1>0, <2>3, Goes DEF Create, CreateFails, Seen
  <2> QED
    BY <2>1, <2>2, <2>3
<1>4. Sure(p) => result'[p] # "clash"
  <2>1. CASE Check(p)
    BY <2>1 DEF Check, Tidy
  <2>2. CASE CheckFails(p) \/ CreateFails(p)
    <3>1. result'[p] \in {result[p], "error"}
      BY <1>0, <2>2, Results DEF CheckFails, CreateFails
    <3> QED
      BY <3>1 DEF Tidy
  <2>3. CASE Create(p)
    <3>1. CASE driver.create = "strict" /\ VersionTable \in tables
      <4>1. driver.check \in {"asks", "probes"}
        BY <1>0, <3>1, DriverTablesAssumption, StatementsAssumption DEF Types, Driver
      <4>2. pc[p] = "creating"
        BY <2>3 DEF Create
      <4> QED
        BY <1>2, <3>1, <4>1, <4>2 DEF Sure, Tidy, Seen
    <3>2. CASE ~(driver.create = "strict" /\ VersionTable \in tables)
      BY <2>3, <3>2 DEF Create, Tidy
    <3> QED
      BY <3>1, <3>2
  <2> QED
    BY <2>1, <2>2, <2>3
<1> QED
  BY <1>2, <1>3, <1>4 DEF Tidy

\* Drop: the tables on the list are there, and no other table refers to the next.
LEMMA DroppingTidy ==
  ASSUME TablesInv, NEW p \in Procs, Tidy(p),
         List(p) \/ ListFails(p) \/ DropTable(p) \/ DropAll(p) \/ DropFails(p) \/ DropDone(p)
  PROVE  Tidy(p)'
<1>0. Types /\ Listed(p) /\ driver \in Driver
  BY DriverTablesAssumption DEF TablesInv, Knows, Types
<1>1. UNCHANGED <<driver, team, op>>
  BY DEF List, ListFails, DropTable, DropAll, DropFails, DropDone
<1>2. Sure(p)' = Sure(p) /\ Undisturbed(p)' = Undisturbed(p)
  BY <1>1 DEF Sure, Undisturbed
<1>3. ASSUME Sure(p), pc[p] = "dropping", NEW t \in NextTables(p)
      PROVE  ~Clashes(t)
  <2>1. t \in todo[p]
    BY <1>0, <1>3 DEF NextTables
  <2>2. Undisturbed(p) /\ driver.drop # "all" => todo[p] \subseteq tables
    BY <1>3 DEF Tidy, Seen
  <2>3. driver.drop = "strict" => t \in tables
    BY <1>3, <2>1, <2>2 DEF Sure
  <2>4. ASSUME driver.order # "free"
        PROVE  ~Referenced(t, tables \ {t})
    <3>1. driver.order = "referencing"
      BY <1>0, <1>3, <2>4 DEF Driver, Sure
    <3>2. driver.listing = "error" /\ driver.drop = "strict" /\ driver.spares = "nothing"
      BY <1>0, <3>1, StatementsAssumption DEF Types
    <3>3. Undisturbed(p)
      BY <1>3, <3>2 DEF Sure
    <3>4. tables \subseteq todo[p]
      BY <1>0, <1>3, <3>2, <3>3 DEF Listed, Thorough, Spared
    <3>5. ~Referenced(t, todo[p] \ {t})
      BY <1>3, <3>1 DEF NextTables
    <3> QED
      BY <3>4, <3>5 DEF Referenced
  <2> QED
    BY <2>3, <2>4 DEF Clashes
<1>4. Sure(p) => result'[p] # "clash"
  <2>1. CASE DropTable(p)
    BY <1>3, <2>1 DEF DropTable, Tidy
  <2>2. CASE ListFails(p) \/ DropFails(p)
    BY <1>0, <2>2, Results DEF ListFails, DropFails
  <2>3. CASE List(p) \/ DropAll(p) \/ DropDone(p)
    BY <2>3 DEF List, DropAll, DropDone, Tidy
  <2> QED
    BY <2>1, <2>2, <2>3
<1>5. Seen(p)'
  <2> USE DEF Places
  <2>1. CASE List(p)
    <3>1. pc'[p] = "dropping" /\ todo'[p] \subseteq tables /\ tables' = tables
      BY <1>0, <2>1, Goes DEF List, Visible, Types
    <3> QED
      BY <3>1 DEF Seen
  <2>2. CASE DropTable(p)
    <3>1. CASE Goto(p, "unlocking")
      BY <1>0, <3>1, Goes DEF Seen
    <3>2. ASSUME NEW t \in NextTables(p), tables' = Gone(t),
                 todo' = [todo EXCEPT ![p] = @ \ {t}], pc' = pc
          PROVE  Seen(p)'
      <4>1. pc[p] = "dropping" /\ todo'[p] = todo[p] \ {t}
        BY <1>0, <2>2, <3>2 DEF DropTable, Types
      <4>2. Undisturbed(p) => todo[p] \subseteq tables
        BY <2>2, <4>1 DEF DropTable, Tidy, Seen
      <4>3. tables \ {t} \subseteq tables'
        BY <3>2 DEF Gone
      <4> QED
        BY <1>2, <3>2, <4>1, <4>2, <4>3 DEF Seen
    <3> QED
      BY <2>2, <3>1, <3>2 DEF DropTable
  <2>3. CASE ListFails(p) \/ DropAll(p) \/ DropFails(p) \/ DropDone(p)
    BY <1>0, <2>3, Goes DEF ListFails, DropAll, DropFails, DropDone, Seen
  <2> QED
    BY <2>1, <2>2, <2>3
<1> QED
  BY <1>2, <1>4, <1>5 DEF Tidy

\* Every statement keeps what the processes have seen of the tables true.
LEMMA TripStep == TablesInv /\ TripInv /\ [Next]_vars => TripInv'
<1> SUFFICES ASSUME TablesInv, TripInv, [Next]_vars PROVE TripInv'
  OBVIOUS
<1>1. CASE Next
  <2>1. PICK p \in team :
          \/ Open(p) \/ OpenStep(p) \/ OpenFails(p) \/ FindLockTable(p) \/ CreateLockTable(p)
          \/ Lock(p) \/ LockFails(p) \/ Unlock(p) \/ UnlockFails(p)
          \/ Check(p) \/ CheckFails(p) \/ Create(p) \/ CreateFails(p)
          \/ \E t \in UserTables : Migrate(p, t)
          \/ Drop(p) \/ List(p) \/ ListFails(p) \/ DropTable(p) \/ DropAll(p) \/ DropFails(p)
          \/ DropDone(p) \/ Close(p) \/ Crash(p)
    BY <1>1 DEF Next
  <2>2. p \in Procs /\ Tidy(p)
    BY DEF TablesInv, Types, TripInv
  <2>3. Considerate(p)
    BY <2>1, <2>2, OpeningStep, CreatingStep, LockingStep, EnsuringStep, DroppingStep
  <2>4. Tidy(p)'
    BY <2>1, <2>2, OpeningTidy, LockingTidy, EnsuringTidy, DroppingTidy
  <2> QED
    BY <2>2, <2>3, <2>4, OthersTidy DEF TripInv
<1>2. CASE UNCHANGED vars
  BY <1>2 DEF TripInv, Tidy, Seen, Sure, Undisturbed, vars
<1> QED
  BY <1>1, <1>2

\* ensureVersionTable and Drop of the drivers do not fail over what other processes
\* did to the tables, for any number of processes, tables and foreign keys, where the
\* driver has a lock of its session or says IF (NOT) EXISTS.
THEOREM StatementsDoNotTrip == Spec => []NobodyTrips
<1>1. Init => TripInv
  <2> SUFFICES ASSUME Init, NEW p \in Procs PROVE Tidy(p)
    BY DEF TripInv
  <2>1. pc[p] = "none" /\ result[p] = "nil"
    BY DEF Init
  <2> QED
    BY <2>1 DEF Tidy, Seen
<1>2. TripInv => NobodyTrips
  BY DEF TripInv, Tidy, Sure, NobodyTrips
<1> QED
  BY <1>1, <1>2, TablesInit, TablesStep, TripStep, PTL DEF Spec

-----------------------------------------------------------------------------
(***************************************************************************)
(* The session of the lock.  Open has gone through all of its steps, the   *)
(* one that opens a session among them, before the driver value can lock,  *)
(* and keeps that session until it is closed: Unlock goes through it.      *)
(***************************************************************************)

\* Open of a driver that locks in a session opens one of its own (Conn of the pool).
OwnSessions ==
  \A d \in Drivers : d.lock = "session" => \E k \in 1..Len(d.open) : d.open[k] = "session"

\* The drivers of the repository do: the four that lock in a session, PostgreSQL's two,
\* MySQL's and SQL Server's, and the others with a lock row or a flag.
LEMMA DriversOpenSessions ==
  ASSUME Drivers \subseteq
           {postgres, postgresElsewhere, pgx, pgxElsewhere, mysql, sqlserver, oracle,
            cockroachdb, redshift, snowflake, spanner, sqlite3, sqlite, sqlcipher, ql, firebird,
            clickhouse, cassandra, mongodb}
  PROVE  OwnSessions
<1> SUFFICES ASSUME NEW d \in Drivers, d.lock = "session"
             PROVE  \E k \in 1..Len(d.open) : d.open[k] = "session"
  BY DEF OwnSessions
<1>1. d \in {postgres, postgresElsewhere, pgx, pgxElsewhere, mysql, sqlserver}
  <2>1. oracle.lock = "flag" /\ cockroachdb.lock = "row" /\ mongodb.lock = "row"
    BY DEF oracle, cockroachdb, mongodb, Sql
  <2>2. redshift.lock = "flag" /\ snowflake.lock = "flag" /\ clickhouse.lock = "flag"
    BY DEF redshift, snowflake, clickhouse, Sql
  <2>3. /\ spanner.lock = "flag" /\ sqlite3.lock = "flag" /\ sqlite.lock = "flag"
        /\ sqlcipher.lock = "flag" /\ ql.lock = "flag"
    BY DEF spanner, sqlite3, sqlite, sqlcipher, ql, Sql
  <2>4. firebird.lock = "flag" /\ cassandra.lock = "flag"
    BY DEF firebird, cassandra, Sql
  <2> QED
    BY <2>1, <2>2, <2>3, <2>4
<1>2. d.open \in {postgresOpen, pgxOpen, mysqlOpen, sqlserverOpen}
  BY <1>1, SMT DEF postgres, postgresElsewhere, pgx, pgxElsewhere, mysql, sqlserver, Sql
<1>3. /\ 5 \in 1..Len(postgresOpen) /\ postgresOpen[5] = "session"
      /\ 6 \in 1..Len(pgxOpen) /\ pgxOpen[6] = "session"
      /\ 4 \in 1..Len(mysqlOpen) /\ mysqlOpen[4] = "session"
      /\ 5 \in 1..Len(sqlserverOpen) /\ sqlserverOpen[5] = "session"
  BY SMT DEF postgresOpen, pgxOpen, mysqlOpen, sqlserverOpen
<1> QED
  BY <1>2, <1>3

\* What p has opened, by the place it has reached.
HasOpened(p) ==
  /\ pc[p] = "opening" =>
       \A k \in 1..Len(driver.open) :
         k < step[p] /\ driver.open[k] = "session" => "session" \in held[p]
  /\ driver.lock = "session" /\ pc[p] \notin {"none", "opening", "failed"} =>
       "session" \in held[p]

SessionInv ==
  /\ step \in [Procs -> Nat] /\ held \in [Procs -> SUBSET {"pool", "session"}]
  /\ \A p \in Procs : HasOpened(p)

\* A step that opens and closes nothing.
LEMMA KeepsOpen ==
  ASSUME Types, SessionInv, NEW p \in Procs, UNCHANGED <<driver, step, held>>,
         \A q \in Procs : q # p => pc'[q] = pc[q],
         pc'[p] = pc[p] \/ pc'[p] = "failed" \/ pc[p] \notin {"none", "opening", "failed"},
         pc'[p] = "opening" => pc[p] = "opening"
  PROVE  SessionInv'
<1>1. SUFFICES ASSUME NEW q \in Procs PROVE HasOpened(q)'
  BY DEF SessionInv
<1>2. HasOpened(q)
  BY DEF SessionInv
<1>3. CASE q # p
  BY <1>2, <1>3 DEF HasOpened
<1>4. CASE q = p
  BY <1>2, <1>4 DEF HasOpened
<1> QED
  BY <1>3, <1>4

\* Every step keeps the connection that an Open has set aside.
LEMMA SessionStep ==
  ASSUME OwnSessions, TablesInv, SessionInv, [Next]_vars
  PROVE  SessionInv'
<1>1. CASE Next
  <2>1. PICK p \in team :
          \/ Open(p) \/ OpenStep(p) \/ OpenFails(p) \/ FindLockTable(p) \/ CreateLockTable(p)
          \/ Lock(p) \/ LockFails(p) \/ Unlock(p) \/ UnlockFails(p)
          \/ Check(p) \/ CheckFails(p) \/ Create(p) \/ CreateFails(p)
          \/ \E t \in UserTables : Migrate(p, t)
          \/ Drop(p) \/ List(p) \/ ListFails(p) \/ DropTable(p) \/ DropAll(p) \/ DropFails(p)
          \/ DropDone(p) \/ Close(p) \/ Crash(p)
    BY <1>1 DEF Next
  <2>2. p \in Procs /\ Types /\ HasOpened(p)
    BY DEF TablesInv, Types, SessionInv
  <2> USE DEF Places
  <2>3. CASE Open(p)
    <3>1. /\ UNCHANGED <<driver, held>> /\ pc'[p] = "opening" /\ step'[p] = 1
          /\ step' \in [Procs -> Nat] /\ \A q \in Procs : q # p => pc'[q] = pc[q] /\ step'[q] = step[q]
      BY <2>2, <2>3, Goes DEF Open, SessionInv
    <3>2. \A k \in 1..Len(driver.open) : ~(k < 1)
      BY SMT
    <3>3. HasOpened(p)'
      BY <2>2, <3>1, <3>2 DEF HasOpened
    <3>4. \A q \in Procs : q # p => HasOpened(q)'
      BY <3>1 DEF SessionInv, HasOpened
    <3> QED
      BY <3>1, <3>3, <3>4 DEF SessionInv
  <2>4. CASE OpenStep(p)
    <3>1. PICK what : what = driver.open[step[p]]
      OBVIOUS
    <3>2. /\ held'[p] = IF what \in {"pool", "session"} THEN held[p] \cup {what} ELSE held[p]
          /\ held' \in [Procs -> SUBSET {"pool", "session"}]
          /\ \A q \in Procs : q # p => held'[q] = held[q]
      BY <2>2, <2>4, <3>1 DEF OpenStep, Opens, SessionInv
    <3>3. UNCHANGED driver /\ pc[p] = "opening" /\ held[p] \subseteq held'[p]
      BY <2>2, <2>4, <3>2 DEF OpenStep
    <3>4. \A k \in 1..Len(driver.open) :
            k <= step[p] /\ driver.open[k] = "session" => "session" \in held'[p]
      <4> SUFFICES ASSUME NEW k \in 1..Len(driver.open), k <= step[p], driver.open[k] = "session"
                   PROVE  "session" \in held'[p]
        OBVIOUS
      <4>1. CASE k = step[p]
        BY <3>1, <3>2, <4>1
      <4>2. CASE k < step[p]
        BY <2>2, <3>3, <4>2 DEF HasOpened
      <4> QED
        BY <2>2, <4>1, <4>2, SMT DEF SessionInv
    <3>5. \A q \in Procs : q # p => HasOpened(q)'
      <4>1. \A q \in Procs : q # p => pc'[q] = pc[q] /\ step'[q] = step[q]
        <5>1. CASE step[p] < Len(driver.open)
          BY <2>2, <2>4, <5>1 DEF OpenStep, SessionInv
        <5>2. CASE ~(step[p] < Len(driver.open))
          BY <2>2, <2>4, <5>2, OpenGoes DEF OpenStep
        <5> QED
          BY <5>1, <5>2
      <4> QED
        BY <3>2, <3>3, <4>1 DEF SessionInv, HasOpened
    <3>6. CASE step[p] < Len(driver.open)
      <4>1. pc' = pc /\ step'[p] = step[p] + 1 /\ step' \in [Procs -> Nat] /\ step[p] \in Nat
        BY <2>2, <2>4, <3>6, SMT DEF OpenStep, SessionInv
      <4>2. HasOpened(p)'
        BY <3>3, <3>4, <4>1, SMT DEF HasOpened
      <4> QED
        BY <3>2, <3>5, <4>1, <4>2 DEF SessionInv
    <3>7. CASE ~(step[p] < Len(driver.open))
      <4>1. step' = step /\ pc'[p] # "opening" /\ step[p] \in Nat
        BY <2>2, <2>4, <3>7, OpenGoes DEF OpenStep, SessionInv
      <4>2. Len(driver.open) \in Nat
        BY <2>2, DriverTablesAssumption, SMT DEF Types, Driver
      <4>3. driver.lock = "session" => "session" \in held'[p]
        BY <2>2, <3>4, <3>7, <4>1, <4>2, SMT DEF OwnSessions, Types
      <4>4. HasOpened(p)'
        BY <3>3, <4>1, <4>3 DEF HasOpened
      <4> QED
        BY <3>2, <3>5, <4>1, <4>4 DEF SessionInv
    <3> QED
      BY <3>6, <3>7
  <2>5. CASE Close(p) \/ Crash(p)
    <3>1. /\ UNCHANGED <<driver, step>> /\ pc'[p] = "none" /\ held'[p] = {}
          /\ held' \in [Procs -> SUBSET {"pool", "session"}]
          /\ \A q \in Procs : q # p => pc'[q] = pc[q] /\ held'[q] = held[q]
      BY <2>2, <2>5, Goes DEF Close, Crash, Leave, SessionInv
    <3> QED
      BY <3>1 DEF SessionInv, HasOpened
  <2>6. CASE OpenFails(p) \/ FindLockTable(p) \/ CreateLockTable(p) \/ LockFails(p) \/ Drop(p)
    <3>1. UNCHANGED <<driver, step, held>>
      BY <2>6 DEF OpenFails, FindLockTable, CreateLockTable, LockFails, Drop
    <3>2. /\ \A q \in Procs : q # p => pc'[q] = pc[q]
          /\ pc'[p] # "opening"
          /\ pc'[p] = "failed" \/ pc[p] \in {"lockTable", "newLockTable", "locking", "ready"}
      <4>1. CASE OpenFails(p)
        BY <2>2, <4>1, Goes DEF OpenFails
      <4>2. CASE FindLockTable(p) \/ LockFails(p) \/ Drop(p)
        BY <2>2, <4>2, Goes DEF FindLockTable, LockFails, Drop
      <4>3. CASE CreateLockTable(p)
        BY <2>2, <4>3, Goes DEF CreateLockTable
      <4> QED
        BY <2>6, <4>1, <4>2, <4>3
    <3> QED
      BY <2>2, <3>1, <3>2, KeepsOpen
  <2>7. CASE Lock(p) \/ Unlock(p) \/ UnlockFails(p)
    <3>1. /\ UNCHANGED <<driver, step, held>> /\ pc[p] \in {"locking", "unlocking"}
      BY <2>7 DEF Lock, Unlock, UnlockFails
    <3>2. Inside(p) \in Places /\ Inside(p) # "opening"
      BY <2>2, WhereInside DEF InsideOf
    <3>3. pc'[p] # "opening" /\ \A q \in Procs : q # p => pc'[q] = pc[q]
      BY <2>2, <2>7, <3>2, Goes DEF Lock, Unlock, UnlockFails
    <3> QED
      BY <2>2, <3>1, <3>3, KeepsOpen
  <2>8. CASE \/ Check(p) \/ CheckFails(p) \/ Create(p) \/ CreateFails(p)
             \/ \E t \in UserTables : Migrate(p, t)
    <3>1. UNCHANGED <<driver, step, held>>
      BY <2>8 DEF Check, CheckFails, Create, CreateFails, Migrate
    <3>2. \/ pc' = pc
          \/ /\ pc[p] \in {"checking", "creating"} /\ pc'[p] # "opening"
             /\ \A q \in Procs : q # p => pc'[q] = pc[q]
      <4>1. CASE Check(p) \/ Create(p) \/ CreateFails(p)
        BY <2>2, <4>1, Goes DEF Check, Create, CreateFails
      <4>2. CASE CheckFails(p)
        BY <2>2, <4>2, Goes DEF CheckFails
      <4>3. CASE \E t \in UserTables : Migrate(p, t)
        BY <4>3 DEF Migrate
      <4> QED
        BY <2>8, <4>1, <4>2, <4>3
    <3> QED
      BY <2>2, <3>1, <3>2, KeepsOpen
  <2>9. CASE List(p) \/ ListFails(p) \/ DropTable(p) \/ DropAll(p) \/ DropFails(p) \/ DropDone(p)
    <3>1. /\ UNCHANGED <<driver, step, held>> /\ pc[p] \in {"listing", "dropping"}
      BY <2>9 DEF List, ListFails, DropTable, DropAll, DropFails, DropDone
    <3>2. \/ pc' = pc
          \/ pc'[p] # "opening" /\ \A q \in Procs : q # p => pc'[q] = pc[q]
      <4>1. CASE List(p) \/ ListFails(p) \/ DropAll(p) \/ DropFails(p) \/ DropDone(p)
        BY <2>2, <4>1, Goes DEF List, ListFails, DropAll, DropFails, DropDone
      <4>2. CASE DropTable(p)
        BY <2>2, <4>2, Goes DEF DropTable
      <4> QED
        BY <2>9, <4>1, <4>2
    <3> QED
      BY <2>2, <3>1, <3>2, KeepsOpen
  <2> QED
    BY <2>1, <2>3, <2>4, <2>5, <2>6, <2>7, <2>8, <2>9
<1>2. CASE UNCHANGED vars
  BY <1>2 DEF SessionInv, HasOpened, vars
<1> QED
  BY <1>1, <1>2

\* Outside of its operations p owns no lock of a session.
Returned(p) ==
  driver.lock = "session" /\ pc[p] \notin Guarded \cup {"stuck", "failed"} => holder # p

ReturnedInv == \A p \in Procs : Returned(p)

\* A lock of a session is taken inside an operation and given back at its end.
LEMMA ReturnedStep ==
  ASSUME TablesInv, SessionInv, ReturnedInv, [Next]_vars
  PROVE  ReturnedInv'
<1>1. CASE Next
  <2> SUFFICES ASSUME driver.lock = "session" PROVE ReturnedInv'
    <3>1. driver' = driver
      BY <1>1, ZenonT(40) DEF Next, Open, OpenStep, OpenFails, FindLockTable, CreateLockTable, Lock,
           LockFails, Unlock, UnlockFails, Check, CheckFails, Create, CreateFails, Migrate,
           Drop, List, ListFails, DropTable, DropAll, DropFails, DropDone, Close, Crash, Leave
    <3> QED
      BY <3>1 DEF ReturnedInv, Returned
  <2>1. PICK p \in team :
          \/ Open(p) \/ OpenStep(p) \/ OpenFails(p) \/ FindLockTable(p) \/ CreateLockTable(p)
          \/ Lock(p) \/ LockFails(p) \/ Unlock(p) \/ UnlockFails(p)
          \/ Check(p) \/ CheckFails(p) \/ Create(p) \/ CreateFails(p)
          \/ \E t \in UserTables : Migrate(p, t)
          \/ Drop(p) \/ List(p) \/ ListFails(p) \/ DropTable(p) \/ DropAll(p) \/ DropFails(p)
          \/ DropDone(p) \/ Close(p) \/ Crash(p)
    BY <1>1 DEF Next
  <2>2. p \in Procs /\ Types /\ HasOpened(p) /\ Returned(p) /\ NoProc \notin Procs
    BY DriverTablesAssumption DEF TablesInv, Types, SessionInv, ReturnedInv
  <2>3. Considerate(p)
    BY <2>1, <2>2, OpeningStep, CreatingStep, LockingStep, EnsuringStep, DroppingStep
  <2>4. holder' \in {holder, NoProc, p}
    <3>1. CASE \/ Open(p) \/ OpenStep(p) \/ OpenFails(p) \/ FindLockTable(p) \/ CreateLockTable(p)
               \/ Check(p) \/ CheckFails(p) \/ Create(p) \/ CreateFails(p) \/ Drop(p)
               \/ List(p) \/ ListFails(p) \/ DropDone(p)
      BY <3>1 DEF Open, OpenStep, OpenFails, FindLockTable, CreateLockTable, Check, CheckFails,
                  Create, CreateFails, Drop, List, ListFails, DropDone
    <3>2. CASE Lock(p) \/ LockFails(p) \/ Unlock(p) \/ UnlockFails(p) \/ Close(p) \/ Crash(p)
      BY <3>2 DEF Lock, LockFails, Unlock, UnlockFails, Released, Close, Crash, Leave
    <3>3. CASE DropTable(p) \/ DropAll(p) \/ DropFails(p) \/ \E t \in UserTables : Migrate(p, t)
      BY <3>3 DEF DropTable, DropAll, DropFails, Without, Migrate
    <3> QED
      BY <2>1, <3>1, <3>2, <3>3
  <2>5. \A q \in Procs : q # p => Returned(q)'
    BY <2>2, <2>3, <2>4 DEF ReturnedInv, Returned, Considerate
  <2> USE DEF Places
  <2>6. Returned(p)'
    <3>1. CASE Open(p) \/ OpenStep(p) \/ FindLockTable(p) \/ CreateLockTable(p) \/ Drop(p)
      <4>1. holder' = holder
        BY <3>1 DEF Open, OpenStep, FindLockTable, CreateLockTable, Drop
      <4>2. pc[p] \in {"none", "opening", "lockTable", "newLockTable", "ready"}
        BY <3>1 DEF Open, OpenStep, FindLockTable, CreateLockTable, Drop
      <4> QED
        BY <2>2, <4>1, <4>2 DEF Returned, Guarded
    <3>2. CASE OpenFails(p)
      BY <2>2, <3>2, Goes DEF OpenFails, Returned
    <3>3. CASE Lock(p)
      <4>1. Inside(p) \in Places /\ Inside(p) \in Guarded
        BY <2>2, WhereInside DEF InsideOf, Guarded
      <4>2. pc'[p] \in Guarded
        BY <2>2, <3>3, <4>1, Goes DEF Lock
      <4> QED
        BY <4>2 DEF Returned
    <3>4. CASE LockFails(p)
      <4>1. holder' = holder /\ pc[p] = "locking"
        BY <3>4 DEF LockFails
      <4> QED
        BY <2>2, <4>1 DEF Returned, Guarded
    <3>5. CASE Unlock(p)
      <4>1. "session" \in held[p]
        BY <2>2, <3>5 DEF Unlock, HasOpened
      <4> QED
        BY <2>2, <3>5, <4>1 DEF Unlock, Released, Returned
    <3>6. CASE UnlockFails(p)
      BY <2>2, <3>6, Goes DEF UnlockFails, Returned
    <3>7. CASE Close(p) \/ Crash(p)
      BY <2>2, <3>7 DEF Close, Crash, Leave, Returned
    <3>8. CASE \E t \in UserTables : Migrate(p, t)
      BY <2>2, <3>8 DEF Migrate, Returned
    <3>9. CASE Check(p) \/ CheckFails(p) \/ Create(p) \/ CreateFails(p)
      <4>1. pc'[p] \in {"creating", "unlocking"}
        BY <2>2, <3>9, Goes DEF Check, CheckFails, Create, CreateFails
      <4> QED
        BY <4>1 DEF Returned, Guarded
    <3>10. CASE List(p) \/ ListFails(p) \/ DropTable(p) \/ DropAll(p) \/ DropFails(p) \/ DropDone(p)
      <4>1. pc'[p] \in {"dropping", "unlocking"}
        <5>1. CASE List(p) \/ ListFails(p) \/ DropAll(p) \/ DropFails(p) \/ DropDone(p)
          BY <2>2, <5>1, Goes DEF List, ListFails, DropAll, DropFails, DropDone
        <5>2. CASE DropTable(p)
          BY <2>2, <5>2, Goes DEF DropTable
        <5> QED
          BY <3>10, <5>1, <5>2
      <4> QED
        BY <4>1 DEF Returned, Guarded
    <3> QED
      BY <2>1, <3>1, <3>2, <3>3, <3>4, <3>5, <3>6, <3>7, <3>8, <3>9, <3>10
  <2> QED
    BY <2>5, <2>6 DEF ReturnedInv
<1>2. CASE UNCHANGED vars
  BY <1>2 DEF ReturnedInv, Returned, vars
<1> QED
  BY <1>1, <1>2

\* An Open or Drop that has returned, and not with an error of Unlock, has left its
\* process no lock of a session, for every set of drivers whose Open sets a session
\* aside: Unlock goes through the connection that Lock used.
THEOREM LocksAreReturned == OwnSessions /\ Spec => []LockIsReturned
<1>1. Init => SessionInv /\ ReturnedInv
  <2> SUFFICES ASSUME Init PROVE SessionInv /\ ReturnedInv
    OBVIOUS
  <2>1. \A p \in Procs : holder # p
    BY DriverTablesAssumption DEF Init
  <2> QED
    BY <2>1 DEF Init, SessionInv, HasOpened, ReturnedInv, Returned
<1>2. ReturnedInv => LockIsReturned
  BY DEF ReturnedInv, Returned, LockIsReturned, Guarded
<1> QED
  <2> SUFFICES ASSUME OwnSessions PROVE Spec => []LockIsReturned
    OBVIOUS
  <2>1. TablesInv /\ SessionInv /\ ReturnedInv /\ [Next]_vars => SessionInv' /\ ReturnedInv'
    BY SessionStep, ReturnedStep
  <2> QED
    BY <1>1, <1>2, <2>1, TablesInit, TablesStep, PTL DEF Spec
=============================================================================
