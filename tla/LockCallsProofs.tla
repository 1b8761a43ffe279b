--------------------------- MODULE LockCallsProofs ---------------------------
(***************************************************************************)
(* lock() and unlock() implement the lock service for any number of        *)
(* goroutines on any number of Migrate values.                             *)
(***************************************************************************)
EXTENDS LockCalls, SequenceTheorems, TLAPS

\* Most steps need no arithmetic: a step that does not say SMT is one for Zenon.
USE Zenon

\* An attempt with an errchan of any length.
Record ==
  [inst : Instances \cup {NoInstance},
   errchan : Seq({"nil", "error"}),
   timer : {"off", "running"},
   locker : {"off", "started", "asking"}]

Types ==
  /\ mutex \in [Instances -> Callers \cup {NoCaller}]
  /\ isLocked \in [Instances -> BOOLEAN]
  /\ depth \in [Instances -> Nat]
  /\ pc \in [Callers -> {"idle", "lock", "wait", "inside", "unlock", "releasing"}]
  /\ call \in [Callers -> Attempts \cup {NoAttempt}]
  /\ attempt \in [Attempts -> Record]

\* One session at most owns the database lock.
Sole == \A i, j \in Instances : depth[i] > 0 /\ depth[j] > 0 => i = j

\* Whoever waits in lock() or is in the driver's Unlock holds the mutex.  The
\* attempt of a lock() is for its own value, to which nobody has the lock.
Waiting ==
  \A c \in Callers :
    /\ pc[c] = "wait" =>
         /\ mutex[InstanceOf[c]] = c /\ ~isLocked[InstanceOf[c]]
         /\ call[c] \in Attempts /\ attempt[call[c]].inst = InstanceOf[c]
    /\ pc[c] = "releasing" => mutex[InstanceOf[c]] = c

\* Whoever is inside owns the lock, and the value says so.
Owners ==
  \A c \in Inside : isLocked[InstanceOf[c]] /\ depth[InstanceOf[c]] > 0

OnePerValue ==
  \A c, d \in Inside : InstanceOf[c] = InstanceOf[d] => c = d

\* A nil that waits in the errchan of a lock() is true.
Granted ==
  \A c \in Callers :
    pc[c] = "wait" =>
      \A n \in 1..Len(attempt[call[c]].errchan) :
        attempt[call[c]].errchan[n] = "nil" => depth[InstanceOf[c]] > 0

LockInv == Types /\ Sole /\ Waiting /\ Owners /\ OnePerValue /\ Granted

-----------------------------------------------------------------------------
\* The session that owns the lock is the holder.
LEMMA HolderOwns ==
  ASSUME Sole, NEW i \in Instances, depth[i] > 0
  PROVE  Holder = i
<1>1. \E j \in Instances : depth[j] > 0
  OBVIOUS
<1>2. (CHOOSE j \in Instances : depth[j] > 0) = i
  BY DEF Sole
<1> QED
  BY <1>1, <1>2 DEF Holder

\* The same after a step.
LEMMA HolderOwnsNext ==
  ASSUME Sole', NEW i \in Instances, depth'[i] > 0
  PROVE  Holder' = i
<1>1. \E j \in Instances : depth'[j] > 0
  OBVIOUS
<1>2. (CHOOSE j \in Instances : depth'[j] > 0) = i
  BY DEF Sole
<1> QED
  BY <1>1, <1>2 DEF Holder

\* Nobody owns the lock.
LEMMA HolderNone ==
  /\ (\A j \in Instances : ~(depth[j] > 0)) => Holder = NoInstance
  /\ (\A j \in Instances : ~(depth'[j] > 0)) => Holder' = NoInstance
BY DEF Holder

\* What an attempt becomes.
LEMMA Becomes ==
  ASSUME NEW k \in Attempts, NEW a \in Record, NEW pending \in BOOLEAN,
         attempt \in [Attempts -> Record], Become(k, a, pending)
  PROVE  /\ attempt' \in [Attempts -> Record]
         /\ \A j \in Attempts : j # k => attempt'[j] = attempt[j]
         /\ pending => attempt'[k] = a
<1>1. Over \in Record
  <2>1. <<>> \in Seq({"nil", "error"})
    BY SMT
  <2> QED
    BY <2>1 DEF Over, Record
<1> QED
  BY <1>1 DEF Become

\* A goroutine appends to its errchan: what was there stays.
LEMMA Appends ==
  ASSUME NEW s \in Seq({"nil", "error"}), NEW err \in {"nil", "error"}
  PROVE  /\ Append(s, err) \in Seq({"nil", "error"})
         /\ \A n \in 1..Len(Append(s, err)) :
              Append(s, err)[n] = "nil" =>
                err = "nil" \/ (n \in 1..Len(s) /\ s[n] = "nil")
BY SMT

-----------------------------------------------------------------------------
\* A step of a goroutine that no caller sees, and that takes no lock away.
LEMMA GoroutineStep ==
  ASSUME LockInv, UNCHANGED <<mutex, isLocked, pc, call>>,
         attempt' \in [Attempts -> Record],
         \A c \in Callers : pc[c] = "wait" => attempt'[call[c]].inst = InstanceOf[c],
         depth' \in [Instances -> Nat],
         \A i \in Instances : depth[i] > 0 => depth'[i] > 0,
         Sole', Granted'
  PROVE  LockInv' /\ Inside' = Inside
<1>1. Inside' = Inside /\ Inside \subseteq Callers
  BY DEF Inside
<1>2. Types'
  BY DEF LockInv, Types
<1>3. Waiting'
  BY DEF LockInv, Waiting
<1>4. Owners'
  BY <1>1, LockCallsAssumption DEF LockInv, Owners
<1>5. OnePerValue'
  BY <1>1 DEF LockInv, OnePerValue
<1> QED
  BY <1>1, <1>2, <1>3, <1>4, <1>5 DEF LockInv

\* A goroutine of lock() answers: a nil must be true by then.
LEMMA Answering ==
  ASSUME LockInv, UNCHANGED <<pc, call>>,
         NEW k \in Attempts, NEW g \in Record, NEW err \in {"nil", "error"},
         g.inst = attempt[k].inst, g.errchan = attempt[k].errchan,
         Answers(k, g, err),
         \A i \in Instances : depth[i] > 0 => depth'[i] > 0,
         err = "nil" /\ attempt[k].inst \in Instances => depth'[attempt[k].inst] > 0
  PROVE  /\ attempt' \in [Attempts -> Record]
         /\ \A c \in Callers : pc[c] = "wait" => attempt'[call[c]].inst = InstanceOf[c]
         /\ Granted'
<1> DEFINE a == [g EXCEPT !.errchan = Append(@, err)]
<1>1. attempt \in [Attempts -> Record] /\ g.errchan \in Seq({"nil", "error"})
  BY DEF LockInv, Types, Record
<1>2. Append(g.errchan, err) \in Seq({"nil", "error"})
  BY <1>1, Appends
<1>3. a \in Record /\ a.inst = g.inst /\ a.errchan = Append(g.errchan, err)
  BY <1>2 DEF Record
<1>4. Pending(k) \in BOOLEAN /\ Become(k, a, Pending(k))
  BY DEF Answers, Pending
<1> HIDE DEF a
<1>5. /\ attempt' \in [Attempts -> Record]
      /\ \A j \in Attempts : j # k => attempt'[j] = attempt[j]
      /\ Pending(k) => attempt'[k] = a
  BY <1>1, <1>3, <1>4, Becomes
<1>6. ASSUME NEW c \in Callers, pc[c] = "wait"
      PROVE  /\ call[c] \in Attempts /\ attempt[call[c]].inst = InstanceOf[c]
             /\ attempt'[call[c]] = IF call[c] = k THEN a ELSE attempt[call[c]]
  BY <1>5, <1>6 DEF LockInv, Waiting, Pending
<1>7. ASSUME NEW c \in Callers, pc[c] = "wait"
      PROVE  attempt'[call[c]].inst = InstanceOf[c]
  BY <1>3, <1>6, <1>7
<1>8. ASSUME NEW c \in Callers, pc[c] = "wait",
             NEW n \in 1..Len(attempt'[call[c]].errchan), attempt'[call[c]].errchan[n] = "nil"
      PROVE  depth'[InstanceOf[c]] > 0
  <2>1. InstanceOf[c] \in Instances
    BY LockCallsAssumption
  <2>2. CASE call[c] # k
    BY <1>6, <1>8, <2>1, <2>2, SMT DEF LockInv, Granted
  <2>3. CASE call[c] = k
    <3>1. attempt'[call[c]].errchan = Append(g.errchan, err)
      BY <1>3, <1>6, <1>8, <2>3
    <3>2. err = "nil" \/ (n \in 1..Len(g.errchan) /\ g.errchan[n] = "nil")
      BY <1>1, <1>8, <3>1, Appends, SMT
    <3>3. attempt[k].inst = InstanceOf[c]
      BY <1>6, <1>8, <2>3
    <3> QED
      BY <1>8, <2>1, <2>3, <3>2, <3>3 DEF LockInv, Granted
  <2> QED
    BY <2>2, <2>3
<1>9. Granted'
  BY <1>8 DEF Granted
<1> QED
  BY <1>5, <1>7, <1>9

-----------------------------------------------------------------------------
\* When neither the depths nor the callers inside change, nothing happens to the lock.
LEMMA LockUnseen ==
  ASSUME depth' = depth, Inside' = Inside
  PROVE  UNCHANGED Lock!vars
<1>1. Holder' = Holder
  BY DEF Holder
<1> QED
  BY <1>1 DEF Lock!vars

\* The timer goroutine.
LEMMA TimerStep ==
  ASSUME LockInv, NEW k \in Attempts, TimerFires(k) \/ TimerDone(k)
  PROVE  LockInv' /\ UNCHANGED Lock!vars
<1>1. attempt \in [Attempts -> Record] /\ depth \in [Instances -> Nat] /\ Sole
  BY DEF LockInv, Types
<1>2. UNCHANGED <<mutex, isLocked, depth, pc, call>>
  BY DEF TimerFires, TimerDone
<1>3. Sole'
  BY <1>1, <1>2 DEF Sole
<1> DEFINE g == [attempt[k] EXCEPT !.timer = "off"]
<1>4. g \in Record /\ g.inst = attempt[k].inst /\ g.errchan = attempt[k].errchan
  BY <1>1 DEF Record
<1>5. /\ attempt' \in [Attempts -> Record]
      /\ \A c \in Callers : pc[c] = "wait" => attempt'[call[c]].inst = InstanceOf[c]
      /\ Granted'
  <2>1. CASE TimerFires(k)
    <3>1. Answers(k, g, "error")
      BY <2>1 DEF TimerFires
    <3> HIDE DEF g
    <3> QED
      BY <1>2, <1>4, <3>1, Answering
  <2>2. CASE TimerDone(k)
    <3>1. Become(k, g, FALSE) /\ ~Pending(k)
      BY <2>2 DEF TimerDone
    <3> HIDE DEF g
    <3>2. attempt' \in [Attempts -> Record] /\ \A j \in Attempts : j # k => attempt'[j] = attempt[j]
      BY <1>1, <1>4, <3>1, Becomes
    <3>3. ASSUME NEW c \in Callers, pc[c] = "wait"
          PROVE  attempt'[call[c]] = attempt[call[c]] /\ attempt[call[c]].inst = InstanceOf[c]
      BY <3>1, <3>2, <3>3 DEF LockInv, Waiting, Pending
    <3> QED
      BY <1>2, <3>2, <3>3, SMT DEF LockInv, Granted
  <2> QED
    BY <2>1, <2>2
<1>6. LockInv' /\ Inside' = Inside
  BY <1>1, <1>2, <1>3, <1>5, GoroutineStep
<1> QED
  BY <1>2, <1>6, LockUnseen

\* The goroutine that calls the driver's Lock, until it has the lock.
LEMMA DriverStep ==
  ASSUME LockInv, NEW k \in Attempts, DriverRefuses(k) \/ DriverAsks(k) \/ DriverFails(k)
  PROVE  LockInv' /\ UNCHANGED Lock!vars
<1>1. attempt \in [Attempts -> Record] /\ depth \in [Instances -> Nat] /\ Sole
  BY DEF LockInv, Types
<1>2. UNCHANGED <<mutex, isLocked, depth, pc, call>>
  BY DEF DriverRefuses, DriverAsks, DriverFails
<1>3. Sole'
  BY <1>1, <1>2 DEF Sole
<1>4. /\ attempt' \in [Attempts -> Record]
      /\ \A c \in Callers : pc[c] = "wait" => attempt'[call[c]].inst = InstanceOf[c]
      /\ Granted'
  <2>1. CASE DriverRefuses(k) \/ DriverFails(k)
    <3> DEFINE g == [attempt[k] EXCEPT !.locker = "off"]
    <3>1. g \in Record /\ g.inst = attempt[k].inst /\ g.errchan = attempt[k].errchan
      BY <1>1 DEF Record
    <3>2. Answers(k, g, "error")
      BY <2>1 DEF DriverRefuses, DriverFails
    <3> HIDE DEF g
    <3> QED
      BY <1>2, <3>1, <3>2, Answering
  <2>2. CASE DriverAsks(k)
    <3>1. attempt' = [attempt EXCEPT ![k].locker = "asking"]
      BY <2>2 DEF DriverAsks
    <3>2. attempt' \in [Attempts -> Record]
      BY <1>1, <3>1, ZenonT(30) DEF Record
    <3>3. \A j \in Attempts : attempt'[j].inst = attempt[j].inst /\ attempt'[j].errchan = attempt[j].errchan
      BY <1>1, <3>1 DEF Record
    <3> QED
      BY <1>2, <3>2, <3>3, SMT DEF LockInv, Granted, Waiting
  <2> QED
    BY <2>1, <2>2
<1>5. LockInv' /\ Inside' = Inside
  BY <1>1, <1>2, <1>3, <1>4, GoroutineStep
<1> QED
  BY <1>2, <1>5, LockUnseen

\* The database grants the lock, for a lock() that waits or one that has given up.
LEMMA GrantStep ==
  ASSUME LockInv, NEW k \in Attempts, DriverLocks(k)
  PROVE  LockInv' /\ [Lock!Next]_(Lock!vars)
<1> DEFINE i == attempt[k].inst
<1>1. attempt \in [Attempts -> Record] /\ depth \in [Instances -> Nat] /\ Sole
  BY DEF LockInv, Types
<1>2. /\ UNCHANGED <<mutex, isLocked, pc, call>>
      /\ \A j \in Instances \ {i} : depth[j] = 0
      /\ depth' = [depth EXCEPT ![i] = @ + 1]
  BY DEF DriverLocks
<1>3. /\ depth' \in [Instances -> Nat]
      /\ \A j \in Instances : depth[j] > 0 => depth'[j] > 0
      /\ \A j \in Instances : depth'[j] > 0 => j = i
      /\ i \in Instances => depth'[i] > 0
  <2> HIDE DEF i
  <2>1. ASSUME NEW j \in Instances
        PROVE  depth'[j] = IF j = i THEN depth[j] + 1 ELSE depth[j]
    BY <1>1, <1>2
  <2>2. depth' = [j \in Instances |-> depth'[j]]
    BY <1>1, <1>2
  <2>3. \A j \in Instances : depth[j] \in Nat /\ (j # i => depth[j] = 0)
    BY <1>1, <1>2
  <2>4. \A j \in Instances : depth'[j] \in Nat
    BY <2>1, <2>3, SMT
  <2> QED
    BY <2>1, <2>2, <2>3, <2>4, SMT
<1>4. Sole'
  BY <1>3 DEF Sole
<1> DEFINE g == [attempt[k] EXCEPT !.locker = "off"]
<1>5. g \in Record /\ g.inst = attempt[k].inst /\ g.errchan = attempt[k].errchan
  BY <1>1 DEF Record
<1>6. Answers(k, g, "nil")
  BY DEF DriverLocks
<1>7. /\ attempt' \in [Attempts -> Record]
      /\ \A c \in Callers : pc[c] = "wait" => attempt'[call[c]].inst = InstanceOf[c]
      /\ Granted'
  <2> HIDE DEF g
  <2> QED
    BY <1>2, <1>3, <1>5, <1>6, Answering
<1>8. LockInv' /\ Inside' = Inside
  BY <1>1, <1>2, <1>3, <1>4, <1>7, GoroutineStep
<1>9. [Lock!Next]_(Lock!vars)
  <2>1. CASE i \notin Instances
    <3>1. \A j \in Instances : ~(depth[j] > 0) /\ ~(depth'[j] > 0)
      BY <1>1, <1>2, <1>3, <2>1
    <3> QED
      BY <1>8, <3>1, HolderNone DEF Lock!vars
  <2>2. CASE i \in Instances /\ depth[i] > 0
    BY <1>1, <1>3, <1>4, <1>8, <2>2, HolderOwns, HolderOwnsNext DEF Lock!vars
  <2>3. CASE i \in Instances /\ ~(depth[i] > 0)
    <3>1. Holder = NoInstance
      BY <1>1, <1>2, <2>3, HolderNone, SMT
    <3>2. Holder' = i
      BY <1>3, <1>4, <2>3, HolderOwnsNext
    <3>3. Lock!Acquire(i)
      BY <1>8, <3>1, <3>2 DEF Lock!Acquire
    <3> QED
      BY <2>3, <3>3 DEF Lock!Next
  <2> QED
    BY <2>1, <2>2, <2>3
<1> QED
  BY <1>8, <1>9

-----------------------------------------------------------------------------
\* A caller comes, or goes away because another one of its value is inside.
LEMMA OutsideStep ==
  ASSUME LockInv, NEW c \in Callers, Call(c) \/ LockRefused(c)
  PROVE  LockInv' /\ UNCHANGED Lock!vars
<1>1. /\ UNCHANGED <<mutex, isLocked, depth, call, attempt>>
      /\ pc[c] \in {"idle", "lock"}
      /\ \E p \in {"idle", "lock"} : pc' = [pc EXCEPT ![c] = p]
  BY DEF Call, LockRefused, Goto
<1>2. pc \in [Callers -> {"idle", "lock", "wait", "inside", "unlock", "releasing"}]
  BY DEF LockInv, Types
<1>3. /\ pc' \in [Callers -> {"idle", "lock", "wait", "inside", "unlock", "releasing"}]
      /\ \A d \in Callers : pc'[d] = pc[d] \/ (pc[d] \in {"idle", "lock"} /\ pc'[d] \in {"idle", "lock"})
  BY <1>1, <1>2
<1>4. Inside' = Inside
  BY <1>3 DEF Inside
<1>5. Types' /\ Sole'
  BY <1>1, <1>3 DEF LockInv, Types, Sole
<1>6. Waiting' /\ Granted'
  BY <1>1, <1>3, SMT DEF LockInv, Waiting, Granted
<1>7. Owners' /\ OnePerValue'
  BY <1>1, <1>4 DEF LockInv, Owners, OnePerValue
<1> QED
  BY <1>1, <1>4, <1>5, <1>6, <1>7, LockUnseen DEF LockInv

\* lock() starts its goroutines, on a channel that nobody else waits on.
LEMMA LockStartsStep ==
  ASSUME LockInv, NEW c \in Callers, LockStarts(c)
  PROVE  LockInv' /\ UNCHANGED Lock!vars
<1> DEFINE new == [inst |-> InstanceOf[c], errchan |-> <<>>, timer |-> "running", locker |-> "started"]
<1>1. PICK k \in Attempts :
        /\ attempt[k] = Over
        /\ call' = [call EXCEPT ![c] = k]
        /\ attempt' = [attempt EXCEPT ![k] = new]
  BY DEF LockStarts
<1>2. /\ UNCHANGED <<isLocked, depth>>
      /\ pc[c] = "lock" /\ pc' = [pc EXCEPT ![c] = "wait"]
      /\ mutex[InstanceOf[c]] = NoCaller /\ ~isLocked[InstanceOf[c]]
      /\ mutex' = [mutex EXCEPT ![InstanceOf[c]] = c]
  BY DEF LockStarts, Goto, Take, Free
<1>3. new \in Record /\ new.inst = InstanceOf[c] /\ new.errchan = <<>>
  <2>1. <<>> \in Seq({"nil", "error"})
    BY SMT
  <2> QED
    BY <2>1, LockCallsAssumption DEF Record
<1> HIDE DEF new
<1>4. Types'
  BY <1>1, <1>2, <1>3, LockCallsAssumption DEF LockInv, Types
<1>5. Inside' = Inside
  BY <1>2 DEF LockInv, Types, Inside
<1>6. ASSUME NEW d \in Callers, pc'[d] \in {"wait", "releasing"}, d # c
      PROVE  /\ pc[d] = pc'[d] /\ mutex'[InstanceOf[d]] = mutex[InstanceOf[d]]
             /\ call'[d] = call[d]
             /\ pc[d] = "wait" => call[d] \in Attempts /\ attempt'[call[d]] = attempt[call[d]]
  <2>1. pc[d] = pc'[d] /\ call'[d] = call[d]
    BY <1>1, <1>2, <1>6 DEF LockInv, Types
  <2>2. mutex[InstanceOf[d]] = d
    BY <1>6, <2>1 DEF LockInv, Waiting
  <2>3. InstanceOf[d] # InstanceOf[c]
    BY <1>2, <2>2, LockCallsAssumption
  <2>4. mutex'[InstanceOf[d]] = mutex[InstanceOf[d]]
    BY <1>2, <2>3, LockCallsAssumption DEF LockInv, Types
  <2>5. ASSUME pc[d] = "wait"
        PROVE  call[d] \in Attempts /\ attempt'[call[d]] = attempt[call[d]]
    <3>1. call[d] \in Attempts /\ attempt[call[d]].inst \in Instances
      BY <2>5, LockCallsAssumption, SMT DEF LockInv, Waiting
    <3>2. attempt[k].inst = NoInstance
      BY <1>1, SMT DEF Over
    <3>3. call[d] # k
      BY <3>1, <3>2, LockCallsAssumption
    <3> QED
      BY <1>1, <3>1, <3>3 DEF LockInv, Types
  <2> QED
    BY <2>1, <2>4, <2>5
<1>7. /\ pc'[c] = "wait" /\ call'[c] = k /\ attempt'[k] = new
      /\ mutex'[InstanceOf[c]] = c
  BY <1>1, <1>2, LockCallsAssumption DEF LockInv, Types
<1>8. Waiting'
  BY <1>1, <1>2, <1>3, <1>6, <1>7, SMT DEF LockInv, Waiting
<1>9. Granted'
  <2>1. ASSUME NEW d \in Callers, pc'[d] = "wait", NEW n \in 1..Len(attempt'[call'[d]].errchan),
               attempt'[call'[d]].errchan[n] = "nil"
        PROVE  depth'[InstanceOf[d]] > 0
    <3>1. CASE d = c
      <4>1. Len(attempt'[call'[d]].errchan) = 0
        BY <1>3, <1>7, <3>1
      <4> QED
        BY <2>1, <4>1, SMT
    <3>2. CASE d # c
      BY <1>2, <1>6, <2>1, <3>2, SMT DEF LockInv, Granted
    <3> QED
      BY <3>1, <3>2
  <2> QED
    BY <2>1 DEF Granted
<1>10. Sole' /\ Owners' /\ OnePerValue'
  BY <1>2, <1>5 DEF LockInv, Sole, Owners, OnePerValue
<1> QED
  BY <1>2, <1>4, <1>5, <1>8, <1>9, <1>10, LockUnseen DEF LockInv

\* lock() returns: with nil it enters, and nobody else is inside.
LEMMA LockReturnsStep ==
  ASSUME LockInv, NEW c \in Callers, LockReturns(c)
  PROVE  LockInv' /\ [Lock!Next]_(Lock!vars)
<1> DEFINE k == call[c]
           ch == attempt[k].errchan
           err == Head(ch)
           a == [attempt[k] EXCEPT !.errchan = Tail(@)]
           place == IF err = "nil" THEN "inside" ELSE "idle"
<1>1. /\ pc[c] = "wait" /\ ch # <<>>
      /\ isLocked' = [isLocked EXCEPT ![InstanceOf[c]] = @ \/ err = "nil"]
      /\ pc' = [pc EXCEPT ![c] = place]
      /\ Become(k, a, FALSE)
      /\ call' = [call EXCEPT ![c] = NoAttempt]
      /\ mutex' = [mutex EXCEPT ![InstanceOf[c]] = NoCaller]
      /\ depth' = depth
  BY DEF LockReturns, Goto, Give
<1>2. /\ k \in Attempts /\ attempt[k].inst = InstanceOf[c] /\ mutex[InstanceOf[c]] = c
      /\ ~isLocked[InstanceOf[c]] /\ InstanceOf[c] \in Instances
  BY <1>1, LockCallsAssumption DEF LockInv, Waiting
<1>3. attempt \in [Attempts -> Record] /\ ch \in Seq({"nil", "error"})
  BY <1>2 DEF LockInv, Types, Record
<1>4. Tail(ch) \in Seq({"nil", "error"}) /\ err \in {"nil", "error"} /\ err = ch[1] /\ 1 \in 1..Len(ch)
  <2> HIDE DEF ch
  <2>1. Len(ch) \in Nat /\ Len(ch) # 0
    BY <1>1, <1>3, EmptySeq
  <2> QED
    BY <1>1, <1>3, <2>1, HeadTailProperties, SMT
<1>5. a \in Record
  BY <1>2, <1>3, <1>4, ZenonT(60) DEF Record
<1>6. err = "nil" => depth[InstanceOf[c]] > 0
  BY <1>1, <1>4 DEF LockInv, Granted
<1> HIDE DEF a, err, ch, k
<1>7. attempt' \in [Attempts -> Record] /\ \A j \in Attempts : j # k => attempt'[j] = attempt[j]
  BY <1>1, <1>2, <1>3, <1>5, Becomes
<1>8. Types'
  BY <1>1, <1>4, <1>7 DEF LockInv, Types
<1>9. ASSUME NEW d \in Callers, d # c
      PROVE  /\ pc'[d] = pc[d] /\ call'[d] = call[d]
             /\ pc[d] \in {"wait", "releasing"} =>
                  /\ mutex'[InstanceOf[d]] = mutex[InstanceOf[d]]
                  /\ isLocked'[InstanceOf[d]] = isLocked[InstanceOf[d]]
             /\ pc[d] = "wait" => call[d] \in Attempts /\ attempt'[call[d]] = attempt[call[d]]
  <2>1. pc'[d] = pc[d] /\ call'[d] = call[d]
    BY <1>1, <1>9 DEF LockInv, Types
  <2>2. ASSUME pc[d] \in {"wait", "releasing"}
        PROVE  InstanceOf[d] # InstanceOf[c]
    BY <1>2, <1>9, <2>2 DEF LockInv, Waiting
  <2>3. pc[d] \in {"wait", "releasing"} =>
          /\ mutex'[InstanceOf[d]] = mutex[InstanceOf[d]]
          /\ isLocked'[InstanceOf[d]] = isLocked[InstanceOf[d]]
    BY <1>1, <2>2, LockCallsAssumption DEF LockInv, Types
  <2>4. pc[d] = "wait" => call[d] \in Attempts /\ attempt'[call[d]] = attempt[call[d]]
    BY <1>2, <1>7, <2>2 DEF LockInv, Waiting
  <2> QED
    BY <2>1, <2>3, <2>4
<1>10. pc'[c] = place /\ place \in {"inside", "idle"}
  BY <1>1 DEF LockInv, Types
<1>11. Waiting' /\ Granted'
  BY <1>1, <1>9, <1>10, SMT DEF LockInv, Waiting, Granted
<1>12. Sole'
  BY <1>1 DEF LockInv, Sole
<1>13. \A i \in Instances : isLocked[i] => isLocked'[i]
  BY <1>1 DEF LockInv, Types
<1>14. CASE err # "nil"
  <2>1. Inside' = Inside
    BY <1>1, <1>9, <1>10, <1>14 DEF Inside
  <2>2. Owners' /\ OnePerValue'
    BY <1>1, <1>13, <2>1, LockCallsAssumption DEF LockInv, Owners, OnePerValue, Inside
  <2>3. UNCHANGED Lock!vars
    BY <1>1, <2>1, LockUnseen
  <2> QED
    BY <1>8, <1>11, <1>12, <2>2, <2>3 DEF LockInv
<1>15. CASE err = "nil"
  <2>1. Inside = {}
    <3>1. ASSUME NEW d \in Inside
          PROVE  FALSE
      <4>1. isLocked[InstanceOf[d]] /\ depth[InstanceOf[d]] > 0 /\ InstanceOf[d] \in Instances
        BY <3>1, LockCallsAssumption DEF LockInv, Owners, Inside
      <4>2. InstanceOf[d] = InstanceOf[c]
        BY <1>2, <1>6, <1>15, <4>1 DEF LockInv, Sole
      <4> QED
        BY <1>2, <4>1, <4>2
    <3> QED
      BY <3>1
  <2>2. Inside' = {c}
    BY <1>9, <1>10, <1>15, <2>1, SMT DEF Inside
  <2>3. isLocked'[InstanceOf[c]]
    BY <1>1, <1>2, <1>15 DEF LockInv, Types
  <2>4. Owners' /\ OnePerValue'
    BY <1>1, <1>6, <1>15, <2>2, <2>3 DEF Owners, OnePerValue
  <2>5. Holder = InstanceOf[c] /\ Holder' = InstanceOf[c]
    BY <1>1, <1>2, <1>6, <1>12, <1>15, HolderOwns, HolderOwnsNext DEF LockInv
  <2>6. Lock!Enter(c)
    BY <2>1, <2>2, <2>5 DEF Lock!Enter
  <2> QED
    BY <1>8, <1>11, <1>12, <2>4, <2>6 DEF LockInv, Lock!Next
<1> QED
  BY <1>14, <1>15

-----------------------------------------------------------------------------
\* The operation ends, and its unlock() takes the mutex.
LEMMA LeavingStep ==
  ASSUME LockInv, NEW c \in Callers, Leave(c) \/ UnlockStarts(c)
  PROVE  LockInv' /\ UNCHANGED Lock!vars
<1>1. UNCHANGED <<isLocked, depth, call, attempt>>
  BY DEF Leave, UnlockStarts
<1>2. /\ pc \in [Callers -> {"idle", "lock", "wait", "inside", "unlock", "releasing"}]
      /\ mutex \in [Instances -> Callers \cup {NoCaller}]
  BY DEF LockInv, Types
<1>3. CASE Leave(c)
  <2>1. pc[c] = "inside" /\ pc' = [pc EXCEPT ![c] = "unlock"] /\ mutex' = mutex
    BY <1>3 DEF Leave, Goto
  <2>2. Inside' = Inside
    BY <1>2, <2>1 DEF Inside
  <2>3. Types' /\ Waiting' /\ Granted'
    BY <1>1, <2>1 DEF LockInv, Types, Waiting, Granted
  <2>4. Sole' /\ Owners' /\ OnePerValue'
    BY <1>1, <2>2 DEF LockInv, Sole, Owners, OnePerValue
  <2> QED
    BY <1>1, <2>2, <2>3, <2>4, LockUnseen DEF LockInv
<1>4. CASE UnlockStarts(c)
  <2>1. /\ pc[c] = "unlock" /\ pc' = [pc EXCEPT ![c] = "releasing"]
        /\ mutex[InstanceOf[c]] = NoCaller /\ mutex' = [mutex EXCEPT ![InstanceOf[c]] = c]
    BY <1>4 DEF UnlockStarts, Goto, Take, Free
  <2>2. Inside' = Inside
    BY <1>2, <2>1 DEF Inside
  <2>3. ASSUME NEW d \in Callers, d # c
        PROVE  /\ pc'[d] = pc[d]
               /\ pc[d] \in {"wait", "releasing"} => mutex'[InstanceOf[d]] = mutex[InstanceOf[d]]
    <3>1. pc[d] \in {"wait", "releasing"} => mutex[InstanceOf[d]] = d
      BY DEF LockInv, Waiting
    <3> QED
      BY <1>2, <2>1, <2>3, <3>1, LockCallsAssumption
  <2>4. pc'[c] = "releasing" /\ mutex'[InstanceOf[c]] = c
    BY <1>2, <2>1, LockCallsAssumption
  <2>5. Waiting' /\ Granted'
    BY <1>1, <2>3, <2>4, SMT DEF LockInv, Waiting, Granted
  <2>6. Types'
    BY <1>1, <2>1, LockCallsAssumption DEF LockInv, Types
  <2>7. Sole' /\ Owners' /\ OnePerValue'
    BY <1>1, <2>2 DEF LockInv, Sole, Owners, OnePerValue
  <2> QED
    BY <1>1, <2>2, <2>5, <2>6, <2>7, LockUnseen DEF LockInv
<1> QED
  BY <1>3, <1>4

\* unlock() returns, after the database released the lock or without.
LEMMA UnlockStep ==
  ASSUME LockInv, NEW c \in Callers, Unlocks(c) \/ UnlockFails(c)
  PROVE  LockInv' /\ [Lock!Next]_(Lock!vars)
<1> DEFINE i == InstanceOf[c]
<1>1. /\ UNCHANGED <<call, attempt>>
      /\ pc[c] = "releasing" /\ pc' = [pc EXCEPT ![c] = "idle"]
      /\ mutex' = [mutex EXCEPT ![i] = NoCaller]
      /\ isLocked' = isLocked \/ isLocked' = [isLocked EXCEPT ![i] = FALSE]
      /\ depth' = depth \/ depth' = [depth EXCEPT ![i] = @ - 1]
  BY DEF Unlocks, UnlockFails, Goto, Give
<1>2. c \in Inside /\ i \in Instances /\ mutex[i] = c
  BY <1>1, LockCallsAssumption DEF LockInv, Waiting, Inside
<1>3. depth \in [Instances -> Nat] /\ depth[i] > 0 /\ Sole
  BY <1>2 DEF LockInv, Types, Owners
<1> HIDE DEF i
<1>4. /\ depth' \in [Instances -> Nat]
      /\ \A j \in Instances : j # i => depth'[j] = depth[j] /\ ~(depth[j] > 0)
  <2>1. \A j \in Instances : j # i => depth'[j] = depth[j]
    BY <1>1, <1>2, <1>3
  <2>2. depth' \in [Instances -> Nat]
    BY <1>1, <1>2, <1>3, SMT
  <2>3. \A j \in Instances : j # i => ~(depth[j] > 0)
    BY <1>2, <1>3 DEF Sole
  <2> QED
    BY <2>1, <2>2, <2>3
<1>5. Sole'
  BY <1>4 DEF Sole
<1>6. Types'
  BY <1>1, <1>4 DEF LockInv, Types
<1>7. ASSUME NEW d \in Callers, d # c
      PROVE  /\ pc'[d] = pc[d] /\ call'[d] = call[d]
             /\ pc[d] \in {"wait", "releasing"} =>
                  InstanceOf[d] \in Instances /\ InstanceOf[d] # i
  BY <1>1, <1>2, <1>7, LockCallsAssumption DEF LockInv, Types, Waiting
<1>8. pc'[c] = "idle"
  BY <1>1 DEF LockInv, Types
<1>9. \A j \in Instances : j # i => mutex'[j] = mutex[j] /\ isLocked'[j] = isLocked[j]
  BY <1>1, <1>2 DEF LockInv, Types
<1>10. Waiting'
  BY <1>1, <1>7, <1>8, <1>9, SMT DEF LockInv, Waiting
<1>11. Granted'
  BY <1>1, <1>4, <1>7, <1>8, SMT DEF LockInv, Granted
<1>12. Inside' = Inside \ {c}
  BY <1>7, <1>8 DEF Inside
<1>13. Inside' = {}
  <2>1. ASSUME NEW d \in Inside
        PROVE  d = c
    <3>1. InstanceOf[d] \in Instances /\ depth[InstanceOf[d]] > 0
      BY LockCallsAssumption DEF LockInv, Owners, Inside
    <3>2. InstanceOf[d] = i
      BY <1>4, <3>1
    <3> QED
      BY <1>2, <3>2 DEF LockInv, OnePerValue, i
  <2> QED
    BY <1>12, <2>1
<1>14. Owners' /\ OnePerValue'
  BY <1>13 DEF Owners, OnePerValue
<1>15. Holder' \in {Holder, NoInstance}
  <2>1. Holder = i
    BY <1>2, <1>3, HolderOwns
  <2>2. CASE depth'[i] > 0
    BY <1>2, <1>5, <2>1, <2>2, HolderOwnsNext
  <2>3. CASE ~(depth'[i] > 0)
    <3>1. \A j \in Instances : ~(depth'[j] > 0)
      BY <1>4, <2>3
    <3> QED
      BY <3>1, HolderNone
  <2> QED
    BY <2>2, <2>3
<1>16. Lock!Leave(c)
  BY <1>2, <1>12, <1>15 DEF Lock!Leave
<1> QED
  BY <1>5, <1>6, <1>10, <1>11, <1>14, <1>16 DEF LockInv, Lock!Next

-----------------------------------------------------------------------------
\* A process dies: its callers, its goroutines and its session are gone.
LEMMA CrashStep ==
  ASSUME LockInv, NEW i \in Instances, Crash(i)
  PROVE  LockInv' /\ Lock!Crash(i)
<1>1. Types
  BY DEF LockInv
<1>2. ASSUME NEW c \in Callers
      PROVE  /\ InstanceOf[c] \in Instances
             /\ InstanceOf[c] = i => pc'[c] = "idle"
             /\ InstanceOf[c] # i =>
                  /\ pc'[c] = pc[c] /\ call'[c] = call[c]
                  /\ mutex'[InstanceOf[c]] = mutex[InstanceOf[c]]
                  /\ isLocked'[InstanceOf[c]] = isLocked[InstanceOf[c]]
                  /\ depth'[InstanceOf[c]] = depth[InstanceOf[c]]
  BY <1>1, LockCallsAssumption DEF Types, Crash
<1>3. ASSUME NEW k \in Attempts, attempt[k].inst # i
      PROVE  attempt'[k] = attempt[k]
  BY <1>3 DEF Crash
<1>4. Types'
  <2>1. Over \in Record
    <3>1. <<>> \in Seq({"nil", "error"})
      BY SMT
    <3> QED
      BY <3>1 DEF Over, Record
  <2> QED
    BY <1>1, <2>1, LockCallsAssumption DEF Types, Crash
<1>5. /\ \A j \in Instances : j # i => depth'[j] = depth[j]
      /\ ~(depth'[i] > 0)
  BY <1>1, SMT DEF Types, Crash
<1>6. Sole'
  BY <1>5 DEF LockInv, Sole
<1>7. Waiting' /\ Granted'
  BY <1>2, <1>3, SMT DEF LockInv, Waiting, Granted
<1>8. Inside' = {c \in Inside : InstanceOf[c] # i}
  BY <1>2 DEF Inside
<1>9. Owners' /\ OnePerValue'
  BY <1>2, <1>8 DEF LockInv, Owners, OnePerValue, Inside
<1>10. Holder' = IF Holder = i THEN NoInstance ELSE Holder
  <2>1. CASE depth[i] > 0
    <3>1. Holder = i
      BY <2>1, HolderOwns DEF LockInv
    <3>2. \A j \in Instances : ~(depth'[j] > 0)
      BY <1>5, <2>1 DEF LockInv, Sole
    <3> QED
      BY <3>1, <3>2, HolderNone
  <2>2. CASE \E j \in Instances : j # i /\ depth[j] > 0
    <3>1. PICK j \in Instances : j # i /\ depth[j] > 0
      BY <2>2
    <3>2. Holder = j /\ Holder' = j
      BY <1>5, <1>6, <3>1, HolderOwns, HolderOwnsNext DEF LockInv
    <3> QED
      BY <3>1, <3>2
  <2>3. CASE \A j \in Instances : ~(depth[j] > 0)
    <3>1. Holder = NoInstance /\ Holder' = NoInstance
      BY <1>5, <2>3, HolderNone
    <3> QED
      BY <3>1
  <2> QED
    BY <2>1, <2>2, <2>3
<1> QED
  BY <1>4, <1>6, <1>7, <1>8, <1>9, <1>10 DEF LockInv, Lock!Crash

\* Another process takes the lock or releases it.
LEMMA OtherStep ==
  ASSUME LockInv, NEW i \in Others, OtherLocks(i) \/ OtherUnlocks(i)
  PROVE  LockInv' /\ [Lock!Next]_(Lock!vars)
<1>1. /\ UNCHANGED <<mutex, isLocked, pc, call, attempt>>
      /\ i \in Instances /\ \A c \in Callers : InstanceOf[c] # i /\ InstanceOf[c] \in Instances
  BY LockCallsAssumption DEF OtherLocks, OtherUnlocks, Others
<1>2. depth \in [Instances -> Nat] /\ Sole
  BY DEF LockInv, Types
<1>3. Inside' = Inside /\ Inside \subseteq Callers
  BY <1>1 DEF Inside
<1>4. /\ depth' \in [Instances -> Nat]
      /\ \A j \in Instances : j # i => depth'[j] = depth[j] /\ ~(depth[j] > 0)
  <2>1. \A j \in Instances : j # i => depth'[j] = depth[j]
    BY <1>2 DEF OtherLocks, OtherUnlocks
  <2>2. depth' \in [Instances -> Nat]
    BY <1>2, SMT DEF OtherLocks, OtherUnlocks
  <2>3. (\A j \in Instances : depth[j] = 0) \/ depth[i] > 0
    BY SMT DEF OtherLocks, OtherUnlocks
  <2>4. \A j \in Instances : j # i => ~(depth[j] > 0)
    BY <1>1, <1>2, <2>3 DEF Sole
  <2> QED
    BY <2>1, <2>2, <2>4
<1>5. Sole'
  BY <1>4 DEF Sole
<1>6. Types' /\ Waiting' /\ OnePerValue'
  BY <1>1, <1>3, <1>4 DEF LockInv, Types, Waiting, OnePerValue
<1>7. Owners' /\ Granted'
  <2>1. \A c \in Callers : depth'[InstanceOf[c]] = depth[InstanceOf[c]]
    BY <1>1, <1>4
  <2> QED
    BY <1>1, <1>3, <2>1 DEF LockInv, Owners, Granted
<1>8. [Lock!Next]_(Lock!vars)
  <2>1. CASE OtherLocks(i)
    <3>1. (\A j \in Instances : ~(depth[j] > 0)) /\ depth'[i] > 0
      BY <1>1, <1>2, <2>1, SMT DEF OtherLocks
    <3>2. Holder = NoInstance /\ Holder' = i
      BY <1>1, <1>5, <3>1, HolderNone, HolderOwnsNext
    <3> QED
      BY <1>1, <1>3, <3>2 DEF Lock!Next, Lock!Acquire
  <2>2. CASE OtherUnlocks(i)
    <3>1. depth[i] > 0 /\ ~(depth'[i] > 0)
      BY <1>1, <1>2, <2>2, SMT DEF OtherUnlocks
    <3>2. \A j \in Instances : ~(depth'[j] > 0)
      BY <1>4, <3>1
    <3>3. Holder = i /\ Holder' = NoInstance
      BY <1>1, <1>2, <3>1, <3>2, HolderNone, HolderOwns
    <3> QED
      BY <1>1, <1>3, <3>3 DEF Lock!Next, Lock!Release
  <2> QED
    BY <2>1, <2>2
<1> QED
  BY <1>4, <1>5, <1>6, <1>7, <1>8 DEF LockInv

-----------------------------------------------------------------------------
\* Nobody has called yet.
LEMMA LockInit ==
  ASSUME Init
  PROVE  LockInv /\ Lock!Init
<1>1. <<>> \in Seq({"nil", "error"})
  BY SMT
<1>2. Types
  BY <1>1, LockCallsAssumption DEF Init, Types, Over, Record
<1>3. \A c \in Callers : pc[c] = "idle"
  BY DEF Init
<1>4. \A i \in Instances : ~(depth[i] > 0)
  <2>1. \A i \in Instances : depth[i] = 0
    BY DEF Init
  <2>2. ~(0 > 0)
    BY SMT
  <2> QED
    BY <2>1, <2>2
<1>5. Inside = {}
  BY <1>3 DEF Inside
<1>6. Waiting /\ Granted
  BY <1>3 DEF Waiting, Granted
<1>7. Sole /\ Owners /\ OnePerValue
  BY <1>4, <1>5 DEF Sole, Owners, OnePerValue
<1>8. Holder = NoInstance
  BY <1>4, HolderNone
<1> QED
  BY <1>2, <1>5, <1>6, <1>7, <1>8 DEF LockInv, Lock!Init

\* Every step keeps the invariant and is a step of the lock service, or none.
LEMMA LockStep ==
  ASSUME LockInv, [Next]_vars
  PROVE  LockInv' /\ [Lock!Next]_(Lock!vars)
<1>1. CASE \E c \in Callers :
        \/ Call(c) \/ LockRefused(c) \/ LockStarts(c) \/ LockReturns(c)
        \/ Leave(c) \/ UnlockStarts(c) \/ Unlocks(c) \/ UnlockFails(c)
  BY <1>1, OutsideStep, LockStartsStep, LockReturnsStep, LeavingStep, UnlockStep
<1>2. CASE \E k \in Attempts :
        \/ TimerFires(k) \/ TimerDone(k)
        \/ DriverRefuses(k) \/ DriverAsks(k) \/ DriverLocks(k) \/ DriverFails(k)
  BY <1>2, TimerStep, DriverStep, GrantStep
<1>3. CASE \E i \in Instances : Crash(i)
  BY <1>3, CrashStep DEF Lock!Next
<1>4. CASE \E i \in Others : OtherLocks(i) \/ OtherUnlocks(i)
  BY <1>4, OtherStep
<1>5. CASE UNCHANGED vars
  <2>1. UNCHANGED <<mutex, isLocked, depth, pc, call, attempt>>
    BY <1>5 DEF vars
  <2>2. Inside' = Inside
    BY <2>1 DEF Inside
  <2>3. LockInv'
    BY <2>1, <2>2, SMT DEF LockInv, Types, Sole, Waiting, Owners, OnePerValue, Granted
  <2> QED
    BY <2>1, <2>2, <2>3, LockUnseen
<1> QED
  BY <1>1, <1>2, <1>3, <1>4, <1>5 DEF Next

\* lock() and unlock() of migrate.go, with the goroutines that outlive them, keep
\* the discipline of the lock for any number of callers, values and sessions.
THEOREM CallsKeepDiscipline == Spec => LockDiscipline
<1>1. Init => LockInv /\ Lock!Init
  BY LockInit
<1>2. LockInv /\ [Next]_vars => LockInv' /\ [Lock!Next]_(Lock!vars)
  BY LockStep
<1> QED
  BY <1>1, <1>2, PTL DEF Spec, LockDiscipline, Lock!Spec

-----------------------------------------------------------------------------
(***************************************************************************)
(* Whoever is inside owns the database lock exactly once, so that its      *)
(* unlock() releases it, and a value forgets no lock of its session.  The  *)
(* hard cases are the Lock goroutines of lock() calls that have timed out: *)
(* one may ask for the lock again while an unlock() is on its way.         *)
(***************************************************************************)

Asking(i) == \E k \in Attempts : attempt[k].inst = i /\ attempt[k].locker = "asking"

Placed == \A k \in Attempts : attempt[k].locker # "off" => attempt[k].inst \in Instances

\* The driver's flag lets one goroutine at a time ask for the session.
OneAsks ==
  \A j, k \in Attempts :
    attempt[j].locker = "asking" /\ attempt[k].locker = "asking"
      /\ attempt[j].inst = attempt[k].inst => j = k

Flagged ==
  \A k \in Attempts : attempt[k].locker = "asking" => flag[attempt[k].inst]

\* Besides n locks, the session of i owns at most one, which the flag stands for.
AtMostOne(i, n) == depth[i] = n \/ (depth[i] = n + 1 /\ flag[i] /\ ~Asking(i))

\* A value that is not in use has at most the lock of a lock() that waits or has
\* given up.
FreeOnce == \A i \in Instances \ Others : ~isLocked[i] => AtMostOne(i, 0)

InsideOnce ==
  \A c \in Callers :
    pc[c] \in {"inside", "unlock"} =>
      depth[InstanceOf[c]] = 1 /\ flag[InstanceOf[c]] /\ ~Asking(InstanceOf[c])

\* While unlock() waits for the database, a late Lock may add a lock to its own.
ReleasingOnce == \A c \in Callers : pc[c] = "releasing" => AtMostOne(InstanceOf[c], 1)

OnceInv ==
  /\ flag \in [Instances -> BOOLEAN]
  /\ Placed /\ OneAsks /\ Flagged
  /\ FreeOnce /\ InsideOnce /\ ReleasingOnce

-----------------------------------------------------------------------------
\* Goroutines end, or start without asking yet: nobody new asks.
LEMMA NobodyNewAsks ==
  ASSUME Placed, OneAsks, Flagged, flag' = flag,
         \A j \in Attempts :
           /\ attempt'[j].locker = "asking" =>
                attempt[j].locker = "asking" /\ attempt'[j].inst = attempt[j].inst
           /\ attempt'[j].locker # "off" => attempt'[j].inst \in Instances
  PROVE  /\ Placed' /\ OneAsks' /\ Flagged'
         /\ \A i \in Instances : ~Asking(i) => ~Asking(i)'
<1>1. Placed'
  BY DEF Placed
<1>2. OneAsks'
  BY DEF OneAsks
<1>3. Flagged'
  BY DEF Flagged
<1>4. \A i \in Instances : ~Asking(i) => ~Asking(i)'
  BY DEF Asking
<1> QED
  BY <1>1, <1>2, <1>3, <1>4

\* A step that neither asks nor takes nor releases the lock, and lets nobody in.
LEMMA QuietStep ==
  ASSUME OnceInv, UNCHANGED <<flag, depth>>,
         \A j \in Attempts :
           /\ attempt'[j].locker = "asking" =>
                attempt[j].locker = "asking" /\ attempt'[j].inst = attempt[j].inst
           /\ attempt'[j].locker # "off" => attempt'[j].inst \in Instances,
         \A i \in Instances : isLocked[i] => isLocked'[i],
         \A c \in Callers :
           /\ pc'[c] \in {"inside", "unlock"} => pc[c] \in {"inside", "unlock"}
           /\ pc'[c] = "releasing" => pc[c] = "releasing"
  PROVE  OnceInv'
<1>1. /\ Placed' /\ OneAsks' /\ Flagged'
      /\ \A i \in Instances : ~Asking(i) => ~Asking(i)'
  BY NobodyNewAsks DEF OnceInv
<1>2. ASSUME NEW i \in Instances, NEW n \in {0, 1}, AtMostOne(i, n)
      PROVE  AtMostOne(i, n)'
  BY <1>1, <1>2 DEF AtMostOne
<1>3. \A c \in Callers : InstanceOf[c] \in Instances
  BY LockCallsAssumption
<1>4. FreeOnce'
  BY <1>2 DEF OnceInv, FreeOnce, Others
<1>5. InsideOnce'
  BY <1>1, <1>3 DEF OnceInv, InsideOnce
<1>6. ReleasingOnce'
  BY <1>2, <1>3 DEF OnceInv, ReleasingOnce
<1> QED
  BY <1>1, <1>4, <1>5, <1>6 DEF OnceInv

\* What a goroutine leaves behind: nobody else's changes.
LEMMA BecomesLocker ==
  ASSUME LockInv, NEW k \in Attempts, NEW a, NEW pending,
         a.inst = attempt[k].inst, Become(k, a, pending)
  PROVE  \A j \in Attempts :
           attempt'[j].locker # "off" =>
             /\ attempt'[j].inst = attempt[j].inst
             /\ attempt'[j].locker = IF j = k THEN a.locker ELSE attempt[j].locker
<1>1. Over.locker = "off"
  BY DEF Over
<1>2. \A j \in Attempts : j # k => attempt'[j] = attempt[j]
  BY DEF Become, LockInv, Types
<1>3. attempt'[k] \in {Over, a}
  BY DEF Become, LockInv, Types
<1> QED
  BY <1>1, <1>2, <1>3

\* The same for a goroutine that ends with an answer.
LEMMA AnswersLocker ==
  ASSUME LockInv, NEW k \in Attempts, NEW g \in Record, NEW err,
         g.inst = attempt[k].inst, Answers(k, g, err)
  PROVE  \A j \in Attempts :
           attempt'[j].locker # "off" =>
             /\ attempt'[j].inst = attempt[j].inst
             /\ attempt'[j].locker = IF j = k THEN g.locker ELSE attempt[j].locker
<1> DEFINE a == [g EXCEPT !.errchan = Append(@, err)]
<1>1. a.inst = g.inst /\ a.locker = g.locker
  BY DEF Record
<1>2. Become(k, a, Pending(k))
  BY DEF Answers
<1> HIDE DEF a
<1> QED
  BY <1>1, <1>2, BecomesLocker, SMT

-----------------------------------------------------------------------------
\* Callers come, wait, give up and leave; timers fire; the driver refuses.
LEMMA QuietSteps ==
  ASSUME LockInv, OnceInv,
         \/ \E c \in Callers : Call(c) \/ LockRefused(c) \/ LockStarts(c) \/ Leave(c)
         \/ \E k \in Attempts : TimerFires(k) \/ TimerDone(k) \/ DriverRefuses(k)
         \/ UNCHANGED vars
  PROVE  OnceInv'
<1>1. ASSUME \/ \E c \in Callers : Call(c) \/ LockRefused(c) \/ Leave(c)
             \/ UNCHANGED vars
      PROVE  OnceInv'
  <2>1. UNCHANGED <<flag, depth, isLocked, attempt>>
    BY <1>1 DEF Call, LockRefused, Leave, vars
  <2>2. \A c \in Callers :
          /\ pc'[c] \in {"inside", "unlock"} => pc[c] \in {"inside", "unlock"}
          /\ pc'[c] = "releasing" => pc[c] = "releasing"
    BY <1>1, SMT DEF Call, LockRefused, Leave, Goto, vars, LockInv, Types
  <2>3. \A j \in Attempts : attempt[j].locker # "off" => attempt[j].inst \in Instances
    BY DEF OnceInv, Placed
  <2> QED
    BY <2>1, <2>2, <2>3, QuietStep
<1>2. ASSUME NEW c \in Callers, LockStarts(c)
      PROVE  OnceInv'
  <2>1. UNCHANGED <<flag, depth, isLocked>> /\ pc' = [pc EXCEPT ![c] = "wait"]
    BY <1>2 DEF LockStarts, Goto
  <2>2. \A d \in Callers : pc'[d] = pc[d] \/ pc'[d] = "wait"
    BY <2>1 DEF LockInv, Types
  <2>3. PICK k \in Attempts : attempt' = [attempt EXCEPT ![k] =
          [inst |-> InstanceOf[c], errchan |-> <<>>, timer |-> "running", locker |-> "started"]]
    BY <1>2 DEF LockStarts
  <2>4. \A j \in Attempts : j # k => attempt'[j] = attempt[j]
    BY <2>3 DEF LockInv, Types
  <2>5. attempt'[k].locker = "started" /\ attempt'[k].inst \in Instances
    BY <2>3, LockCallsAssumption DEF LockInv, Types
  <2>6. \A j \in Attempts :
          /\ attempt'[j].locker = "asking" =>
               attempt[j].locker = "asking" /\ attempt'[j].inst = attempt[j].inst
          /\ attempt'[j].locker # "off" => attempt'[j].inst \in Instances
    BY <2>4, <2>5 DEF OnceInv, Placed
  <2> QED
    BY <2>1, <2>2, <2>6, QuietStep
<1>3. ASSUME NEW k \in Attempts, TimerFires(k) \/ TimerDone(k) \/ DriverRefuses(k)
      PROVE  OnceInv'
  <2>1. UNCHANGED <<flag, depth, isLocked, pc>>
    BY <1>3 DEF TimerFires, TimerDone, DriverRefuses
  <2>2. attempt[k] \in Record
    BY DEF LockInv, Types
  <2>3. \A j \in Attempts :
          attempt'[j].locker # "off" =>
            attempt'[j].inst = attempt[j].inst /\ attempt'[j].locker = attempt[j].locker
    <3>1. CASE TimerFires(k) \/ TimerDone(k)
      <4> DEFINE g == [attempt[k] EXCEPT !.timer = "off"]
      <4>1. g \in Record /\ g.inst = attempt[k].inst /\ g.locker = attempt[k].locker
        BY <2>2 DEF Record
      <4>2. Answers(k, g, "error") \/ Become(k, g, FALSE)
        BY <3>1 DEF TimerFires, TimerDone
      <4> HIDE DEF g
      <4>3. CASE Answers(k, g, "error")
        BY <4>1, <4>3, AnswersLocker
      <4>4. CASE Become(k, g, FALSE)
        BY <4>1, <4>4, BecomesLocker
      <4> QED
        BY <4>2, <4>3, <4>4
    <3>2. CASE DriverRefuses(k)
      <4> DEFINE g == [attempt[k] EXCEPT !.locker = "off"]
      <4>1. g \in Record /\ g.inst = attempt[k].inst /\ g.locker = "off"
        BY <2>2 DEF Record
      <4>2. Answers(k, g, "error")
        BY <3>2 DEF DriverRefuses
      <4> HIDE DEF g
      <4> QED
        BY <4>1, <4>2, AnswersLocker
    <3> QED
      BY <1>3, <3>1, <3>2
  <2>4. \A j \in Attempts :
          /\ attempt'[j].locker = "asking" =>
               attempt[j].locker = "asking" /\ attempt'[j].inst = attempt[j].inst
          /\ attempt'[j].locker # "off" => attempt'[j].inst \in Instances
    BY <2>3 DEF OnceInv, Placed
  <2> QED
    BY <2>1, <2>4, QuietStep
<1> QED
  BY <1>1, <1>2, <1>3

\* lock() returns; with nil, its value has the lock once.
LEMMA ReturnsOnce ==
  ASSUME LockInv, OnceInv, NEW c \in Callers, LockReturns(c)
  PROVE  OnceInv'
<1> DEFINE i == InstanceOf[c]
           k == call[c]
           a == [attempt[k] EXCEPT !.errchan = Tail(@)]
           err == Head(attempt[k].errchan)
<1>1. /\ pc[c] = "wait" /\ attempt[k].errchan # <<>>
      /\ UNCHANGED <<flag, depth>>
      /\ isLocked' = [isLocked EXCEPT ![i] = @ \/ err = "nil"]
      /\ pc' = [pc EXCEPT ![c] = IF err = "nil" THEN "inside" ELSE "idle"]
      /\ Become(k, a, FALSE)
  BY DEF LockReturns, Goto
<1>2. /\ k \in Attempts /\ i \in Instances \ Others /\ ~isLocked[i]
      /\ attempt[k].errchan \in Seq({"nil", "error"}) /\ attempt[k] \in Record
  BY <1>1, LockCallsAssumption DEF LockInv, Types, Waiting, Record, Others
<1>3. a.inst = attempt[k].inst /\ a.locker = attempt[k].locker
  BY <1>2 DEF Record
<1>4. err = "nil" => depth[i] > 0
  <2> DEFINE ch == attempt[k].errchan
  <2>1. 1 \in 1..Len(ch) /\ err = ch[1]
    <3>1. err = Head(ch)
      OBVIOUS
    <3> HIDE DEF ch, err
    <3>2. ch \in Seq({"nil", "error"}) /\ ch # <<>>
      BY <1>1, <1>2 DEF ch
    <3>3. Len(ch) \in Nat /\ Len(ch) # 0
      BY <3>2, EmptySeq
    <3> QED
      BY <3>1, <3>2, <3>3, HeadTailProperties, SMT
  <2> QED
    BY <1>1, <2>1 DEF LockInv, Granted
<1> HIDE DEF a, err, k, i
<1>5. \A j \in Attempts :
        attempt'[j].locker # "off" =>
          attempt'[j].inst = attempt[j].inst /\ attempt'[j].locker = attempt[j].locker
  BY <1>1, <1>2, <1>3, BecomesLocker
<1>6. \A j \in Attempts :
        /\ attempt'[j].locker = "asking" =>
             attempt[j].locker = "asking" /\ attempt'[j].inst = attempt[j].inst
        /\ attempt'[j].locker # "off" => attempt'[j].inst \in Instances
  BY <1>5 DEF OnceInv, Placed
<1>7. \A j \in Instances : isLocked[j] => isLocked'[j]
  BY <1>1, <1>2 DEF LockInv, Types
<1>8. \A d \in Callers : d # c => pc'[d] = pc[d]
  BY <1>1 DEF LockInv, Types
<1>9. CASE err # "nil"
  <2>1. pc'[c] = "idle"
    BY <1>1, <1>9 DEF LockInv, Types
  <2> QED
    BY <1>1, <1>6, <1>7, <1>8, <2>1, QuietStep
<1>10. CASE err = "nil"
  <2>1. pc'[c] = "inside" /\ isLocked'[i]
    BY <1>1, <1>2, <1>10 DEF LockInv, Types
  <2>2. /\ Placed' /\ OneAsks' /\ Flagged'
        /\ \A j \in Instances : ~Asking(j) => ~Asking(j)'
    BY <1>1, <1>6, NobodyNewAsks DEF OnceInv
  <2>3. depth[i] = 1 /\ flag[i] /\ ~Asking(i)
    <3>1. depth[i] \in Nat /\ depth[i] # 0
      BY <1>2, <1>4, <1>10, SMT DEF LockInv, Types
    <3> QED
      BY <1>2, <3>1, SMT DEF OnceInv, FreeOnce, AtMostOne
  <2>4. ASSUME NEW j \in Instances, NEW n \in {0, 1}, AtMostOne(j, n)
        PROVE  AtMostOne(j, n)'
    BY <1>1, <2>2, <2>4 DEF AtMostOne
  <2>5. FreeOnce'
    BY <1>7, <2>4 DEF OnceInv, FreeOnce, Others
  <2>6. InsideOnce'
    BY <1>1, <1>2, <1>8, <2>2, <2>3, LockCallsAssumption DEF OnceInv, InsideOnce, i
  <2>7. ReleasingOnce'
    BY <1>8, <2>1, <2>4, LockCallsAssumption DEF OnceInv, ReleasingOnce
  <2> QED
    BY <1>1, <2>2, <2>5, <2>6, <2>7 DEF OnceInv
<1> QED
  BY <1>9, <1>10

-----------------------------------------------------------------------------
\* The driver swaps its flag and asks, maybe while an unlock() is on its way.
LEMMA AsksOnce ==
  ASSUME LockInv, OnceInv, NEW k \in Attempts, DriverAsks(k)
  PROVE  OnceInv'
<1> DEFINE i == attempt[k].inst
<1>1. /\ attempt[k].locker = "started" /\ ~flag[i]
      /\ flag' = [flag EXCEPT ![i] = TRUE]
      /\ attempt' = [attempt EXCEPT ![k].locker = "asking"]
      /\ UNCHANGED <<isLocked, depth, pc>>
  BY DEF DriverAsks
<1>2. i \in Instances
  BY <1>1 DEF OnceInv, Placed
<1>3. /\ \A j \in Attempts : attempt'[j].inst = attempt[j].inst
      /\ \A j \in Attempts : j # k => attempt'[j].locker = attempt[j].locker
      /\ attempt'[k].locker = "asking"
  BY <1>1 DEF LockInv, Types, Record
<1> HIDE DEF i
<1>4. /\ flag' \in [Instances -> BOOLEAN] /\ flag'[i]
      /\ \A j \in Instances : j # i => flag'[j] = flag[j]
  BY <1>1, <1>2 DEF OnceInv
<1>5. \A j \in Attempts : attempt[j].inst = i => attempt[j].locker # "asking"
  BY <1>1 DEF OnceInv, Flagged
<1>6. Placed' /\ OneAsks'
  BY <1>1, <1>2, <1>3, <1>5, SMT DEF OnceInv, Placed, OneAsks, i
<1>7. Flagged'
  BY <1>3, <1>4 DEF OnceInv, Placed, Flagged, i
<1>8. \A j \in Instances : j # i /\ ~Asking(j) => ~Asking(j)'
  BY <1>3 DEF Asking, i
<1>9. ASSUME NEW j \in Instances, NEW n \in {0, 1}, AtMostOne(j, n)
      PROVE  AtMostOne(j, n)'
  BY <1>1, <1>4, <1>8, <1>9 DEF AtMostOne
<1>10. FreeOnce'
  BY <1>1, <1>9 DEF OnceInv, FreeOnce, Others
<1>11. InsideOnce'
  BY <1>1, <1>4, <1>8, LockCallsAssumption DEF OnceInv, InsideOnce
<1>12. ReleasingOnce'
  BY <1>1, <1>9, LockCallsAssumption DEF OnceInv, ReleasingOnce
<1> QED
  BY <1>4, <1>6, <1>7, <1>10, <1>11, <1>12 DEF OnceInv

\* The one that asks is answered.
LEMMA AnsweredOnce ==
  ASSUME LockInv, OnceInv, NEW k \in Attempts, DriverLocks(k) \/ DriverFails(k)
  PROVE  OnceInv'
<1> DEFINE g == [attempt[k] EXCEPT !.locker = "off"]
<1>0. PICK i \in Instances : i = attempt[k].inst
  BY DEF DriverLocks, DriverFails, OnceInv, Placed
<1>1. /\ attempt[k].locker = "asking" /\ UNCHANGED <<isLocked, pc>>
      /\ Answers(k, g, "nil") \/ Answers(k, g, "error")
      /\ \/ flag' = flag /\ depth' = [depth EXCEPT ![i] = @ + 1]
         \/ flag' = [flag EXCEPT ![i] = FALSE] /\ depth' = depth
  BY <1>0 DEF DriverLocks, DriverFails
<1>2. flag[i] /\ Asking(i)
  BY <1>0, <1>1 DEF OnceInv, Flagged, Asking
<1>3. g \in Record /\ g.inst = attempt[k].inst /\ g.locker = "off"
  BY DEF LockInv, Types, Record
<1> HIDE DEF g
<1>4. \A j \in Attempts :
        attempt'[j].locker # "off" =>
          /\ attempt'[j].inst = attempt[j].inst
          /\ attempt'[j].locker = attempt[j].locker /\ j # k
  <2>1. CASE Answers(k, g, "nil")
    BY <1>3, <2>1, AnswersLocker
  <2>2. CASE Answers(k, g, "error")
    BY <1>3, <2>2, AnswersLocker
  <2> QED
    BY <1>1, <2>1, <2>2
<1>5. Placed' /\ OneAsks'
  BY <1>4 DEF OnceInv, Placed, OneAsks
<1>6. ~Asking(i)'
  BY <1>0, <1>1, <1>4, SMT DEF OnceInv, OneAsks, Asking
<1>7. \A j \in Instances : ~Asking(j) => ~Asking(j)'
  BY <1>4 DEF Asking
<1>8. \A j \in Attempts : attempt'[j].locker = "asking" => attempt'[j].inst \in Instances \ {i}
  BY <1>4, <1>6 DEF OnceInv, Placed, Asking
<1>9. /\ flag' \in [Instances -> BOOLEAN]
      /\ \A j \in Instances : j # i => flag'[j] = flag[j] /\ depth'[j] = depth[j]
      /\ (flag'[i] /\ depth'[i] = depth[i] + 1) \/ depth'[i] = depth[i]
  BY <1>1, <1>2 DEF OnceInv, LockInv, Types
<1>10. Flagged'
  BY <1>4, <1>8, <1>9, SMT DEF OnceInv, Flagged
<1>11. ASSUME NEW j \in Instances, NEW n \in {0, 1}, AtMostOne(j, n)
       PROVE  AtMostOne(j, n)'
  <2>1. CASE j = i
    <3>1. depth[i] = n
      BY <1>2, <1>11, <2>1 DEF AtMostOne
    <3> QED
      BY <1>6, <1>9, <2>1, <3>1 DEF AtMostOne
  <2>2. CASE j # i
    BY <1>7, <1>9, <1>11, <2>2 DEF AtMostOne
  <2> QED
    BY <2>1, <2>2
<1>12. FreeOnce'
  BY <1>1, <1>11 DEF OnceInv, FreeOnce, Others
<1>13. InsideOnce'
  BY <1>1, <1>2, <1>7, <1>9, LockCallsAssumption, SMT DEF OnceInv, InsideOnce
<1>14. ReleasingOnce'
  BY <1>1, <1>11, LockCallsAssumption DEF OnceInv, ReleasingOnce
<1> QED
  BY <1>5, <1>9, <1>10, <1>12, <1>13, <1>14 DEF OnceInv

-----------------------------------------------------------------------------
\* Callers of one value that are inside are the same, and the value is in use.
LEMMA SameInside ==
  ASSUME LockInv, NEW c \in Callers, NEW d \in Callers, InstanceOf[c] = InstanceOf[d],
         pc[c] \in {"inside", "unlock", "releasing"},
         pc[d] \in {"inside", "unlock", "releasing"}
  PROVE  c = d
BY DEF LockInv, OnePerValue, Inside

\* unlock() swaps the flag back: nobody asks, and the lock is still its own.
LEMMA UnlockStartsOnce ==
  ASSUME LockInv, OnceInv, NEW c \in Callers, UnlockStarts(c)
  PROVE  OnceInv'
<1>0. PICK i \in Instances : i = InstanceOf[c]
  BY LockCallsAssumption
<1>1. /\ pc[c] = "unlock" /\ pc' = [pc EXCEPT ![c] = "releasing"]
      /\ flag' = [flag EXCEPT ![i] = FALSE]
      /\ UNCHANGED <<isLocked, depth, attempt>>
  BY <1>0 DEF UnlockStarts, Goto
<1>2. depth[i] = 1 /\ ~Asking(i) /\ isLocked[i]
  BY <1>0, <1>1 DEF OnceInv, InsideOnce, LockInv, Owners, Inside
<1>3. /\ flag' \in [Instances -> BOOLEAN]
      /\ \A j \in Instances : j # i => flag'[j] = flag[j]
  BY <1>1 DEF OnceInv
<1>4. pc'[c] = "releasing" /\ \A d \in Callers : d # c => pc'[d] = pc[d]
  BY <1>1 DEF LockInv, Types
<1>5. \A j \in Instances : Asking(j)' = Asking(j)
  BY <1>1 DEF Asking
<1>6. Placed' /\ OneAsks'
  BY <1>1 DEF OnceInv, Placed, OneAsks
<1>7. Flagged'
  BY <1>1, <1>2, <1>3 DEF OnceInv, Flagged, Placed, Asking
<1>8. ASSUME NEW j \in Instances, j # i, NEW n \in {0, 1}, AtMostOne(j, n)
      PROVE  AtMostOne(j, n)'
  BY <1>1, <1>3, <1>5, <1>8 DEF AtMostOne
<1>9. FreeOnce'
  BY <1>1, <1>2, <1>8 DEF OnceInv, FreeOnce, Others
<1>10. \A d \in Callers : d # c /\ pc[d] \in {"inside", "unlock", "releasing"} =>
          InstanceOf[d] \in Instances /\ InstanceOf[d] # i
  BY <1>0, <1>1, SameInside, LockCallsAssumption
<1>11. InsideOnce'
  BY <1>1, <1>3, <1>4, <1>5, <1>10, SMT DEF OnceInv, InsideOnce
<1>12. ReleasingOnce'
  <2>1. AtMostOne(i, 1)'
    BY <1>1, <1>2 DEF AtMostOne
  <2> QED
    BY <1>0, <1>4, <1>8, <1>10, <2>1 DEF OnceInv, ReleasingOnce
<1> QED
  BY <1>3, <1>6, <1>7, <1>9, <1>11, <1>12 DEF OnceInv

\* unlock() returns: after a failure the value stays locked for good.
LEMMA UnlocksOnce ==
  ASSUME LockInv, OnceInv, NEW c \in Callers, Unlocks(c) \/ UnlockFails(c)
  PROVE  OnceInv'
<1>0. PICK i \in Instances : i = InstanceOf[c]
  BY LockCallsAssumption
<1>1. /\ pc[c] = "releasing" /\ pc' = [pc EXCEPT ![c] = "idle"]
      /\ UNCHANGED attempt
      /\ \/ /\ depth' = [depth EXCEPT ![i] = @ - 1]
            /\ isLocked' = [isLocked EXCEPT ![i] = FALSE] /\ flag' = flag
         \/ /\ depth' \in {depth, [depth EXCEPT ![i] = @ - 1]}
            /\ isLocked' = isLocked /\ flag' = [flag EXCEPT ![i] = TRUE]
  BY <1>0 DEF Unlocks, UnlockFails, Goto
<1>2. AtMostOne(i, 1) /\ isLocked[i] /\ depth[i] \in Nat
  BY <1>0, <1>1 DEF OnceInv, ReleasingOnce, LockInv, Types, Owners, Inside
<1>3. /\ flag' \in [Instances -> BOOLEAN]
      /\ \A j \in Instances : flag[j] => flag'[j]
      /\ \A j \in Instances : j # i =>
           depth'[j] = depth[j] /\ flag'[j] = flag[j] /\ isLocked'[j] = isLocked[j]
      /\ ~isLocked'[i] => depth'[i] = depth[i] - 1
  BY <1>1, <1>2 DEF OnceInv, LockInv, Types
<1>4. pc'[c] = "idle" /\ \A d \in Callers : d # c => pc'[d] = pc[d]
  BY <1>1 DEF LockInv, Types
<1>5. \A j \in Instances : Asking(j)' = Asking(j)
  BY <1>1 DEF Asking
<1>6. Placed' /\ OneAsks' /\ Flagged'
  BY <1>1, <1>3, SMT DEF OnceInv, Placed, OneAsks, Flagged
<1>7. ASSUME NEW j \in Instances, j # i, NEW n \in {0, 1}, AtMostOne(j, n)
      PROVE  AtMostOne(j, n)'
  BY <1>3, <1>5, <1>7 DEF AtMostOne
<1>8. ~isLocked'[i] => AtMostOne(i, 0)'
  BY <1>2, <1>3, <1>5, SMT DEF AtMostOne
<1>9. FreeOnce'
  BY <1>3, <1>7, <1>8 DEF OnceInv, FreeOnce, Others
<1>10. \A d \in Callers : d # c /\ pc[d] \in {"inside", "unlock", "releasing"} =>
          InstanceOf[d] \in Instances /\ InstanceOf[d] # i
  BY <1>0, <1>1, SameInside, LockCallsAssumption
<1>11. InsideOnce'
  BY <1>3, <1>4, <1>5, <1>10, SMT DEF OnceInv, InsideOnce
<1>12. ReleasingOnce'
  BY <1>4, <1>7, <1>10 DEF OnceInv, ReleasingOnce
<1> QED
  BY <1>3, <1>6, <1>9, <1>11, <1>12 DEF OnceInv

\* A process dies, or another one takes the lock or releases it.
LEMMA OutsideOnce ==
  ASSUME LockInv, OnceInv, NEW i \in Instances,
         Crash(i) \/ (i \in Others /\ (OtherLocks(i) \/ OtherUnlocks(i)))
  PROVE  OnceInv'
<1>1. CASE Crash(i)
  <2>1. /\ flag' \in [Instances -> BOOLEAN]
        /\ depth'[i] = 0
        /\ \A j \in Instances : j # i =>
             depth'[j] = depth[j] /\ flag'[j] = flag[j] /\ isLocked'[j] = isLocked[j]
    BY <1>1 DEF Crash, OnceInv, LockInv, Types
  <2>2. \A d \in Callers :
          /\ InstanceOf[d] = i => pc'[d] = "idle"
          /\ InstanceOf[d] # i => pc'[d] = pc[d]
    BY <1>1 DEF Crash
  <2>3. \A k \in Attempts :
          attempt'[k].locker # "off" => attempt'[k] = attempt[k] /\ attempt[k].inst # i
    BY <1>1 DEF Crash, Over
  <2>4. Placed' /\ OneAsks'
    BY <2>3 DEF OnceInv, Placed, OneAsks
  <2>5. Flagged'
    BY <2>1, <2>3 DEF OnceInv, Placed, Flagged
  <2>6. \A j \in Instances : ~Asking(j) => ~Asking(j)'
    BY <2>3 DEF Asking
  <2>7. ASSUME NEW j \in Instances, j # i, NEW n \in {0, 1}, AtMostOne(j, n)
        PROVE  AtMostOne(j, n)'
    BY <2>1, <2>6, <2>7 DEF AtMostOne
  <2>8. AtMostOne(i, 0)'
    BY <2>1 DEF AtMostOne
  <2>9. FreeOnce'
    BY <2>1, <2>7, <2>8 DEF OnceInv, FreeOnce, Others
  <2>10. InsideOnce'
    BY <2>1, <2>2, <2>6, LockCallsAssumption, SMT DEF OnceInv, InsideOnce
  <2>11. ReleasingOnce'
    BY <2>2, <2>7, LockCallsAssumption DEF OnceInv, ReleasingOnce
  <2> QED
    BY <2>1, <2>4, <2>5, <2>9, <2>10, <2>11 DEF OnceInv
<1>2. CASE i \in Others /\ (OtherLocks(i) \/ OtherUnlocks(i))
  <2>1. /\ UNCHANGED <<isLocked, flag, pc, attempt>>
        /\ \A j \in Instances : j # i => depth'[j] = depth[j]
    BY <1>2 DEF OtherLocks, OtherUnlocks, LockInv, Types
  <2>2. \A c \in Callers : InstanceOf[c] \in Instances /\ InstanceOf[c] # i
    BY <1>2, LockCallsAssumption DEF Others
  <2>3. Placed' /\ OneAsks' /\ Flagged'
    BY <2>1 DEF OnceInv, Placed, OneAsks, Flagged
  <2>4. \A j \in Instances : Asking(j)' = Asking(j)
    BY <2>1 DEF Asking
  <2>5. ASSUME NEW j \in Instances, j # i, NEW n \in {0, 1}, AtMostOne(j, n)
        PROVE  AtMostOne(j, n)'
    BY <2>1, <2>4, <2>5 DEF AtMostOne
  <2>6. FreeOnce'
    BY <1>2, <2>1, <2>5 DEF OnceInv, FreeOnce, Others
  <2>7. InsideOnce'
    BY <2>1, <2>2, <2>4 DEF OnceInv, InsideOnce
  <2>8. ReleasingOnce'
    BY <2>1, <2>2, <2>5 DEF OnceInv, ReleasingOnce
  <2> QED
    BY <2>1, <2>3, <2>6, <2>7, <2>8 DEF OnceInv
<1> QED
  BY <1>1, <1>2

-----------------------------------------------------------------------------
\* Nobody has called yet.
LEMMA OnceInit == Init => OnceInv
<1> SUFFICES ASSUME Init PROVE OnceInv
  OBVIOUS
<1>1. flag \in [Instances -> BOOLEAN]
  BY DEF Init
<1>2. \A k \in Attempts : attempt[k].locker = "off"
  BY DEF Init, Over
<1>3. \A c \in Callers : pc[c] = "idle"
  BY DEF Init
<1>4. \A i \in Instances : depth[i] = 0
  BY DEF Init
<1>5. Placed /\ OneAsks /\ Flagged
  BY <1>2 DEF Placed, OneAsks, Flagged
<1>6. FreeOnce /\ InsideOnce /\ ReleasingOnce
  BY <1>3, <1>4 DEF FreeOnce, InsideOnce, ReleasingOnce, AtMostOne
<1> QED
  BY <1>1, <1>5, <1>6 DEF OnceInv

\* Every step of a caller, a goroutine or the database keeps OnceInv.
LEMMA OnceStep == LockInv /\ OnceInv /\ [Next]_vars => OnceInv'
BY QuietSteps, ReturnsOnce, AsksOnce, AnsweredOnce, UnlockStartsOnce, UnlocksOnce, OutsideOnce
   DEF Next, Others

\* Whoever is inside owns the database lock exactly once, for any number of callers,
\* values and sessions: the one Unlock of unlock() in migrate.go releases it, although
\* the Lock of a lock() that has timed out may still be granted to the same session.
THEOREM InsideOwnsOnce == Spec => []OwnedOnce
<1>1. Init => LockInv /\ OnceInv
  BY LockInit, OnceInit
<1>2. LockInv /\ OnceInv /\ [Next]_vars => (LockInv /\ OnceInv)'
  BY LockStep, OnceStep
<1>3. OnceInv => OwnedOnce
  BY DEF OnceInv, InsideOnce, OwnedOnce
<1> QED
  BY <1>1, <1>2, <1>3, PTL DEF Spec

\* A Migrate value forgets no lock of its session: after every failure and timeout of
\* lock() and unlock() in migrate.go, a flag of the value still stands for the lock.
THEOREM ForgetsNoLock == Spec => []NoOrphan
<1>1. Init => LockInv /\ OnceInv
  BY LockInit, OnceInit
<1>2. LockInv /\ OnceInv /\ [Next]_vars => (LockInv /\ OnceInv)'
  BY LockStep, OnceStep
<1>3. LockInv /\ OnceInv => NoOrphan
  BY SMT DEF OnceInv, FreeOnce, AtMostOne, NoOrphan, LockInv, Types
<1> QED
  BY <1>1, <1>2, <1>3, PTL DEF Spec

-----------------------------------------------------------------------------
(***************************************************************************)
(* errchan is made with room for two answers: those that it holds and      *)
(* those that may still come are never more.                               *)
(***************************************************************************)
ToCome(a) ==
  (IF a.timer = "running" THEN 1 ELSE 0) + (IF a.locker # "off" THEN 1 ELSE 0)

Roomy(a) == Len(a.errchan) + ToCome(a) <= 2

RoomInv == \A k \in Attempts : Roomy(attempt[k])

\* An attempt whose goroutines are over sends nothing more.
LEMMA OverRoomy == Roomy(Over)
BY SMT DEF Roomy, ToCome, Over

\* An attempt that goes on with no more answers than before.
LEMMA BecomesRoomy ==
  ASSUME Types, RoomInv, NEW k \in Attempts, NEW a, NEW pending,
         Roomy(a), Become(k, a, pending)
  PROVE  RoomInv'
BY OverRoomy DEF Become, RoomInv, Types

\* A goroutine that ends with an answer was one that might still answer.
LEMMA AnswerRoomy ==
  ASSUME NEW a \in Record, Roomy(a), NEW g \in Record, g.errchan = a.errchan,
         ToCome(g) = ToCome(a) - 1, NEW err \in {"nil", "error"}
  PROVE  Roomy([g EXCEPT !.errchan = Append(@, err)])
<1> DEFINE h == [g EXCEPT !.errchan = Append(@, err)]
<1>1. h.timer = g.timer /\ h.locker = g.locker /\ h.errchan = Append(g.errchan, err)
  BY DEF Record
<1>2. g.errchan \in Seq({"nil", "error"})
  BY DEF Record
<1>3. Len(h.errchan) = Len(g.errchan) + 1 /\ Len(g.errchan) \in Nat
  BY <1>1, <1>2, SMT
<1>4. ToCome(h) = ToCome(g) /\ ToCome(a) \in Nat
  BY <1>1, SMT DEF ToCome
<1> HIDE DEF h
<1>5. Roomy(h)
  BY <1>3, <1>4, SMT DEF Roomy
<1> QED
  BY <1>5 DEF h

\* A goroutine that ends has one answer less to send.
LEMMA EndingGoroutine ==
  ASSUME NEW a \in Record
  PROVE  /\ [a EXCEPT !.timer = "off"] \in Record /\ [a EXCEPT !.locker = "off"] \in Record
         /\ [a EXCEPT !.timer = "off"].errchan = a.errchan
         /\ [a EXCEPT !.locker = "off"].errchan = a.errchan
         /\ a.timer = "running" => ToCome([a EXCEPT !.timer = "off"]) = ToCome(a) - 1
         /\ a.locker # "off" => ToCome([a EXCEPT !.locker = "off"]) = ToCome(a) - 1
<1>1. PICK t : t = [a EXCEPT !.timer = "off"]
  OBVIOUS
<1>2. t \in Record /\ t.timer = "off" /\ t.locker = a.locker /\ t.errchan = a.errchan
  BY <1>1 DEF Record
<1>3. PICK l : l = [a EXCEPT !.locker = "off"]
  OBVIOUS
<1>4. l \in Record /\ l.locker = "off" /\ l.timer = a.timer /\ l.errchan = a.errchan
  BY <1>3 DEF Record
<1>5. a.timer = "running" => ToCome(t) = ToCome(a) - 1
  BY <1>2, SMT DEF ToCome
<1>6. a.locker # "off" => ToCome(l) = ToCome(a) - 1
  BY <1>4, SMT DEF ToCome
<1> QED
  BY <1>1, <1>2, <1>3, <1>4, <1>5, <1>6

\* Every step keeps room for the answers that are still to come.
LEMMA RoomStep == LockInv /\ RoomInv /\ [Next]_vars => RoomInv'
<1> SUFFICES ASSUME LockInv, RoomInv, [Next]_vars
             PROVE  RoomInv'
  OBVIOUS
<1> USE DEF LockInv
<1>0. \A k \in Attempts : attempt[k] \in Record /\ Roomy(attempt[k])
  BY DEF Types, RoomInv
<1>1. ASSUME UNCHANGED attempt
      PROVE  RoomInv'
  BY <1>1 DEF RoomInv
<1>2. ASSUME NEW c \in Callers, \/ Call(c) \/ LockRefused(c) \/ Leave(c) \/ UnlockStarts(c)
                                \/ Unlocks(c) \/ UnlockFails(c)
      PROVE  RoomInv'
  BY <1>1, <1>2 DEF Call, LockRefused, Leave, UnlockStarts, Unlocks, UnlockFails
<1>3. ASSUME NEW c \in Callers, LockStarts(c)
      PROVE  RoomInv'
  <2>1. Roomy([inst |-> InstanceOf[c], errchan |-> <<>>, timer |-> "running",
               locker |-> "started"])
    BY SMT DEF Roomy, ToCome
  <2> QED
    BY <1>3, <2>1 DEF LockStarts, RoomInv, Types
<1>4. ASSUME NEW c \in Callers, LockReturns(c)
      PROVE  RoomInv'
  <2>1. call[c] \in Attempts /\ attempt[call[c]] \in Record
    BY <1>0, <1>4 DEF LockReturns, Waiting
  <2>2. PICK a \in Record : a = attempt[call[c]] /\ Roomy(a) /\ a.errchan # <<>>
    BY <1>0, <1>4, <2>1 DEF LockReturns
  <2>3. PICK b : b = [a EXCEPT !.errchan = Tail(@)]
    OBVIOUS
  <2>4. b.timer = a.timer /\ b.locker = a.locker /\ b.errchan = Tail(a.errchan)
    BY <2>3 DEF Record
  <2>5. a.errchan \in Seq({"nil", "error"})
    BY DEF Record
  <2>6. Len(b.errchan) = Len(a.errchan) - 1 /\ Len(a.errchan) \in Nat
    BY <2>2, <2>4, <2>5, SMT
  <2>7. ToCome(b) = ToCome(a) /\ ToCome(a) \in Nat
    BY <2>4, SMT DEF ToCome
  <2>8. Roomy(b)
    <3>1. \A i, n \in Nat : i + n <= 2 => (i - 1) + n <= 2
      BY SMT
    <3> QED
      BY <2>2, <2>6, <2>7, <3>1 DEF Roomy
  <2> QED
    BY <1>4, <2>1, <2>2, <2>3, <2>8, BecomesRoomy DEF LockReturns
<1>5. ASSUME NEW k \in Attempts, NEW g \in Record, NEW err \in {"nil", "error"},
             g.errchan = attempt[k].errchan, ToCome(g) = ToCome(attempt[k]) - 1,
             Answers(k, g, err)
      PROVE  RoomInv'
  BY <1>0, <1>5, AnswerRoomy, BecomesRoomy DEF Answers
<1>6. ASSUME NEW k \in Attempts, \/ TimerFires(k) \/ DriverRefuses(k) \/ DriverLocks(k)
                                 \/ DriverFails(k)
      PROVE  RoomInv'
  BY <1>0, <1>5, <1>6, EndingGoroutine DEF TimerFires, DriverRefuses, DriverLocks, DriverFails
<1>7. ASSUME NEW k \in Attempts, TimerDone(k)
      PROVE  RoomInv'
  <2>1. PICK a \in Record : a = attempt[k] /\ Roomy(a) /\ a.timer = "running"
    BY <1>0, <1>7 DEF TimerDone
  <2>2. PICK b : b = [a EXCEPT !.timer = "off"]
    OBVIOUS
  <2>3. Roomy(b)
    <3>1. b.errchan = a.errchan /\ ToCome(b) = ToCome(a) - 1
      BY <2>1, <2>2, EndingGoroutine
    <3>2. Len(a.errchan) \in Nat /\ ToCome(a) \in Nat
      BY SMT DEF Record, ToCome
    <3> QED
      BY <2>1, <3>1, <3>2, SMT DEF Roomy
  <2> QED
    BY <1>7, <2>1, <2>2, <2>3, BecomesRoomy DEF TimerDone
<1>8. ASSUME NEW k \in Attempts, DriverAsks(k)
      PROVE  RoomInv'
  <2>1. PICK a \in Record : a = attempt[k] /\ Roomy(a) /\ a.locker = "started"
    BY <1>0, <1>8 DEF DriverAsks
  <2>2. PICK b : b = [a EXCEPT !.locker = "asking"]
    OBVIOUS
  <2>3. b.timer = a.timer /\ b.locker = "asking" /\ b.errchan = a.errchan
    BY <2>2 DEF Record
  <2>4. Roomy(b)
    BY <2>1, <2>3 DEF Roomy, ToCome
  <2>5. attempt' = [attempt EXCEPT ![k] = b]
    BY <1>8, <2>1, <2>2 DEF DriverAsks
  <2> QED
    BY <2>4, <2>5 DEF RoomInv, Types
<1>9. ASSUME NEW i \in Instances, Crash(i)
      PROVE  RoomInv'
  BY <1>9, OverRoomy DEF Crash, RoomInv
<1>10. ASSUME NEW i \in Others, OtherLocks(i) \/ OtherUnlocks(i)
       PROVE  RoomInv'
  BY <1>1, <1>10 DEF OtherLocks, OtherUnlocks
<1>11. CASE UNCHANGED vars
  BY <1>1, <1>11 DEF vars
<1> QED
  BY <1>2, <1>3, <1>4, <1>6, <1>7, <1>8, <1>9, <1>10, <1>11 DEF Next

\* errchan of lock() in migrate.go has room for every answer that can come: neither
\* the timer nor the call of the driver's Lock ever blocks on it, also when lock()
\* has returned and nobody will receive.
THEOREM AnswersHaveRoom == Spec => []RoomToAnswer
<1>1. Init => LockInv /\ RoomInv
  BY LockInit, OverRoomy DEF Init, RoomInv
<1>2. LockInv /\ RoomInv /\ [Next]_vars => (LockInv /\ RoomInv)'
  BY LockStep, RoomStep
<1>3. LockInv /\ RoomInv => RoomToAnswer
  <2> SUFFICES ASSUME LockInv, RoomInv, NEW k \in Attempts,
                      attempt[k].timer = "running" \/ attempt[k].locker # "off"
               PROVE  Len(attempt[k].errchan) < 2
    BY DEF RoomToAnswer
  <2>1. Len(attempt[k].errchan) \in Nat
    BY SMT DEF LockInv, Types, Record
  <2>2. ToCome(attempt[k]) \in 1..2
    BY SMT DEF ToCome
  <2>3. Len(attempt[k].errchan) + ToCome(attempt[k]) <= 2
    BY DEF RoomInv, Roomy
  <2> QED
    BY <2>1, <2>2, <2>3, SMT
<1> QED
  BY <1>1, <1>2, <1>3, PTL DEF Spec
=============================================================================
