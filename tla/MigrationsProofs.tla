-------------------------- MODULE MigrationsProofs --------------------------
(***************************************************************************)
(* Proofs about Migrations, for every number of migrators, releases,       *)
(* versions and contents, and every set of faults.                         *)
(*                                                                         *)
(* What makes the properties inductive is that a migrator past the lock    *)
(* has it, whoever else failed on the way, and that what it has seen is    *)
(* applied with the contents of its release.                               *)
(***************************************************************************)
EXTENDS Migrations, TLAPS

MigratorInv(p) ==
    /\ mig[p].pc \in Locked => lock = p
    /\ mig[p].pc \in InTransaction
         => Candidate(p, mig[p].at) /\ applied[mig[p].at] = NoContents
    /\ \A v \in mig[p].seen :
         v \in DOMAIN mig[p].dir /\ applied[v] = mig[p].dir[v]
    /\ AnswerIsTrue(p)

MigrationsInv ==
    /\ MigrationsTypeOK
    /\ AppliedOnce
    /\ AppliedInOrder
    /\ \A p \in Migrators : MigratorInv(p)

(* A step of p: no other migrator moves, nor loses the lock, nor does p    *)
(* change its release.                                                     *)
StepOf(p) ==
    /\ lock' \in Migrators \cup {NoMigrator}
    /\ \A q \in Migrators : q # p /\ lock = q => lock' = q
    /\ mig' \in [Migrators -> MigratorStates]
    /\ \A q \in Migrators : q # p => mig'[q] = mig[q]
    /\ mig'[p].dir = mig[p].dir

LEMMA ReleaseIsFunction ==
    ASSUME NEW d \in Releases
    PROVE  /\ DOMAIN d \subseteq Versions
           /\ \A v \in DOMAIN d : d[v] \in Contents
  <1>1. PICK vs \in SUBSET Versions : d \in [vs -> Contents]
    BY ReleasesAssumption
  <1> QED
    BY <1>1

LEMMA MigratorTypes ==
    ASSUME MigrationsInv, NEW p \in Migrators
    PROVE  /\ mig[p] \in MigratorStates
           /\ mig[p].dir \in Releases
           /\ DOMAIN mig[p].dir \subseteq Versions
           /\ \A v \in DOMAIN mig[p].dir : mig[p].dir[v] \in Contents
           /\ mig[p].seen \in SUBSET Versions
           /\ Unseen(p) \subseteq Versions
           /\ Versions \subseteq Nat
  <1>1. mig[p] \in MigratorStates
    BY DEF MigrationsInv, MigrationsTypeOK
  <1>2. mig[p].dir \in Releases /\ mig[p].seen \in SUBSET Versions
    BY <1>1 DEF MigratorStates
  <1>3. DOMAIN mig[p].dir \subseteq Versions
    BY <1>2, ReleaseIsFunction
  <1>4. \A v \in DOMAIN mig[p].dir : mig[p].dir[v] \in Contents
    BY <1>2, ReleaseIsFunction
  <1> QED
    BY <1>1, <1>2, <1>3, <1>4, VersionsAssumption DEF Unseen

LEMMA LogTypes ==
    ASSUME MigrationsInv
    PROVE  /\ log \in Seq(LogEntries)
           /\ Len(log) \in Nat /\ DOMAIN log = 1 .. Len(log)
           /\ \A i \in DOMAIN log : log[i] \in LogEntries
  <1>1. log \in Seq(LogEntries)
    BY DEF MigrationsInv, MigrationsTypeOK
  <1> QED
    BY <1>1

-----------------------------------------------------------------------------
(* Steps that leave the schema alone *)

LEMMA QuietStepPreservesInv ==
    ASSUME MigrationsInv, NEW p \in Migrators, StepOf(p),
           UNCHANGED <<applied, log>>, MigratorInv(p)'
    PROVE  MigrationsInv'
  <1>1. MigrationsTypeOK'
    BY DEF MigrationsInv, MigrationsTypeOK, StepOf
  <1>2. AppliedOnce'
    BY DEF MigrationsInv, AppliedOnce
  <1>3. \A q \in Migrators : mig'[q].dir = mig[q].dir
    BY DEF StepOf
  <1>4. AppliedInOrder'
    <2>1. \A i \in DOMAIN log : log[i].by \in Migrators
      BY LogTypes DEF LogEntries
    <2> QED
      BY <1>3, <2>1 DEF MigrationsInv, AppliedInOrder
  <1>5. ASSUME NEW q \in Migrators, q # p
        PROVE  MigratorInv(q)'
    BY <1>5
    DEF MigrationsInv, MigratorInv, AnswerIsTrue, Candidate, Unseen, StepOf
  <1> QED
    BY <1>1, <1>2, <1>4, <1>5 DEF MigrationsInv

(* What Goto and Return do to the state of p.                              *)
Moved(p, pc, answer) ==
    /\ mig' \in [Migrators -> MigratorStates]
    /\ \A q \in Migrators : q # p => mig'[q] = mig[q]
    /\ mig'[p].pc = pc /\ mig'[p].answer = answer
    /\ mig'[p].dir = mig[p].dir /\ mig'[p].seen = mig[p].seen
    /\ mig'[p].at = mig[p].at

Pcs == {"lock", "close", "dead", "over"} \cup Locked
Answers == {"none", "upToDate", "changed", "error", "lost"}

LEMMA GotoMoves ==
    ASSUME MigrationsInv, NEW p \in Migrators, NEW pc \in Pcs, Goto(p, pc)
    PROVE  Moved(p, pc, mig[p].answer)
  <1>1. mig \in [Migrators -> MigratorStates]
    BY DEF MigrationsInv, MigrationsTypeOK
  <1> QED
    BY <1>1 DEF Goto, Moved, MigratorStates, Pcs

LEMMA ReturnMoves ==
    ASSUME MigrationsInv, NEW p \in Migrators, NEW pc \in Pcs,
           NEW answer \in Answers, Return(p, pc, answer)
    PROVE  Moved(p, pc, answer)
  <1>1. mig \in [Migrators -> MigratorStates]
    BY DEF MigrationsInv, MigrationsTypeOK
  <1> QED
    BY <1>1 DEF Return, Moved, MigratorStates, Pcs, Answers

(* No error answer has to be true, no transaction begins.                  *)
LEMMA MovePreservesInv ==
    ASSUME MigrationsInv, NEW p \in Migrators, NEW pc \in Pcs,
           NEW answer \in {mig[p].answer, "error", "lost"},
           Moved(p, pc, answer),
           lock' \in Migrators \cup {NoMigrator},
           \A q \in Migrators : q # p /\ lock = q => lock' = q,
           UNCHANGED <<applied, log>>,
           pc \in Locked => lock' = p,
           pc \in InTransaction => mig[p].pc \in InTransaction
    PROVE  MigrationsInv'
  <1>1. StepOf(p)
    BY DEF StepOf, Moved
  <1>2. MigratorInv(p)
    BY DEF MigrationsInv
  <1>3. AnswerIsTrue(p)'
    BY <1>2 DEF MigratorInv, AnswerIsTrue, Moved
  <1>4. MigratorInv(p)'
    BY <1>2, <1>3 DEF MigratorInv, Moved, Candidate, Unseen
  <1> QED
    BY <1>1, <1>4, QuietStepPreservesInv

(* The lock is held where the program relies on it.                        *)
LEMMA LockIsHeld ==
    ASSUME MigrationsInv, NEW p \in Migrators, mig[p].pc \in Locked
    PROVE  lock = p
  BY DEF MigrationsInv, MigratorInv

LEMMA AcquirePreservesInv ==
    ASSUME MigrationsInv, NEW p \in Migrators,
           Acquire(p) \/ AcquireUnacknowledged(p)
    PROVE  MigrationsInv'
  <1>1. /\ lock' = p /\ UNCHANGED <<applied, log>>
        /\ \A q \in Migrators : lock # q
    BY NoMigratorAssumption DEF Acquire, AcquireUnacknowledged
  <1>2. CASE Acquire(p)
    <2>1. Moved(p, "create", mig[p].answer)
      BY <1>2, GotoMoves DEF Acquire, Pcs, Locked
    <2> QED
      BY <1>1, <2>1, MovePreservesInv DEF Pcs, Locked, InTransaction
  <1>3. CASE AcquireUnacknowledged(p)
    <2>1. Moved(p, "close", "error")
      BY <1>3, ReturnMoves DEF AcquireUnacknowledged, Pcs, Answers
    <2> QED
      BY <1>1, <2>1, MovePreservesInv DEF Pcs, Locked, InTransaction
  <1> QED
    BY <1>2, <1>3

(* Steps between statements, under the lock.                               *)
LEMMA AdvancePreservesInv ==
    ASSUME MigrationsInv, NEW p \in Migrators,
           CreateHistory(p) \/ Execute(p) \/ Record(p)
    PROVE  MigrationsInv'
  <1>1. /\ UNCHANGED <<lock, applied, log>>
        /\ mig[p].pc \in {"create", "execute", "record"}
    BY DEF CreateHistory, Execute, Record
  <1>2. lock = p /\ lock' \in Migrators \cup {NoMigrator}
    BY <1>1, LockIsHeld DEF Locked, InTransaction
  <1>3. CASE CreateHistory(p)
    <2>1. Moved(p, "check", mig[p].answer)
      BY <1>3, GotoMoves DEF CreateHistory, Pcs, Locked
    <2> QED
      BY <1>1, <1>2, <2>1, MovePreservesInv DEF Pcs, Locked, InTransaction
  <1>4. CASE Execute(p)
    <2>1. Moved(p, "record", mig[p].answer) /\ mig[p].pc = "execute"
      BY <1>4, GotoMoves DEF Execute, Pcs, Locked, InTransaction
    <2> QED
      BY <1>1, <1>2, <2>1, MovePreservesInv DEF Pcs, Locked, InTransaction
  <1>5. CASE Record(p) /\ Goto(p, "commit")
    <2>1. Moved(p, "commit", mig[p].answer) /\ mig[p].pc = "record"
      BY <1>5, GotoMoves DEF Record, Pcs, Locked, InTransaction
    <2> QED
      BY <1>1, <1>2, <2>1, MovePreservesInv DEF Pcs, Locked, InTransaction
  <1>6. CASE Record(p) /\ Return(p, "unlock", "error")
    <2>1. Moved(p, "unlock", "error")
      BY <1>6, ReturnMoves DEF Pcs, Locked, Answers
    <2> QED
      BY <1>1, <1>2, <2>1, MovePreservesInv DEF Pcs, Locked, InTransaction
  <1> QED
    BY <1>3, <1>4, <1>5, <1>6 DEF Record

LEMMA ReleasePreservesInv ==
    ASSUME MigrationsInv, NEW p \in Migrators,
           Unlock(p) \/ Close(p) \/ Reap(p)
    PROVE  MigrationsInv'
  <1>1. lock \in Migrators \cup {NoMigrator}
    BY DEF MigrationsInv, MigrationsTypeOK
  <1>2. CASE Unlock(p)
    <2>1. lock = p /\ lock' = NoMigrator /\ UNCHANGED <<applied, log>>
      BY <1>2, LockIsHeld DEF Unlock, Locked
    <2>2. Moved(p, "close", mig[p].answer)
      BY <1>2, GotoMoves DEF Unlock, Pcs
    <2> QED
      BY <2>1, <2>2, MovePreservesInv DEF Pcs, Locked, InTransaction
  <1>3. CASE Close(p) \/ Reap(p)
    <2>1. /\ lock' = IF lock = p THEN NoMigrator ELSE lock
          /\ UNCHANGED <<applied, log>>
      BY <1>3 DEF Close, Reap, EndSession
    <2>2. Moved(p, "over", mig[p].answer)
      BY <1>3, GotoMoves DEF Close, Reap, EndSession, Pcs
    <2>3. /\ lock' \in Migrators \cup {NoMigrator}
          /\ \A q \in Migrators : q # p /\ lock = q => lock' = q
      BY <1>1, <2>1
    <2> QED
      BY <2>1, <2>2, <2>3, MovePreservesInv DEF Pcs, Locked, InTransaction
  <1> QED
    BY <1>2, <1>3

LEMMA FailurePreservesInv ==
    ASSUME MigrationsInv, NEW p \in Migrators, StatementFails(p) \/ Kill(p)
    PROVE  MigrationsInv'
  <1>1. /\ lock \in Migrators \cup {NoMigrator}
        /\ UNCHANGED <<lock, applied, log>>
    BY DEF MigrationsInv, MigrationsTypeOK, StatementFails, Kill
  <1>2. CASE mig[p].pc = "lock" /\ Return(p, "close", "error")
    <2>1. Moved(p, "close", "error")
      BY <1>2, ReturnMoves DEF Pcs, Answers
    <2> QED
      BY <1>1, <2>1, MovePreservesInv DEF Pcs, Locked, InTransaction
  <1>3. CASE mig[p].pc \in Locked \ {"unlock"} /\ Return(p, "unlock", "error")
    <2>1. Moved(p, "unlock", "error") /\ lock = p
      BY <1>3, ReturnMoves, LockIsHeld DEF Pcs, Locked, Answers
    <2> QED
      BY <1>1, <2>1, MovePreservesInv DEF Pcs, Locked, InTransaction
  <1>4. CASE mig[p].pc = "unlock" /\ Goto(p, "close")
    <2>1. Moved(p, "close", mig[p].answer)
      BY <1>4, GotoMoves DEF Pcs
    <2> QED
      BY <1>1, <2>1, MovePreservesInv DEF Pcs, Locked, InTransaction
  <1>5. CASE Kill(p)
    <2>1. Moved(p, "dead", "lost")
      BY <1>5, ReturnMoves DEF Kill, Pcs, Answers
    <2> QED
      BY <1>1, <2>1, MovePreservesInv DEF Pcs, Locked, InTransaction
  <1> QED
    BY <1>2, <1>3, <1>4, <1>5 DEF StatementFails

LEMMA CheckPreservesInv ==
    ASSUME MigrationsInv, NEW p \in Migrators, NEW v \in Versions, Check(p, v)
    PROVE  MigrationsInv'
  <1>1. /\ mig[p] \in MigratorStates
        /\ v \in DOMAIN mig[p].dir
        /\ mig[p].dir[v] \in Contents
        /\ mig \in [Migrators -> MigratorStates]
    BY MigratorTypes
    DEF Check, Candidate, Unseen, MigrationsInv, MigrationsTypeOK
  <1>2. UNCHANGED <<lock, applied, log>> /\ mig[p].pc = "check"
    BY DEF Check
  <1>3. lock = p /\ MigratorInv(p)
    BY <1>2 DEF MigrationsInv, MigratorInv, Locked
  <1>4. CASE /\ applied[v] = mig[p].dir[v]
             /\ mig' = [mig EXCEPT ![p].seen = @ \cup {v}]
    <2>1. StepOf(p)
      BY <1>1, <1>2, <1>4
      DEF MigrationsInv, MigrationsTypeOK, StepOf, MigratorStates
    <2>2. MigratorInv(p)'
      BY <1>1, <1>2, <1>3, <1>4
      DEF MigratorInv, AnswerIsTrue, InTransaction, Locked
    <2> QED
      BY <1>2, <2>1, <2>2, QuietStepPreservesInv
  <1>5. CASE /\ applied[v] = NoContents
             /\ mig' = [mig EXCEPT ![p].pc = "execute", ![p].at = v]
    <2>1. StepOf(p)
      BY <1>1, <1>2, <1>5
      DEF MigrationsInv, MigrationsTypeOK, StepOf, MigratorStates, Locked,
          InTransaction
    <2>2. MigratorInv(p)'
      BY <1>1, <1>2, <1>3, <1>5
      DEF MigratorInv, AnswerIsTrue, Check, Candidate, Unseen
    <2> QED
      BY <1>2, <2>1, <2>2, QuietStepPreservesInv
  <1>6. CASE /\ applied[v] \notin {NoContents, mig[p].dir[v]}
             /\ Return(p, "unlock", "changed")
    <2>1. StepOf(p)
      BY <1>1, <1>2, <1>6
      DEF MigrationsInv, MigrationsTypeOK, StepOf, MigratorStates, Locked,
          Return
    <2>2. MigratorInv(p)'
      BY <1>1, <1>2, <1>3, <1>6
      DEF MigratorInv, AnswerIsTrue, Return, InTransaction
    <2> QED
      BY <1>2, <2>1, <2>2, QuietStepPreservesInv
  <1> QED
    BY <1>4, <1>5, <1>6 DEF Check

LEMMA AllSeenPreservesInv ==
    ASSUME MigrationsInv, NEW p \in Migrators, AllSeen(p)
    PROVE  MigrationsInv'
  <1>1. /\ mig[p].pc = "check" /\ Unseen(p) = {}
        /\ UNCHANGED <<lock, applied, log>>
    BY DEF AllSeen
  <1>2. lock = p /\ MigratorInv(p)
    BY <1>1, LockIsHeld DEF MigrationsInv, Locked
  <1>3. Moved(p, "unlock", "upToDate")
    BY ReturnMoves DEF AllSeen, Pcs, Locked, Answers
  <1>4. StepOf(p)
    BY <1>1, <1>2, <1>3 DEF StepOf, Moved
  <1>5. \A v \in DOMAIN mig[p].dir : applied[v] = mig[p].dir[v]
    BY <1>1, <1>2 DEF MigratorInv, Unseen
  <1>6. AnswerIsTrue(p)'
    BY <1>1, <1>3, <1>5 DEF AnswerIsTrue, Moved
  <1>7. MigratorInv(p)'
    BY <1>1, <1>2, <1>3, <1>6 DEF MigratorInv, Moved, InTransaction
  <1> QED
    BY <1>1, <1>4, <1>7, QuietStepPreservesInv

-----------------------------------------------------------------------------
(* The commit of a migration *)

LEMMA CommittedKeepsSchema ==
    ASSUME MigrationsInv, NEW p \in Migrators, Committed(p), StepOf(p)
    PROVE  /\ MigrationsTypeOK' /\ AppliedOnce' /\ AppliedInOrder'
           /\ \A q \in Migrators : q # p => MigratorInv(q)'
           /\ applied'[mig[p].at] = mig[p].dir[mig[p].at]
           /\ \A v \in Versions : applied[v] # NoContents
                                  => applied'[v] = applied[v]
  <1> DEFINE v == mig[p].at
             e == [version |-> v, contents |-> mig[p].dir[v], by |-> p]
             n == Len(log) + 1
  <1>1. MigratorInv(p) /\ mig[p].pc = "commit"
    BY DEF MigrationsInv, Committed
  <1>2. Candidate(p, v) /\ applied[v] = NoContents
    BY <1>1 DEF MigratorInv, InTransaction
  <1>3. /\ v \in Versions /\ v \in DOMAIN mig[p].dir
        /\ mig[p].dir[v] \in Contents
    BY <1>2, MigratorTypes DEF Candidate, Unseen
  <1>4. /\ applied \in [Versions -> Contents \cup {NoContents}]
        /\ applied' = [applied EXCEPT ![v] = mig[p].dir[v]]
        /\ log' = Append(log, e) /\ lock' = lock
    BY DEF MigrationsInv, MigrationsTypeOK, Committed, Logged
  <1>5. e \in LogEntries
    BY <1>3 DEF LogEntries
  <1> HIDE DEF v, e
  <1>6. e.version = v /\ e.contents = mig[p].dir[v] /\ e.by = p
    BY DEF e, v
  <1>7. /\ Len(log) \in Nat /\ log' \in Seq(LogEntries)
        /\ DOMAIN log = 1 .. Len(log) /\ DOMAIN log' = 1 .. n
        /\ log'[n] = e
        /\ \A i \in DOMAIN log : log'[i] = log[i]
    BY <1>4, <1>5, LogTypes
  <1>8. MigrationsTypeOK'
    BY <1>3, <1>4, <1>7 DEF MigrationsInv, MigrationsTypeOK, StepOf
  <1>9. /\ applied'[v] = mig[p].dir[v]
        /\ \A w \in Versions : w # v => applied'[w] = applied[w]
    BY <1>3, <1>4
  <1>10. \A i \in DOMAIN log : log[i].version \in Versions /\ log[i].version # v
    <2>1. \A i \in DOMAIN log : /\ log[i].version \in Versions
                                /\ log[i].contents \in Contents
                                /\ applied[log[i].version] = log[i].contents
      BY LogTypes DEF LogEntries, MigrationsInv, AppliedOnce
    <2> QED
      BY <1>2, <2>1, NoContentsAssumption
  <1>11. AppliedOnce'
    <2>1. \A i, j \in DOMAIN log' : log'[i].version = log'[j].version => i = j
      BY <1>6, <1>7, <1>10 DEF MigrationsInv, AppliedOnce
    <2>2. \A i \in DOMAIN log' : applied'[log'[i].version] = log'[i].contents
      BY <1>6, <1>7, <1>9, <1>10 DEF MigrationsInv, AppliedOnce
    <2>3. \A w \in Versions :
            applied'[w] # NoContents
            => \E i \in DOMAIN log' : log'[i].version = w
      BY <1>6, <1>7, <1>9 DEF MigrationsInv, AppliedOnce
    <2> QED
      BY <2>1, <2>2, <2>3 DEF AppliedOnce
  <1>12. AppliedInOrder'
    <2>1. \A q \in Migrators : mig'[q].dir = mig[q].dir
      BY DEF StepOf
    <2>2. ASSUME NEW w \in DOMAIN mig[p].dir, w < v
          PROVE  \E j \in DOMAIN log : log[j].version = w
      <3>1. w \in Versions /\ w \in Nat /\ v \in Nat
        BY <1>3, MigratorTypes
      <3>2. w \in mig[p].seen
        BY <1>2, <2>2, <3>1 DEF Candidate, Unseen
      <3>3. applied[w] = mig[p].dir[w] /\ mig[p].dir[w] \in Contents
        BY <1>1, <3>2, MigratorTypes DEF MigratorInv
      <3> QED
        BY <3>1, <3>3, NoContentsAssumption DEF MigrationsInv, AppliedOnce
    <2>3. \A i \in DOMAIN log : log[i].by \in Migrators
      BY LogTypes DEF LogEntries
    <2>4. ASSUME NEW i \in DOMAIN log', NEW w \in DOMAIN mig'[log'[i].by].dir,
                 w < log'[i].version
          PROVE  \E j \in DOMAIN log' : j < i /\ log'[j].version = w
      <3>1. CASE i \in DOMAIN log
        <4>1. PICK j \in DOMAIN log : j < i /\ log[j].version = w
          BY <1>7, <2>1, <2>3, <2>4, <3>1 DEF MigrationsInv, AppliedInOrder
        <4> QED
          BY <1>7, <4>1
      <3>2. CASE i = n
        <4>1. PICK j \in DOMAIN log : log[j].version = w
          BY <1>6, <1>7, <2>1, <2>2, <2>4, <3>2
        <4> QED
          BY <1>7, <3>2, <4>1
      <3> QED
        BY <1>7, <3>1, <3>2
    <2> QED
      BY <2>4 DEF AppliedInOrder
  <1>13. ASSUME NEW w \in Versions, applied[w] # NoContents
         PROVE  applied'[w] = applied[w]
    BY <1>2, <1>9, <1>13
  <1>14. ASSUME NEW q \in Migrators, q # p
         PROVE  MigratorInv(q)'
    <2>1. /\ MigratorInv(q) /\ mig'[q] = mig[q]
          /\ lock = p /\ q # lock
      BY <1>1, <1>14, LockIsHeld DEF MigrationsInv, StepOf, Locked, InTransaction
    <2>2. mig[q].pc \notin Locked /\ mig[q].pc \notin InTransaction
      BY <2>1 DEF MigratorInv, Locked
    <2>3. \A w \in mig[q].seen :
            w \in DOMAIN mig[q].dir /\ applied'[w] = mig[q].dir[w]
      BY <1>13, <2>1, MigratorTypes, NoContentsAssumption DEF MigratorInv
    <2>4. ASSUME mig[q].answer = "upToDate",
                 NEW w \in DOMAIN mig[q].dir
          PROVE  applied'[w] = mig[q].dir[w]
      BY <1>13, <2>1, <2>4, MigratorTypes, NoContentsAssumption
      DEF MigratorInv, AnswerIsTrue
    <2>5. ASSUME mig[q].answer = "changed"
          PROVE  \E w \in DOMAIN mig[q].dir :
                   applied'[w] \notin {NoContents, mig[q].dir[w]}
      BY <1>13, <2>1, <2>5, MigratorTypes DEF MigratorInv, AnswerIsTrue
    <2> QED
      BY <2>1, <2>2, <2>3, <2>4, <2>5 DEF MigratorInv, AnswerIsTrue
  <1> QED
    BY <1>8, <1>9, <1>11, <1>12, <1>13, <1>14 DEF v

(* Applied migrations stay as they are, so true answers stay true.         *)
LEMMA TruthIsStable ==
    ASSUME MigrationsInv, NEW p \in Migrators,
           mig'[p].dir = mig[p].dir,
           mig'[p].answer \in {mig[p].answer, "error"},
           \A v \in Versions : applied[v] # NoContents
                               => applied'[v] = applied[v]
    PROVE  /\ AnswerIsTrue(p)'
           /\ \A v \in mig[p].seen :
                v \in DOMAIN mig[p].dir /\ applied'[v] = mig[p].dir[v]
  <1>1. MigratorInv(p)
    BY DEF MigrationsInv
  <1>2. \A v \in mig[p].seen :
          v \in DOMAIN mig[p].dir /\ applied'[v] = mig[p].dir[v]
    BY <1>1, MigratorTypes, NoContentsAssumption DEF MigratorInv
  <1>3. ASSUME mig[p].answer = "upToDate", NEW w \in DOMAIN mig[p].dir
        PROVE  applied'[w] = mig[p].dir[w]
    BY <1>1, <1>3, MigratorTypes, NoContentsAssumption
    DEF MigratorInv, AnswerIsTrue
  <1>4. ASSUME mig[p].answer = "changed"
        PROVE  \E w \in DOMAIN mig[p].dir :
                 applied'[w] \notin {NoContents, mig[p].dir[w]}
    BY <1>1, <1>4, MigratorTypes DEF MigratorInv, AnswerIsTrue
  <1> QED
    BY <1>2, <1>3, <1>4 DEF AnswerIsTrue

LEMMA CommitPreservesInv ==
    ASSUME MigrationsInv, NEW p \in Migrators, Commit(p)
    PROVE  MigrationsInv'
  <1>1. /\ mig \in [Migrators -> MigratorStates]
        /\ mig[p].pc = "commit" /\ Committed(p) /\ lock' = lock
    BY DEF MigrationsInv, MigrationsTypeOK, Commit, Committed
  <1>2. lock = p /\ mig[p].at \in mig[p].seen \cup Unseen(p)
    BY <1>1, LockIsHeld
    DEF MigrationsInv, MigratorInv, Candidate, Locked, InTransaction
  <1>3. mig[p].seen \cup {mig[p].at} \in SUBSET Versions
    BY <1>2, MigratorTypes
  <1>4. /\ mig' \in [Migrators -> MigratorStates]
        /\ \A q \in Migrators : q # p => mig'[q] = mig[q]
        /\ mig'[p].pc = "check" /\ mig'[p].dir = mig[p].dir
        /\ mig'[p].seen = mig[p].seen \cup {mig[p].at}
        /\ mig'[p].answer = mig[p].answer
    BY <1>1, <1>3 DEF Commit, MigratorStates, Locked
  <1>5. StepOf(p)
    BY <1>1, <1>2, <1>4 DEF StepOf
  <1>6. /\ MigrationsTypeOK' /\ AppliedOnce' /\ AppliedInOrder'
        /\ \A q \in Migrators : q # p => MigratorInv(q)'
        /\ applied'[mig[p].at] = mig[p].dir[mig[p].at]
        /\ \A v \in Versions : applied[v] # NoContents
                               => applied'[v] = applied[v]
    BY <1>1, <1>5, CommittedKeepsSchema
  <1>7. /\ AnswerIsTrue(p)'
        /\ \A v \in mig[p].seen :
             v \in DOMAIN mig[p].dir /\ applied'[v] = mig[p].dir[v]
    BY <1>4, <1>6, TruthIsStable
  <1>8. MigratorInv(p)'
    BY <1>1, <1>2, <1>4, <1>6, <1>7 DEF MigratorInv, InTransaction, Unseen
  <1> QED
    BY <1>6, <1>8 DEF MigrationsInv

LEMMA CommitUnacknowledgedPreservesInv ==
    ASSUME MigrationsInv, NEW p \in Migrators, CommitUnacknowledged(p)
    PROVE  MigrationsInv'
  <1>1. mig[p].pc = "commit" /\ Committed(p) /\ lock' = lock
    BY DEF CommitUnacknowledged, Committed
  <1>2. lock = p
    BY <1>1, LockIsHeld DEF Locked, InTransaction
  <1>3. Moved(p, "unlock", "error")
    BY ReturnMoves DEF CommitUnacknowledged, Pcs, Locked, Answers
  <1>4. StepOf(p)
    BY <1>1, <1>2, <1>3 DEF StepOf, Moved
  <1>5. /\ MigrationsTypeOK' /\ AppliedOnce' /\ AppliedInOrder'
        /\ \A q \in Migrators : q # p => MigratorInv(q)'
        /\ \A v \in Versions : applied[v] # NoContents
                               => applied'[v] = applied[v]
    BY <1>1, <1>4, CommittedKeepsSchema
  <1>6. /\ AnswerIsTrue(p)'
        /\ \A v \in mig[p].seen :
             v \in DOMAIN mig[p].dir /\ applied'[v] = mig[p].dir[v]
    BY <1>3, <1>5, TruthIsStable DEF Moved
  <1>7. MigratorInv(p)'
    BY <1>1, <1>2, <1>3, <1>6 DEF MigratorInv, Moved, InTransaction
  <1> QED
    BY <1>5, <1>7 DEF MigrationsInv

-----------------------------------------------------------------------------
LEMMA MigrationsNextPreservesInv ==
    ASSUME MigrationsInv, [MigrationsNext]_migrationVars
    PROVE  MigrationsInv'
  <1>1. ASSUME NEW p \in Migrators, MigratorStep(p)
        PROVE  MigrationsInv'
    BY <1>1, AcquirePreservesInv, AdvancePreservesInv, CheckPreservesInv,
       AllSeenPreservesInv, CommitPreservesInv, ReleasePreservesInv
    DEF MigratorStep
  <1>2. ASSUME NEW p \in Migrators, MigratorFault(p) \/ Reap(p)
        PROVE  MigrationsInv'
    BY <1>2, AcquirePreservesInv, CommitUnacknowledgedPreservesInv,
       FailurePreservesInv, ReleasePreservesInv
    DEF MigratorFault
  <1>3. CASE UNCHANGED migrationVars
    BY <1>3
    DEF migrationVars, MigrationsInv, MigrationsTypeOK, AppliedOnce,
        AppliedInOrder, MigratorInv, AnswerIsTrue, Candidate, Unseen
  <1> QED
    BY <1>1, <1>2, <1>3 DEF MigrationsNext

LEMMA MigrationsInitEstablishesInv == MigrationsInit => MigrationsInv
  <1> SUFFICES ASSUME MigrationsInit
               PROVE  MigrationsInv
    OBVIOUS
  <1>1. mig \in [Migrators -> MigratorStates]
    BY DEF MigrationsInit, MigratorStates
  <1>2. log = << >> /\ log \in Seq(LogEntries) /\ DOMAIN log = {}
    BY DEF MigrationsInit
  <1>3. /\ lock \in Migrators \cup {NoMigrator}
        /\ applied \in [Versions -> Contents \cup {NoContents}]
        /\ \A v \in Versions : applied[v] = NoContents
    BY DEF MigrationsInit
  <1>4. MigrationsTypeOK
    BY <1>1, <1>2, <1>3 DEF MigrationsTypeOK
  <1>5. AppliedOnce /\ AppliedInOrder
    BY <1>2, <1>3 DEF AppliedOnce, AppliedInOrder
  <1>6. \A p \in Migrators : MigratorInv(p)
    BY DEF MigrationsInit, MigratorInv, AnswerIsTrue, Locked, InTransaction
  <1> QED
    BY <1>4, <1>5, <1>6 DEF MigrationsInv

(* The lock, the history and the schema belong together, whatever fails.   *)
THEOREM MigrationsInvariant == MigrationsSpec => []MigrationsInv
  BY MigrationsInitEstablishesInv, MigrationsNextPreservesInv, PTL
  DEF MigrationsSpec

(* Type correctness, for runs of any length.                               *)
THEOREM MigrationsTypes == MigrationsSpec => []MigrationsTypeOK
  <1>1. MigrationsInv => MigrationsTypeOK
    BY DEF MigrationsInv
  <1> QED
    BY <1>1, MigrationsInvariant, PTL

(* A migration takes effect at most once, and is recorded when it does.    *)
THEOREM MigrationsApplyOnce == MigrationsSpec => []AppliedOnce
  <1>1. MigrationsInv => AppliedOnce
    BY DEF MigrationsInv
  <1> QED
    BY <1>1, MigrationsInvariant, PTL

(* No migration takes effect before an earlier one of its release.         *)
THEOREM MigrationsApplyInOrder == MigrationsSpec => []AppliedInOrder
  <1>1. MigrationsInv => AppliedInOrder
    BY DEF MigrationsInv
  <1> QED
    BY <1>1, MigrationsInvariant, PTL

(* The advisory lock keeps concurrent runs from each other's migrations.   *)
THEOREM MigratorsDoNotCollide == MigrationsSpec => []PendingStaysPending
  <1>1. MigrationsInv => PendingStaysPending
    BY DEF MigrationsInv, MigratorInv, PendingStaysPending
  <1> QED
    BY <1>1, MigrationsInvariant, PTL

(* What a run reports is so, and stays so.                                 *)
THEOREM MigratorsTellTheTruth == MigrationsSpec => []AnswersAreTrue
  <1>1. MigrationsInv => AnswersAreTrue
    BY DEF MigrationsInv, MigratorInv, AnswersAreTrue
  <1> QED
    BY <1>1, MigrationsInvariant, PTL
=============================================================================
