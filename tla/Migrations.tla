----------------------------- MODULE Migrations -----------------------------
(***************************************************************************)
(* The migration runner (internal/storage/postgres/migrations.go).         *)
(*                                                                         *)
(* A member of Migrators is one run of /app/migrate with the directory of  *)
(* migration files of its release; a run that is repeated is another       *)
(* member with the same directory.  Releases may differ in the files they  *)
(* have and in the contents of a file.                                     *)
(*                                                                         *)
(* A directory, as discoverMigrations returns it, maps version numbers to  *)
(* contents; equal contents are what equal checksums stand for.  log is    *)
(* the schema: the migrations whose SQL took effect, in that order.  A     *)
(* missing table schema_migrations and an empty one are not told apart, and*)
(* files are taken to leave the transaction they run in alone.             *)
(***************************************************************************)
EXTENDS Naturals, Sequences

CONSTANTS Migrators,
          Versions,       \* version numbers of migration files
          Contents,       \* what such a file may hold
          Releases,       \* directories of migration files
          NoContents,     \* a version that schema_migrations does not list
          NoMigrator,     \* holds a lock that nobody holds
          Faults          \* what may go wrong: "database", "kill"

ASSUME VersionsAssumption == Versions \subseteq Nat \ {0}
ASSUME ReleasesAssumption ==
          Releases \subseteq UNION {[vs -> Contents] : vs \in SUBSET Versions}
ASSUME NoContentsAssumption == NoContents \notin Contents
ASSUME NoMigratorAssumption == NoMigrator \notin Migrators

VARIABLES lock,           \* the session that has the advisory lock
          applied,        \* applied[v] is the checksum recorded for version v
          log,
          mig             \* mig[p] is the progress of migrator p

migrationVars == <<lock, applied, log, mig>>

InTransaction == {"execute", "record", "commit"}
Locked == {"create", "check", "unlock"} \cup InTransaction

MigratorStates == [pc     : {"lock", "close", "dead", "over"} \cup Locked,
                   dir    : Releases,
                   seen   : SUBSET Versions,       \* candidates dealt with
                   at     : Versions \cup {0},     \* the candidate
                   answer : {"none", "upToDate", "changed", "error", "lost"}]

MigrationsInit ==
    /\ lock = NoMigrator
    /\ applied = [v \in Versions |-> NoContents]
    /\ log = << >>
    /\ mig \in [Migrators -> [pc : {"lock"}, dir : Releases, seen : {{}},
                              at : {0}, answer : {"none"}]]

-----------------------------------------------------------------------------
Goto(p, pc) == mig' = [mig EXCEPT ![p].pc = pc]

Return(p, pc, answer) ==
    mig' = [mig EXCEPT ![p].pc = pc, ![p].answer = answer]

(* Seeded fault: pg_advisory_lock_shared.                                  *)
AcquireShared(p) ==
    /\ mig[p].pc = "lock"
    /\ lock' = p
    /\ Goto(p, "create")
    /\ UNCHANGED <<applied, log>>

(* pg_advisory_lock waits until no other session has the lock.             *)
Acquire(p) ==
    /\ mig[p].pc = "lock"
    /\ lock = NoMigrator
    /\ lock' = p
    /\ Goto(p, "create")
    /\ UNCHANGED <<applied, log>>

(* create table if not exists schema_migrations                            *)
CreateHistory(p) ==
    /\ mig[p].pc = "create"
    /\ Goto(p, "check")
    /\ UNCHANGED <<lock, applied, log>>

Unseen(p) == DOMAIN mig[p].dir \ mig[p].seen

(* Seeded fault: candidates in the order in which the directory lists them.*)
AnyCandidate(p, v) == v \in Unseen(p)

(* Candidates are sorted by version number.                                *)
Candidate(p, v) == v \in Unseen(p) /\ \A w \in Unseen(p) : v <= w

(* Seeded fault: a recorded version is not compared with the file.         *)
CheckVersionOnly(p, v) ==
    /\ mig[p].pc = "check"
    /\ Candidate(p, v)
    /\ \/ /\ applied[v] # NoContents
          /\ mig' = [mig EXCEPT ![p].seen = @ \cup {v}]
       \/ /\ applied[v] = NoContents
          /\ mig' = [mig EXCEPT ![p].pc = "execute", ![p].at = v]
    /\ UNCHANGED <<lock, applied, log>>

(* migrationWasApplied                                                     *)
Check(p, v) ==
    /\ mig[p].pc = "check"
    /\ Candidate(p, v)
    /\ \/ /\ applied[v] = mig[p].dir[v]
          /\ mig' = [mig EXCEPT ![p].seen = @ \cup {v}]
       \/ /\ applied[v] = NoContents
          /\ mig' = [mig EXCEPT ![p].pc = "execute", ![p].at = v]
       \/ /\ applied[v] \notin {NoContents, mig[p].dir[v]}
          /\ Return(p, "unlock", "changed")
    /\ UNCHANGED <<lock, applied, log>>

AllSeen(p) ==
    /\ mig[p].pc = "check"
    /\ Unseen(p) = {}
    /\ Return(p, "unlock", "upToDate")
    /\ UNCHANGED <<lock, applied, log>>

(* applyMigration: what the transaction does shows when it commits.        *)
Logged(p) ==
    log' = Append(log, [version |-> mig[p].at,
                        contents |-> mig[p].dir[mig[p].at], by |-> p])

(* Seeded fault: the migration's SQL runs outside the transaction.         *)
ExecuteAtOnce(p) ==
    /\ mig[p].pc = "execute"
    /\ Logged(p)
    /\ Goto(p, "record")
    /\ UNCHANGED <<lock, applied>>

Execute(p) ==
    /\ mig[p].pc = "execute"
    /\ Goto(p, "record")
    /\ UNCHANGED <<lock, applied, log>>

(* The primary key refuses a version that is there already.                *)
Record(p) ==
    /\ mig[p].pc = "record"
    /\ IF applied[mig[p].at] = NoContents
       THEN Goto(p, "commit")
       ELSE Return(p, "unlock", "error")
    /\ UNCHANGED <<lock, applied, log>>

(* Seeded fault: the columns of the record are swapped.                    *)
CommittedSwapped(p) ==
    /\ mig[p].pc = "commit"
    /\ Logged(p)
    /\ applied' = [applied EXCEPT ![mig[p].at] = mig[p].at]
    /\ UNCHANGED lock

Committed(p) ==
    /\ mig[p].pc = "commit"
    /\ Logged(p)
    /\ applied' = [applied EXCEPT ![mig[p].at] = mig[p].dir[mig[p].at]]
    /\ UNCHANGED lock

Commit(p) ==
    /\ Committed(p)
    /\ mig' = [mig EXCEPT ![p].pc = "check", ![p].seen = @ \cup {mig[p].at}]

(* releaseMigrationLock, whose error is dropped...                         *)
Unlock(p) ==
    /\ mig[p].pc = "unlock"
    /\ lock' = NoMigrator
    /\ Goto(p, "close")
    /\ UNCHANGED <<applied, log>>

(* Seeded fault: the connection is not closed.                             *)
LeaveOpen(p) ==
    /\ mig[p].pc = "close"
    /\ Goto(p, "over")
    /\ UNCHANGED <<lock, applied, log>>

(* ...since connection.Close ends the session, and with it its lock.       *)
EndSession(p) ==
    /\ lock' = IF lock = p THEN NoMigrator ELSE lock
    /\ Goto(p, "over")
    /\ UNCHANGED <<applied, log>>

Close(p) == mig[p].pc = "close" /\ EndSession(p)

-----------------------------------------------------------------------------
(* Failures *)

(* A statement fails, or SIGTERM cancels it: RunMigrations returns through *)
(* its deferred calls, Rollback included.                                  *)
StatementFails(p) ==
    /\ "database" \in Faults
    /\ \/ mig[p].pc = "lock" /\ Return(p, "close", "error")
       \/ /\ mig[p].pc \in Locked \ {"unlock"}
          /\ Return(p, "unlock", "error")
       \/ mig[p].pc = "unlock" /\ Goto(p, "close")
    /\ UNCHANGED <<lock, applied, log>>

(* The statement took effect, its result was lost.                         *)
AcquireUnacknowledged(p) ==
    /\ "database" \in Faults
    /\ mig[p].pc = "lock"
    /\ lock = NoMigrator
    /\ lock' = p
    /\ Return(p, "close", "error")
    /\ UNCHANGED <<applied, log>>

CommitUnacknowledged(p) ==
    /\ "database" \in Faults
    /\ Committed(p)
    /\ Return(p, "unlock", "error")

(* The process dies.  Its session, with the lock and the open transaction, *)
(* lives on until the server notices.                                      *)
Kill(p) ==
    /\ "kill" \in Faults
    /\ mig[p].pc \notin {"dead", "over"}
    /\ Return(p, "dead", "lost")
    /\ UNCHANGED <<lock, applied, log>>

Reap(p) == mig[p].pc = "dead" /\ EndSession(p)

-----------------------------------------------------------------------------
MigratorStep(p) ==
    \/ Acquire(p) \/ CreateHistory(p)
    \/ \E v \in Versions : Check(p, v)
    \/ AllSeen(p) \/ Execute(p) \/ Record(p) \/ Commit(p)
    \/ Unlock(p) \/ Close(p)

MigratorFault(p) ==
    StatementFails(p) \/ AcquireUnacknowledged(p) \/ CommitUnacknowledged(p)
      \/ Kill(p)

MigrationsNext ==
    \E p \in Migrators : MigratorStep(p) \/ MigratorFault(p) \/ Reap(p)

MigrationsSpec == MigrationsInit /\ [][MigrationsNext]_migrationVars

(* Processes run on, and the server notices when a client is gone.         *)
FairMigrationsSpec ==
    /\ MigrationsSpec
    /\ \A p \in Migrators : /\ WF_migrationVars(MigratorStep(p))
                            /\ WF_migrationVars(Reap(p))

-----------------------------------------------------------------------------
(* Properties *)

LogEntries == [version : Versions, contents : Contents, by : Migrators]

MigrationsTypeOK ==
    /\ lock \in Migrators \cup {NoMigrator}
    /\ applied \in [Versions -> Contents \cup {NoContents}]
    /\ log \in Seq(LogEntries)
    /\ mig \in [Migrators -> MigratorStates]

(* Each migration takes effect once and is recorded if and only if it did, *)
(* however many runs fail, are killed and are repeated.                    *)
AppliedOnce ==
    /\ \A i, j \in DOMAIN log : log[i].version = log[j].version => i = j
    /\ \A i \in DOMAIN log : applied[log[i].version] = log[i].contents
    /\ \A v \in Versions :
         applied[v] # NoContents => \E i \in DOMAIN log : log[i].version = v

(* A migration takes effect after every earlier one of its release.        *)
AppliedInOrder ==
    \A i \in DOMAIN log : \A w \in DOMAIN mig[log[i].by].dir :
       w < log[i].version
       => \E j \in DOMAIN log : j < i /\ log[j].version = w

(* What a run has found to be pending stays pending until it has applied it*)
(* itself: concurrent deploys are serialised, so none fails because another*)
(* one applied the same migration ("takes a Postgres advisory lock to      *)
(* serialize concurrent deploys").                                         *)
PendingStaysPending ==
    \A p \in Migrators :
       mig[p].pc \in InTransaction => applied[mig[p].at] = NoContents

AnswerIsTrue(p) ==
    /\ mig[p].answer = "upToDate"
       => \A v \in DOMAIN mig[p].dir : applied[v] = mig[p].dir[v]
    /\ mig[p].answer = "changed"
       => \E v \in DOMAIN mig[p].dir :
            applied[v] \notin {NoContents, mig[p].dir[v]}

(* A run that says the schema is up to date leaves, for good, the schema of*)
(* its release; one that says a checksum changed has met a version that was*)
(* applied with other contents.                                            *)
AnswersAreTrue == \A p \in Migrators : AnswerIsTrue(p)

(* No failure leaves the lock behind: every run comes to its end, and the  *)
(* runs that wait for it to theirs.                                        *)
MigratorsFinish ==
    \A p \in Migrators : mig[p].pc = "lock" ~> mig[p].pc = "over"
=============================================================================
