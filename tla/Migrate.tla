------------------------------- MODULE Migrate -------------------------------
(***************************************************************************)
(* The migration runner (apps/api/src/scripts/migrate.ts): runs that list  *)
(* the files of their image, take a Postgres advisory lock, read the       *)
(* ledger schema_migrations, and apply what is pending, each file in a     *)
(* transaction with its ledger entry.  Deployments may start several runs, *)
(* of different images, and any of them may fail or die half way.          *)
(***************************************************************************)
EXTENDS Naturals, FiniteSets

CONSTANTS
    MaxFile,      \* bound: the files 1..MaxFile, in filename order
    Runs,         \* runs that can be under way at the same time
    None,         \* nobody holds the lock
    MaxLaunches,  \* bound on the runs started in one behaviour
    MaxFaults     \* bound on the faults of one behaviour

ASSUME MigrateAssumption ==
    /\ MaxFile \in Nat /\ MaxLaunches \in Nat /\ MaxFaults \in Nat
    /\ None \notin Runs

Files == 1..MaxFile

VARIABLES
    ledger,    \* the committed rows of schema_migrations
    applied,   \* how often the SQL of each file has been committed
    lock,      \* the run whose session holds ADVISORY_LOCK_KEY
    run,       \* the runs
    launches,  \* how many more may be started
    faults     \* how many more may happen

vars == <<ledger, applied, lock, run, launches, faults>>

(* A run is off, awaiting the lock, about to read the ledger, about to      *)
(* apply the next pending file, about to commit it, or about to unlock.     *)
Run == [ pc      : {"off", "lock", "read", "apply", "commit", "unlock"},
         files   : SUBSET Files,        \* filenames
         pending : SUBSET Files,
         txn     : SUBSET Files,        \* run in the open transaction
         exit    : {"none", "0", "1"},  \* the exit code, once decided
         hit     : BOOLEAN ]            \* auxiliary: it met a fault

Off == [pc |-> "off", files |-> {}, pending |-> {}, txn |-> {},
        exit |-> "none", hit |-> FALSE]

TypeOK ==
    /\ ledger   \in SUBSET Files
    /\ applied  \in [Files -> Nat]
    /\ lock     \in Runs \cup {None}
    /\ run      \in [Runs -> Run]
    /\ launches \in 0..MaxLaunches
    /\ faults   \in 0..MaxFaults

Init ==
    /\ ledger   = {}
    /\ applied  = [f \in Files |-> 0]
    /\ lock     = None
    /\ run      = [r \in Runs |-> Off]
    /\ launches = MaxLaunches
    /\ faults   = MaxFaults

-----------------------------------------------------------------------------
(* main(), one await at a time.                                            *)

\* The directory is listed before the lock is taken.  An image without files
\* ends the run there.
Launch(r) ==
    /\ run[r].pc = "off"
    /\ launches > 0
    /\ launches' = launches - 1
    /\ \E files \in SUBSET Files :
         run' = [run EXCEPT ![r] = IF files = {}
                    THEN [Off EXCEPT !.exit = "0"]
                    ELSE [Off EXCEPT !.pc = "lock", !.files = files]]
    /\ UNCHANGED <<ledger, applied, lock, faults>>

\* Mutant: the run does not wait for the lock.
MutLock(r) ==
    /\ run[r].pc = "lock"
    /\ run' = [run EXCEPT ![r].pc = "read"]
    /\ UNCHANGED <<ledger, applied, lock, launches, faults>>

\* pg_advisory_lock() returns.
Lock(r) ==
    /\ run[r].pc = "lock"
    /\ lock = None
    /\ lock' = r
    /\ run' = [run EXCEPT ![r].pc = "read"]
    /\ UNCHANGED <<ledger, applied, launches, faults>>

\* The loop: on to the next pending file, or out with exit code 0.
Continue(r, pending) ==
    IF pending = {}
    THEN [run[r] EXCEPT !.pc = "unlock", !.exit = "0", !.pending = {},
                        !.txn = {}]
    ELSE [run[r] EXCEPT !.pc = "apply", !.pending = pending, !.txn = {}]

\* SELECT filename FROM schema_migrations, created if need be.
Read(r) ==
    /\ run[r].pc = "read"
    /\ run' = [run EXCEPT ![r] = Continue(r, run[r].files \ ledger)]
    /\ UNCHANGED <<ledger, applied, lock, launches, faults>>

\* Mutant: the files are in the directory's order.
MutNextFile(r) == CHOOSE f \in run[r].pending : \A g \in run[r].pending : f >= g

\* pending is in filename order.
NextFile(r) == CHOOSE f \in run[r].pending : \A g \in run[r].pending : f <= g

\* Mutant: no BEGIN, so that the file's SQL is committed by itself.
MutApply(r) ==
    /\ run[r].pc = "apply"
    /\ applied' = [applied EXCEPT ![NextFile(r)] = @ + 1]
    /\ run' = [run EXCEPT ![r].pc = "commit"]
    /\ UNCHANGED <<ledger, lock, launches, faults>>

\* BEGIN, and the file's SQL.
Apply(r) ==
    /\ run[r].pc = "apply"
    /\ run' = [run EXCEPT ![r].pc = "commit", ![r].txn = {NextFile(r)}]
    /\ UNCHANGED <<ledger, applied, lock, launches, faults>>

\* Mutant: process.exitCode is not set.
MutFailed(r) == [run[r] EXCEPT !.pc = "unlock", !.exit = "0",
                               !.pending = {}, !.txn = {}]

\* Mutant: the exit code is that of the database's error.
MutFailedCode(r) == [run[r] EXCEPT !.pc = "unlock", !.exit = "42P07",
                                   !.pending = {}, !.txn = {}]

\* The catch block: ROLLBACK, exit code 1, out of the loop.
Failed(r) == [run[r] EXCEPT !.pc = "unlock", !.exit = "1", !.pending = {},
                            !.txn = {}]

\* What COMMIT makes of the open transaction and its ledger entry.
Committed(r) ==
    /\ ledger' = ledger \cup {NextFile(r)}
    /\ applied' = [f \in Files |-> IF f \in run[r].txn THEN applied[f] + 1
                                                       ELSE applied[f]]

\* The ledger entry, unless its primary key is taken, and COMMIT.
Commit(r) ==
    /\ run[r].pc = "commit"
    /\ IF NextFile(r) \in ledger
       THEN /\ run' = [run EXCEPT ![r] = Failed(r)]
            /\ UNCHANGED <<ledger, applied>>
       ELSE /\ run' = [run EXCEPT ![r] =
                         Continue(r, run[r].pending \ {NextFile(r)})]
            /\ Committed(r)
    /\ UNCHANGED <<lock, launches, faults>>

\* The finally block: unlock and disconnect.
Unlock(r) ==
    /\ run[r].pc = "unlock"
    /\ lock' = IF lock = r THEN None ELSE lock
    /\ run' = [run EXCEPT ![r].pc = "off"]
    /\ UNCHANGED <<ledger, applied, launches, faults>>

-----------------------------------------------------------------------------
(* Faults.                                                                 *)

\* No directory, or no database: the run is over before it has done anything.
LaunchFails(r) ==
    /\ run[r].pc = "off"
    /\ launches > 0 /\ launches' = launches - 1
    /\ faults > 0 /\ faults' = faults - 1
    /\ run' = [run EXCEPT ![r] = [Off EXCEPT !.exit = "1", !.hit = TRUE]]
    /\ UNCHANGED <<ledger, applied, lock>>

\* A query fails that the session survives: of the ledger, of the file's SQL
\* or its ledger entry.  So does a file that cannot be read.
SqlFails(r) ==
    /\ run[r].pc \in {"read", "apply", "commit"}
    /\ faults > 0 /\ faults' = faults - 1
    /\ run' = [run EXCEPT ![r] = [Failed(r) EXCEPT !.hit = TRUE]]
    /\ UNCHANGED <<ledger, applied, lock, launches>>

\* Mutant: an advisory lock that outlives its session.
MutSessionEnds(r) ==
    /\ UNCHANGED lock
    /\ UNCHANGED <<ledger, applied>>

\* The session ends: its lock is released, its transaction is gone, unless
\* it was at COMMIT and Postgres got that far.
SessionEnds(r) ==
    /\ lock' = IF lock = r THEN None ELSE lock
    /\ \/ UNCHANGED <<ledger, applied>>
       \/ run[r].pc = "commit" /\ NextFile(r) \notin ledger /\ Committed(r)

\* The connection is lost.  The next query throws, and so does the ROLLBACK
\* after it: main() rejects and exits with 1.  A failure of the unlock is
\* swallowed, unless the client's unhandled error event ends the process.
ConnectionLost(r) ==
    /\ run[r].pc # "off"
    /\ faults > 0 /\ faults' = faults - 1
    /\ SessionEnds(r)
    /\ \E code \in {"1"} \cup {e \in {run[r].exit} : run[r].pc = "unlock"} :
         run' = [run EXCEPT ![r] = [Off EXCEPT !.files = run[r].files,
                                               !.exit = code, !.hit = TRUE]]
    /\ UNCHANGED launches

\* The process is killed: its exit code is not 0.
Killed(r) ==
    /\ run[r].pc # "off"
    /\ faults > 0 /\ faults' = faults - 1
    /\ SessionEnds(r)
    /\ run' = [run EXCEPT ![r] = [Off EXCEPT !.files = run[r].files,
                                             !.exit = "1", !.hit = TRUE]]
    /\ UNCHANGED launches

-----------------------------------------------------------------------------
Step(r) == Lock(r) \/ Read(r) \/ Apply(r) \/ Commit(r) \/ Unlock(r)

Next == \E r \in Runs :
    \/ Launch(r) \/ Step(r)
    \/ LaunchFails(r) \/ SqlFails(r) \/ ConnectionLost(r) \/ Killed(r)

Spec == Init /\ [][Next]_vars

\* A query is answered, and a free lock is given to somebody who waits.
FairSpec == Spec /\ \A r \in Runs : WF_vars(Step(r))

-----------------------------------------------------------------------------
(* Properties.                                                             *)

\* Whatever fails or dies, and however often the runner is started again, a
\* file's SQL takes effect once, and the ledger says which did.
AppliedOnce == \A f \in Files :
    applied[f] = IF f \in ledger THEN 1 ELSE 0

\* A run applies a file only when those before it in its listing have been,
\* by this run or by an earlier one: nothing is attempted past a failure.
NoneSkipped == [][\A r \in Runs : \A f \in ledger' \ ledger :
    f \in run[r].txn => \A g \in run[r].files : g < f => g \in ledger]_vars

\* A run that exits with 0 leaves a database in which all its files have
\* been applied, which is what api and worker wait for before they start.
ExitMeansUpToDate == \A r \in Runs :
    run[r].exit = "0" => run[r].files \subseteq ledger

\* Runs that race do not make each other fail: exit code 1 has a cause.
FailureHasCause == \A r \in Runs : run[r].exit = "1" => run[r].hit

\* Every run comes to an end, although the one it waits for may die.
RunsEnd == \A r \in Runs : run[r].pc = "lock" ~> run[r].pc = "off"

==============================================================================
