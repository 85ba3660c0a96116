---------------------------- MODULE MigrateProofs ----------------------------
(***************************************************************************)
(* Theorems about Migrate: for any number of files, runs at the same time, *)
(* launches and faults, every file takes effect once and in order, and a   *)
(* run's exit code tells the truth.                                        *)
(***************************************************************************)
EXTENDS Migrate, WellFoundedInduction, TLAPS

\* A run past the lock and not yet rid of it.
Inside == {"read", "apply", "commit", "unlock"}

\* What main() relies on at each of its awaits: it is alone with the ledger,
\* and what it read of it is still so.
RunInv(r) ==
    /\ run[r].pc \in Inside <=> lock = r
    /\ run[r].pc \in {"apply", "commit"} =>
         /\ run[r].pending = run[r].files \ ledger
         /\ run[r].pending # {}
    /\ run[r].txn = IF run[r].pc = "commit" THEN {NextFile(r)} ELSE {}
    /\ run[r].exit = "0" => run[r].files \subseteq ledger
    /\ run[r].exit = "1" => run[r].hit

MigrateInv == TypeOK /\ AppliedOnce /\ \A r \in Runs : RunInv(r)

-----------------------------------------------------------------------------
(* The operators of the model.                                             *)

\* The next file is a pending one with none before it (sort() in main()).
LEMMA NextFileFirst ==
    ASSUME NEW r \in Runs, run[r].pending \in SUBSET Files, run[r].pending # {}
    PROVE  /\ NextFile(r) \in run[r].pending
           /\ \A g \in run[r].pending : NextFile(r) <= g
<1> DEFINE P == run[r].pending
<1>1. P \subseteq Nat /\ P # {}
  BY MigrateAssumption DEF Files
<1>2. IsWellFoundedOn(OpToRel(<, Nat), Nat)
  BY NatLessThanWellFounded, Zenon
<1> HIDE DEF P
<1>3. PICK f \in P : \A g \in P : ~ (<<g, f>> \in OpToRel(<, Nat))
  BY <1>1, <1>2, WFMin, Zenon
<1>4. \A g \in P : ~ (g < f)
  BY <1>1, <1>3 DEF OpToRel
<1>5. \E h \in P : \A g \in P : h <= g
  BY <1>1, <1>4
<1> QED
  BY <1>5 DEF NextFile, P

\* The loop goes on, or ends with exit code 0.
LEMMA ContinueShape ==
    ASSUME TypeOK, NEW r \in Runs, NEW P \in SUBSET Files
    PROVE  /\ Continue(r, P) \in Run
           /\ Continue(r, P).files = run[r].files
           /\ Continue(r, P).txn = {}
           /\ Continue(r, P).hit = run[r].hit
           /\ P = {} => Continue(r, P).pc = "unlock" /\ Continue(r, P).exit = "0"
           /\ P # {} => /\ Continue(r, P).pc = "apply"
                        /\ Continue(r, P).pending = P
                        /\ Continue(r, P).exit = run[r].exit
<1>1. run[r] \in Run
  BY DEF TypeOK
<1> QED
  BY <1>1 DEF Continue, Run

\* A step of one run leaves the others as they are: only who holds the lock
\* writes the ledger.
LEMMA OthersKeep ==
    ASSUME MigrateInv, NEW r \in Runs, NEW s \in Runs, s # r,
           run'[s] = run[s], lock' = s <=> lock = s,
           ledger' = ledger \/ (lock = r /\ ledger \subseteq ledger')
    PROVE  RunInv(s)'
<1>1. RunInv(s)
  BY DEF MigrateInv
<1>2. NextFile(s)' = NextFile(s)
  BY DEF NextFile
<1>3. CASE ledger' = ledger
  BY <1>1, <1>2, <1>3 DEF RunInv
<1>4. CASE lock = r /\ ledger \subseteq ledger'
  <2>1. run[s].pc \notin Inside
    BY <1>1, <1>4 DEF RunInv
  <2> QED
    BY <1>1, <1>2, <1>4, <2>1 DEF RunInv, Inside
<1> QED
  BY <1>3, <1>4

-----------------------------------------------------------------------------
(* One lemma per step.                                                     *)

LEMMA MigrateInitially == Init => MigrateInv
<1> SUFFICES ASSUME Init PROVE MigrateInv
  OBVIOUS
<1>1. TypeOK
  BY MigrateAssumption DEF Init, TypeOK, Run, Off
<1>2. AppliedOnce
  BY DEF Init, AppliedOnce
<1>3. \A r \in Runs : RunInv(r)
  BY MigrateAssumption DEF Init, RunInv, Off, Inside
<1> QED
  BY <1>1, <1>2, <1>3 DEF MigrateInv

LEMMA LaunchKeeps ==
    ASSUME MigrateInv, NEW r \in Runs, Launch(r) PROVE MigrateInv'
<1>1. PICK files \in SUBSET Files :
        run' = [run EXCEPT ![r] = IF files = {}
                  THEN [Off EXCEPT !.exit = "0"]
                  ELSE [Off EXCEPT !.pc = "lock", !.files = files]]
  BY DEF Launch
<1>2. /\ run[r].pc = "off" /\ launches > 0 /\ launches' = launches - 1
      /\ UNCHANGED <<ledger, applied, lock, faults>>
  BY DEF Launch
<1>3. TypeOK /\ AppliedOnce /\ RunInv(r)
  BY DEF MigrateInv
<1>4. TypeOK'
  <2>1. launches' \in 0..MaxLaunches
    BY <1>2, <1>3, MigrateAssumption DEF TypeOK
  <2>2. /\ [Off EXCEPT !.exit = "0"] \in Run
        /\ [Off EXCEPT !.pc = "lock", !.files = files] \in Run
    BY DEF Off, Run
  <2>3. run' \in [Runs -> Run]
    BY <1>1, <1>3, <2>2 DEF TypeOK
  <2> QED
    BY <1>2, <1>3, <2>1, <2>3 DEF TypeOK
<1>5. RunInv(r)'
  BY <1>1, <1>2, <1>3 DEF RunInv, Inside, TypeOK, Off
<1>6. \A s \in Runs : s # r => RunInv(s)'
  BY <1>1, <1>2, <1>3, OthersKeep DEF TypeOK
<1>7. AppliedOnce'
  BY <1>2, <1>3 DEF AppliedOnce
<1> QED
  BY <1>4, <1>5, <1>6, <1>7 DEF MigrateInv

LEMMA LockKeeps ==
    ASSUME MigrateInv, NEW r \in Runs, Lock(r) PROVE MigrateInv'
<1>1. /\ run[r].pc = "lock" /\ lock = None /\ lock' = r
      /\ run' = [run EXCEPT ![r] = [run[r] EXCEPT !.pc = "read"]]
      /\ UNCHANGED <<ledger, applied, launches, faults>>
  BY DEF Lock
<1>2. TypeOK /\ AppliedOnce /\ RunInv(r) /\ run[r] \in Run
  BY DEF MigrateInv, TypeOK
<1>3. TypeOK'
  BY <1>1, <1>2 DEF TypeOK, Run
<1>4. RunInv(r)'
  BY <1>1, <1>2 DEF RunInv, Inside, TypeOK, Run
<1>5. \A s \in Runs : s # r => RunInv(s)'
  BY <1>1, <1>2, OthersKeep, MigrateAssumption DEF TypeOK
<1>6. AppliedOnce'
  BY <1>1, <1>2 DEF AppliedOnce
<1> QED
  BY <1>3, <1>4, <1>5, <1>6 DEF MigrateInv

LEMMA ReadKeeps ==
    ASSUME MigrateInv, NEW r \in Runs, Read(r) PROVE MigrateInv'
<1> DEFINE P == run[r].files \ ledger
<1>1. /\ run[r].pc = "read"
      /\ run' = [run EXCEPT ![r] = Continue(r, P)]
      /\ UNCHANGED <<ledger, applied, lock, launches, faults>>
  BY DEF Read
<1>2. TypeOK /\ AppliedOnce /\ RunInv(r) /\ run[r] \in Run
  BY DEF MigrateInv, TypeOK
<1>3. P \in SUBSET Files
  BY <1>2 DEF Run
<1>4. run'[r] = Continue(r, P)
  BY <1>1, <1>2 DEF TypeOK
<1>5. TypeOK'
  BY <1>1, <1>2, <1>3, ContinueShape DEF TypeOK
<1>6. RunInv(r)'
  BY <1>1, <1>2, <1>3, <1>4, ContinueShape DEF RunInv, Inside
<1>7. \A s \in Runs : s # r => RunInv(s)'
  BY <1>1, <1>2, OthersKeep DEF TypeOK
<1>8. AppliedOnce'
  BY <1>1, <1>2 DEF AppliedOnce
<1> QED
  BY <1>5, <1>6, <1>7, <1>8 DEF MigrateInv

LEMMA ApplyKeeps ==
    ASSUME MigrateInv, NEW r \in Runs, Apply(r) PROVE MigrateInv'
<1>1. /\ run[r].pc = "apply"
      /\ run' = [run EXCEPT ![r] = [run[r] EXCEPT !.pc = "commit",
                                                  !.txn = {NextFile(r)}]]
      /\ UNCHANGED <<ledger, applied, lock, launches, faults>>
  BY DEF Apply
<1>2. TypeOK /\ AppliedOnce /\ RunInv(r) /\ run[r] \in Run
  BY DEF MigrateInv, TypeOK
<1>3. NextFile(r) \in Files
  BY <1>1, <1>2, NextFileFirst DEF RunInv, Run
<1>4. run'[r] = [run[r] EXCEPT !.pc = "commit", !.txn = {NextFile(r)}]
  BY <1>1, <1>2 DEF TypeOK
<1>5. NextFile(r)' = NextFile(r)
  BY <1>2, <1>4 DEF NextFile, Run
<1>6. TypeOK'
  BY <1>1, <1>2, <1>3 DEF TypeOK, Run
<1>7. RunInv(r)'
  BY <1>1, <1>2, <1>4, <1>5 DEF RunInv, Inside, Run
<1>8. \A s \in Runs : s # r => RunInv(s)'
  BY <1>1, <1>2, OthersKeep DEF TypeOK
<1>9. AppliedOnce'
  BY <1>1, <1>2 DEF AppliedOnce
<1> QED
  BY <1>6, <1>7, <1>8, <1>9 DEF MigrateInv

\* COMMIT: the file takes effect, and is the only one to.
LEMMA CommittedOnce ==
    ASSUME MigrateInv, NEW r \in Runs, run[r].pc = "commit", Committed(r)
    PROVE  /\ NextFile(r) \in run[r].pending /\ NextFile(r) \notin ledger
           /\ ledger' = ledger \cup {NextFile(r)}
           /\ ledger' \in SUBSET Files /\ applied' \in [Files -> Nat]
           /\ AppliedOnce' /\ lock = r
<1>1. TypeOK /\ AppliedOnce /\ RunInv(r) /\ run[r] \in Run
  BY DEF MigrateInv, TypeOK
<1>2. NextFile(r) \in run[r].pending
  BY <1>1, NextFileFirst DEF RunInv, Run
<1>3. NextFile(r) \in Files /\ NextFile(r) \notin ledger
  BY <1>1, <1>2 DEF RunInv, Run
<1>4. /\ ledger' = ledger \cup {NextFile(r)}
      /\ applied' = [f \in Files |-> IF f = NextFile(r) THEN applied[f] + 1
                                                        ELSE applied[f]]
  BY <1>1 DEF Committed, RunInv
<1>5. applied' \in [Files -> Nat] /\ ledger' \in SUBSET Files
  BY <1>1, <1>3, <1>4 DEF TypeOK
<1>6. AppliedOnce'
  BY <1>1, <1>3, <1>4 DEF AppliedOnce, TypeOK
<1> QED
  BY <1>1, <1>2, <1>3, <1>4, <1>5, <1>6 DEF RunInv, Inside

LEMMA CommitKeeps ==
    ASSUME MigrateInv, NEW r \in Runs, Commit(r) PROVE MigrateInv'
<1> DEFINE P == run[r].pending \ {NextFile(r)}
<1>1. TypeOK /\ AppliedOnce /\ RunInv(r) /\ run[r] \in Run
  BY DEF MigrateInv, TypeOK
<1>2. run[r].pc = "commit" /\ UNCHANGED <<lock, launches, faults>>
  BY DEF Commit
<1>3. NextFile(r) \in run[r].pending /\ NextFile(r) \notin ledger
  BY <1>1, <1>2, NextFileFirst DEF RunInv, Run
<1>4. run' = [run EXCEPT ![r] = Continue(r, P)] /\ Committed(r)
  BY <1>3 DEF Commit
<1>5. P \in SUBSET Files
  BY <1>1 DEF Run
<1>6. run'[r] = Continue(r, P)
  BY <1>1, <1>4 DEF TypeOK
<1>7. TypeOK'
  BY <1>1, <1>2, <1>4, <1>5, ContinueShape, CommittedOnce DEF TypeOK
<1>8. RunInv(r)'
  <2>1. run[r].files \ ledger' = P
    BY <1>1, <1>2, <1>4, CommittedOnce DEF RunInv
  <2>2. CASE P = {}
    <3>1. /\ run'[r].pc = "unlock" /\ run'[r].exit = "0" /\ run'[r].txn = {}
          /\ run'[r].files = run[r].files
      BY <1>1, <1>5, <1>6, <2>2, ContinueShape
    <3> QED
      BY <1>1, <1>2, <2>1, <2>2, <3>1 DEF RunInv, Inside
  <2>3. CASE P # {}
    <3>1. /\ run'[r].pc = "apply" /\ run'[r].pending = P
          /\ run'[r].exit = run[r].exit /\ run'[r].txn = {}
          /\ run'[r].files = run[r].files /\ run'[r].hit = run[r].hit
      BY <1>1, <1>5, <1>6, <2>3, ContinueShape
    <3>2. ledger \subseteq ledger'
      BY <1>2, <1>4, CommittedOnce
    <3> QED
      BY <1>1, <1>2, <2>1, <2>3, <3>1, <3>2 DEF RunInv, Inside
  <2> QED
    BY <2>2, <2>3
<1>9. \A s \in Runs : s # r => RunInv(s)'
  BY <1>1, <1>2, <1>4, CommittedOnce, OthersKeep DEF TypeOK
<1> QED
  BY <1>2, <1>4, <1>7, <1>8, <1>9, CommittedOnce DEF MigrateInv

LEMMA UnlockKeeps ==
    ASSUME MigrateInv, NEW r \in Runs, Unlock(r) PROVE MigrateInv'
<1>1. /\ run[r].pc = "unlock"
      /\ lock' = IF lock = r THEN None ELSE lock
      /\ run' = [run EXCEPT ![r] = [run[r] EXCEPT !.pc = "off"]]
      /\ UNCHANGED <<ledger, applied, launches, faults>>
  BY DEF Unlock
<1>2. TypeOK /\ AppliedOnce /\ RunInv(r) /\ run[r] \in Run
  BY DEF MigrateInv, TypeOK
<1>3. TypeOK'
  BY <1>1, <1>2 DEF TypeOK, Run
<1>4. RunInv(r)'
  BY <1>1, <1>2, MigrateAssumption DEF RunInv, Inside, TypeOK, Run
<1>5. \A s \in Runs : s # r => RunInv(s)'
  BY <1>1, <1>2, OthersKeep, MigrateAssumption DEF TypeOK
<1>6. AppliedOnce'
  BY <1>1, <1>2 DEF AppliedOnce
<1> QED
  BY <1>3, <1>4, <1>5, <1>6 DEF MigrateInv

LEMMA LaunchFailsKeeps ==
    ASSUME MigrateInv, NEW r \in Runs, LaunchFails(r) PROVE MigrateInv'
<1>1. TypeOK /\ AppliedOnce /\ RunInv(r)
  BY DEF MigrateInv
<1>2. /\ run[r].pc = "off"
      /\ launches > 0 /\ launches' = launches - 1
      /\ faults > 0 /\ faults' = faults - 1
      /\ run' = [run EXCEPT ![r] = [Off EXCEPT !.exit = "1", !.hit = TRUE]]
      /\ UNCHANGED <<ledger, applied, lock>>
  BY DEF LaunchFails
<1>3. TypeOK'
  <2>1. launches' \in 0..MaxLaunches /\ faults' \in 0..MaxFaults
    BY <1>1, <1>2, MigrateAssumption DEF TypeOK
  <2>2. [Off EXCEPT !.exit = "1", !.hit = TRUE] \in Run
    BY DEF Off, Run
  <2>3. run' \in [Runs -> Run]
    BY <1>1, <1>2, <2>2 DEF TypeOK
  <2> QED
    BY <1>1, <1>2, <2>1, <2>3 DEF TypeOK
<1>4. RunInv(r)'
  BY <1>1, <1>2 DEF RunInv, Inside, TypeOK, Off
<1>5. \A s \in Runs : s # r => RunInv(s)'
  BY <1>1, <1>2, OthersKeep DEF TypeOK
<1>6. AppliedOnce'
  BY <1>1, <1>2 DEF AppliedOnce
<1> QED
  BY <1>3, <1>4, <1>5, <1>6 DEF MigrateInv

LEMMA SqlFailsKeeps ==
    ASSUME MigrateInv, NEW r \in Runs, SqlFails(r) PROVE MigrateInv'
<1>1. TypeOK /\ AppliedOnce /\ RunInv(r) /\ run[r] \in Run
  BY DEF MigrateInv, TypeOK
<1>2. /\ run[r].pc \in {"read", "apply", "commit"}
      /\ faults > 0 /\ faults' = faults - 1
      /\ run' = [run EXCEPT ![r] =
                   [run[r] EXCEPT !.pc = "unlock", !.exit = "1",
                                  !.pending = {}, !.txn = {}, !.hit = TRUE]]
      /\ UNCHANGED <<ledger, applied, lock, launches>>
  BY <1>1 DEF SqlFails, Failed, Run
<1>3. TypeOK'
  <2>1. faults' \in 0..MaxFaults
    BY <1>1, <1>2, MigrateAssumption DEF TypeOK
  <2>2. [run[r] EXCEPT !.pc = "unlock", !.exit = "1", !.pending = {},
                       !.txn = {}, !.hit = TRUE] \in Run
    BY <1>1 DEF Run
  <2>3. run' \in [Runs -> Run]
    BY <1>1, <1>2, <2>2 DEF TypeOK
  <2> QED
    BY <1>1, <1>2, <2>1, <2>3 DEF TypeOK
<1>4. RunInv(r)'
  BY <1>1, <1>2 DEF RunInv, Inside, TypeOK, Run
<1>5. \A s \in Runs : s # r => RunInv(s)'
  BY <1>1, <1>2, OthersKeep DEF TypeOK
<1>6. AppliedOnce'
  BY <1>1, <1>2 DEF AppliedOnce
<1> QED
  BY <1>3, <1>4, <1>5, <1>6 DEF MigrateInv

\* The session of a run ends, and the run with it.
LEMMA EndKeeps ==
    ASSUME MigrateInv, NEW r \in Runs, ConnectionLost(r) \/ Killed(r)
    PROVE  MigrateInv'
<1>1. TypeOK /\ AppliedOnce /\ RunInv(r) /\ run[r] \in Run
  BY DEF MigrateInv, TypeOK
<1>2. PICK code \in {"1"} \cup {e \in {run[r].exit} : run[r].pc = "unlock"} :
        run' = [run EXCEPT ![r] = [Off EXCEPT !.files = run[r].files,
                                              !.exit = code, !.hit = TRUE]]
  BY DEF ConnectionLost, Killed
<1>3. /\ run[r].pc # "off" /\ faults > 0 /\ faults' = faults - 1
      /\ SessionEnds(r) /\ UNCHANGED launches
  BY DEF ConnectionLost, Killed
<1>4. /\ lock' = IF lock = r THEN None ELSE lock
      /\ \/ UNCHANGED <<ledger, applied>>
         \/ run[r].pc = "commit" /\ Committed(r)
  BY <1>3 DEF SessionEnds
<1>5. /\ ledger \subseteq ledger' /\ ledger' \in SUBSET Files
      /\ applied' \in [Files -> Nat] /\ AppliedOnce'
      /\ ledger' = ledger \/ lock = r
  <2>1. CASE UNCHANGED <<ledger, applied>>
    BY <1>1, <2>1 DEF TypeOK, AppliedOnce
  <2>2. CASE run[r].pc = "commit" /\ Committed(r)
    BY <2>2, CommittedOnce
  <2> QED
    BY <1>4, <2>1, <2>2
<1>6. run'[r] = [pc |-> "off", files |-> run[r].files, pending |-> {},
                 txn |-> {}, exit |-> code, hit |-> TRUE]
  BY <1>1, <1>2 DEF TypeOK, Off
<1>7. TypeOK'
  <2>1. faults' \in 0..MaxFaults
    BY <1>1, <1>3, MigrateAssumption DEF TypeOK
  <2>2. [Off EXCEPT !.files = run[r].files, !.exit = code, !.hit = TRUE] \in Run
    BY <1>1, <1>2 DEF Off, Run
  <2>3. run' \in [Runs -> Run]
    BY <1>1, <1>2, <2>2 DEF TypeOK
  <2>4. lock' \in Runs \cup {None} /\ launches' = launches
    BY <1>1, <1>3, <1>4 DEF TypeOK
  <2> QED
    BY <1>1, <1>5, <2>1, <2>3, <2>4 DEF TypeOK
<1>8. RunInv(r)'
  <2>1. lock' # r
    BY <1>4, MigrateAssumption
  <2>2. code = "0" => run[r].files \subseteq ledger'
    BY <1>1, <1>2, <1>5 DEF RunInv
  <2>3. /\ run'[r].pc = "off" /\ run'[r].files = run[r].files
        /\ run'[r].txn = {} /\ run'[r].exit = code /\ run'[r].hit = TRUE
    BY <1>6
  <2> QED
    BY <2>1, <2>2, <2>3 DEF RunInv, Inside
<1>9. \A s \in Runs : s # r => RunInv(s)'
  BY <1>1, <1>2, <1>4, <1>5, OthersKeep, MigrateAssumption DEF TypeOK
<1> QED
  BY <1>5, <1>7, <1>8, <1>9 DEF MigrateInv

LEMMA MigrateStep == MigrateInv /\ [Next]_vars => MigrateInv'
<1> SUFFICES ASSUME MigrateInv, [Next]_vars PROVE MigrateInv'
  OBVIOUS
<1>1. CASE UNCHANGED vars
  <2>1. TypeOK' /\ AppliedOnce'
    BY <1>1 DEF vars, MigrateInv, TypeOK, AppliedOnce
  <2>2. ASSUME NEW r \in Runs PROVE RunInv(r)'
    <3>1. NextFile(r)' = NextFile(r)
      BY <1>1 DEF vars, NextFile
    <3> QED
      BY <1>1, <3>1 DEF vars, MigrateInv, RunInv
  <2> QED
    BY <2>1, <2>2 DEF MigrateInv
<1>2. CASE Next
  BY <1>2, LaunchKeeps, LockKeeps, ReadKeeps, ApplyKeeps, CommitKeeps,
     UnlockKeeps, LaunchFailsKeeps, SqlFailsKeeps, EndKeeps DEF Next, Step
<1> QED
  BY <1>1, <1>2

-----------------------------------------------------------------------------
(* The theorems.                                                           *)

LEMMA MigrateAlways == Spec => []MigrateInv
  BY MigrateInitially, MigrateStep, PTL DEF Spec

\* Whatever fails, ledger, lock and runs keep their types.
THEOREM MigrateTypeCorrect == Spec => []TypeOK
<1>1. MigrateInv => TypeOK
  BY DEF MigrateInv
<1> QED
  BY <1>1, MigrateAlways, PTL

\* The SQL of a file takes effect once, whatever runs race, fail or die
\* (BEGIN ... COMMIT with the ledger entry, under the advisory lock).
THEOREM FilesAppliedOnce == Spec => []AppliedOnce
<1>1. MigrateInv => AppliedOnce
  BY DEF MigrateInv
<1> QED
  BY <1>1, MigrateAlways, PTL

\* Exit code 0 means that the database is up to date with the run's files.
THEOREM ExitCodesTrue == Spec => []ExitMeansUpToDate
<1>1. MigrateInv => ExitMeansUpToDate
  BY DEF MigrateInv, RunInv, ExitMeansUpToDate
<1> QED
  BY <1>1, MigrateAlways, PTL

\* Exit code 1 means that something failed in this run, not that it met
\* another one.
THEOREM FailuresCaused == Spec => []FailureHasCause
<1>1. MigrateInv => FailureHasCause
  BY DEF MigrateInv, RunInv, FailureHasCause
<1> QED
  BY <1>1, MigrateAlways, PTL

\* A file is applied only after those before it in the run's listing.
THEOREM InFileOrder == Spec => NoneSkipped
<1> DEFINE Ordered == \A r \in Runs : \A f \in ledger' \ ledger :
        f \in run[r].txn => \A g \in run[r].files : g < f => g \in ledger
<1>1. MigrateInv => Ordered
  <2> SUFFICES ASSUME MigrateInv, NEW r \in Runs, NEW f \in run[r].txn,
                      NEW g \in run[r].files, g < f
               PROVE  g \in ledger
    OBVIOUS
  <2>1. TypeOK /\ RunInv(r) /\ run[r] \in Run
    BY DEF MigrateInv, TypeOK
  <2>2. run[r].pc = "commit" /\ f = NextFile(r)
    BY <2>1 DEF RunInv
  <2>3. /\ run[r].pending = run[r].files \ ledger
        /\ f \in run[r].pending /\ \A h \in run[r].pending : f <= h
    BY <2>1, <2>2, NextFileFirst DEF RunInv, Run
  <2>4. f \in Nat /\ g \in Nat
    BY <2>1, <2>3, MigrateAssumption DEF Run, Files
  <2> QED
    BY <2>3, <2>4
<1>2. MigrateInv => [Ordered]_vars
  BY <1>1
<1> QED
  BY <1>2, MigrateAlways, PTL DEF NoneSkipped

==============================================================================
