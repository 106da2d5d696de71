------------------------- MODULE DownloadJobsProofs -------------------------
(***************************************************************************)
(* Proofs about DownloadJobs, for every set of keys and directories, any   *)
(* number of jobs, cancels and crashes and every size of the pool.         *)
(***************************************************************************)
EXTENDS DownloadJobs, FiniteSetTheorems, TLAPS

Places == {"none", "pooled", "resolve", "download", "verify", "publish", "register", "finish",
           "undo", "fail", "sweep", "done"}

\* The types, with where a thread can be; a thread works on a job that was created.
Typed ==
    /\ row \in [Jobs -> Statuses] /\ key \in Seq(Keys) /\ created <= MaxJobs
    /\ pc \in [Jobs -> Places]
    /\ asking \in Jobs \cup {None}
    /\ staged \subseteq 1..created /\ dest \in [Targets -> 0..created]
    /\ registered \subseteq published /\ published \subseteq 1..created
    /\ \A j \in Jobs : pc[j] # "none" => j \in 1..created

\* A directory holds files of a job that published them, and a job registers only after it
\* has published.
Published ==
    /\ \A t \in Targets : dest[t] # None => dest[t] \in published
    /\ \A j \in Jobs : pc[j] = "register" => j \in published

\* The row of a job at work is active, unless a cancel was reported.
AtWork == {"pooled", "resolve", "download", "verify", "publish", "register", "finish"}
WorkShown ==
    \A j \in Jobs : pc[j] \in AtWork => row[j] \in Active \/ j \in withdrawn

\* The invariant, but for the size of the pool.
IInv == Typed /\ Published /\ WorkShown /\ NothingLeft

JobStep(j) == CancelReads(j) \/ RunJob(j)

\* The length of key, once and for all.
LEMMA CreatedNat ==
  ASSUME Typed
  PROVE  created \in Nat /\ 1..created \subseteq Jobs
  BY DownloadJobsAssumption DEF Typed, created, Jobs

\* A job that was created has a directory.
LEMMA TargetOfJob ==
  ASSUME Typed, NEW j \in 1..created
  PROVE  key[j] \in Keys /\ Target(j) \in Targets /\ j # None
  <1>1. created \in Nat /\ key[j] \in Keys
    BY CreatedNat DEF Typed, created
  <1> QED
    BY <1>1, DownloadJobsAssumption DEF Target, None

\* What was asked for a job does not change, and created grows by one at most.
LEMMA KeysKept ==
  ASSUME Typed, NEW k \in Keys, CreateJob(k)
  PROVE  /\ key' \in Seq(Keys) /\ created' = created + 1 /\ created' \in Jobs
         /\ created' <= MaxJobs
         /\ \A j \in 1..created : key'[j] = key[j]
         /\ key'[created'] = k
  BY CreatedNat, DownloadJobsAssumption DEF Typed, CreateJob, created, Jobs

LEMMA InitIInv == Init => IInv /\ OneJobPerKey
  BY DownloadJobsAssumption
     DEF Init, IInv, Typed, Published, WorkShown, NothingLeft, OneJobPerKey, created, Jobs,
         Statuses, Active, Places, AtWork, None

\* Creating a job touches nothing another job has.
LEMMA CreateStep ==
  ASSUME IInv, NEW k \in Keys, CreateJob(k)
  PROVE  IInv'
  <1> USE DEF CreateJob, flags
  <1>0. Typed /\ created \in Nat /\ 1..created \subseteq Jobs
    BY CreatedNat DEF IInv
  <1>1. /\ key' \in Seq(Keys) /\ created' = created + 1 /\ created' \in Jobs
        /\ created' <= MaxJobs
        /\ \A j \in 1..created : key'[j] = key[j]
    BY <1>0, KeysKept
  <1>2. 1..created' = (1..created) \cup {created'} /\ 0..created \subseteq 0..created'
    BY <1>0, <1>1
  <1>3. /\ row' \in [Jobs -> Statuses] /\ pc' \in [Jobs -> Places]
        /\ pc'[created'] = "pooled" /\ row'[created'] = "queued"
        /\ \A j \in Jobs : j # created' => pc'[j] = pc[j] /\ row'[j] = row[j]
    BY <1>0, <1>1 DEF Typed, Statuses, Active, Places
  <1>4. Typed'
    BY <1>0, <1>1, <1>2, <1>3 DEF Typed
  <1>5. Published'
    BY <1>3 DEF IInv, Published
  <1>6. WorkShown'
    BY <1>3 DEF IInv, WorkShown, Active
  <1>7. NothingLeft'
    BY ZenonT(60), <1>0, <1>1, <1>3 DEF IInv, NothingLeft, Typed, Target
  <1> QED
    BY <1>4, <1>5, <1>6, <1>7 DEF IInv

\* A handler of cancel_job changes rows only.
LEMMA CancelStep ==
  ASSUME IInv, CancelWrites \/ \E j \in Jobs : CancelReads(j)
  PROVE  IInv'
  <1> USE DEF IInv, flags, created, Target
  <1>1. ASSUME NEW j \in Jobs, CancelReads(j)
        PROVE  IInv'
    BY <1>1 DEF CancelReads, Typed, Published, WorkShown, NothingLeft
  <1>2. ASSUME CancelWrites
        PROVE  IInv'
    <2>1. /\ asking \in Jobs /\ row' \in [Jobs -> Statuses]
          /\ \A j \in Jobs : row'[j] = row[j] \/ j \in withdrawn'
          /\ withdrawn \subseteq withdrawn'
      BY <1>2 DEF CancelWrites, Typed, Statuses
    <2> QED
      BY <1>2, <2>1 DEF CancelWrites, Typed, Published, WorkShown, NothingLeft
  <1> QED
    BY <1>1, <1>2

\* A thread of the pool: one case for each of its steps.
LEMMA ThreadStep ==
  ASSUME IInv, NEW j \in Jobs, RunJob(j)
  PROVE  IInv'
  <1> USE DEF flags, Goes, Shows
  <1>0. Typed /\ Published /\ WorkShown /\ NothingLeft /\ pc[j] # "none"
    BY DEF IInv, RunJob, Start, Resolve, Download, Verify, Publish, Register, Finish, Undo,
           Fail, Sweep
  <1>1. /\ key' = key /\ withdrawn' = withdrawn /\ asking' = asking
        /\ created' = created /\ \A i \in Jobs : Target(i)' = Target(i)
    BY DEF RunJob, Start, Resolve, Download, Verify, Publish, Register, Finish, Undo,
           Fail, Sweep, created, Target
  <1>2. created \in Nat /\ j \in 1..created /\ Target(j) \in Targets
    BY <1>0, CreatedNat, TargetOfJob DEF Typed
  <1>3. /\ pc' \in [Jobs -> Places] /\ row' \in [Jobs -> Statuses]
        /\ \A i \in Jobs : i # j => pc'[i] = pc[i] /\ row'[i] = row[i]
    BY <1>0 DEF RunJob, Start, Resolve, Download, Verify, Publish, Register, Finish, Undo,
                Fail, Sweep, Typed, Statuses, Active, Places
  <1>4. /\ staged' \subseteq staged \cup {j} /\ published' \subseteq published \cup {j}
        /\ dest' \in [Targets -> 0..created]
        /\ registered' \subseteq published' /\ registered \subseteq registered'
        /\ published \subseteq published'
    <2>0. /\ staged \subseteq 1..created /\ dest \in [Targets -> 0..created]
          /\ registered \subseteq published /\ j \in 0..created
      BY <1>0, <1>2 DEF Typed
    <2>1. CASE Publish(j) \/ Undo(j) \/ Sweep(j)
      BY <1>2, <2>0, <2>1 DEF Publish, Undo, Sweep, None
    <2>2. CASE Register(j)
      BY <1>0, <2>0, <2>2 DEF Register, Published
    <2> QED
      BY <2>0, <2>1, <2>2 DEF RunJob, Start, Resolve, Download, Verify, Finish, Fail
  <1>5. Typed'
    BY <1>0, <1>1, <1>2, <1>3, <1>4 DEF Typed
  <1>6. Published'
    BY <1>0, <1>2, <1>3
       DEF RunJob, Start, Resolve, Download, Verify, Publish, Register, Finish, Undo,
           Fail, Sweep, Typed, Published, None
  <1>7. WorkShown'
    BY <1>0, <1>1, <1>3
       DEF RunJob, Start, Resolve, Download, Verify, Publish, Register, Finish, Undo,
           Fail, Sweep, Typed, WorkShown, AtWork, Active
  <1>8. NothingLeft'
    <2> SUFFICES ASSUME NEW i \in Jobs, pc'[i] = "done"
                 PROVE  /\ i \notin staged'
                        /\ i \notin registered' => dest'[Target(i)] # i
      BY <1>1 DEF NothingLeft
    <2>1. CASE i = j
      <3>1. Sweep(j)
        BY <1>0, <2>1
           DEF RunJob, Start, Resolve, Download, Verify, Publish, Register, Finish, Undo,
               Fail, Sweep, Typed
      <3> QED
        BY <1>0, <1>2, <2>1, <3>1, DownloadJobsAssumption
           DEF Sweep, Published, Typed, None, Jobs
    <2>2. CASE i # j
      <3>1. i \notin staged /\ (i \notin registered => dest[Target(i)] # i)
        BY <1>0, <1>3, <2>2 DEF NothingLeft
      <3>2. Target(i) \in Targets /\ i # None /\ pc[i] = "done"
        BY <1>0, <1>3, <2>2, TargetOfJob DEF Typed
      <3> QED
        BY <1>0, <1>2, <1>4, <2>2, <3>1, <3>2
           DEF RunJob, Start, Resolve, Download, Verify, Publish, Register, Finish, Undo,
               Fail, Sweep, Typed, None
    <2> QED
      BY <2>1, <2>2
  <1> QED
    BY <1>5, <1>6, <1>7, <1>8 DEF IInv

LEMMA NextIInv == IInv /\ [Next]_vars => IInv'
  <1> SUFFICES ASSUME IInv, [Next]_vars PROVE IInv'
    OBVIOUS
  <1>1. CASE UNCHANGED vars
    BY <1>1 DEF vars, flags, IInv, Typed, Published, WorkShown, NothingLeft, created, Target
  <1>2. CASE Crash
    BY <1>2 DEF Crash, flags, IInv, Typed, Published, WorkShown, NothingLeft, created, Target,
                Places, AtWork
  <1> QED
    BY <1>1, <1>2, CreateStep, CancelStep, ThreadStep DEF Next

(***************************************************************************)
(* The pool and the jobs of one key.                                       *)
(***************************************************************************)
\* The pool runs no more threads than it has: Start is the only step that adds one, and
\* there was room for it.
PoolKept == Cardinality(Running) <= Pool

LEMMA PoolStep ==
  ASSUME Typed, PoolKept, [Next]_vars
  PROVE  PoolKept'
  <1>0. /\ MaxJobs \in Nat /\ Pool \in Nat
        /\ IsFiniteSet(Running) /\ Cardinality(Running) \in Nat
        /\ Running \subseteq Jobs /\ created \in Nat
    <2>1. IsFiniteSet(Jobs) /\ MaxJobs \in Nat /\ Pool \in Nat
      BY DownloadJobsAssumption, FS_Interval DEF Jobs
    <2> QED
      BY <2>1, FS_Subset, FS_CardinalityType, CreatedNat DEF Running
  <1>1. ASSUME Running' \subseteq Running
        PROVE  PoolKept'
    <2>1. Cardinality(Running') <= Cardinality(Running) /\ Cardinality(Running') \in Nat
      BY <1>0, <1>1, FS_Subset, FS_CardinalityType
    <2> QED
      BY <1>0, <2>1 DEF PoolKept
  <1>2. ASSUME NEW j \in Jobs, Start(j)
        PROVE  PoolKept'
    <2>1. Running' = Running \cup {j} /\ j \notin Running /\ Cardinality(Running) < Pool
      BY <1>2 DEF Start, Goes, Running, Typed
    <2>2. Cardinality(Running') = Cardinality(Running) + 1
      BY <1>0, <2>1, FS_AddElement
    <2> QED
      BY <1>0, <2>1, <2>2 DEF PoolKept
  <1>3. ASSUME NEW j \in Jobs, RunJob(j), ~Start(j)
        PROVE  Running' \subseteq Running
    BY <1>3 DEF RunJob, Resolve, Download, Verify, Publish, Register, Finish, Undo, Fail, Sweep,
                Goes, Running, Typed
  <1>4. ASSUME NEW k \in Keys, CreateJob(k)
        PROVE  Running' \subseteq Running
    BY <1>4, KeysKept DEF CreateJob, Running, Typed
  <1>5. CASE \/ CancelWrites \/ Crash \/ UNCHANGED vars
             \/ \E j \in Jobs : CancelReads(j)
    <2>1. Running' \subseteq Running
      BY <1>5 DEF CancelWrites, Crash, CancelReads, vars, flags, Running
    <2> QED
      BY <1>1, <2>1
  <1> QED
    BY <1>1, <1>2, <1>3, <1>4, <1>5 DEF Next

\* A new job finds no active one of its key, as list_jobs shows all there are; afterwards no
\* row becomes active but that of a job at work, which was active or withdrawn.
LEMMA OneJobStep ==
  ASSUME MaxJobs <= ListLimit, IInv, OneJobPerKey, [Next]_vars
  PROVE  OneJobPerKey'
  <1>0. /\ Typed /\ WorkShown /\ created \in Nat /\ 1..created \subseteq Jobs
        /\ MaxJobs \in Nat /\ ListLimit \in Nat
    BY CreatedNat, DownloadJobsAssumption DEF IInv
  <1>1. ASSUME key' = key, withdrawn \subseteq withdrawn',
               \A j \in Jobs : row'[j] \in Active => row[j] \in Active \/ j \in withdrawn
        PROVE  OneJobPerKey'
    <2>1. created' = created
      BY <1>1 DEF created
    <2> QED
      BY <1>0, <1>1, <2>1 DEF OneJobPerKey
  <1>2. ASSUME NEW k \in Keys, CreateJob(k)
        PROVE  OneJobPerKey'
    <2>1. /\ created' = created + 1 /\ created' \in Jobs /\ key'[created'] = k
          /\ \A j \in 1..created : key'[j] = key[j]
          /\ 1..created' = (1..created) \cup {created'} /\ created' \notin 1..created
      BY <1>0, <1>2, KeysKept
    <2>2. \A j \in 1..created : key[j] = k => row[j] \notin Active
      <3>1. \A j \in 1..created : created - j < ListLimit
        BY <1>0 DEF Typed
      <3> QED
        BY <1>2, <3>1 DEF CreateJob, Existing
    <2>3. withdrawn' = withdrawn /\ \A j \in 1..created : row'[j] = row[j]
      BY <1>0, <1>2, <2>1 DEF CreateJob, Typed
    <2> QED
      BY <2>1, <2>2, <2>3 DEF OneJobPerKey
  <1>3. ASSUME NEW j \in Jobs, RunJob(j)
        PROVE  OneJobPerKey'
    <2>1. key' = key /\ withdrawn' = withdrawn
      BY <1>3 DEF RunJob, Start, Resolve, Download, Verify, Publish, Register, Finish, Undo,
                  Fail, Sweep, flags
    <2>2. \/ row' = row
          \/ pc[j] \in AtWork /\ \E s : row' = [row EXCEPT ![j] = s]
          \/ row' = [row EXCEPT ![j] = "failed"]
      BY <1>3 DEF RunJob, Start, Resolve, Download, Verify, Publish, Register, Finish, Undo,
                  Fail, Sweep, Shows, AtWork
    <2>3. \A i \in Jobs : row'[i] \in Active => row[i] \in Active \/ i \in withdrawn
      BY <1>0, <2>2 DEF Typed, WorkShown, Active
    <2> QED
      BY <1>1, <2>1, <2>3
  <1>4. CASE \/ CancelWrites \/ Crash \/ UNCHANGED vars
             \/ \E j \in Jobs : CancelReads(j)
    <2>1. key' = key /\ withdrawn \subseteq withdrawn'
      BY <1>4 DEF CancelWrites, Crash, CancelReads, vars, flags
    <2>2. \A j \in Jobs : row'[j] \in Active => row[j] \in Active
      BY <1>0, <1>4 DEF CancelWrites, Crash, CancelReads, vars, flags, Typed, Active
    <2> QED
      BY <1>1, <2>1, <2>2
  <1> QED
    BY <1>2, <1>3, <1>4 DEF Next

(***************************************************************************)
(* The theorems.                                                           *)
(***************************************************************************)
\* The invariant holds in every reachable state.
THEOREM Invariance == Spec => []IInv
  <1>1. Init => IInv
    BY InitIInv
  <1> QED
    BY <1>1, NextIInv, PTL DEF Spec

\* Every variable keeps its type and the pool of threads is never exceeded, for every number
\* of jobs and size of the pool.
THEOREM TypeCorrect == Spec => []TypeOK
  <1>1. Init => PoolKept
    <2>1. Init => Running = {}
      BY DEF Init, Running
    <2> QED
      BY <2>1, FS_EmptySet, DownloadJobsAssumption DEF PoolKept
  <1>2. IInv /\ PoolKept /\ [Next]_vars => PoolKept'
    BY PoolStep DEF IInv
  <1>3. IInv /\ PoolKept => TypeOK
    BY DEF IInv, Typed, PoolKept, TypeOK
  <1> QED
    BY <1>1, <1>2, <1>3, Invariance, PTL DEF Spec

\* A job whose thread has ended without making the model ready leaves no staging directory
\* and no files of its own at its target, wherever it failed and whoever raced it.
THEOREM LeavesNothing == Spec => []NothingLeft
  <1>1. IInv => NothingLeft
    BY DEF IInv
  <1> QED
    BY <1>1, Invariance, PTL

\* As long as the list that create_job searches shows every job, two jobs are active for one
\* key only after one of them was reported cancelled.
THEOREM OneAtATime == ASSUME MaxJobs <= ListLimit PROVE Spec => []OneJobPerKey
  <1>1. Init => OneJobPerKey
    BY InitIInv
  <1>2. IInv /\ OneJobPerKey /\ [Next]_vars => OneJobPerKey'
    BY OneJobStep
  <1> QED
    BY <1>1, <1>2, Invariance, PTL DEF Spec
=============================================================================
