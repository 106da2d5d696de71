---------------------------- MODULE DownloadJobs ----------------------------
(***************************************************************************)
(* The model download jobs of src/model_download_jobs.py as the API of     *)
(* src/api/routes_models.py uses them: rows in SQLite, a pool of threads   *)
(* that runs _run_job, the directories it makes and the model registry.    *)
(*                                                                         *)
(* The API's handlers run one at a time on the event loop.  A row's        *)
(* update, a rename and a registration are one step each; everything else  *)
(* may come between two of them: another thread, a handler, or the end of  *)
(* the process, after which rows and directories are what is left.         *)
(***************************************************************************)
EXTENDS Naturals, Sequences, FiniteSets

CONSTANTS Keys,       \* what a request asks for: source, target and model id
          Targets,    \* directories
          TargetOf,   \* the directory of each key
          MaxJobs,    \* jobs 1..MaxJobs, in the order of their creation
          Pool,       \* threads of _download_executor
          ListLimit,  \* jobs that list_jobs returns
          MaxCancel,  \* jobs that are cancelled
          MaxCrash    \* ends of the process

ASSUME DownloadJobsAssumption ==
    /\ TargetOf \in [Keys -> Targets]
    /\ {MaxJobs, Pool, ListLimit} \subseteq Nat \ {0} /\ {MaxCancel, MaxCrash} \subseteq Nat

Jobs == 1..MaxJobs
None == 0
Active == {"queued", "downloading", "verifying", "registering"}
Statuses == Active \cup {"none", "ready", "failed", "cancelled"}

VARIABLES
    row,       \* the status of each job in model_download_jobs
    key,       \* what each job was asked for, in the order of their creation
    pc,        \* how far the thread of each job is
    staged,    \* the jobs that have a staging directory
    dest,      \* whose files each target directory holds
    published, \* _run_job's published and registered
    registered,
    asking,    \* the job that cancel_job has found queued
    crashes,   \* ends of the process so far
    withdrawn  \* history: the jobs that were reported cancelled

vars == <<row, key, pc, staged, dest, published, registered, asking, crashes, withdrawn>>
flags == <<published, registered>>

created == Len(key)
Target(j) == TargetOf[key[j]]
Running == {j \in Jobs : pc[j] \notin {"none", "pooled", "done"}}

Init ==
    /\ row = [j \in Jobs |-> "none"] /\ key = <<>>
    /\ pc = [j \in Jobs |-> "none"]
    /\ staged = {} /\ dest = [t \in Targets |-> None]
    /\ published = {} /\ registered = {}
    /\ asking = None /\ crashes = 0 /\ withdrawn = {}

(***************************************************************************)
(* The handlers of the API.                                                *)
(***************************************************************************)
\* Mutant: list_jobs is not asked for the job that exists.
NothingExists(k) == FALSE

\* create_job finds an active job of the same source, target and model id, and finds it again
\* among the newest ones.
Existing(k) == \E j \in 1..created : /\ key[j] = k /\ row[j] \in Active
                                     /\ created - j < ListLimit

\* create_job with a new row, handed to the pool.
CreateJob(k) ==
    /\ created < MaxJobs /\ asking = None
    /\ ~Existing(k)
    /\ key' = Append(key, k)
    /\ row' = [row EXCEPT ![created'] = "queued"]
    /\ pc' = [pc EXCEPT ![created'] = "pooled"]
    /\ UNCHANGED <<staged, dest, flags, asking, crashes, withdrawn>>

\* cancel_job reads the row of a queued job ...
CancelReads(j) ==
    /\ asking = None /\ row[j] = "queued"
    /\ Cardinality(withdrawn) < MaxCancel
    /\ asking' = j
    /\ UNCHANGED <<row, key, pc, staged, dest, flags, crashes, withdrawn>>

\* ... and writes it, whatever the thread has made of it meanwhile.
CancelWrites ==
    /\ asking # None
    /\ row' = [row EXCEPT ![asking] = "cancelled"]
    /\ withdrawn' = withdrawn \cup {asking}
    /\ asking' = None
    /\ UNCHANGED <<key, pc, staged, dest, flags, crashes>>

(***************************************************************************)
(* _run_job, in a thread of the pool.                                      *)
(***************************************************************************)
Goes(j, where) == pc' = [pc EXCEPT ![j] = where]
Shows(j, status) == row' = [row EXCEPT ![j] = status]

\* Mutant: the pool runs one task too many.
StartOneMore(j) ==
    /\ pc[j] = "pooled" /\ Cardinality(Running) <= Pool
    /\ Shows(j, "downloading") /\ Goes(j, "resolve")
    /\ UNCHANGED <<key, staged, dest, flags, asking, crashes, withdrawn>>

\* The first update of the row, which does not look at it.
Start(j) ==
    /\ pc[j] = "pooled" /\ Cardinality(Running) < Pool
    /\ Shows(j, "downloading") /\ Goes(j, "resolve")
    /\ UNCHANGED <<key, staged, dest, flags, asking, crashes, withdrawn>>

\* The target must not exist; a staging directory is made next to it.
Resolve(j) ==
    /\ pc[j] = "resolve"
    /\ IF dest[Target(j)] = None
       THEN staged' = staged \cup {j} /\ Goes(j, "download")
       ELSE Goes(j, "fail") /\ UNCHANGED staged
    /\ UNCHANGED <<row, key, dest, flags, asking, crashes, withdrawn>>

\* _download succeeds, or raises.
Download(j) ==
    /\ pc[j] = "download"
    /\ \/ Shows(j, "verifying") /\ Goes(j, "verify")
       \/ Goes(j, "fail") /\ UNCHANGED row
    /\ UNCHANGED <<key, staged, dest, flags, asking, crashes, withdrawn>>

\* _verify, _infer_artifact and the manifest.
Verify(j) ==
    /\ pc[j] = "verify"
    /\ \/ Shows(j, "registering") /\ Goes(j, "publish")
       \/ Goes(j, "fail") /\ UNCHANGED row
    /\ UNCHANGED <<key, staged, dest, flags, asking, crashes, withdrawn>>

\* staging.replace(destination) refuses a directory that is not empty.
Publish(j) ==
    /\ pc[j] = "publish"
    /\ IF dest[Target(j)] = None
       THEN /\ dest' = [dest EXCEPT ![Target(j)] = j]
            /\ staged' = staged \ {j} /\ published' = published \cup {j}
            /\ Goes(j, "register")
       ELSE Goes(j, "fail") /\ UNCHANGED <<dest, staged, published>>
    /\ UNCHANGED <<row, key, registered, asking, crashes, withdrawn>>

\* _register looks at the files again and saves the model; what raises is undone.
Register(j) ==
    /\ pc[j] = "register"
    /\ \/ /\ dest[Target(j)] # None
          /\ registered' = registered \cup {j} /\ Goes(j, "finish")
       \/ Goes(j, "undo") /\ UNCHANGED registered
    /\ UNCHANGED <<row, key, staged, dest, published, asking, crashes, withdrawn>>

Finish(j) ==
    /\ pc[j] = "finish"
    /\ Shows(j, "ready") /\ Goes(j, "sweep")
    /\ UNCHANGED <<key, staged, dest, flags, asking, crashes, withdrawn>>

\* The handler of the exception removes what was published without being registered ...
Undo(j) ==
    /\ pc[j] = "undo"
    /\ dest' = [dest EXCEPT ![Target(j)] = None]
    /\ Goes(j, "fail")
    /\ UNCHANGED <<row, key, staged, flags, asking, crashes, withdrawn>>

\* Mutant: the exception is not written back to the row.
FailUnseen(j) ==
    /\ pc[j] = "fail" /\ Goes(j, "sweep")
    /\ UNCHANGED <<row, key, staged, dest, flags, asking, crashes, withdrawn>>

\* ... and writes the row, _fail_job.
Fail(j) ==
    /\ pc[j] = "fail"
    /\ Shows(j, "failed") /\ Goes(j, "sweep")
    /\ UNCHANGED <<key, staged, dest, flags, asking, crashes, withdrawn>>

\* Mutant: only what was published is removed.
SweepPublished(j) ==
    /\ pc[j] = "sweep" /\ Goes(j, "done")
    /\ dest' = IF j \in published \ registered THEN [dest EXCEPT ![Target(j)] = None] ELSE dest
    /\ UNCHANGED <<row, key, staged, flags, asking, crashes, withdrawn>>

\* The finally block removes the staging directory, and once more what was published without
\* being registered.
Sweep(j) ==
    /\ pc[j] = "sweep" /\ Goes(j, "done")
    /\ staged' = staged \ {j}
    /\ dest' = IF j \in published \ registered THEN [dest EXCEPT ![Target(j)] = None] ELSE dest
    /\ UNCHANGED <<row, key, flags, asking, crashes, withdrawn>>

\* The process ends and starts again: nothing resumes the jobs that were under way.
Crash ==
    /\ crashes < MaxCrash
    /\ crashes' = crashes + 1
    /\ pc' = [j \in Jobs |-> "none"] /\ asking' = None
    /\ UNCHANGED <<row, key, staged, dest, flags, withdrawn>>

RunJob(j) == \/ Start(j) \/ Resolve(j) \/ Download(j) \/ Verify(j) \/ Publish(j)
             \/ Register(j) \/ Finish(j) \/ Undo(j) \/ Fail(j) \/ Sweep(j)

Next ==
    \/ CancelWrites \/ Crash
    \/ \E k \in Keys : CreateJob(k)
    \/ \E j \in Jobs : CancelReads(j) \/ RunJob(j)

Spec == Init /\ [][Next]_vars

\* A thread that can go on does, the pool serves every task, and a handler that has begun
\* ends.  Downloads end one way or the other.
FairSpec == Spec /\ WF_vars(CancelWrites) /\ \A j \in Jobs : WF_vars(RunJob(j))

(***************************************************************************)
(* Properties.                                                             *)
(***************************************************************************)
\* The type of the state; the pool is never exceeded.
TypeOK ==
    /\ row \in [Jobs -> Statuses] /\ key \in Seq(Keys)
    /\ asking \in Jobs \cup {None}
    /\ staged \subseteq 1..created /\ dest \in [Targets -> 0..created]
    /\ registered \subseteq published /\ published \subseteq 1..created
    /\ Cardinality(Running) <= Pool

\* What a job that did not become ready leaves behind, once its thread has ended without the
\* process: no staging directory, and no files at its target.
NothingLeft ==
    \A j \in Jobs : pc[j] = "done" =>
        /\ j \notin staged
        /\ j \notin registered => dest[Target(j)] # j

\* Two jobs are at work on the same source, target and model only after the first of them
\* was reported cancelled.
OneJobPerKey ==
    \A i, j \in 1..created :
        (i # j /\ key[i] = key[j] /\ {row[i], row[j]} \subseteq Active)
            => {i, j} \cap withdrawn # {}

\* Whoever polls a job sees it end, unless the process does.
JobsEnd ==
    \A j \in Jobs : (row[j] \in Active) ~> (row[j] \notin Active \/ crashes > 0)

\* A model that was registered is on disk: its directory holds the files of the job that
\* registered it.
RegisteredOnDisk == \A j \in registered : dest[Target(j)] = j

\* A job that was reported cancelled stays cancelled.
CancelledStays == [][\A j \in Jobs : row[j] = "cancelled" => row'[j] = "cancelled"]_vars
=============================================================================
