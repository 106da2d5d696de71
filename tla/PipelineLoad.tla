---------------------------- MODULE PipelineLoad ----------------------------
(***************************************************************************)
(* The master's load of a pipeline model over its stage workers: the       *)
(* candidate transaction of src/scheduler_pipeline.py and                  *)
(* src/worker_prepare_coordinator.py, the ledger of cleanups it owes, and  *)
(* what a restart recovers of both.                                        *)
(*                                                                         *)
(* A transaction prepares every worker, loads the master's own segment,    *)
(* commits every worker, swaps the master's runtime and publishes the      *)
(* plan; anything that goes wrong before that aborts it, anything after    *)
(* retires it.  _layer_config_lock guards the master's fields and is       *)
(* released around every send and every native call, so an action below    *)
(* is one stretch of code under the lock.  What a thread still has to do   *)
(* after unlocking is a member of todo; two threads may stand there at     *)
(* once.  Frames to one worker are sent by several threads after           *)
(* unlocking and can overtake each other; a worker's acknowledgements come *)
(* back in order, through one reader.                                      *)
(*                                                                         *)
(* Workers are the promise WorkerPrepare studies in detail: one command    *)
(* at a time, everything given up when the connection is lost.             *)
(***************************************************************************)
EXTENDS Integers, Sequences, FiniteSets

CONSTANTS Workers, Master,
          MaxTxn,      \* transactions 1..MaxTxn
          MaxReg,      \* registrations of one worker
          MaxCrash,    \* restarts of the master
          MaxFault,    \* links that break and changes of the master's own model
          MaxRetry,    \* commands sent again while an answer is still under way
          MaxDeath     \* committed runtimes that die

ASSUME PipelineLoadAssumption ==
    /\ Master \notin Workers
    /\ {MaxTxn, MaxReg} \subseteq Nat \ {0}
    /\ {MaxCrash, MaxFault, MaxRetry, MaxDeath} \subseteq Nat

None == 0
Ids == 1..MaxTxn
InProgress == {"preparing", "committing_local", "committing", "committing_global"}
Over == {"aborted", "invalidated"}
Cleanups == {"abort", "finalize", "release"}

VARIABLES
    txn,      \* _pipeline_load_transaction
    next,     \* the next transaction's config id
    plan,     \* _active_pipeline_capacity_plan
    assigned, \* _worker_assignments: the ready assignment of each worker and its connection
    ledger,   \* _pipeline_model_cleanup_ledger
    todo,     \* what the threads of the master still have to do
    host,     \* the master's own candidate runtime (ModelHost)
    disk,     \* the persisted lifecycle record
    rec,      \* _pipeline_recovery_state: the record this process found when it started
    conn,     \* the server's registration of each worker
    lost,     \* whether a worker's link is cut, and how far its disconnect callback is
    wire,     \* commands on their way to the workers
    acks,     \* acknowledgements on their way back
    wk,       \* the workers
    used,     \* restarts, broken links or model changes, early retries and deaths so far (bounds)
    shown     \* history: the transactions that were published

master == <<txn, next, plan, assigned, ledger, todo, host, disk, rec>>
vars == <<txn, next, plan, assigned, ledger, todo, host, disk, rec, conn, lost, wire,
          acks, wk, used, shown>>

NoTxn == [id |-> None, phase |-> "none", workers |-> {}, conn |-> [w \in Workers |-> 0],
          prepared |-> {}, ready |-> {}, published |-> FALSE, cancel |-> FALSE]
NoPlan == [id |-> None, workers |-> {}]
NoDisk == [id |-> None, phase |-> "none", published |-> FALSE, workers |-> {}, ledger |-> {}]
NoAssignment == [id |-> None, conn |-> 0]
NoHost == [id |-> None, phase |-> "idle", act |-> None, prev |-> None]

Some(S) == S \ {None}
Connected == {w \in Workers : conn[w].up}
Linked(w) == conn[w].up /\ lost[w] # "cut"
Debt(n, i, a) == [node |-> n, id |-> i, act |-> a]
Task(d, i) == [do |-> d, id |-> i]

(***************************************************************************)
(* A stage worker: one command, applied whole.                             *)
(***************************************************************************)
NewWorker == [latest |-> None, cand |-> None, phase |-> "idle", act |-> None, prev |-> None,
              pending |-> {}, retired |-> {}, fenced |-> TRUE, dead |-> {}]

\* The identities whose weights the worker has in memory.
Held(k) == Some({k.act, k.prev}) \cup k.pending
           \cup (IF k.phase = "prepared" THEN {k.cand} ELSE {})

Answer(ok, k) == [ok |-> ok, k |-> k]

\* handle and _apply, prepare.  A newer identity fences the stages first; loading may fail.
Prepare(k, i) ==
    LET seen == IF i > k.latest THEN [k EXCEPT !.latest = i, !.fenced = TRUE] ELSE k
        again == k.cand = i /\ k.phase \in {"prepared", "committed", "finalized"}
        dropped == IF k.phase \in {"prepared", "failed"} THEN Some({k.cand}) ELSE {}
        fresh == [seen EXCEPT !.cand = i, !.retired = @ \cup dropped]
    IN  IF \/ i \in k.retired \/ i # seen.latest \/ k.pending # {}
           \/ ~again /\ k.phase = "committed"
        THEN {Answer(FALSE, seen)}
        ELSE IF again THEN {Answer(i \notin k.dead, seen)}
        ELSE {Answer(TRUE, [fresh EXCEPT !.phase = "prepared"]),
              Answer(FALSE, [fresh EXCEPT !.phase = "failed"])}

\* _apply, commit.
Commit(k, i) ==
    IF i # k.latest \/ k.cand # i \/ k.phase \notin {"prepared", "committed", "finalized"}
    THEN {Answer(FALSE, k)}
    ELSE IF k.phase # "prepared" THEN {Answer(i \notin k.dead, k)}
    ELSE {Answer(TRUE, [k EXCEPT !.prev = k.act, !.act = i, !.phase = "committed",
                                 !.fenced = FALSE])}

\* What an identity leaves behind once it is gone.
Without(k, i) ==
    [k EXCEPT !.act = IF @ = i THEN None ELSE @,
              !.cand = IF @ = i THEN None ELSE @,
              !.prev = IF i \in {@, k.act} THEN None ELSE @,
              !.pending = @ \ {i},
              !.retired = @ \cup {i} \cup (IF k.act = i THEN Some({k.prev}) ELSE {}),
              !.phase = IF k.cand = i THEN "released" ELSE @]

\* _apply, abort, finalize and release.
Settle(k, a, i) ==
    IF i \in k.retired \ Held(k) THEN Answer(TRUE, k)
    ELSE IF i \in k.pending \/ Held(k) = {} \/ (i = k.prev /\ i # k.cand)
         THEN Answer(TRUE, Without(k, i))
    ELSE IF a = "release"
         THEN IF i \in Held(k) /\ i \in {k.act, k.cand}
              THEN Answer(TRUE, [Without(k, i) EXCEPT !.fenced = TRUE])
              ELSE Answer(FALSE, k)
    ELSE IF k.cand # i THEN Answer(FALSE, k)
    ELSE IF a = "abort"
         THEN IF k.phase = "finalized" THEN Answer(FALSE, k)
              ELSE LET act == IF k.act = i THEN k.prev ELSE k.act
                   IN  Answer(TRUE, [k EXCEPT !.act = act, !.prev = None, !.cand = None,
                                              !.phase = "aborted", !.fenced = act = None,
                                              !.retired = @ \cup {i}])
    ELSE IF k.phase \in {"committed", "finalized"} /\ i \notin k.dead
         THEN Answer(TRUE, [k EXCEPT !.prev = None, !.phase = "finalized",
                                     !.retired = @ \cup Some({k.prev})])
         ELSE Answer(FALSE, k)

\* The answers a command may get.
Answers(k, m) ==
    CASE m.act = "prepare" -> Prepare(k, m.id)
      [] m.act = "commit" -> Commit(k, m.id)
      [] OTHER -> {Settle(k, m.act, m.id)}

\* invalidate, once the connection is lost.
GivenUp(k) == [k EXCEPT !.pending = Held(k), !.latest = None, !.cand = None, !.act = None,
                        !.prev = None, !.phase = "released", !.fenced = TRUE]

(***************************************************************************)
(* The master's bookkeeping, always under _layer_config_lock.              *)
(***************************************************************************)
\* _pipeline_lifecycle_snapshot_locked: without a transaction the recovered record is written
\* back with the current ledger; without that either, the ledger alone, unless it is empty.
Snapshot(t, l) ==
    IF t = NoTxn
    THEN IF rec # NoDisk THEN [rec EXCEPT !.ledger = l]
         ELSE IF l = {} THEN disk ELSE [NoDisk EXCEPT !.phase = "cleared", !.ledger = l]
    ELSE [id |-> t.id, phase |-> t.phase, published |-> t.published \/ t.phase = "ready",
          workers |-> t.workers, ledger |-> l]

\* _persist_pipeline_lifecycle_locked, at the end of a stretch that sets txn and ledger.
Persist == disk' = Snapshot(txn', ledger')

\* The debts of a transaction that is given up before it was published, and after.
AbortDebts(t) == {Debt(n, t.id, "abort") : n \in t.workers \cup {Master}}
ReleaseDebts(t) == {Debt(w, t.id, "release") : w \in t.workers}

\* _invalidate_pipeline_load_transaction.
Invalidated ==
    LET t == txn
        open == t # NoTxn /\ (t.phase \notin Over \/ t.published)
        published == t.published \/ t.phase = "ready"
    IN  /\ IF open
           THEN /\ txn' = [t EXCEPT !.phase = "invalidated"]
                /\ ledger' = ledger \cup (IF published THEN ReleaseDebts(t) ELSE AbortDebts(t))
                /\ Persist
           ELSE UNCHANGED <<txn, ledger, disk>>
        /\ plan' = NoPlan
        /\ assigned' = [w \in Workers |-> NoAssignment]

\* Mutant: an abort leaves no debts behind.
AbortOwesNothing(i) ==
    /\ txn' = IF txn.id = i /\ txn.phase \in InProgress THEN [txn EXCEPT !.phase = "aborted"] ELSE txn
    /\ UNCHANGED ledger
    /\ Persist
    /\ UNCHANGED <<plan, assigned>>

\* _abort_pipeline_load_transaction: what was published is retired instead.
Aborted(i) ==
    IF txn.id # i \/ (txn.phase \in Over /\ ~txn.published)
    THEN UNCHANGED <<txn, ledger, disk, plan, assigned>>
    ELSE IF txn.published \/ txn.phase = "ready" THEN Invalidated
    ELSE /\ txn' = [txn EXCEPT !.phase = "aborted"]
         /\ ledger' = ledger \cup AbortDebts(txn)
         /\ Persist
         /\ UNCHANGED <<plan, assigned>>

Init ==
    /\ txn = NoTxn /\ next = 1 /\ plan = NoPlan
    /\ assigned = [w \in Workers |-> NoAssignment]
    /\ ledger = {} /\ todo = {}
    /\ host = NoHost /\ disk = NoDisk /\ rec = NoDisk
    /\ conn = [w \in Workers |-> [up |-> TRUE, gen |-> 1]]
    /\ lost = [w \in Workers |-> "no"]
    /\ wire = {} /\ acks = [w \in Workers |-> <<>>]
    /\ wk = [w \in Workers |-> NewWorker]
    /\ used = [crash |-> 0, fault |-> 0, retry |-> 0, death |-> 0] /\ shown = {}

Network == <<rec, conn, lost, wire, acks, wk, used, shown>>

(***************************************************************************)
(* Starting a transaction.                                                 *)
(***************************************************************************)
\* Cleanups the admission waits for: start_pipeline_model_transaction reads which workers are
\* connected before it takes the lock, so a worker that has come back since may be missed.
Blockers(seen) == {d \in ledger : d.node = Master \/ d.node \in seen}

MaybeSeen == {S \in SUBSET Workers : \A w \in Workers \ S : ~conn[w].up \/ conn[w].gen > 1}

\* full_chat_execution_lock is held from the swap of the runtime to its publication, and
\* throughout a change of the local model, which admits no transaction.
Publishing == \E t \in todo : t.do = "publish"
ModelChanging == \E t \in todo : t.do \in {"clear", "retire_recovery"}

\* The local candidate is prepared, the transaction admitted, planned over W and persisted.
Begin(W) ==
    /\ next \in Ids /\ ~ModelChanging
    /\ host.phase \in {"idle", "aborted", "finalized"}
    /\ txn.phase \notin InProgress
    /\ \E seen \in MaybeSeen : Blockers(seen) = {}
    /\ W # {} /\ W \subseteq Connected
    /\ txn' = [NoTxn EXCEPT !.id = next, !.phase = "preparing", !.workers = W,
                            !.conn = [w \in Workers |-> conn[w].gen]]
    /\ next' = next + 1
    /\ host' = [host EXCEPT !.id = next, !.phase = "prepared", !.prev = None]
    /\ UNCHANGED <<plan, assigned, ledger, todo>>
    /\ Persist
    /\ UNCHANGED Network

(***************************************************************************)
(* Sending.                                                                *)
(***************************************************************************)
\* The phase a worker is expected to confirm, and who has.
Expected == IF txn.phase = "preparing" THEN "prepare" ELSE "commit"
Confirmed == IF txn.phase = "preparing" THEN txn.prepared ELSE txn.ready

\* The command, or a worker's answer to it, is still under way.
InFlight(m) ==
    m \in wire \/ \E n \in DOMAIN acks[m.node] :
                     acks[m.node][n].act = m.act /\ acks[m.node][n].id = m.id

\* A command goes out; the retry loop may not have waited for the answer to the last one.
\* On a link that is broken already it is lost, which changes nothing.
Send(m) ==
    /\ Linked(m.node) /\ m \notin wire
    /\ wire' = wire \cup {m}
    /\ InFlight(m) => used.retry < MaxRetry
    /\ used' = IF InFlight(m) THEN [used EXCEPT !.retry = @ + 1] ELSE used
    /\ UNCHANGED master
    /\ UNCHANGED <<conn, lost, acks, wk, shown>>

\* _send_pipeline_worker_config of a prepare or a commit, first or retried.
SendConfig(w) ==
    /\ txn.phase \in {"preparing", "committing"}
    /\ w \in txn.workers \ Confirmed
    /\ Send(Debt(w, txn.id, Expected))

\* _dispatch_pipeline_model_cleanup to a worker: at once, on its return, or by the retry loop.
Dispatch(d) == d \in ledger /\ d.node # Master /\ Send(d)

\* _dispatch_pipeline_model_cleanup of the master's own candidate.
DispatchLocal(d) ==
    /\ d \in ledger /\ d.node = Master /\ host.id = d.id
    /\ IF d.act = "finalize"
       THEN /\ host.phase \in {"committed", "finalized"}
            /\ host' = [host EXCEPT !.phase = "finalized", !.prev = None]
       ELSE /\ ~Publishing /\ host.phase # "finalized"
            /\ host' = [host EXCEPT !.phase = "aborted", !.prev = None,
                                    !.act = IF host.phase = "committed" THEN host.prev ELSE @]
    /\ ledger' = ledger \ {d}
    /\ UNCHANGED <<txn, next, plan, assigned, todo>>
    /\ Persist
    /\ UNCHANGED Network

(***************************************************************************)
(* The workers.                                                            *)
(***************************************************************************)
WorkerApplies(m) ==
    /\ m \in wire
    /\ \E r \in Answers(wk[m.node], m) :
         /\ wk' = [wk EXCEPT ![m.node] = r.k]
         /\ acks' = [acks EXCEPT ![m.node] = Append(@, [act |-> m.act, id |-> m.id, ok |-> r.ok])]
    /\ wire' = wire \ {m}
    /\ UNCHANGED master
    /\ UNCHANGED <<conn, lost, used, shown>>

\* What a lost connection left is retired.
Retired(k) == [k EXCEPT !.pending = {}, !.retired = @ \cup k.pending]

\* The runner retires what the lost connection left.
WorkerRetires(w) ==
    /\ wk[w].pending # {}
    /\ wk' = [wk EXCEPT ![w] = Retired(@)]
    /\ UNCHANGED master
    /\ UNCHANGED <<conn, lost, wire, acks, used, shown>>

\* The native child of a committed segment dies.
Dies(w) ==
    /\ wk[w].act \notin {None} \cup wk[w].dead
    /\ used.death < MaxDeath
    /\ used' = [used EXCEPT !.death = @ + 1]
    /\ wk' = [wk EXCEPT ![w] = [@ EXCEPT !.dead = wk[w].dead \cup {wk[w].act}]]
    /\ UNCHANGED master
    /\ UNCHANGED <<conn, lost, wire, acks, shown>>

(***************************************************************************)
(* Acknowledgements.                                                       *)
(***************************************************************************)
\* The acknowledgement belongs to the current transaction and to the connection it began on.
Current(w, a) ==
    /\ txn.id = a.id /\ w \in txn.workers
    /\ conn[w].up /\ txn.conn[w] = conn[w].gen

\* _ack_pipeline_model_cleanup.
CleanupAcked(w, a) ==
    /\ IF a.ok /\ Debt(w, a.id, a.act) \in ledger
       THEN /\ ledger' = ledger \ {Debt(w, a.id, a.act)}
            /\ assigned' = IF a.act = "release" /\ assigned[w].id = a.id
                           THEN [assigned EXCEPT ![w] = NoAssignment] ELSE assigned
            /\ UNCHANGED txn
            /\ Persist
       ELSE UNCHANGED <<ledger, assigned, txn, disk>>
    /\ UNCHANGED todo

\* A worker could not prepare or commit: the transaction is given up after unlocking.
ConfigRefused(w, a) ==
    /\ IF a.act = Expected /\ txn.phase \in {"preparing", "committing", "committing_global", "ready"}
       THEN /\ txn' = [txn EXCEPT !.ready = @ \ {w}]
            /\ todo' = todo \cup {Task(IF txn.phase = "ready" THEN "retire" ELSE "abort", a.id)}
       ELSE UNCHANGED <<txn, todo>>
    /\ UNCHANGED <<ledger, assigned, disk>>

\* A worker has prepared or committed; the last one moves the transaction on.
ConfigAcked(w, a) ==
    LET prepared == txn.prepared \cup {w}
        ready == txn.ready \cup {w}
    IN  /\ IF a.act = "prepare" /\ txn.phase = "preparing"
           THEN /\ txn' = [txn EXCEPT !.prepared = prepared]
                /\ todo' = todo \cup (IF prepared = txn.workers
                                      THEN {Task("commit", a.id)} ELSE {})
                /\ UNCHANGED ledger
                /\ Persist
           ELSE IF a.act = "commit" /\ txn.phase = "committing"
           THEN /\ txn' = [txn EXCEPT !.ready = ready,
                             !.phase = IF ready = txn.workers THEN "committing_global" ELSE @]
                /\ todo' = todo \cup (IF ready = txn.workers
                                      THEN {Task("complete", a.id)} ELSE {})
                /\ UNCHANGED ledger
                /\ Persist
           ELSE UNCHANGED <<txn, todo, ledger, disk>>
        /\ UNCHANGED assigned

\* _handle_worker_prepare_ack.
HandleAck(w) ==
    /\ acks[w] # <<>>
    /\ LET a == Head(acks[w])
       IN  IF a.act \in Cleanups THEN CleanupAcked(w, a)
           ELSE IF ~Current(w, a) THEN UNCHANGED <<txn, todo, ledger, assigned, disk>>
           ELSE IF a.ok THEN ConfigAcked(w, a) ELSE ConfigRefused(w, a)
    /\ acks' = [acks EXCEPT ![w] = Tail(@)]
    /\ UNCHANGED <<next, plan, host, rec, conn, lost, wire, wk, used, shown>>

(***************************************************************************)
(* What a thread does after unlocking.                                     *)
(***************************************************************************)
Instead(t, S) == todo' = (todo \ {t}) \cup S

\* _commit_pipeline_load_transaction, up to the native load.
CommitLocal(t) ==
    /\ t \in todo /\ t.do = "commit"
    /\ IF txn.id = t.id /\ txn.phase = "preparing"
       THEN /\ txn' = [txn EXCEPT !.phase = "committing_local"]
            /\ Instead(t, {Task("materialize", t.id)})
            /\ UNCHANGED ledger
            /\ Persist
       ELSE Instead(t, {}) /\ UNCHANGED <<txn, ledger, disk>>
    /\ UNCHANGED <<next, plan, assigned, host>>
    /\ UNCHANGED Network

\* materialize_pipeline_candidate, without the lock: it may fail, and then cleans up.
Materialize(t) ==
    /\ t \in todo /\ t.do = "materialize"
    /\ \/ /\ host.id = t.id /\ host.phase = "prepared"
          /\ host' = [host EXCEPT !.phase = "materialized"]
          /\ Instead(t, {Task("send", t.id)})
       \/ /\ host' = IF host.id = t.id /\ host.phase = "prepared"
                     THEN [host EXCEPT !.phase = "aborted"] ELSE host
          /\ Instead(t, {Task("abort", t.id)})
    /\ UNCHANGED <<txn, next, plan, assigned, ledger, disk>>
    /\ UNCHANGED Network

\* Mutant: the transaction is not looked at again after the native load.
CommitUnchecked(t) ==
    /\ t \in todo /\ t.do = "send"
    /\ Instead(t, {})
    /\ txn' = IF txn.id = t.id THEN [txn EXCEPT !.phase = "committing"] ELSE txn
    /\ UNCHANGED ledger
    /\ Persist
    /\ UNCHANGED <<next, plan, assigned, host>>
    /\ UNCHANGED Network

\* The rest of it: unless it was superseded meanwhile, the workers are to commit.
CommitWorkers(t) ==
    /\ t \in todo /\ t.do = "send"
    /\ Instead(t, {})
    /\ IF txn.id = t.id /\ txn.phase = "committing_local"
       THEN /\ txn' = [txn EXCEPT !.phase = "committing"]
            /\ UNCHANGED ledger
            /\ Persist
       ELSE UNCHANGED <<txn, ledger, disk>>
    /\ UNCHANGED <<next, plan, assigned, host>>
    /\ UNCHANGED Network

\* _complete_pipeline_load_transaction, up to commit_pipeline_candidate; it gives up when the
\* node was switched to local mode or the swap fails.
SwapLocal(t) ==
    /\ t \in todo /\ t.do = "complete" /\ ~Publishing /\ ~ModelChanging
    /\ LET due == txn.id = t.id /\ txn.phase = "committing_global"
       IN  \/ /\ due /\ host.id = t.id /\ host.phase = "materialized"
              /\ host' = [host EXCEPT !.phase = "committed", !.act = t.id, !.prev = host.act]
              /\ Instead(t, {Task("publish", t.id)})
           \/ due /\ Instead(t, {Task("abort", t.id)}) /\ UNCHANGED host
           \/ ~due /\ Instead(t, {}) /\ UNCHANGED host
    /\ UNCHANGED <<txn, next, plan, assigned, ledger, disk>>
    /\ UNCHANGED Network

\* Mutant: the connections are not looked at again after the swap.
PublishableUnchecked(i) == txn.id = i /\ txn.phase = "committing_global"

\* Nothing has revoked the transaction since its workers acknowledged their commits.
Publishable(i) ==
    /\ txn.id = i /\ txn.phase = "committing_global" /\ ~txn.cancel
    /\ \A w \in txn.workers : conn[w].up /\ conn[w].gen = txn.conn[w] /\ w \in txn.ready

\* The rest of it: the plan is published, what it replaces is owed a release and what it
\* makes final a finalize; or the transaction is given up (the reshard commit may fail too).
Publish(t) ==
    /\ t \in todo /\ t.do = "publish"
    /\ \/ /\ Publishable(t.id)
          /\ txn' = [txn EXCEPT !.phase = "ready", !.published = TRUE]
          /\ plan' = [id |-> txn.id, workers |-> txn.workers]
          /\ assigned' = [w \in Workers |-> IF w \in txn.workers
                                            THEN [id |-> txn.id, conn |-> txn.conn[w]]
                                            ELSE assigned[w]]
          /\ ledger' = ledger
               \cup {Debt(w, assigned[w].id, "release") :
                        w \in {v \in Workers \ txn.workers : assigned[v].id # None}}
               \cup {Debt(n, txn.id, "finalize") : n \in txn.workers \cup {Master}}
          /\ Persist
          /\ Instead(t, {})
          /\ shown' = shown \cup {t.id}
       \/ /\ Instead(t, {Task("abort", t.id)})
          /\ UNCHANGED <<txn, plan, assigned, ledger, disk, shown>>
    /\ UNCHANGED <<next, host, rec, conn, lost, wire, acks, wk, used>>

\* The abort or the retirement a thread decided on before it unlocked.
GiveUp(t) ==
    /\ t \in todo
    /\ \/ t.do = "abort" /\ Aborted(t.id)
       \/ t.do = "retire" /\ Invalidated
    /\ Instead(t, {})
    /\ UNCHANGED <<next, host>>
    /\ UNCHANGED Network

(***************************************************************************)
(* Deadlines, cancellation and model changes.                              *)
(***************************************************************************)
\* _retry_pending_layer_configs: the transaction's deadline has passed.
Deadline ==
    /\ txn.phase \in InProgress
    /\ Aborted(txn.id)
    /\ UNCHANGED <<next, todo, host>>
    /\ UNCHANGED Network

\* cancel_worker_prepare_operation.
Cancel ==
    /\ txn.phase \in InProgress /\ ~txn.cancel
    /\ txn' = [txn EXCEPT !.cancel = TRUE]
    /\ todo' = todo \cup {Task("abort", txn.id)}
    /\ UNCHANGED <<next, plan, assigned, ledger, host, disk>>
    /\ UNCHANGED Network

\* _run_exclusive_model_change: the master's own runtime is replaced by another model, then
\* the pipeline is retired ...
ModelChange ==
    /\ ~Publishing /\ ~ModelChanging
    /\ txn # NoTxn \/ rec.phase \in InProgress \cup {"ready"}
    /\ used.fault < MaxFault
    /\ used' = [used EXCEPT !.fault = @ + 1]
    /\ host' = [host EXCEPT !.act = None]
    /\ Invalidated
    /\ todo' = todo \cup {Task("clear", None)}
    /\ UNCHANGED <<next, rec, conn, lost, wire, acks, wk, shown>>

\* ... the transaction is forgotten, its debts are not ...
Clear(t) ==
    /\ t \in todo /\ t.do = "clear"
    /\ txn' = NoTxn /\ plan' = NoPlan
    /\ assigned' = [w \in Workers |-> NoAssignment]
    /\ Instead(t, IF rec = NoDisk THEN {} ELSE {Task("retire_recovery", None)})
    /\ UNCHANGED <<next, ledger, host, disk>>
    /\ UNCHANGED Network

\* ... and so is what a restart had recovered: retire_pipeline_recovery_for_model_change.
RetireRecovery(t) ==
    /\ t \in todo /\ t.do = "retire_recovery"
    /\ rec' = [rec EXCEPT !.phase = "invalidated", !.published = FALSE]
    /\ disk' = [rec' EXCEPT !.ledger = ledger]
    /\ Instead(t, {})
    /\ UNCHANGED <<txn, next, plan, assigned, ledger, host>>
    /\ UNCHANGED <<conn, lost, wire, acks, wk, used, shown>>

(***************************************************************************)
(* Connections and restarts.                                               *)
(***************************************************************************)
\* Mutant: what was sent on the old connection arrives on the new one.
CutKeepsFrames(w) ==
    /\ conn[w].up /\ lost[w] = "no" /\ conn[w].gen < MaxReg
    /\ used.fault < MaxFault
    /\ used' = [used EXCEPT !.fault = @ + 1]
    /\ lost' = [lost EXCEPT ![w] = "cut"]
    /\ wk' = [wk EXCEPT ![w] = GivenUp(@)]
    /\ UNCHANGED master
    /\ UNCHANGED <<conn, wire, acks, shown>>

\* The link breaks and the worker finds out: it gives up everything, and what was sent to it
\* is lost.  The server finds out later, and may read some of its answers until then.
Cut(w) ==
    /\ conn[w].up /\ lost[w] = "no" /\ conn[w].gen < MaxReg
    /\ used.fault < MaxFault
    /\ used' = [used EXCEPT !.fault = @ + 1]
    /\ lost' = [lost EXCEPT ![w] = "cut"]
    /\ wk' = [wk EXCEPT ![w] = GivenUp(@)]
    /\ wire' = {m \in wire : m.node # w}
    /\ UNCHANGED master
    /\ UNCHANGED <<conn, acks, shown>>

\* The old connection is closed and its answers are lost, but for one that its reader may
\* have in hand.
LastWord(w) == \E n \in {0, 1} : acks' = [acks EXCEPT ![w] = IF n < Len(@) THEN SubSeq(@, 1, n) ELSE @]

\* The server finds the link broken; its disconnect callback comes next.
Lose(w) ==
    /\ lost[w] = "cut"
    /\ conn' = [conn EXCEPT ![w] = [up |-> FALSE, gen |-> conn[w].gen]]
    /\ lost' = [lost EXCEPT ![w] = "lost"]
    /\ LastWord(w)
    /\ UNCHANGED master
    /\ UNCHANGED <<wire, wk, used, shown>>

\* The worker registers again, before or after the callback ran.
Register(w) ==
    /\ ~conn[w].up
    /\ conn' = [conn EXCEPT ![w] = [up |-> TRUE, gen |-> conn[w].gen + 1]]
    /\ UNCHANGED master
    /\ UNCHANGED <<lost, wire, acks, wk, used, shown>>

\* It registers before the server finds the old link broken: the new connection replaces
\* the old one, and there is no disconnect callback.
Replace(w) ==
    /\ lost[w] = "cut"
    /\ conn' = [conn EXCEPT ![w] = [up |-> TRUE, gen |-> conn[w].gen + 1]]
    /\ lost' = [lost EXCEPT ![w] = "no"]
    /\ LastWord(w)
    /\ UNCHANGED master
    /\ UNCHANGED <<wire, wk, used, shown>>

\* _on_tcp_disconnect: a transaction under way that uses the worker is to be aborted; a plan
\* that uses it is no longer active and its published transaction is owed its releases.
Disconnected(w) ==
    LET aborts == txn.phase \in InProgress /\ w \in txn.workers
        hit == w \in plan.workers \/ (txn.phase = "ready" /\ w \in txn.workers)
        published == txn.published \/ txn.phase = "ready"
        ends == hit /\ txn # NoTxn /\ ~aborts
    IN  /\ lost[w] = "lost"
        /\ lost' = [lost EXCEPT ![w] = "saving"]
        /\ todo' = IF aborts THEN todo \cup {Task("abort", txn.id)} ELSE todo
        /\ plan' = IF hit THEN NoPlan ELSE plan
        /\ ledger' = IF ends /\ published THEN ledger \cup ReleaseDebts(txn) ELSE ledger
        /\ txn' = IF ends THEN [txn EXCEPT !.phase = "invalidated", !.published = published] ELSE txn
        /\ disk' = IF \E d \in ledger : d.node = w THEN Snapshot(txn, ledger) ELSE disk
        /\ UNCHANGED <<next, assigned, host, rec, conn, wire, acks, wk, used, shown>>

\* The rest of it: the releases are persisted and the worker's assignment dropped.
DisconnectSaved(w) ==
    /\ lost[w] = "saving"
    /\ lost' = [lost EXCEPT ![w] = "no"]
    /\ disk' = IF ledger # disk.ledger THEN Snapshot(txn, ledger) ELSE disk
    /\ assigned' = [assigned EXCEPT ![w] = NoAssignment]
    /\ UNCHANGED <<txn, next, plan, ledger, todo, host, rec, conn, wire, acks, wk, used, shown>>

\* _load_pipeline_recovery_state: the debts on disk, and one for every worker the recorded
\* transaction may still be loaded on.
Recovered ==
    LET live == disk.phase \in InProgress \cup {"ready"}
        act == IF disk.phase = "ready" \/ disk.published THEN "release" ELSE "abort"
    IN  {d \in disk.ledger : d.node # Master}
        \cup (IF live \/ disk.published THEN {Debt(w, disk.id, act) : w \in disk.workers} ELSE {})

\* The master's process dies and starts again; every connection is lost.
Crash ==
    /\ used.crash < MaxCrash
    /\ \A w \in Workers : conn[w].gen < MaxReg
    /\ used' = [used EXCEPT !.crash = @ + 1]
    /\ txn' = NoTxn /\ plan' = NoPlan
    /\ assigned' = [w \in Workers |-> NoAssignment]
    /\ ledger' = Recovered
    /\ todo' = {} /\ host' = NoHost
    /\ disk' = [disk EXCEPT !.ledger = IF Recovered = {} THEN @ ELSE Recovered]
    /\ rec' = disk
    /\ conn' = [w \in Workers |-> [up |-> FALSE, gen |-> conn[w].gen]]
    /\ lost' = [w \in Workers |-> "no"]
    /\ wire' = {} /\ acks' = [w \in Workers |-> <<>>]
    /\ wk' = [w \in Workers |-> GivenUp(wk[w])]
    /\ UNCHANGED <<next, shown>>

Next ==
    \/ Deadline \/ Cancel \/ ModelChange \/ Crash
    \/ \E W \in SUBSET Workers : Begin(W)
    \/ \E w \in Workers :
         \/ SendConfig(w) \/ HandleAck(w) \/ WorkerRetires(w) \/ Dies(w)
         \/ Cut(w) \/ Lose(w) \/ Register(w) \/ Replace(w) \/ Disconnected(w) \/ DisconnectSaved(w)
    \/ \E d \in ledger : Dispatch(d) \/ DispatchLocal(d)
    \/ \E m \in wire : WorkerApplies(m)
    \/ \E t \in todo : \/ CommitLocal(t) \/ Materialize(t) \/ CommitWorkers(t)
                       \/ SwapLocal(t) \/ Publish(t) \/ GiveUp(t)
                       \/ Clear(t) \/ RetireRecovery(t)

Spec == Init /\ [][Next]_vars

\* The retry loop sends whatever is unanswered again and again and enforces the deadline;
\* workers, reader threads and the threads of a transaction go on; a worker that lost its
\* connection comes back.  Nothing is assumed of new transactions, cancels and faults.
FairSpec ==
    /\ Spec
    /\ WF_vars(Deadline)
    /\ \A w \in Workers :
         /\ WF_vars(SendConfig(w)) /\ WF_vars(HandleAck(w)) /\ WF_vars(WorkerRetires(w))
         /\ WF_vars(Lose(w)) /\ WF_vars(Register(w))
         /\ WF_vars(Disconnected(w)) /\ WF_vars(DisconnectSaved(w))
         /\ \A i \in Ids, a \in Cleanups \cup {"prepare", "commit"} :
              /\ WF_vars(WorkerApplies(Debt(w, i, a)))
              /\ WF_vars(Dispatch(Debt(w, i, a)))
    /\ \A i \in Ids, a \in {"abort", "finalize"} : WF_vars(DispatchLocal(Debt(Master, i, a)))
    /\ \A i \in Ids, s \in {"commit", "materialize", "send", "complete", "publish", "abort", "retire"} :
         WF_vars(LET t == Task(s, i)
                 IN  \/ CommitLocal(t) \/ Materialize(t) \/ CommitWorkers(t)
                     \/ SwapLocal(t) \/ Publish(t) \/ GiveUp(t))
    /\ WF_vars(Clear(Task("clear", None))) /\ WF_vars(RetireRecovery(Task("retire_recovery", None)))

(***************************************************************************)
(* Properties.                                                             *)
(***************************************************************************)
\* The type of the state.
TypeOK ==
    /\ txn.id \in Ids \cup {None} /\ txn.phase \in InProgress \cup Over \cup {"none", "ready"}
    /\ {txn.prepared, txn.ready} \subseteq SUBSET txn.workers
    /\ next \in 1..(MaxTxn + 1)
    /\ plan.id \in Ids \cup {None}
    /\ \A d \in ledger \cup disk.ledger : /\ d.node \in Workers \cup {Master}
                                          /\ d.id \in Ids /\ d.act \in Cleanups
    /\ \A m \in wire : Linked(m.node) /\ m.id < next

\* A published plan is loaded: on every worker whose assignment and connection are the ones
\* it was published with, the plan's segment is still in memory.
PlanHeld ==
    \A w \in plan.workers :
        Linked(w) /\ assigned[w] = [id |-> plan.id, conn |-> conn[w].gen]
            => plan.id \in Held(wk[w])

\* Between transactions, once its debts are settled, such a worker has the plan's segment
\* as its active one again.
Rested(w) ==
    /\ txn.phase \notin InProgress /\ todo = {}
    /\ Linked(w) /\ assigned[w] = [id |-> plan.id, conn |-> conn[w].gen]
    /\ \A d \in ledger : d.node # w
PlanRestored == \A w \in plan.workers : Rested(w) => wk[w].act = plan.id

\* And its stages are not fenced.
PlanServes == \A w \in plan.workers : Rested(w) => ~wk[w].fenced

\* The master itself runs the segment of the plan it has published, whatever candidate was
\* swapped in meanwhile and given up.
LocalServes ==
    (plan.id # None /\ ~Publishing /\ \A d \in ledger : d.node # Master)
        => (host.act = plan.id \/ (txn.phase \in InProgress /\ host.id = txn.id)
            \/ \E t \in todo : t.do = "abort")

\* A worker never keeps a candidate that was not published without somebody owing its
\* cleanup: the transaction is under way, or the ledger names it, in memory and on disk.
CandidateOwed ==
    \A w \in Connected : \A i \in Held(wk[w]) \ shown :
        /\ \/ txn.id = i /\ txn.phase \in InProgress
           \/ \E d \in ledger : d.node = w /\ d.id = i
        /\ \/ disk.id = i /\ disk.phase \in InProgress
           \/ \E d \in disk.ledger : d.node = w /\ d.id = i

\* The master never forgets a segment that a connected worker has in memory: it belongs to
\* the current transaction, plan or assignment, or the ledger names it.
OwnershipKept ==
    \A w \in Connected : \A i \in Held(wk[w]) :
        \/ i \in {txn.id, plan.id, assigned[w].id}
        \/ \E d \in ledger : d.node = w /\ d.id = i

\* A plan is published only when every worker serves it at that moment, except over a link
\* that has broken unnoticed: the acknowledgements it rests on are those of the connections
\* that are registered now.
PublishedWhole ==
    [][\A i \in shown' \ shown :
         \A w \in plan'.workers : wk[w].act = i \/ lost[w] = "cut"]_vars

\* A cleanup that a worker owes is confirmed in the end, so that later loads are admitted
\* again.
DebtsSettle ==
    \A w \in Workers, i \in Ids, a \in Cleanups :
        Debt(w, i, a) \in ledger ~> Debt(w, i, a) \notin ledger

\* A transaction that was given up is never published, and one that was published is never
\* aborted.
Settled ==
    [][txn'.id = txn.id =>
         /\ txn.phase \in Over => txn'.phase \in Over
         /\ txn.published => txn'.published /\ txn'.phase # "aborted"]_vars
=============================================================================
