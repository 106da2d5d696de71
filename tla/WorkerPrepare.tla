---------------------------- MODULE WorkerPrepare ----------------------------
(***************************************************************************)
(* A worker's segment preparation: WorkerPrepareController                 *)
(* (src/worker_prepare.py) over the native runtime it owns (the            *)
(* *_worker_runtime methods of src/inference_service/engine_host.py).      *)
(*                                                                         *)
(* Four threads meet here.  The connection thread enqueues the master's    *)
(* commands (handle); one runner thread applies them in order and is the   *)
(* only one that loads or closes native runtimes; the lifecycle threads    *)
(* invalidate, stop, reopen and retire; and a stage thread asks            *)
(* check_stage and then executes on the committed runtime.  _lock guards   *)
(* the controller's fields and is never held across native work, so an     *)
(* action below is one stretch of code between two lock regions or native  *)
(* calls.  full_chat_execution_lock is held by the runner while it applies *)
(* or retires and by the stage thread while it executes.                   *)
(*                                                                         *)
(* An identity is its generation: the master gives every load transaction  *)
(* a generation of its own.  A prepare command's options are constants of  *)
(* the master, so two prepares of one identity carry the same payload.     *)
(***************************************************************************)
EXTENDS Integers, Sequences, FiniteSets

CONSTANTS MaxGen,        \* generations 1..MaxGen
          MaxCommands,   \* commands accepted from the master
          QueueMax,      \* capacity of the command queue (64)
          MaxEpoch,      \* epochs an invalidation may begin
          MaxLink,       \* registrations of the connection
          CloseMayFail,  \* closing a native runtime may fail
          MayDie         \* the native child may die once loaded

ASSUME WorkerPrepareAssumption ==
    /\ {MaxGen, QueueMax} \subseteq Nat \ {0}
    /\ {MaxCommands, MaxEpoch, MaxLink} \subseteq Nat
    /\ {CloseMayFail, MayDie} \subseteq BOOLEAN

None == 0
Ids == 1..MaxGen
Actions == {"prepare", "commit", "abort", "finalize", "release"}
NoScope == [epoch |-> -1, link |-> -1]
NoCommand == [act |-> "none", id |-> None, scope |-> NoScope]
NoLocals == [phase |-> "idle", cand |-> None, active |-> None, prev |-> None,
             restore |-> FALSE, retired |-> FALSE, pending |-> FALSE]
NoRetirement == [epoch |-> -1, done |-> TRUE, unloaded |-> FALSE]

VARIABLES
    net,      \* the connection to the master: registered or not, and its registration
    ctl,      \* the controller's fields under _lock
    queue,    \* commands waiting for the runner
    run,      \* the runner: where it is, its command and what it read before unlocking
    rt,       \* the native runtimes of the engine host
    cleanup,  \* _cleanup_retirement: the latest retirement
    waiter,   \* the thread in retire_and_join
    stage,    \* the thread executing a stage
    sent,     \* the master: commands accepted so far (a bound), the newest generation it
              \* prepared, and the identities it has given up
    acked,    \* what the master has been told was done: <<action, identity>>
    serving,  \* the identity the last "ready" answered for, while nothing has happened since
    proved    \* retire_and_join returned TRUE and no prepare was accepted since

vars == <<net, ctl, queue, run, rt, cleanup, waiter, stage, sent, acked, serving, proved>>

(***************************************************************************)
(* The native runtimes.  A method either succeeds or raises with whatever  *)
(* it had already changed; Outcome pairs the two.  open is the set of      *)
(* identities whose weights or child process exist, whoever refers to them.*)
(***************************************************************************)
Outcome(ok, r) == [ok |-> ok, rt |-> r]

Some(S) == S \ {None}

\* _owned_worker_runtimes, by identity.  The active runtime's native handles are read back
\* from the host, so it stays owned after a close that did not complete.
Owned(r) == Some({r.act}) \cup ((Some({r.cand, r.prev}) \cup r.orphans) \cap r.open)

\* worker_runtime_present.
Present(r) == Owned(r) # {} \/ r.phase = "preparing"

\* worker_runtime_loaded.
Loaded(r, i) == i \in {r.cand, r.act} /\ i \notin r.dead

\* worker_runtime_ready.
Ready(r, i) ==
    /\ r.act = i
    /\ i \notin r.dead
    /\ ~r.fenced
    /\ r.phase \in {"committed", "finalized", "aborted"}

Fenced(r) == [r EXCEPT !.fenced = TRUE]

\* close_layer_runtime of several runtimes, one after the other (active, candidate, previous,
\* orphans): the sets that may have been closed when it returns or raises.
Closed(r, S) ==
    IF CloseMayFail
    THEN {S} \cup {S \cap P : P \in {{}, {r.act}, {r.act, r.cand}, {r.act, r.cand, r.prev}}}
    ELSE {S}

\* A method that closes S and then makes the change done, or raises part of the way.
Closing(r, S, done) ==
    {IF C = S THEN Outcome(TRUE, [done EXCEPT !.open = @ \ S])
     ELSE Outcome(FALSE, [r EXCEPT !.open = @ \ C, !.dead = @ \cup C]) : C \in Closed(r, S)}

\* prepare_worker_runtime up to the native load.
PrepareBegin(r, i) ==
    IF r.phase = "committed" \/ r.cand # None
    THEN Outcome(FALSE, Fenced(r))
    ELSE Outcome(TRUE, [Fenced(r) EXCEPT !.ident = i, !.phase = "preparing"])

LoadFailsForgotten(r, i) ==
    {Outcome(FALSE, [r EXCEPT !.phase = "failed", !.open = @ \cup C]) :
       C \in IF CloseMayFail THEN {{}, {i}} ELSE {{}}}

\* _build_worker_runtime fails or sees its cancellation; what it built is closed, or kept
\* as an orphan when it does not close.
LoadFails(r, i) ==
    LET failed == [r EXCEPT !.phase = "failed"]
        kept == [failed EXCEPT !.orphans = @ \cup {i}, !.open = @ \cup {i}]
    IN  {Outcome(FALSE, f) : f \in {failed} \cup (IF CloseMayFail THEN {kept} ELSE {})}

\* The load succeeds; a cancellation that came meanwhile closes it again.
LoadDone(r, i, cancelled) ==
    LET held == [r EXCEPT !.cand = i, !.open = @ \cup {i}, !.dead = @ \ {i}]
    IN  IF ~cancelled THEN {Outcome(TRUE, [held EXCEPT !.phase = "prepared"])}
        ELSE {Outcome(FALSE, [r EXCEPT !.phase = "failed"])}
             \cup (IF CloseMayFail THEN {Outcome(FALSE, held)} ELSE {})

CommitStaysFenced(r, i) ==
    IF r.ident # i \/ r.phase # "prepared" \/ r.cand = None THEN Outcome(FALSE, r)
    ELSE Outcome(TRUE, [r EXCEPT !.prev = r.act, !.act = r.cand, !.cand = None,
                                 !.phase = "committed"])

\* commit_worker_runtime.
CommitRuntime(r, i) ==
    IF r.ident # i THEN Outcome(FALSE, r)
    ELSE IF r.phase \in {"committed", "finalized"} THEN Outcome(Loaded(r, i), r)
    ELSE IF r.phase # "prepared" \/ r.cand = None \/ r.cand \in r.dead THEN Outcome(FALSE, r)
    ELSE Outcome(TRUE, [r EXCEPT !.prev = r.act, !.act = r.cand, !.cand = None,
                                 !.phase = "committed", !.fenced = FALSE])

\* abort_worker_runtime.
AbortRuntime(r, i, restore) ==
    LET refused == IF r.ident # i
                   THEN r.cand # None \/ i \in Owned(r) \/ r.phase = "preparing"
                   ELSE r.phase = "finalized" /\ r.act = i
        closing == (Owned(r) \cap {i}) \cup
                   (IF r.act = i /\ ~restore THEN Some({r.prev}) ELSE {})
        act == IF r.act = i THEN (IF restore THEN r.prev ELSE None) ELSE r.act
        done == [r EXCEPT !.act = act,
                          !.prev = IF r.act = i THEN None ELSE @,
                          !.cand = IF @ = i THEN None ELSE @,
                          !.orphans = (@ \cap r.open) \ closing,
                          !.phase = "aborted",
                          !.fenced = ~(restore /\ act # None /\ act \notin r.dead)]
    IN  IF refused THEN {Outcome(FALSE, r)} ELSE Closing(Fenced(r), closing, done)

\* finalize_worker_runtime.
FinalizeRuntime(r, i) ==
    IF r.ident # i \/ r.phase \notin {"committed", "finalized"} \/ ~Loaded(r, i)
    THEN {Outcome(FALSE, r)}
    ELSE Closing(r, Some({r.prev}), [r EXCEPT !.prev = None, !.phase = "finalized"])

\* retire_previous_worker_runtime.
RetirePrevious(r, i) ==
    IF r.prev # i THEN {Outcome(FALSE, r)} ELSE Closing(r, {i}, [r EXCEPT !.prev = None])

\* release_worker_runtime: of one identity, or of everything (i = None).
ReleaseRuntime(r, i) ==
    LET hit == IF i = None THEN Owned(r) ELSE Owned(r) \cap {i}
        withPrev == i = None \/ r.act = i
        closing == hit \cup (IF withPrev THEN Some({r.prev}) ELSE {})
        fenced == [r EXCEPT !.fenced = @ \/ i \in {None, r.act, r.cand}]
        done == [fenced EXCEPT !.act = IF i \in {None, @} THEN None ELSE @,
                               !.cand = IF i \in {None, @} THEN None ELSE @,
                               !.prev = IF withPrev \/ @ = i THEN None ELSE @,
                               !.orphans = (@ \cap r.open) \ closing,
                               !.phase = IF i \in {None, r.ident} THEN "released" ELSE @]
    IN  IF i # None /\ hit = {} /\ Owned(r) # {} THEN {Outcome(FALSE, r)}
        ELSE Closing(fenced, closing, done)

(***************************************************************************)
(* The controller.                                                         *)
(***************************************************************************)
\* The runner between two commands.
Idle == [pc |-> "idle", cmd |-> NoCommand, cancelled |-> FALSE, kind |-> "", loc |-> NoLocals]

Init ==
    /\ net = [up |-> TRUE, link |-> 0, lost |-> FALSE]
    /\ ctl = [epoch |-> 0, closed |-> FALSE, cand |-> None, phase |-> "idle", active |-> None,
              prev |-> None, scope |-> NoScope, latest |-> None, retired |-> {},
              pending |-> {}, fenced |-> TRUE]
    /\ queue = <<>>
    /\ run = Idle
    /\ rt = [ident |-> None, phase |-> "idle", cand |-> None, act |-> None, prev |-> None,
             orphans |-> {}, dead |-> {}, open |-> {}, fenced |-> TRUE]
    /\ cleanup = NoRetirement
    /\ waiter = [on |-> FALSE, epoch |-> -1]
    /\ stage = [pc |-> "off", id |-> None, epoch |-> -1]
    /\ sent = [count |-> 0, gen |-> None, dropped |-> {}]
    /\ acked = {}
    /\ serving = None
    /\ proved = FALSE

\* _scope: what a command remembers of the moment it was accepted.
Scope == [epoch |-> ctl.epoch, link |-> net.link]

\* _valid: the command's epoch and registration are still the current ones.
Valid(s) == s.epoch = ctl.epoch /\ ~ctl.closed /\ net.up /\ s.link = net.link

Busy == run.pc \notin {"idle", "dead"}

\* full_chat_execution_lock.
RunnerHolds == run.pc \in {"begin", "load", "recheck", "settle", "promote", "promoted", "publish", "post"}
StageHolds == stage.pc # "off"

\* _start_locked: a runner that died is replaced when the next command is enqueued.
Started == IF run.pc = "dead" THEN Idle ELSE run

\* What the master may send: it prepares a generation again or the next one, commits what
\* was acknowledged as prepared, finalizes what was acknowledged as ready, and gives up or
\* releases anything it ever prepared, whatever else is under way.
Offered(a, i) ==
    CASE a = "prepare" -> i = sent.gen \/ i = sent.gen + 1
      [] a = "commit" -> <<"prepare", i>> \in acked
      [] a = "finalize" -> <<"commit", i>> \in acked
      [] a \in {"abort", "release"} -> i <= sent.gen

\* The queue's limit, and the bar on prepares while a retirement is under way or joined.
EnqueueAlways == TRUE
CanEnqueue == Len(queue) < QueueMax

NeverBarred == FALSE
Barred == waiter.on \/ ~cleanup.done

\* handle: validate, fence what a newer prepare supersedes, cancel, enqueue.
Handle(a, i) ==
    LET newer == a = "prepare" /\ i > ctl.latest
        cancels == /\ Busy /\ run.cmd.act = "prepare"
                   /\ newer \/ (a \in {"abort", "release"} /\ run.cmd.id = i)
    IN  /\ sent.count < MaxCommands /\ Offered(a, i)
        /\ a = "prepare" => ~Barred
        /\ Valid(Scope)
        /\ CanEnqueue
        /\ sent' = [count |-> sent.count + 1, gen |-> IF a = "prepare" THEN i ELSE sent.gen,
                    dropped |-> sent.dropped \cup (IF a \in {"abort", "release"} THEN {i} ELSE {})]
        /\ ctl' = IF newer THEN [ctl EXCEPT !.latest = i, !.fenced = TRUE] ELSE ctl
        /\ rt' = IF newer THEN Fenced(rt) ELSE rt
        /\ run' = [Started EXCEPT !.cancelled = @ \/ cancels]
        /\ queue' = Append(queue, [act |-> a, id |-> i, scope |-> Scope])
        /\ serving' = IF a = "finalize" THEN serving ELSE None
        /\ proved' = (proved /\ a # "prepare")
        /\ UNCHANGED <<net, cleanup, waiter, stage, acked>>

\* The queue is emptied and one cleanup command put into it.
NothingRequeued == <<>>
Requeued == <<[act |-> "cleanup", id |-> None,
               scope |-> [epoch |-> ctl.epoch + 1, link |-> net.link]]>>

\* invalidate: a new epoch, everything fenced and forgotten, one cleanup command queued.
Invalidate(close) ==
    /\ ctl.epoch < MaxEpoch
    /\ ctl' = [ctl EXCEPT !.epoch = @ + 1, !.closed = @ \/ close, !.fenced = TRUE,
                          !.pending = @ \cup Some({ctl.cand, ctl.active, ctl.prev}),
                          !.cand = None, !.active = None, !.prev = None,
                          !.scope = NoScope, !.latest = None, !.phase = "released"]
    /\ rt' = Fenced(rt)
    /\ queue' = Requeued
    /\ cleanup' = [epoch |-> ctl.epoch + 1, done |-> FALSE, unloaded |-> FALSE]
    /\ serving' = None

\* The runner takes the next command, or returns when there is none.
Pop ==
    /\ run.pc = "idle"
    /\ queue # <<>>
    /\ run' = [run EXCEPT !.cmd = Head(queue), !.cancelled = FALSE,
                          !.pc = IF Head(queue).act = "cleanup" THEN "retire" ELSE "check"]
    /\ queue' = Tail(queue)
    /\ UNCHANGED <<net, ctl, rt, cleanup, waiter, stage, sent, acked, serving, proved>>

Cmd == run.cmd.id

Goto(pc) == run' = [run EXCEPT !.pc = pc]

\* What a step of the runner never touches.
RunnerFrame == UNCHANGED <<net, queue, cleanup, waiter, stage, sent, acked, serving, proved>>

\* The identity was retired, or is not the one admitted last.
StaleForgetsRetired == Cmd # ctl.latest
Stale == Cmd \in ctl.retired \/ Cmd # ctl.latest

\* _apply, prepare: the checks under the lock.
CheckPrepare ==
    /\ run.pc = "check" /\ run.cmd.act = "prepare" /\ ~StageHolds
    /\ LET duplicate == ctl.cand = Cmd /\ ctl.phase \in {"prepared", "committed", "finalized"}
       IN  IF \/ ~Valid(run.cmd.scope)
              \/ Stale \/ ctl.pending # {}
              \/ duplicate /\ ~Loaded(rt, Cmd)
              \/ ~duplicate /\ ctl.phase = "committed"
           THEN Goto("error")
           ELSE IF duplicate THEN Goto("post")
           ELSE run' = [run EXCEPT !.pc = "begin",
                          !.loc = [NoLocals EXCEPT !.phase = ctl.phase, !.cand = ctl.cand]]
    /\ UNCHANGED <<ctl, rt>>
    /\ RunnerFrame

\* The earlier candidate is aborted, the new one published as preparing and the native
\* preparation begun (or the selection of the model fails first).
BeginPrepare ==
    /\ run.pc = "begin"
    /\ LET drop == run.loc.cand # None /\ run.loc.phase \in {"prepared", "failed"}
           aborts == IF drop THEN AbortRuntime(rt, run.loc.cand, FALSE) ELSE {Outcome(TRUE, rt)}
       IN  \E o \in aborts, selected \in BOOLEAN :
             LET retired == IF drop /\ o.ok THEN ctl.retired \cup {run.loc.cand} ELSE ctl.retired
                 begun == PrepareBegin(o.rt, Cmd)
             IN  IF ~o.ok \/ ~Valid(run.cmd.scope)
                 THEN /\ ctl' = [ctl EXCEPT !.retired = retired]
                      /\ rt' = o.rt
                      /\ Goto("error")
                 ELSE /\ ctl' = [ctl EXCEPT !.retired = retired, !.cand = Cmd,
                                            !.phase = "preparing", !.fenced = TRUE]
                      /\ rt' = IF selected THEN begun.rt ELSE Fenced(o.rt)
                      /\ Goto(IF selected /\ begun.ok THEN "load" ELSE "error")
    /\ RunnerFrame

\* prepare_worker_runtime: the weights are loaded without the controller's lock.
Load ==
    /\ run.pc = "load"
    /\ \E o \in LoadFails(rt, Cmd) \cup LoadDone(rt, Cmd, run.cancelled) :
         /\ rt' = o.rt
         /\ Goto(IF o.ok THEN "recheck" ELSE "error")
    /\ UNCHANGED ctl
    /\ RunnerFrame

\* The loaded candidate is dropped if it was cancelled, fenced or superseded meanwhile, or
\* if the selected model changed.
Recheck ==
    /\ run.pc = "recheck"
    /\ \/ /\ ~run.cancelled /\ Valid(run.cmd.scope) /\ Cmd = ctl.latest
          /\ run' = [run EXCEPT !.pc = "publish", !.kind = "prepared"]
          /\ UNCHANGED rt
       \/ /\ \E o \in AbortRuntime(rt, Cmd, FALSE) : rt' = o.rt
          /\ Goto("error")
    /\ UNCHANGED ctl
    /\ RunnerFrame

\* _apply, commit: the checks under the lock.
CheckCommit ==
    /\ run.pc = "check" /\ run.cmd.act = "commit" /\ ~StageHolds
    /\ IF \/ ~Valid(run.cmd.scope)
          \/ Cmd # ctl.latest \/ ctl.cand # Cmd
          \/ ctl.phase \notin {"prepared", "committed", "finalized"}
       THEN Goto("error")
       ELSE IF ctl.phase = "prepared" THEN Goto("promote")
       ELSE Goto(IF Loaded(rt, Cmd) THEN "post" ELSE "error")
    /\ UNCHANGED <<ctl, rt>>
    /\ RunnerFrame

\* The native candidate becomes the active runtime.
Promote ==
    /\ run.pc = "promote"
    /\ LET o == CommitRuntime(rt, Cmd)
       IN  /\ rt' = o.rt
           /\ Goto(IF o.ok THEN "promoted" ELSE "error")
    /\ UNCHANGED ctl
    /\ RunnerFrame

\* The commit is published; if it was fenced or superseded, the promotion is undone.
PublishCommit ==
    /\ run.pc = "promoted"
    /\ IF Valid(run.cmd.scope) /\ Cmd = ctl.latest
       THEN /\ ctl' = [ctl EXCEPT !.prev = ctl.active, !.active = Cmd, !.scope = run.cmd.scope,
                                  !.phase = "committed", !.fenced = FALSE]
            /\ Goto(IF Loaded(rt, Cmd) THEN "post" ELSE "error")
            /\ UNCHANGED rt
       ELSE /\ LET restore == ctl.scope # NoScope /\ Valid(ctl.scope)
               IN  \E o \in AbortRuntime(rt, Cmd, restore) : rt' = Fenced(o.rt)
            /\ Goto("error")
            /\ UNCHANGED ctl
    /\ RunnerFrame

\* _apply, abort, finalize and release: what is read under the lock.
CheckTerminal ==
    /\ run.pc = "check" /\ run.cmd.act \in {"abort", "finalize", "release"} /\ ~StageHolds
    /\ IF ~Valid(run.cmd.scope) THEN Goto("error")
       ELSE run' = [run EXCEPT !.pc = "settle",
                      !.loc = [phase |-> ctl.phase, cand |-> ctl.cand, active |-> ctl.active,
                               prev |-> ctl.prev,
                               restore |-> ctl.scope # NoScope /\ Valid(ctl.scope),
                               retired |-> Cmd \in ctl.retired,
                               pending |-> Cmd \in ctl.pending]]
    /\ UNCHANGED <<ctl, rt>>
    /\ RunnerFrame

\* Which way _apply takes for a terminal command, from what it read and the runtime.
SettleKind ==
    LET l == run.loc
    IN  IF l.retired /\ Cmd \notin Owned(rt) THEN "done"
        ELSE IF l.pending THEN "pending"
        ELSE IF ~Present(rt) /\ l.phase # "preparing" THEN "empty"
        ELSE IF Cmd = l.prev /\ Cmd # l.cand THEN "dropped"
        ELSE IF run.cmd.act = "release" /\ Cmd \in {l.active, l.cand} THEN "released"
        ELSE IF run.cmd.act = "abort" /\ Cmd = l.cand THEN "aborted"
        ELSE IF /\ run.cmd.act = "finalize" /\ Cmd = l.cand
                /\ l.phase \in {"committed", "finalized"} THEN "finalized"
        ELSE "refused"

\* The native call of that way.
SettleRuntime(kind) ==
    CASE kind = "pending" -> IF Cmd \in Owned(rt) THEN ReleaseRuntime(rt, Cmd)
                             ELSE {Outcome(~Present(rt), rt)}
      [] kind = "dropped" -> RetirePrevious(rt, Cmd)
      [] kind = "released" -> ReleaseRuntime(rt, Cmd)
      [] kind = "aborted" -> AbortRuntime(rt, Cmd, run.loc.restore)
      [] kind = "finalized" -> FinalizeRuntime(rt, Cmd)
      [] OTHER -> {Outcome(kind # "refused", rt)}

\* What _record_retired is given once the native call has returned.
SettleRecord(kind) ==
    CASE kind = "done" -> {}
      [] kind = "finalized" -> Some({run.loc.prev})
      [] kind = "released" -> {Cmd} \cup (IF Cmd = run.loc.active THEN Some({run.loc.prev}) ELSE {})
      [] OTHER -> {Cmd}

\* The native runtime is closed, restored or finalized and the retirement recorded.
Settle ==
    /\ run.pc = "settle"
    /\ LET kind == SettleKind
       IN  \E o \in SettleRuntime(kind) :
             /\ rt' = o.rt
             /\ ctl' = IF o.ok THEN [ctl EXCEPT !.retired = @ \cup SettleRecord(kind),
                                      !.pending = IF kind = "pending" THEN @ \ {Cmd} ELSE @]
                       ELSE ctl
             /\ run' = [run EXCEPT !.kind = kind,
                          !.pc = IF ~o.ok THEN "error"
                                 ELSE IF kind \in {"done", "pending"} THEN "post" ELSE "publish"]
    /\ RunnerFrame

\* What the updates passed to _publish make of the controller's fields.
Published ==
    LET l == run.loc
        kept == IF ~l.restore THEN None
                ELSE IF l.phase = "committed" THEN l.prev ELSE ctl.active
        cleared == IF ctl.cand = Cmd THEN [ctl EXCEPT !.cand = None, !.phase = "released"] ELSE ctl
    IN  CASE run.kind = "prepared" -> [ctl EXCEPT !.phase = "prepared"]
          [] run.kind = "empty" -> cleared
          [] run.kind = "dropped" -> [ctl EXCEPT !.prev = None]
          [] run.kind = "released" ->
               IF ctl.active = Cmd
               THEN [cleared EXCEPT !.prev = None, !.active = None, !.scope = NoScope,
                                    !.fenced = TRUE]
               ELSE [cleared EXCEPT !.fenced = TRUE]
          [] run.kind = "aborted" ->
               [ctl EXCEPT !.active = kept, !.prev = None, !.cand = None, !.phase = "aborted",
                           !.scope = IF kept # None THEN run.cmd.scope ELSE NoScope,
                           !.fenced = (kept = None)]
          [] run.kind = "finalized" -> [ctl EXCEPT !.prev = None, !.phase = "finalized"]

\* _publish: the update is made only while the command is valid.
Publish ==
    /\ run.pc = "publish"
    /\ IF Valid(run.cmd.scope)
       THEN ctl' = Published /\ Goto("post")
       ELSE UNCHANGED ctl /\ Goto("error")
    /\ UNCHANGED rt
    /\ RunnerFrame

\* _retire_all up to _record_retired: everything owned is released.
ReleaseAll(next) ==
    \E o \in ReleaseRuntime(rt, None) :
      LET closed == o.ok /\ ~Present(o.rt)
      IN  /\ rt' = o.rt
          /\ ctl' = IF closed THEN [ctl EXCEPT !.retired = @ \cup ctl.pending \cup Owned(rt)]
                    ELSE ctl
          /\ run' = [run EXCEPT !.pc = next, !.kind = IF closed THEN "closed" ELSE "kept"]

\* _run after _apply, still under the execution lock.
Post ==
    /\ run.pc = "post"
    /\ IF ~Valid(run.cmd.scope) THEN ReleaseAll("error")
       ELSE IF run.cmd.act = "prepare" /\ (run.cancelled \/ Cmd # ctl.latest)
       THEN /\ \E o \in AbortRuntime(rt, Cmd, FALSE) : rt' = o.rt
            /\ Goto("error")
            /\ UNCHANGED ctl
       ELSE Goto("ack") /\ UNCHANGED <<ctl, rt>>
    /\ RunnerFrame

\* _run, except: a command that is no longer valid retires everything.
FenceCleanup ==
    /\ run.pc = "error" /\ ~Valid(run.cmd.scope) /\ ~StageHolds
    /\ ReleaseAll("clear")
    /\ RunnerFrame

\* ... and a failed preparation is marked.
MarkFailed ==
    /\ \/ run.pc = "error" /\ Valid(run.cmd.scope)
       \/ run.pc = "failed"
    /\ ctl' = IF /\ run.cmd.scope.epoch = ctl.epoch /\ run.cmd.act = "prepare"
                 /\ ctl.cand = Cmd /\ ctl.phase \notin {"committed", "finalized"}
              THEN [ctl EXCEPT !.phase = "failed"] ELSE ctl
    /\ Goto("nack")
    /\ UNCHANGED rt
    /\ RunnerFrame

RetireWithoutLock ==
    /\ run.pc = "retire"
    /\ ReleaseAll("clear")
    /\ RunnerFrame

\* The cleanup command of an invalidation: _retire_all.
Retire ==
    /\ run.pc = "retire" /\ ~StageHolds
    /\ ReleaseAll("clear")
    /\ RunnerFrame

\* _retire_all, last region: the pending retirements are forgotten; a cleanup command then
\* settles its retirement, unless a later invalidation has.
Clear ==
    /\ run.pc = "clear"
    /\ ctl' = IF run.kind = "closed" THEN [ctl EXCEPT !.pending = {}] ELSE ctl
    /\ IF run.cmd.act = "cleanup"
       THEN /\ run' = Idle
            /\ cleanup' = IF run.cmd.scope.epoch = cleanup.epoch /\ ~cleanup.done
                          THEN [cleanup EXCEPT !.done = TRUE,
                                  !.unloaded = (run.kind = "closed" /\ cleanup.epoch = ctl.epoch)]
                          ELSE cleanup
       ELSE Goto("failed") /\ UNCHANGED cleanup
    /\ UNCHANGED <<net, queue, rt, waiter, stage, sent, acked, serving, proved>>

\* validate_ack refuses an acknowledgement that claims a runtime whose child has died.
AckRefused == run.pc = "ack" /\ run.cmd.act \in {"prepare", "commit"} /\ ~Loaded(rt, Cmd)

\* _ack and _send.  A refused acknowledgement is an exception that ends the runner thread.
Ack ==
    /\ run.pc \in {"ack", "nack"}
    /\ IF AckRefused
       THEN Goto("dead") /\ UNCHANGED <<acked, serving>>
       ELSE /\ run' = Idle
            /\ IF run.pc = "ack" /\ Valid(run.cmd.scope)
               THEN /\ acked' = acked \cup {<<run.cmd.act, Cmd>>}
                    /\ serving' = IF /\ run.cmd.act = "commit" /\ queue = <<>>
                                     /\ Cmd = ctl.latest /\ Cmd \notin sent.dropped
                                  THEN Cmd ELSE serving
               ELSE UNCHANGED <<acked, serving>>
    /\ UNCHANGED <<net, ctl, queue, rt, cleanup, waiter, stage, sent, proved>>

\* The connection fails while the acknowledgement is written: everything is invalidated.
AckFails ==
    /\ run.pc \in {"ack", "nack"} /\ ~AckRefused
    /\ Valid(run.cmd.scope)
    /\ Invalidate(FALSE)
    /\ run' = Idle
    /\ UNCHANGED <<net, waiter, stage, sent, acked, proved>>

(***************************************************************************)
(* The worker's other threads and the world.                               *)
(***************************************************************************)
\* invalidate as the lifecycle threads call it.
InvalidateNow(close) ==
    /\ Invalidate(close)
    /\ run' = [Started EXCEPT !.cancelled = @ \/ Busy]
    /\ UNCHANGED <<stage, sent, acked>>

\* The connection is lost; the disconnect callback follows, perhaps after a reconnect.  The
\* master gives up the transaction and counts its "prepared" no longer.
Drop ==
    /\ net.up /\ ~net.lost /\ net.link < MaxLink
    /\ net' = [net EXCEPT !.up = FALSE, !.lost = TRUE]
    /\ acked' = {a \in acked : a[1] # "prepare"}
    /\ serving' = None
    /\ UNCHANGED <<ctl, queue, run, rt, cleanup, waiter, stage, sent, proved>>

Reconnect ==
    /\ ~net.up
    /\ net' = [net EXCEPT !.up = TRUE, !.link = @ + 1]
    /\ UNCHANGED <<ctl, queue, run, rt, cleanup, waiter, stage, sent, acked, serving, proved>>

\* _on_master_connection_lost, which is skipped when the client has registered again.
Lost ==
    /\ net.lost
    /\ net' = [net EXCEPT !.lost = FALSE]
    /\ IF net.up
       THEN UNCHANGED <<ctl, queue, run, rt, cleanup, stage, sent, acked, serving>>
       ELSE InvalidateNow(FALSE)
    /\ UNCHANGED <<waiter, proved>>

\* close, when the scheduler stops.
Close ==
    /\ ~ctl.closed
    /\ InvalidateNow(TRUE)
    /\ UNCHANGED <<net, waiter, proved>>

\* reopen, when it starts again.
Reopen ==
    /\ ctl.closed
    /\ ctl' = [ctl EXCEPT !.closed = FALSE, !.epoch = @ + 1]
    /\ UNCHANGED <<net, queue, run, rt, cleanup, waiter, stage, sent, acked, serving, proved>>

\* retire_and_join: invalidate and wait for that retirement.
RetireBegin ==
    /\ ~waiter.on
    /\ InvalidateNow(FALSE)
    /\ waiter' = [on |-> TRUE, epoch |-> ctl.epoch + 1]
    /\ UNCHANGED <<net, proved>>

\* The retirement is done, or was superseded by a later invalidation.
RetireJoin ==
    /\ waiter.on
    /\ cleanup.epoch # waiter.epoch \/ cleanup.done
    /\ waiter' = [on |-> FALSE, epoch |-> -1]
    /\ proved' = \/ proved
                 \/ waiter.epoch = cleanup.epoch /\ waiter.epoch = ctl.epoch /\ cleanup.unloaded
    /\ UNCHANGED <<net, ctl, queue, run, rt, cleanup, stage, sent, acked, serving>>

RetireTimeout ==
    /\ waiter.on
    /\ cleanup.epoch = waiter.epoch /\ ~cleanup.done
    /\ waiter' = [on |-> FALSE, epoch |-> -1]
    /\ UNCHANGED <<net, ctl, queue, run, rt, cleanup, stage, sent, acked, serving, proved>>

\* The child process of a loaded runtime dies by itself.
Dies(i) ==
    /\ MayDie /\ i \in Some({rt.act, rt.cand}) \ rt.dead
    /\ rt' = [rt EXCEPT !.dead = @ \cup {i}]
    /\ UNCHANGED <<net, ctl, queue, run, cleanup, waiter, stage, sent, acked, serving, proved>>

StageFrame == UNCHANGED <<net, ctl, queue, run, rt, cleanup, waiter, sent, acked, serving, proved>>

NoStage == [pc |-> "off", id |-> None, epoch |-> -1]

\* check_stage, first region, for the identity the stage offer names.
StageAsk ==
    /\ stage.pc = "off" /\ ~RunnerHolds
    /\ ~ctl.fenced /\ ctl.active # None /\ ctl.scope # NoScope /\ Valid(ctl.scope)
    /\ stage' = [pc |-> "asked", id |-> ctl.active, epoch |-> ctl.epoch]
    /\ StageFrame

\* check_stage: worker_runtime_ready, then the second region.
StageCheck ==
    /\ stage.pc = "asked"
    /\ stage' = IF /\ Ready(rt, stage.id) /\ stage.epoch = ctl.epoch /\ ~ctl.fenced
                   /\ ctl.active = stage.id /\ ctl.scope # NoScope /\ Valid(ctl.scope)
                THEN [stage EXCEPT !.pc = "checked"] ELSE NoStage
    /\ StageFrame

StageStartUnchecked ==
    /\ stage.pc = "checked"
    /\ stage' = [stage EXCEPT !.pc = "running"]
    /\ StageFrame

\* execute_task_worker_stage: _check_worker_runtime_stage under the runtime's lock.
StageStart ==
    /\ stage.pc = "checked"
    /\ stage' = IF Ready(rt, stage.id) THEN [stage EXCEPT !.pc = "running"] ELSE NoStage
    /\ StageFrame

StageDone ==
    /\ stage.pc = "running"
    /\ stage' = NoStage
    /\ StageFrame

Runner ==
    \/ Pop \/ CheckPrepare \/ BeginPrepare \/ Load \/ Recheck
    \/ CheckCommit \/ Promote \/ PublishCommit
    \/ CheckTerminal \/ Settle \/ Publish \/ Post
    \/ FenceCleanup \/ MarkFailed \/ Retire \/ Clear \/ Ack

StageThread == StageCheck \/ StageStart \/ StageDone

Next ==
    \/ \E a \in Actions, i \in Ids : Handle(a, i)
    \/ Runner \/ AckFails
    \/ Drop \/ Reconnect \/ Lost \/ Close \/ Reopen
    \/ RetireBegin \/ RetireJoin \/ RetireTimeout
    \/ \E i \in Ids : Dies(i)
    \/ StageAsk \/ StageThread

Spec == Init /\ [][Next]_vars

(***************************************************************************)
(* Properties.                                                             *)
(***************************************************************************)
\* Every variable keeps its type.
TypeOK ==
    /\ net \in [up : BOOLEAN, link : 0..MaxLink, lost : BOOLEAN]
    /\ ctl.epoch \in 0..(MaxEpoch + 1)
    /\ {ctl.cand, ctl.active, ctl.prev, ctl.latest} \subseteq Ids \cup {None}
    /\ ctl.retired \cup ctl.pending \subseteq Ids
    /\ Len(queue) <= QueueMax
    /\ rt.open \cup rt.orphans \cup rt.dead \subseteq Ids
    /\ stage.pc \in {"off", "asked", "checked", "running"}
    /\ acked \subseteq Actions \X Ids

\* A runtime is never unloaded or replaced under a running stage, whichever thread
\* invalidates, retires or commits meanwhile (full_chat_execution_lock, the two checks).
StageKeepsRuntime ==
    stage.pc = "running" => rt.act = stage.id /\ stage.id \in rt.open

\* When a stage starts, its identity is still the active one of the epoch it was checked
\* in, and neither a newer prepare nor an invalidation has been accepted since.
StartsUnfenced ==
    [][stage.pc = "checked" /\ stage'.pc = "running" =>
        ctl.epoch = stage.epoch /\ ctl.active = stage.id /\ ~ctl.fenced]_vars

\* retire_and_join returns TRUE only if nothing native is left, and nothing appears
\* until a later prepare is accepted.
RetirementProof == proved => ~Present(rt) /\ rt.open = {}

\* An acknowledged abort or release of an identity is final: its weights are gone and no
\* late or repeated prepare brings them back.
ReleasedStaysReleased ==
    \A i \in Ids : <<"abort", i>> \in acked \/ <<"release", i>> \in acked => i \notin rt.open

\* Nothing native is lost: what is open has an owner in the host; and between two commands,
\* with no cleanup to come, the controller knows the identity
\* of whatever the host owns, so that a command can still release it.
NothingLost ==
    /\ rt.open \subseteq Owned(rt)
    /\ run.pc = "idle" /\ cleanup.done =>
         Owned(rt) \subseteq {ctl.cand, ctl.active, ctl.prev} \cup ctl.pending

\* After a "ready", and until the master's next command or an invalidation, the committed
\* identity can execute: controller and host agree, and neither is fenced.
ReadyServes ==
    serving # None => /\ ctl.active = serving /\ ~ctl.fenced
                      /\ Ready(rt, serving) \/ serving \in rt.dead

FairSpec == Spec /\ WF_vars(Runner) /\ WF_vars(StageThread)

\* The runtimes an invalidation leaves behind are closed in the end.
AbandonedFreed == ctl.pending # {} ~> ctl.pending = {}

=============================================================================
