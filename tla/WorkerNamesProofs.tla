-------------------------- MODULE WorkerNamesProofs --------------------------
(***************************************************************************)
(* Proofs about WorkerPrepare: what the controller knows of the host, while*)
(* no reconnect overtakes the callback of the connection it replaces.      *)
(*                                                                         *)
(* _on_master_connection_lost returns early when the client has registered *)
(* again, so the controller keeps what it knew of the lost registration.   *)
(* What follows assumes that this does not happen: [][~Overtakes]_vars.    *)
(***************************************************************************)
EXTENDS WorkerPrepareProofs

\* A reconnect before the callback of the connection that was lost.
Overtakes == Reconnect /\ net.lost

(***************************************************************************)
(* Steps, by the fields of the controller.                                 *)
(***************************************************************************)
SameMoment == ctl'.epoch = ctl.epoch /\ ctl'.closed = ctl.closed /\ ctl'.latest = ctl.latest

SameNames ==
    /\ ctl'.cand = ctl.cand /\ ctl'.active = ctl.active /\ ctl'.prev = ctl.prev
    /\ ctl'.scope = ctl.scope /\ ctl'.phase = ctl.phase

\* A step of the runner that publishes nothing.
Silent == /\ SameNames /\ ctl'.fenced = ctl.fenced
          /\ ctl.retired \subseteq ctl'.retired /\ ctl'.pending \subseteq ctl.pending

\* The runner works for a command that is still valid.
Doing == Busy /\ run.cmd.act \in Actions /\ Valid(run.cmd.scope)

\* The four ways in which the runner publishes.
Begun ==
    /\ Doing /\ BeginPrepare /\ run.pc = "begin"
    /\ ctl'.cand = Cmd /\ ctl'.phase = "preparing"
    /\ ctl'.active = ctl.active /\ ctl'.prev = ctl.prev /\ ctl'.scope = ctl.scope
    /\ ctl.retired \subseteq ctl'.retired /\ ctl'.pending = ctl.pending

Committed ==
    /\ Doing /\ PublishCommit /\ run.pc = "promoted" /\ Cmd = ctl.latest
    /\ ctl'.cand = ctl.cand /\ ctl'.phase = "committed"
    /\ ctl'.active = Cmd /\ ctl'.prev = ctl.active /\ ctl'.scope = run.cmd.scope
    /\ ctl'.retired = ctl.retired /\ ctl'.pending = ctl.pending /\ ~ctl'.fenced

Updated == Doing /\ Publish /\ run.pc = "publish" /\ ctl' = Published

Marked ==
    /\ MarkFailed /\ run.pc \in {"error", "failed"} /\ run.cmd.act = "prepare" /\ Current /\ ctl.cand = Cmd
    /\ ctl.phase \notin {"committed", "finalized"} /\ ctl'.phase = "failed"
    /\ ctl'.cand = ctl.cand /\ ctl'.active = ctl.active /\ ctl'.prev = ctl.prev
    /\ ctl'.scope = ctl.scope /\ ctl'.retired = ctl.retired /\ ctl'.pending = ctl.pending

LEMMA ReleaseAllSilent ==
    ASSUME IInv, NEW next, ReleaseAll(next)
    PROVE  SameMoment /\ Silent
<1>1. PICK retired \in SUBSET Ids :
        /\ ctl' = ctl \/ ctl' = [ctl EXCEPT !.retired = retired]
        /\ ctl.retired \subseteq retired
  <2>1. PICK o \in ReleaseRuntime(rt, None) :
          LET closed == o.ok /\ ~Present(o.rt)
          IN  ctl' = IF closed THEN [ctl EXCEPT !.retired = @ \cup ctl.pending \cup Owned(rt)]
                     ELSE ctl
    BY DEF ReleaseAll
  <2>2. ctl.retired \cup ctl.pending \cup Owned(rt) \in SUBSET Ids
    BY NoneNoId DEF IInv, Typed, TypedController, Controllers, Engine, Runtimes, MaybeIds, Owned,
                    Some
  <2> QED
    BY <2>1, <2>2
<1> QED
  BY <1>1 DEF IInv, Typed, TypedController, Controllers, SameMoment, SameNames, Silent

LEMMA RunnerNames ==
    ASSUME IInv, Runner
    PROVE  SameMoment /\ (Silent \/ Begun \/ Committed \/ Updated \/ Marked)
<1>1. ctl \in Controllers
  BY DEF IInv, Typed, TypedController
<1>2. CASE ctl' = ctl
  BY <1>2 DEF SameMoment, SameNames, Silent
<1>3. CASE Pop \/ CheckPrepare \/ Load \/ Recheck \/ CheckCommit \/ Promote \/ CheckTerminal \/ Ack
  BY <1>2, <1>3 DEF Pop, CheckPrepare, Load, Recheck, CheckCommit, Promote, CheckTerminal, Ack
<1>4. CASE BeginPrepare
  <2>1. run.pc = "begin" /\ run.cmd.act = "prepare"
    BY <1>4 DEF BeginPrepare, IInv, Steps, AtBegin
  <2>2. Cmd \in Ids /\ run.loc.cand \in MaybeIds
    BY <2>1, CommandId DEF IInv, Actions, Typed, TypedRunner, Runners, Locals
  <2>3. PICK retired \in {ctl.retired, ctl.retired \cup {run.loc.cand}} :
          \/ ctl' = [ctl EXCEPT !.retired = retired]
          \/ /\ Valid(run.cmd.scope)
             /\ ctl' = [ctl EXCEPT !.retired = retired, !.cand = Cmd, !.phase = "preparing",
                                   !.fenced = TRUE]
    BY <1>4 DEF BeginPrepare
  <2>4. ctl.retired \subseteq retired
    BY <2>3
  <2>5. CASE ctl' = [ctl EXCEPT !.retired = retired]
    BY <1>1, <2>4, <2>5 DEF Controllers, SameMoment, SameNames, Silent
  <2>6. CASE /\ Valid(run.cmd.scope)
             /\ ctl' = [ctl EXCEPT !.retired = retired, !.cand = Cmd, !.phase = "preparing",
                                   !.fenced = TRUE]
    <3>1. SameMoment /\ ctl'.cand = Cmd /\ ctl'.phase = "preparing"
      BY <1>1, <2>6 DEF Controllers, SameMoment
    <3>2. /\ ctl'.active = ctl.active /\ ctl'.prev = ctl.prev /\ ctl'.scope = ctl.scope
          /\ ctl'.retired = retired /\ ctl'.pending = ctl.pending
      BY <1>1, <2>6 DEF Controllers
    <3> QED
      BY <1>4, <2>1, <2>4, <2>6, <3>1, <3>2 DEF Begun, Doing, Busy, Actions
  <2> QED
    BY <2>3, <2>5, <2>6
<1>5. CASE PublishCommit
  <2>1. run.pc = "promoted" /\ run.cmd.act = "commit"
    BY <1>5 DEF PublishCommit, IInv, Steps, AtPromote
  <2>2. CASE Valid(run.cmd.scope) /\ Cmd = ctl.latest
    <3>1. ctl' = [ctl EXCEPT !.prev = ctl.active, !.active = Cmd, !.scope = run.cmd.scope,
                             !.phase = "committed", !.fenced = FALSE]
      BY <1>5, <2>2 DEF PublishCommit
    <3>2. /\ SameMoment /\ ctl'.cand = ctl.cand /\ ctl'.phase = "committed"
          /\ ctl'.active = Cmd /\ ctl'.prev = ctl.active /\ ctl'.scope = run.cmd.scope
          /\ ctl'.retired = ctl.retired /\ ctl'.pending = ctl.pending /\ ~ctl'.fenced
      BY <1>1, <3>1 DEF Controllers, SameMoment
    <3> QED
      BY <1>5, <2>1, <2>2, <3>2 DEF Committed, Doing, Busy, Actions
  <2>3. CASE ~(Valid(run.cmd.scope) /\ Cmd = ctl.latest)
    BY <1>2, <1>5, <2>3 DEF PublishCommit
  <2> QED
    BY <2>2, <2>3
<1>6. CASE Settle
  <2>1. PICK o \in SettleRuntime(SettleKind) :
          ctl' = IF o.ok THEN [ctl EXCEPT !.retired = @ \cup SettleRecord(SettleKind),
                                 !.pending = IF SettleKind = "pending" THEN @ \ {Cmd} ELSE @]
                 ELSE ctl
    BY <1>6 DEF Settle
  <2> DEFINE pending == IF SettleKind = "pending" THEN ctl.pending \ {Cmd} ELSE ctl.pending
             retired == ctl.retired \cup SettleRecord(SettleKind)
  <2>2. CASE ctl' = [ctl EXCEPT !.retired = retired, !.pending = pending]
    <3>1. pending \subseteq ctl.pending /\ ctl.retired \subseteq retired
      OBVIOUS
    <3> HIDE DEF pending, retired
    <3> QED
      BY <1>1, <2>2, <3>1 DEF Controllers, SameMoment, SameNames, Silent
  <2> QED
    BY <1>2, <2>1, <2>2
<1>7. CASE Publish
  <2>1. run.pc = "publish"
    BY <1>7 DEF Publish
  <2>2. CASE Valid(run.cmd.scope) /\ ctl' = Published
    <3>1. SameMoment
      BY <2>1, <2>2, PublishMoves DEF SameMoment
    <3>2. run.cmd.act \in Actions
      BY <2>1 DEF IInv, Typed, TypedRunner
    <3> QED
      BY <1>7, <2>1, <2>2, <3>1, <3>2 DEF Updated, Doing, Busy
  <2> QED
    BY <1>2, <1>7, <2>2 DEF Publish
<1>8. CASE Post \/ FenceCleanup \/ Retire
  BY <1>2, <1>8, ReleaseAllSilent DEF Post, FenceCleanup, Retire
<1>9. CASE MarkFailed
  <2>1. CASE ctl' # ctl
    <3>1. /\ ctl' = [ctl EXCEPT !.phase = "failed"] /\ Current /\ run.cmd.act = "prepare"
          /\ ctl.cand = Cmd /\ ctl.phase \notin {"committed", "finalized"}
      BY <1>9, <2>1 DEF MarkFailed, Current
    <3>2. run.pc \in {"error", "failed"}
      BY <1>9 DEF MarkFailed
    <3> QED
      BY <1>1, <1>9, <3>1, <3>2 DEF Controllers, Marked, SameMoment
  <2> QED
    BY <1>2, <2>1
<1>10. CASE Clear
  <2>1. CASE ctl' = [ctl EXCEPT !.pending = {}]
    BY <1>1, <2>1 DEF Controllers, SameMoment, SameNames, Silent
  <2> QED
    BY <1>2, <1>10, <2>1 DEF Clear
<1> QED
  BY <1>3, <1>4, <1>5, <1>6, <1>7, <1>8, <1>9, <1>10 DEF Runner

\* What an update makes of the controller's names, by its kind.
PublishedNames(c) ==
    /\ run.kind \in {"prepared", "dropped", "finalized"} =>
         /\ c.cand = ctl.cand /\ c.active = ctl.active /\ c.scope = ctl.scope
         /\ c.fenced = ctl.fenced
         /\ c.phase = (IF run.kind = "dropped" THEN ctl.phase ELSE run.kind)
         /\ c.prev = (IF run.kind = "prepared" THEN ctl.prev ELSE None)
    /\ run.kind \in {"empty", "released"} =>
         /\ c.cand = (IF ctl.cand = Cmd THEN None ELSE ctl.cand)
         /\ c.phase = (IF ctl.cand = Cmd THEN "released" ELSE ctl.phase)
         /\ IF run.kind = "released" /\ ctl.active = Cmd
            THEN c.active = None /\ c.prev = None
            ELSE c.active = ctl.active /\ c.prev = ctl.prev /\ c.scope = ctl.scope
         /\ run.kind = "empty" => c.fenced = ctl.fenced
    /\ run.kind = "aborted" =>
         /\ c.cand = None /\ c.prev = None /\ c.phase = "aborted"
         /\ c.active = (IF ~run.loc.restore THEN None
                        ELSE IF run.loc.phase = "committed" THEN run.loc.prev ELSE ctl.active)
         /\ c.active # None => c.scope = run.cmd.scope

LEMMA PublishFields ==
    ASSUME IInv, NEW c, c = Published
    PROVE  PublishedNames(c)
<1>1. ctl \in Controllers
  BY DEF IInv, Typed, TypedController
<1>2. CASE run.kind = "prepared"
  <2>1. c = [ctl EXCEPT !.phase = "prepared"]
    BY <1>2 DEF Published
  <2> QED
    BY <1>1, <1>2, <2>1 DEF Controllers, PublishedNames
<1>3. CASE run.kind = "dropped"
  <2>1. c = [ctl EXCEPT !.prev = None]
    BY <1>3 DEF Published
  <2> QED
    BY <1>1, <1>3, <2>1 DEF Controllers, PublishedNames
<1>4. CASE run.kind = "finalized"
  <2>1. c = [ctl EXCEPT !.prev = None, !.phase = "finalized"]
    BY <1>4 DEF Published
  <2> QED
    BY <1>1, <1>4, <2>1 DEF Controllers, PublishedNames
<1>5. CASE run.kind = "aborted"
  <2> DEFINE kept == IF ~run.loc.restore THEN None
                     ELSE IF run.loc.phase = "committed" THEN run.loc.prev ELSE ctl.active
             scope == IF kept # None THEN run.cmd.scope ELSE NoScope
             fenced == kept = None
  <2>1. c = [ctl EXCEPT !.active = kept, !.prev = None, !.cand = None, !.phase = "aborted",
                        !.scope = scope, !.fenced = fenced]
    BY <1>5 DEF Published
  <2>2. /\ kept = (IF ~run.loc.restore THEN None
                   ELSE IF run.loc.phase = "committed" THEN run.loc.prev ELSE ctl.active)
        /\ kept # None => scope = run.cmd.scope
    OBVIOUS
  <2> HIDE DEF kept, scope, fenced
  <2>3. /\ c.active = kept /\ c.prev = None /\ c.cand = None /\ c.phase = "aborted"
        /\ c.scope = scope
    BY <1>1, <2>1 DEF Controllers
  <2> QED
    BY <1>5, <2>2, <2>3 DEF PublishedNames
<1>6. CASE run.kind \in {"empty", "released"}
  <2> DEFINE cleared == IF ctl.cand = Cmd THEN Forgotten ELSE ctl
  <2>1. /\ cleared.cand = (IF ctl.cand = Cmd THEN None ELSE ctl.cand)
        /\ cleared.phase = (IF ctl.cand = Cmd THEN "released" ELSE ctl.phase)
        /\ cleared.active = ctl.active /\ cleared.prev = ctl.prev
        /\ cleared.scope = ctl.scope /\ cleared.fenced = ctl.fenced
        /\ cleared \in Controllers
    <3>1. CASE ctl.cand = Cmd
      <4>1. cleared = [ctl EXCEPT !.cand = None, !.phase = "released"]
        BY <3>1 DEF Forgotten
      <4>2. None \in MaybeIds /\ "released" \in Phases
        BY DEF MaybeIds, Phases
      <4> HIDE DEF cleared
      <4> QED
        BY <1>1, <3>1, <4>1, <4>2 DEF Controllers
    <3> QED
      BY <1>1, <3>1
  <2>2. c = (IF run.kind = "empty" THEN cleared
             ELSE IF ctl.active = Cmd
                  THEN [cleared EXCEPT !.prev = None, !.active = None, !.scope = NoScope,
                                       !.fenced = TRUE]
                  ELSE [cleared EXCEPT !.fenced = TRUE])
    BY <1>6 DEF Published, Forgotten
  <2> HIDE DEF cleared
  <2>3. CASE run.kind = "empty"
    BY <2>1, <2>2, <2>3 DEF PublishedNames
  <2>4. CASE run.kind = "released" /\ ctl.active = Cmd
    <3>1. c = [cleared EXCEPT !.prev = None, !.active = None, !.scope = NoScope, !.fenced = TRUE]
      BY <2>2, <2>4
    <3>2. /\ c.cand = cleared.cand /\ c.phase = cleared.phase /\ c.active = None
          /\ c.prev = None
      BY <2>1, <3>1 DEF Controllers
    <3> QED
      BY <2>1, <2>4, <3>2 DEF PublishedNames
  <2>5. CASE run.kind = "released" /\ ctl.active # Cmd
    <3>1. c = [cleared EXCEPT !.fenced = TRUE]
      BY <2>2, <2>5
    <3>2. /\ c.cand = cleared.cand /\ c.phase = cleared.phase /\ c.active = cleared.active
          /\ c.prev = cleared.prev /\ c.scope = cleared.scope
      BY <2>1, <3>1 DEF Controllers
    <3> QED
      BY <2>1, <2>5, <3>2 DEF PublishedNames
  <2> QED
    BY <1>6, <2>3, <2>4, <2>5
<1> QED
  BY <1>2, <1>3, <1>4, <1>5, <1>6 DEF PublishedNames

\* What the steps of the runner share, but for the one that takes the next command.
LEMMA RunnerFrames ==
    ASSUME IInv, Runner, ~Pop
    PROVE  /\ Busy /\ UNCHANGED <<net, queue, sent>>
           /\ run' = Idle \/ run'.cmd = run.cmd
           /\ ~Ack => serving' = serving
<1>1. Busy /\ UNCHANGED <<net, queue, sent>> /\ (~Ack => serving' = serving)
  BY DEF Runner, RunnerFrame, CheckPrepare, BeginPrepare, Load, Recheck, CheckCommit, Promote,
         PublishCommit, CheckTerminal, Settle, Publish, Post, FenceCleanup, MarkFailed, Retire,
         Clear, Ack, Busy
<1>2. CASE Ack \/ Clear
  BY <1>1, <1>2, RunnerMoves DEF Moves
<1>3. CASE CheckPrepare \/ BeginPrepare \/ Load \/ Recheck \/ CheckCommit \/ Promote
  BY <1>1, <1>3, RunnerMoves DEF Moves
<1>4. CASE PublishCommit \/ CheckTerminal \/ Settle \/ Publish \/ Post
  BY <1>1, <1>4, RunnerMoves DEF Moves
<1>5. CASE FenceCleanup \/ MarkFailed \/ Retire
  BY <1>1, <1>5, RunnerMoves DEF Moves
<1> QED
  BY <1>1, <1>2, <1>3, <1>4, <1>5 DEF Runner

\* An invalidation, by what it makes of the names.
Cleared ==
    /\ ctl'.cand = None /\ ctl'.active = None /\ ctl'.prev = None /\ ctl'.phase = "released"
    /\ ctl'.pending = ctl.pending \cup Some({ctl.cand, ctl.active, ctl.prev})
    /\ ctl'.retired = ctl.retired /\ ctl'.epoch = ctl.epoch + 1
    /\ queue' = Requeued /\ serving' = None

LEMMA InvalidateClears ==
    ASSUME IInv, NEW close \in BOOLEAN, Invalidate(close)
    PROVE  Cleared /\ rt' = Fenced(rt)
<1> DEFINE pending == ctl.pending \cup Some({ctl.cand, ctl.active, ctl.prev})
           closed == ctl.closed \/ close
<1>1. ctl' = [ctl EXCEPT !.epoch = ctl.epoch + 1, !.closed = closed,
                          !.fenced = TRUE, !.pending = pending,
                          !.cand = None, !.active = None, !.prev = None,
                          !.scope = NoScope, !.latest = None, !.phase = "released"]
  BY DEF Invalidate
<1>2. queue' = Requeued /\ serving' = None /\ rt' = Fenced(rt)
  BY DEF Invalidate
<1>3. pending = ctl.pending \cup Some({ctl.cand, ctl.active, ctl.prev})
  OBVIOUS
<1> HIDE DEF pending, closed
<1>4. /\ ctl'.cand = None /\ ctl'.active = None /\ ctl'.prev = None /\ ctl'.phase = "released"
      /\ ctl'.pending = pending /\ ctl'.retired = ctl.retired /\ ctl'.epoch = ctl.epoch + 1
  BY <1>1 DEF IInv, Typed, TypedController, Controllers
<1> QED
  BY <1>2, <1>3, <1>4 DEF Cleared

\* A command accepted, by what it makes of the names.
LEMMA HandleNames ==
    ASSUME IInv, NEW a \in Actions, NEW i \in Ids, Handle(a, i)
    PROVE  /\ SameNames /\ ctl'.epoch = ctl.epoch /\ ctl'.closed = ctl.closed
           /\ ctl'.retired = ctl.retired /\ ctl'.pending = ctl.pending
           /\ \/ ctl' = ctl /\ rt' = rt /\ (a = "prepare" => i <= ctl.latest)
              \/ a = "prepare" /\ ctl'.latest = i /\ i > ctl.latest /\ rt' = Fenced(rt)
           /\ sent'.dropped = sent.dropped \cup (IF a \in {"abort", "release"} THEN {i} ELSE {})
           /\ queue' = Append(queue, [act |-> a, id |-> i, scope |-> Scope])
           /\ Valid(Scope) /\ net' = net
           /\ serving' = IF a = "finalize" THEN serving ELSE None
<1>1. /\ Valid(Scope) /\ net' = net
      /\ queue' = Append(queue, [act |-> a, id |-> i, scope |-> Scope])
      /\ serving' = IF a = "finalize" THEN serving ELSE None
      /\ sent'.dropped = sent.dropped \cup (IF a \in {"abort", "release"} THEN {i} ELSE {})
  BY DEF Handle
<1>2. \/ ctl' = ctl /\ rt' = rt /\ ~(a = "prepare" /\ i > ctl.latest)
      \/ /\ a = "prepare" /\ i > ctl.latest /\ rt' = Fenced(rt)
         /\ ctl' = [ctl EXCEPT !.latest = i, !.fenced = TRUE]
  BY DEF Handle
<1>3. ctl.latest \in Nat /\ i \in Nat
  BY NumbersTyped, IdsNat DEF IInv
<1>4. CASE ctl' = ctl /\ rt' = rt /\ ~(a = "prepare" /\ i > ctl.latest)
  BY <1>1, <1>3, <1>4 DEF SameNames
<1>5. CASE ctl' = [ctl EXCEPT !.latest = i, !.fenced = TRUE] /\ a = "prepare" /\ i > ctl.latest
           /\ rt' = Fenced(rt)
  BY <1>1, <1>5 DEF SameNames, IInv, Typed, TypedController, Controllers
<1> QED
  BY <1>2, <1>4, <1>5

\* The steps of the other threads.
LEMMA OtherNames ==
    ASSUME IInv, Others
    PROVE  \/ \E a \in Actions, i \in Ids : Handle(a, i)
           \/ /\ Cleared /\ net'.up = net.up /\ net'.link = net.link
              /\ net'.lost => net.lost
              /\ rt' = Fenced(rt) /\ sent' = sent
           \/ /\ Reopen /\ SameNames /\ ctl'.epoch = ctl.epoch + 1
              /\ ctl'.pending = ctl.pending /\ ctl'.latest = ctl.latest
              /\ ctl'.retired = ctl.retired
              /\ UNCHANGED <<net, queue, run, sent, rt, serving>>
           \/ /\ UNCHANGED <<ctl, queue, run, sent>>
              /\ \/ Drop /\ serving' = None
                 \/ Reconnect /\ serving' = serving
                 \/ net' = net /\ serving' = serving
                 \/ net.lost /\ net.up /\ net' = [net EXCEPT !.lost = FALSE] /\ serving' = serving
              /\ rt' = rt \/ \E i \in Ids : rt' = [rt EXCEPT !.dead = @ \cup {i}]
<1>1. CASE \E a \in Actions, i \in Ids : Handle(a, i)
  BY <1>1
<1>2. CASE AckFails \/ Close \/ RetireBegin \/ (Lost /\ ~net.up)
  <2>1. \E close \in BOOLEAN : Invalidate(close)
    BY <1>2 DEF AckFails, Close, RetireBegin, Lost, InvalidateNow
  <2>2. net' = net \/ net' = [net EXCEPT !.lost = FALSE]
    BY <1>2 DEF AckFails, Close, RetireBegin, Lost
  <2>3. net'.up = net.up /\ net'.link = net.link /\ (net'.lost => net.lost)
    BY <2>2 DEF IInv, Typed, TypedWorld
  <2>4. sent' = sent
    BY <1>2 DEF AckFails, Close, RetireBegin, Lost, InvalidateNow
  <2> QED
    BY <2>1, <2>3, <2>4, InvalidateClears
<1>3. CASE Reopen
  <2>1. /\ ctl' = [ctl EXCEPT !.closed = FALSE, !.epoch = ctl.epoch + 1]
        /\ UNCHANGED <<net, queue, run, sent, rt, serving>>
    BY <1>3 DEF Reopen
  <2>2. /\ SameNames /\ ctl'.epoch = ctl.epoch + 1 /\ ctl'.retired = ctl.retired
        /\ ctl'.pending = ctl.pending /\ ctl'.latest = ctl.latest
    BY <2>1 DEF SameNames, IInv, Typed, TypedController, Controllers
  <2> QED
    BY <1>3, <2>1, <2>2
<1>4. CASE Drop \/ Reconnect
  BY <1>4 DEF Drop, Reconnect
<1>5. CASE Lost /\ net.up
  BY <1>5 DEF Lost
<1>6. CASE RetireJoin \/ RetireTimeout \/ StageAsk \/ StageThread \/ (\E i \in Ids : Dies(i))
  BY <1>6 DEF RetireJoin, RetireTimeout, StageAsk, StageThread, StageCheck, StageStart, StageDone,
              StageFrame, Dies
<1> QED
  BY <1>1, <1>2, <1>3, <1>4, <1>5, <1>6 DEF Others

(***************************************************************************)
(* The registration that the controller's names and commands belong to.    *)
(***************************************************************************)
\* The registration of the last command accepted: up, or lost with its callback still to come.
Opened == ~ctl.closed /\ (net.up \/ net.lost)
Fresh(s) == Opened /\ s.epoch = ctl.epoch /\ s.link = net.link

\* The controller has a name for nothing native.
Blank == ctl.cand = None /\ ctl.active = None

\* The runner works for the master, in the current epoch.
Serving == Busy /\ run.cmd.act \in Actions /\ Current

QueueLinked ==
    \A k \in 1..Len(queue) :
      /\ queue[k].act \in Actions => Fresh(queue[k].scope)
      /\ queue[k].act \notin Actions => k = 1 /\ Blank /\ ~Serving

RunLinked == Busy => IF Serving THEN Fresh(run.cmd.scope) ELSE Blank

NamesLinked ==
    /\ ~Blank => Opened
    /\ ctl.active # None => Fresh(ctl.scope)

Linked == (net.lost => ~net.up) /\ QueueLinked /\ RunLinked /\ NamesLinked

LEMMA ValidFresh ==
    ASSUME NEW s
    PROVE  /\ Valid(s) => Fresh(s)
           /\ Fresh(s) /\ net.up => Valid(s)
BY DEF Valid, Fresh, Opened

LEMMA DoingServing == Doing => Serving
BY DEF Doing, Serving, Valid, Current

LEMMA IdleNotBusy == ASSUME run' = Idle PROVE ~Busy'
BY IdlePc DEF Busy

LEMMA SameStepServing ==
    ASSUME IInv, SameStep \/ run' = Idle
    PROVE  /\ Busy' => Busy /\ run'.cmd = run.cmd /\ run'.pc = run.pc /\ run'.loc = run.loc
                       /\ run'.kind = run.kind
           /\ ctl'.epoch = ctl.epoch => (Serving' => Serving)
           /\ ctl'.epoch > ctl.epoch => (Busy' => ~Current') /\ ~Serving'
<1>1. Busy' => Busy /\ run'.cmd = run.cmd /\ run'.pc = run.pc /\ run'.loc = run.loc
               /\ run'.kind = run.kind
  BY IdleNotBusy DEF SameStep, Busy
<1>2. ctl'.epoch = ctl.epoch => (Serving' => Serving)
  BY <1>1 DEF Serving, Current
<1>3. run.cmd.scope.epoch <= ctl.epoch /\ run.cmd.scope.epoch \in Int /\ ctl.epoch \in Int
  BY CommandTyped DEF IInv, Tied, Clock, Typed, TypedController, Controllers, ScopeSet
<1>4. ctl'.epoch > ctl.epoch => (Busy' => run'.cmd.scope.epoch # ctl'.epoch)
  BY <1>1, <1>3, IInv DEF Busy
<1> QED
  BY <1>1, <1>2, <1>4 DEF Serving, Current

LEMMA LinkedHandle ==
    ASSUME IInv, IInv', Linked, NEW a \in Actions, NEW i \in Ids, Handle(a, i)
    PROVE  Linked'
<1> DEFINE cmd == [act |-> a, id |-> i, scope |-> Scope]
<1>1. /\ SameNames /\ ctl'.epoch = ctl.epoch /\ ctl'.closed = ctl.closed /\ net' = net
      /\ queue' = Append(queue, cmd) /\ Valid(Scope)
  BY HandleNames
<1>2. cmd.act \in Actions /\ Fresh(cmd.scope)
  BY <1>1, ValidFresh
<1> HIDE DEF cmd
<1>3. (Busy' => Busy /\ run'.cmd = run.cmd) /\ (Serving' => Serving) /\ (Busy' /\ Serving => Serving')
  <2>1. Others
    BY DEF Others
  <2> QED
    BY <1>1, <2>1, OtherMoves, SameStepServing DEF Serving, Current
<1>4. \A s : Fresh(s) => Fresh(s)'
  BY <1>1 DEF Fresh, Opened
<1>5. Blank' <=> Blank
  BY <1>1 DEF SameNames, Blank
<1>6. QueueLinked'
  <2> SUFFICES ASSUME NEW k \in 1..Len(queue')
               PROVE  (/\ queue[k].act \in Actions => Fresh(queue[k].scope)
                       /\ queue[k].act \notin Actions => k = 1 /\ Blank /\ ~Serving)'
    BY DEF QueueLinked
  <2>1. queue \in Seq(Commands) /\ Len(queue) \in Nat
    BY DEF IInv, Typed, TypedQueue
  <2>2. k = Len(queue) + 1 \/ k \in 1..Len(queue)
    BY <1>1, <2>1
  <2>3. CASE k = Len(queue) + 1
    <3>1. queue'[k] = cmd
      BY <1>1, <2>1, <2>3
    <3> QED
      BY <1>2, <1>4, <3>1
  <2>4. CASE k \in 1..Len(queue)
    <3>1. queue'[k] = queue[k]
      BY <1>1, <2>1, <2>4
    <3> QED
      BY <1>3, <1>4, <1>5, <2>4, <3>1 DEF Linked, QueueLinked
  <2> QED
    BY <2>2, <2>3, <2>4
<1>7. RunLinked'
  BY <1>3, <1>4, <1>5 DEF Linked, RunLinked
<1>8. NamesLinked'
  BY <1>1, <1>4, <1>5 DEF Linked, NamesLinked, SameNames, Opened
<1> QED
  BY <1>1, <1>6, <1>7, <1>8 DEF Linked

LEMMA LinkedCleared ==
    ASSUME IInv, Linked, Cleared, net'.up = net.up, net'.lost => net.lost, SameStep \/ run' = Idle
    PROVE  Linked'
<1>1. ctl.epoch \in Int
  BY DEF IInv, Typed, TypedController, Controllers
<1>2. Blank' /\ ~Serving' /\ queue' = Requeued
  BY <1>1, SameStepServing DEF Cleared, Blank
<1>3. Len(queue') = 1 /\ queue'[1].act = "cleanup"
  BY <1>2 DEF Requeued
<1>4. QueueLinked'
  BY <1>2, <1>3 DEF QueueLinked, Actions
<1>5. RunLinked' /\ NamesLinked'
  BY <1>2 DEF RunLinked, NamesLinked, Blank
<1> QED
  BY <1>4, <1>5 DEF Linked

\* Nothing is left of a registration that is gone.
LEMMA GoneBlank ==
    ASSUME IInv, Linked, ~Opened
    PROVE  Blank /\ ~Serving /\ \A k \in 1..Len(queue) : queue[k].act \notin Actions
BY DEF Linked, NamesLinked, RunLinked, QueueLinked, Fresh, Serving

LEMMA GoneLinked ==
    ASSUME IInv, Linked, ~Opened, SameNames, UNCHANGED <<queue, run>>,
           ctl'.epoch = ctl.epoch \/ ctl'.epoch = ctl.epoch + 1, net'.lost => ~net'.up
    PROVE  Linked'
<1>1. Blank /\ ~Serving /\ \A k \in 1..Len(queue) : queue[k].act \notin Actions
  BY GoneBlank
<1>2. ctl.epoch \in Int
  BY DEF IInv, Typed, TypedController, Controllers
<1>3. Blank' /\ ~Serving'
  BY <1>1, <1>2, SameStepServing DEF SameNames, Blank, SameStep
<1> QED
  BY <1>1, <1>3 DEF Linked, QueueLinked, RunLinked, NamesLinked, Blank

LEMMA LinkedWorld ==
    ASSUME IInv, Linked, ~Overtakes, UNCHANGED <<ctl, queue, run>>,
           \/ Drop \/ Reconnect \/ net' = net
           \/ net.lost /\ net.up
    PROVE  Linked'
<1>1. CASE Reconnect
  <2>1. ~net.up /\ ~net.lost /\ net' = [net EXCEPT !.up = TRUE, !.link = @ + 1]
    BY <1>1 DEF Reconnect, Overtakes
  <2>2. ~Opened /\ ~net'.lost
    BY <2>1 DEF Opened, IInv, Typed, TypedWorld
  <2> QED
    BY <2>2, GoneLinked DEF SameNames
<1>2. CASE Drop
  <2>1. net' = [net EXCEPT !.up = FALSE, !.lost = TRUE]
    BY <1>2 DEF Drop
  <2>2. ~net'.up /\ net'.lost /\ net'.link = net.link
    BY <2>1 DEF IInv, Typed, TypedWorld
  <2>3. \A s : Fresh(s) => Fresh(s)'
    BY <2>2 DEF Fresh, Opened
  <2>4. Opened => Opened'
    BY <2>2 DEF Opened
  <2> QED
    BY <2>2, <2>3, <2>4 DEF Linked, QueueLinked, RunLinked, NamesLinked, Blank, Serving, Busy, Current
<1>3. CASE net' = net
  BY <1>3 DEF Linked, QueueLinked, RunLinked, NamesLinked, Blank, Serving, Busy, Current, Fresh, Opened
<1> QED
  BY <1>1, <1>2, <1>3 DEF Linked

\* The head of the queue and what follows it.
LEMMA PopQueue ==
    ASSUME IInv, Pop
    PROVE  /\ queue' = Tail(queue) /\ run'.cmd = queue[1] /\ Len(queue) >= 1
           /\ Len(queue) \in Nat /\ queue[1] \in Commands
           /\ \A k \in 1..Len(queue') : queue'[k] = queue[k + 1] /\ k + 1 \in 1..Len(queue)
           /\ UNCHANGED <<net, ctl, rt, sent, serving>> /\ ~Busy /\ run'.cancelled = FALSE
           /\ run'.pc \in {"check", "retire"} /\ run'.loc = run.loc
<1>1. queue' = Tail(queue) /\ run'.cmd = Head(queue) /\ queue # <<>>
      /\ UNCHANGED <<net, ctl, rt, sent, serving>> /\ ~Busy /\ run'.pc \in {"check", "retire"}
  BY RunnerMoves DEF Pop, Busy
<1>2. queue \in Seq(Commands)
  BY DEF IInv, Typed, TypedQueue
<1>3. Len(queue) \in Nat /\ Len(queue) >= 1 /\ Head(queue) = queue[1] /\ queue[1] \in Commands
  BY <1>1, <1>2
<1>4. \A k \in 1..Len(queue') : queue'[k] = queue[k + 1] /\ k + 1 \in 1..Len(queue)
  BY <1>1, <1>2
<1>5. run'.cancelled = FALSE /\ run'.loc = run.loc
  <2> DEFINE pc == IF Head(queue).act = "cleanup" THEN "retire" ELSE "check"
  <2>1. run' = [run EXCEPT !.cmd = Head(queue), !.cancelled = FALSE, !.pc = pc] /\ run \in Runners
    BY DEF Pop, IInv, Typed, TypedRunner
  <2> HIDE DEF pc
  <2> QED
    BY <2>1 DEF Runners
<1> QED
  BY <1>1, <1>3, <1>4, <1>5

LEMMA LinkedPop ==
    ASSUME IInv, Linked, Pop
    PROVE  Linked'
<1>1. /\ run'.cmd = queue[1] /\ 1 \in 1..Len(queue)
      /\ \A k \in 1..Len(queue') : queue'[k] = queue[k + 1] /\ k + 1 \in 1..Len(queue) /\ k + 1 # 1
      /\ UNCHANGED <<net, ctl>>
  BY PopQueue
<1>2. /\ \A s : Fresh(s)' <=> Fresh(s)
      /\ Blank' <=> Blank
      /\ Opened' <=> Opened
  BY <1>1 DEF Fresh, Opened, Blank
<1>3. QueueLinked'
  BY <1>1, <1>2 DEF Linked, QueueLinked
<1>4. RunLinked'
  BY <1>1, <1>2 DEF Linked, QueueLinked, RunLinked, Serving, Current, Fresh
<1>5. NamesLinked'
  BY <1>1, <1>2 DEF Linked, NamesLinked
<1> QED
  BY <1>1, <1>3, <1>4, <1>5 DEF Linked

LEMMA LinkedRunner ==
    ASSUME IInv, Linked, Runner, ~Pop
    PROVE  Linked'
<1>1. /\ Busy /\ UNCHANGED <<net, queue, sent>> /\ (run' = Idle \/ run'.cmd = run.cmd)
      /\ ctl'.epoch = ctl.epoch /\ ctl'.closed = ctl.closed
      /\ Silent \/ Begun \/ Committed \/ Updated \/ Marked
  BY RunnerFrames, RunnerNames DEF SameMoment
<1>2. (\A s : Fresh(s)' <=> Fresh(s)) /\ (Opened' <=> Opened)
  BY <1>1 DEF Fresh, Opened
<1>3. (Busy' => run'.cmd = run.cmd) /\ (Serving' => Serving) /\ (Serving /\ Busy' => Serving')
  BY <1>1, IdleNotBusy DEF Serving, Current
<1>4. CASE Serving
  <2>1. Fresh(run.cmd.scope)
    BY <1>1, <1>4 DEF Linked, RunLinked
  <2>2. QueueLinked'
    BY <1>1, <1>2, <1>4 DEF Linked, QueueLinked
  <2>3. RunLinked'
    BY <1>2, <1>3, <1>4, <2>1 DEF RunLinked
  <2>4. ctl'.active # None => Fresh(ctl'.scope)
    <3>1. CASE Silent \/ Begun \/ Marked
      BY <3>1 DEF Silent, SameNames, Begun, Marked, Linked, NamesLinked
    <3>2. CASE Committed
      BY <2>1, <3>2 DEF Committed
    <3>3. CASE Updated
      <4>1. PublishedNames(ctl') /\ run.kind \in {"prepared", "empty", "dropped", "released",
                                                  "aborted", "finalized"}
        BY <3>3, PublishFields DEF Updated, IInv, Steps, AtPublish
      <4> QED
        BY <2>1, <4>1 DEF PublishedNames, Linked, NamesLinked
    <3> QED
      BY <1>1, <3>1, <3>2, <3>3
  <2>5. NamesLinked'
    BY <1>2, <2>1, <2>4 DEF NamesLinked, Fresh
  <2> QED
    BY <1>1, <2>2, <2>3, <2>5 DEF Linked
<1>5. CASE ~Serving
  <2>1. Silent \/ Marked
    BY <1>1, <1>5, DoingServing DEF Begun, Committed, Updated
  <2>2. Blank /\ Blank'
    BY <1>1, <1>5, <2>1 DEF Linked, RunLinked, Silent, SameNames, Marked, Blank
  <2> QED
    BY <1>1, <1>2, <1>3, <1>5, <2>2
      DEF Linked, QueueLinked, RunLinked, NamesLinked, Blank
<1> QED
  BY <1>4, <1>5

LEMMA LinkedKeeps ==
    ASSUME IInv, IInv', Linked, [Next]_vars, ~Overtakes
    PROVE  Linked'
<1>1. CASE UNCHANGED vars
  BY <1>1, LinkedWorld DEF vars
<1>2. CASE Pop
  BY <1>2, LinkedPop
<1>3. CASE Runner /\ ~Pop
  BY <1>3, LinkedRunner
<1>4. CASE Others
  <2>1. CASE \E a \in Actions, i \in Ids : Handle(a, i)
    BY <2>1, LinkedHandle
  <2>2. CASE Cleared /\ net'.up = net.up /\ (net'.lost => net.lost)
    BY <1>4, <2>2, OtherMoves, LinkedCleared
  <2>3. CASE /\ Reopen /\ SameNames /\ ctl'.epoch = ctl.epoch + 1
             /\ UNCHANGED <<net, queue, run>>
    <3>1. ~Opened /\ (net'.lost => ~net'.up)
      BY <2>3 DEF Reopen, Opened, Linked
    <3> QED
      BY <2>3, <3>1, GoneLinked
  <2>4. CASE /\ UNCHANGED <<ctl, queue, run>>
             /\ Drop \/ Reconnect \/ net' = net \/ (net.lost /\ net.up)
    BY <2>4, LinkedWorld
  <2> QED
    BY <1>4, <2>1, <2>2, <2>3, <2>4, OtherNames
<1> QED
  BY <1>1, <1>2, <1>3, <1>4, NextCases

(***************************************************************************)
(* What the runner read and was told.                                      *)
(***************************************************************************)
Serious == {"committed", "finalized"}

\* The phase says whether the candidate is the active identity.
Phased ==
    /\ ctl.phase \in Serious => ctl.active = ctl.cand
    /\ ctl.phase \in Serious \cup {"prepared"} => ctl.cand # None

\* An identity for which no prepare is accepted any more.
Past(x) == x = None \/ x < ctl.latest \/ x \in ctl.retired

Aged ==
    /\ Past(ctl.active) \/ (ctl.active = ctl.cand /\ ctl.phase \in Serious)
    /\ ctl.phase = "committed" => Past(ctl.prev)
    /\ run.pc \in {"begin", "load"} /\ Current => ctl.active # Cmd

\* What the runner read of the controller is still so, unless an invalidation has replaced it.
ReadAll ==
    /\ run.loc.phase = ctl.phase /\ run.loc.cand = ctl.cand
    /\ run.loc.active = ctl.active /\ run.loc.prev = ctl.prev
    /\ ctl.active # None => run.loc.restore

Read ==
    /\ run.pc = "begin" /\ Current =>
         /\ run.loc.phase = ctl.phase /\ ctl.phase # "committed"
         /\ ctl.phase = "prepared" => ctl.cand # ctl.latest
    /\ run.pc = "settle" \/ (run.pc = "publish" /\ run.kind # "prepared") =>
         (Current => ReadAll)

\* The way the runner took for a terminal command, by what it read.
Chosen ==
    run.pc = "publish" =>
      /\ run.kind = "aborted" => run.cmd.act = "abort" /\ Cmd = run.loc.cand
      /\ run.kind = "released" => run.cmd.act = "release" /\ Cmd \in {run.loc.active, run.loc.cand}
      /\ run.kind = "finalized" => run.cmd.act = "finalize" /\ run.loc.phase \in Serious

\* The commands in the queue, and the one the runner works for, are the master's.
ToldQueue ==
    \A k \in 1..Len(queue) :
      /\ queue[k].act \in {"abort", "release"} => queue[k].id \in sent.dropped
      /\ queue[k].act = "prepare" => queue[k].id <= ctl.latest

ToldRun ==
    /\ Busy /\ run.cmd.act \in {"abort", "release"} => Cmd \in sent.dropped
    /\ Busy /\ run.cmd.act = "prepare" /\ Current =>
         /\ Cmd <= ctl.latest
         /\ run.cancelled => Cmd \in sent.dropped \/ Cmd # ctl.latest

\* A command that is about to be acknowledged has been carried out.
ToldDone ==
    /\ run.pc = "post" /\ run.cmd.act = "prepare" /\ Current => ctl.cand = Cmd
    /\ run.pc \in {"post", "ack"} /\ run.cmd.act = "commit" /\ Current =>
         ctl.cand = Cmd /\ ctl.phase \in Serious

Told == ToldQueue /\ ToldRun /\ ToldDone

Learned == Phased /\ Aged /\ Read /\ Chosen /\ Told

\* How the runner comes to each of its stretches, and with what.
Reads ==
    /\ run'.pc = "begin" =>
         /\ CheckPrepare /\ run.pc = "check" /\ run.cmd.act = "prepare"
         /\ run'.loc.phase = ctl.phase /\ run'.loc.cand = ctl.cand
         /\ Cmd = ctl.latest /\ Cmd \notin ctl.retired
         /\ ~(ctl.cand = Cmd /\ ctl.phase \in {"prepared", "committed", "finalized"})
         /\ ctl.phase # "committed"
    /\ run'.pc = "load" => run.pc = "begin"
    /\ run'.pc = "settle" =>
         /\ CheckTerminal /\ run.pc = "check" /\ Valid(run.cmd.scope)
         /\ run'.loc.phase = ctl.phase /\ run'.loc.cand = ctl.cand
         /\ run'.loc.active = ctl.active /\ run'.loc.prev = ctl.prev
         /\ ctl.scope # NoScope /\ Valid(ctl.scope) => run'.loc.restore
    /\ run'.pc = "publish" =>
         \/ run.pc = "recheck" /\ run'.kind = "prepared"
         \/ /\ Settle /\ run.pc = "settle" /\ run'.kind = SettleKind /\ run'.loc = run.loc
            /\ run'.kind # "prepared"
    /\ run'.pc = "post" =>
         \/ CheckPrepare /\ run.cmd.act = "prepare" /\ run.pc = "check" /\ ctl.cand = Cmd
         \/ /\ CheckCommit /\ run.cmd.act = "commit" /\ run.pc = "check"
            /\ ctl.cand = Cmd /\ ctl.phase \in Serious
         \/ Committed \/ Settle \/ Updated
    /\ run'.pc = "ack" => run.pc = "post"
    /\ run' = Idle \/ run'.cancelled = run.cancelled

LEMMA RunnerReads ==
    ASSUME IInv, Runner, ~Pop
    PROVE  Reads
<1>1. run \in Runners
  BY DEF IInv, Typed, TypedRunner
<1> USE DEF Reads
<1>2. ASSUME NEW pc, Goto(pc)
      PROVE  run'.pc = pc /\ run'.cancelled = run.cancelled
  BY <1>1, <1>2 DEF Goto, Runners
<1>3. CASE CheckPrepare
  <2> DEFINE duplicate == ctl.cand = Cmd /\ ctl.phase \in {"prepared", "committed", "finalized"}
             loc == [NoLocals EXCEPT !.phase = ctl.phase, !.cand = ctl.cand]
  <2>1. /\ run.pc = "check" /\ run.cmd.act = "prepare"
        /\ \/ Goto("error")
           \/ Goto("post") /\ duplicate
           \/ /\ run' = [run EXCEPT !.pc = "begin", !.loc = loc] /\ ~Stale
              /\ ~duplicate /\ ctl.phase # "committed"
    BY <1>3 DEF CheckPrepare
  <2>2. loc.phase = ctl.phase /\ loc.cand = ctl.cand
    BY DEF NoLocals
  <2> HIDE DEF loc
  <2>3. CASE Goto("error") \/ (Goto("post") /\ duplicate)
    BY <1>2, <1>3, <2>1, <2>3
  <2>4. CASE run' = [run EXCEPT !.pc = "begin", !.loc = loc] /\ ~Stale
             /\ ~duplicate /\ ctl.phase # "committed"
    <3>1. run'.pc = "begin" /\ run'.loc = loc /\ run'.cancelled = run.cancelled
      BY <1>1, <2>4 DEF Runners
    <3> QED
      BY <1>3, <2>1, <2>2, <2>4, <3>1 DEF Stale
  <2> QED
    BY <2>1, <2>3, <2>4
<1>4. CASE BeginPrepare
  <2>1. run.pc = "begin" /\ \E pc \in {"error", "load"} : Goto(pc)
    BY <1>4 DEF BeginPrepare
  <2> QED
    BY <1>2, <2>1
<1>5. CASE Load
  <2>1. \E pc \in {"error", "recheck"} : Goto(pc)
    BY <1>5 DEF Load
  <2> QED
    BY <1>2, <2>1
<1>6. CASE Recheck
  <2>1. /\ run.pc = "recheck"
        /\ Goto("error") \/ run' = [run EXCEPT !.pc = "publish", !.kind = "prepared"]
    BY <1>6 DEF Recheck
  <2>2. CASE run' = [run EXCEPT !.pc = "publish", !.kind = "prepared"]
    <3>1. run'.pc = "publish" /\ run'.kind = "prepared" /\ run'.cancelled = run.cancelled
      BY <1>1, <2>2 DEF Runners
    <3> QED
      BY <2>1, <3>1
  <2> QED
    BY <1>2, <2>1, <2>2
<1>7. CASE CheckCommit
  <2>1. /\ run.pc = "check" /\ run.cmd.act = "commit"
        /\ \/ Goto("error") \/ Goto("promote")
           \/ Goto("post") /\ ctl.cand = Cmd /\ ctl.phase \in Serious
    BY <1>7 DEF CheckCommit, Serious
  <2> QED
    BY <1>2, <1>7, <2>1
<1>8. CASE Promote
  <2>1. Goto("error") \/ Goto("promoted")
    BY <1>8 DEF Promote
  <2> QED
    BY <1>2, <2>1
<1>9. CASE PublishCommit
  <2>1. Silent \/ Committed
    BY <1>9, RunnerNames DEF PublishCommit, Begun, Updated, Marked
  <2>2. Goto("error") \/ (Goto("post") /\ ctl'.phase = "committed" /\ ctl'.fenced = FALSE)
    <3>1. CASE Valid(run.cmd.scope) /\ Cmd = ctl.latest
      <4>1. ctl' = [ctl EXCEPT !.prev = ctl.active, !.active = Cmd, !.scope = run.cmd.scope,
                               !.phase = "committed", !.fenced = FALSE]
            /\ (Goto("error") \/ Goto("post"))
        BY <1>9, <3>1 DEF PublishCommit
      <4> QED
        BY <4>1 DEF IInv, Typed, TypedController, Controllers
    <3> QED
      BY <1>9, <3>1 DEF PublishCommit
  <2>3. ctl.phase # "committed" \/ Goto("error")
    <3>1. run.pc = "promoted" /\ Held("prepared")
      BY <1>9 DEF PublishCommit, IInv, Steps, AtPromote
    <3>2. Valid(run.cmd.scope) => Current
      BY DEF Valid, Current
    <3> QED
      BY <1>9, <3>1, <3>2 DEF PublishCommit, Held
  <2>4. Goto("post") => Committed
    <3> SUFFICES ASSUME Goto("post") PROVE Committed
      OBVIOUS
    <3>1. ~Goto("error")
      BY <1>2
    <3> QED
      BY <2>1, <2>2, <2>3, <3>1 DEF Silent, SameNames
  <2> QED
    BY <1>2, <2>2, <2>4
<1>10. CASE CheckTerminal
  <2> DEFINE restore == ctl.scope # NoScope /\ Valid(ctl.scope)
             loc == [phase |-> ctl.phase, cand |-> ctl.cand, active |-> ctl.active,
                     prev |-> ctl.prev, restore |-> restore,
                     retired |-> Cmd \in ctl.retired, pending |-> Cmd \in ctl.pending]
  <2>1. /\ run.pc = "check"
        /\ Goto("error") \/ (Valid(run.cmd.scope) /\ run' = [run EXCEPT !.pc = "settle", !.loc = loc])
    BY <1>10 DEF CheckTerminal
  <2>2. /\ loc.phase = ctl.phase /\ loc.cand = ctl.cand /\ loc.active = ctl.active
        /\ loc.prev = ctl.prev /\ loc.restore = restore
    OBVIOUS
  <2> HIDE DEF loc
  <2>3. CASE Valid(run.cmd.scope) /\ run' = [run EXCEPT !.pc = "settle", !.loc = loc]
    <3>1. run'.pc = "settle" /\ run'.loc = loc /\ run'.cancelled = run.cancelled
      BY <1>1, <2>3 DEF Runners
    <3> QED
      BY <1>10, <2>1, <2>2, <2>3, <3>1
  <2> QED
    BY <1>2, <2>1, <2>3
<1>11. CASE Settle
  <2>1. \E pc \in {"error", "post", "publish"} : run' = [run EXCEPT !.kind = SettleKind, !.pc = pc]
    <3>1. PICK o \in SettleRuntime(SettleKind) :
            run' = [run EXCEPT !.kind = SettleKind,
                     !.pc = IF ~o.ok THEN "error"
                            ELSE IF SettleKind \in {"done", "pending"} THEN "post" ELSE "publish"]
      BY <1>11 DEF Settle
    <3> DEFINE pc == IF ~o.ok THEN "error"
                     ELSE IF SettleKind \in {"done", "pending"} THEN "post" ELSE "publish"
    <3>2. pc \in {"error", "post", "publish"} /\ run' = [run EXCEPT !.kind = SettleKind, !.pc = pc]
      BY <3>1
    <3> QED
      BY <3>2
  <2>2. /\ run'.pc \in {"error", "post", "publish"} /\ run'.kind = SettleKind /\ run'.loc = run.loc
        /\ run'.cancelled = run.cancelled
    BY <1>1, <2>1 DEF Runners
  <2>3. run.pc = "settle" /\ SettleKind # "prepared"
    BY <1>11 DEF Settle, SettleKind
  <2> QED
    BY <1>11, <2>2, <2>3
<1>12. CASE Publish
  <2>1. Goto("error") \/ (Goto("post") /\ Updated)
    <3>1. run.pc = "publish" /\ run.cmd.act \in Actions
      BY <1>12 DEF Publish, IInv, Typed, TypedRunner
    <3> QED
      BY <1>12, <3>1 DEF Publish, Updated, Doing, Busy
  <2> QED
    BY <1>2, <2>1
<1>13. ASSUME NEW next, ReleaseAll(next)
       PROVE  run'.pc = next /\ run'.cancelled = run.cancelled
  BY <1>1, <1>13 DEF ReleaseAll, Runners
<1>14. CASE Post
  <2>1. run.pc = "post" /\ (ReleaseAll("error") \/ Goto("error") \/ Goto("ack"))
    BY <1>14 DEF Post
  <2> QED
    BY <1>2, <1>13, <2>1
<1>15. CASE FenceCleanup \/ Retire
  BY <1>13, <1>15 DEF FenceCleanup, Retire
<1>16. CASE MarkFailed
  BY <1>2, <1>16 DEF MarkFailed
<1>17. CASE Clear \/ Ack
  <2>1. run' = Idle \/ Goto("failed") \/ Goto("dead")
    BY <1>17 DEF Clear, Ack
  <2> QED
    BY <1>2, <2>1, IdlePc
<1> QED
  BY <1>3, <1>4, <1>5, <1>6, <1>7, <1>8, <1>9, <1>10, <1>11, <1>12, <1>14, <1>15, <1>16, <1>17
     DEF Runner, Reads

LEMMA PastKeeps ==
    ASSUME IInv, IInv', NEW x \in MaybeIds, Past(x), ctl.retired \subseteq ctl'.retired,
           ctl'.latest >= ctl.latest
    PROVE  x = None \/ x < ctl'.latest \/ x \in ctl'.retired
<1>1. x \in Nat /\ ctl.latest \in Nat /\ ctl'.latest \in Nat
  BY IdsNat DEF IInv, Typed, TypedController, Controllers
<1> QED
  BY <1>1 DEF Past

\* A published step is of its stretch, and its command is current.
LEMMA DoingCurrent == Doing => Current /\ Busy /\ net.up
BY DEF Doing, Valid, Current

LEMMA UpdatedFacts ==
    ASSUME IInv, Learned, Updated
    PROVE  /\ Current /\ run.pc = "publish" /\ PublishedNames(ctl') /\ Cmd \in Ids
           /\ run.kind \in {"prepared", "empty", "dropped", "released", "aborted", "finalized"}
           /\ run.kind = "prepared" => /\ run.cmd.act = "prepare" /\ ctl.cand = Cmd
                                       /\ ctl.phase = "preparing"
           /\ run.kind # "prepared" => run.cmd.act \in Terminal /\ ReadAll
           /\ run.kind = "finalized" => ctl.phase \in Serious
           /\ run.kind \in {"empty", "aborted", "released"} => Cmd \in ctl.retired
           /\ run.kind = "aborted" => ctl.cand = Cmd
<1>1. Current /\ run.pc = "publish" /\ PublishedNames(ctl')
  BY DoingCurrent, PublishFields DEF Updated
<1>2. Cmd \in Ids
  BY CommandId DEF Updated, Doing, IInv
<1>3. run.kind # "prepared" => run.cmd.act \in Terminal /\ ReadAll
  BY <1>1 DEF IInv, Steps, AtPublish, Learned, Read
<1>4. run.kind = "finalized" => ctl.phase \in Serious
  BY <1>1, <1>3 DEF Learned, Chosen, ReadAll
<1> QED
  BY <1>1, <1>2, <1>3, <1>4 DEF IInv, Steps, AtPublish, AtLoaded, Held

LEMMA CommittedFacts ==
    ASSUME IInv, Committed
    PROVE  /\ Current /\ run.cmd.act = "commit" /\ Cmd \in Ids
           /\ ctl.cand = Cmd /\ ctl.phase = "prepared" /\ ctl'.cand = Cmd
BY DoingCurrent, CommandId DEF Committed, Doing, IInv, Steps, AtPromote, Held

LEMMA PhasedRunner ==
    ASSUME IInv, Learned, Runner
    PROVE  Phased'
<1>1. CASE Silent \/ Begun \/ Marked
  BY <1>1 DEF Silent, SameNames, Begun, Marked, Learned, Phased, Serious
<1>2. CASE Committed
  BY <1>2, CommittedFacts, NoneNoId DEF Committed, Phased, Serious
<1>3. CASE Updated
  BY <1>3, UpdatedFacts, NoneNoId DEF PublishedNames, Learned, Phased, Serious
<1> QED
  BY <1>1, <1>2, <1>3, RunnerNames

LEMMA AgedRunner ==
    ASSUME IInv, IInv', Learned, Runner, ~Pop
    PROVE  Aged'
<1> DEFINE Past1(x) == x = None \/ x < ctl'.latest \/ x \in ctl'.retired
<1>1. /\ SameMoment
      /\ Silent \/ Begun \/ Committed \/ Updated \/ Marked
      /\ run' = Idle \/ run'.cmd = run.cmd
  BY RunnerNames, RunnerFrames
<1>2. /\ ctl.active \in MaybeIds /\ ctl.prev \in MaybeIds /\ ctl.cand \in Nat /\ ctl.latest \in Nat
      /\ ctl'.latest = ctl.latest
  BY <1>1, IdsNat DEF SameMoment, IInv, Typed, TypedController, Controllers
<1>3. ctl.retired \subseteq ctl'.retired
  BY <1>1, UpdatedFacts, PublishMoves DEF Silent, Begun, Committed, Updated, Marked
<1>4. \A x \in MaybeIds : Past(x) => Past1(x)
  BY <1>2, <1>3, PastKeeps
<1>5. Past1(None)
  OBVIOUS
<1>6. (Past1(ctl'.active) \/ (ctl'.active = ctl'.cand /\ ctl'.phase \in Serious))
      /\ (ctl'.phase = "committed" => Past1(ctl'.prev))
  <2>1. CASE Silent \/ Marked
    <3> HIDE DEF Past1
    <3> QED
      BY <1>2, <1>4, <2>1 DEF Silent, SameNames, Marked, Learned, Aged, Serious
  <2>2. CASE Begun
    <3>1. Past(ctl.active)
      <4> SUFFICES ASSUME ctl.active = ctl.cand, ctl.phase \in Serious
                   PROVE  Past(ctl.active)
        BY DEF Learned, Aged
      <4>1. Current /\ run.pc = "begin"
        BY <2>2, DoingCurrent DEF Begun
      <4>2. run.loc.phase = "finalized"
        BY <4>1 DEF Learned, Read, Serious
      <4>3. ctl.cand < Cmd /\ Cmd <= ctl.latest
        BY <4>1, <4>2 DEF IInv, Steps, AtBegin, Dropping
      <4>4. Cmd \in Nat
        BY CommandTyped, IdsNat DEF IInv
      <4> QED
        BY <1>2, <4>3, <4>4 DEF Past
    <3> HIDE DEF Past1
    <3> QED
      BY <1>2, <1>4, <2>2, <3>1 DEF Begun
  <2>3. CASE Committed
    <3>1. Past(ctl.active)
      BY <2>3, CommittedFacts DEF Learned, Aged, Serious
    <3> HIDE DEF Past1
    <3> QED
      BY <1>2, <1>4, <2>3, <3>1, CommittedFacts DEF Committed, Serious
  <2>4. CASE Updated
    <3>1. Past(Cmd) \/ run.kind \in {"prepared", "dropped", "finalized"}
      BY <2>4, UpdatedFacts DEF Past
    <3>2. Cmd \in MaybeIds
      BY CommandTyped DEF IInv
    <3> HIDE DEF Past1
    <3>3. CASE run.kind \in {"prepared", "dropped", "finalized"}
      BY <1>2, <1>4, <1>5, <2>4, <3>3, UpdatedFacts
        DEF PublishedNames, Learned, Aged, Phased, Serious
    <3>4. CASE run.kind \in {"empty", "released"}
      BY <1>2, <1>4, <1>5, <2>4, <3>1, <3>2, <3>4, UpdatedFacts
        DEF PublishedNames, Learned, Aged, Serious
    <3>5. CASE run.kind = "aborted"
      BY <1>2, <1>4, <1>5, <2>4, <3>1, <3>2, <3>5, UpdatedFacts
        DEF PublishedNames, ReadAll, Learned, Aged, Serious
    <3> QED
      BY <2>4, <3>3, <3>4, <3>5, UpdatedFacts
  <2> QED
    BY <1>1, <2>1, <2>2, <2>3, <2>4
<1>7. run'.pc \in {"begin", "load"} /\ Current' => ctl'.active # Cmd'
  <2> SUFFICES ASSUME run'.pc \in {"begin", "load"}, Current'
               PROVE  ctl'.active # Cmd
    BY <1>1, IdlePc DEF Cmd
  <2>1. Current
    BY <1>1, IdlePc DEF SameMoment, Current
  <2>2. CASE run'.pc = "begin"
    <3>1. /\ CheckPrepare /\ run.cmd.act = "prepare" /\ Cmd = ctl.latest /\ Cmd \notin ctl.retired
          /\ ~(ctl.cand = Cmd /\ ctl.phase \in Serious)
      BY <2>2, RunnerReads DEF Reads, Serious
    <3>2. Cmd # None /\ ctl'.active = ctl.active
      BY <3>1, CommandId, NoneNoId DEF CheckPrepare, Actions, IInv
    <3> QED
      BY <1>2, <3>1, <3>2 DEF Learned, Aged, Past
  <2>3. CASE run'.pc = "load"
    <3>1. run.pc = "begin"
      BY <2>3, RunnerReads DEF Reads
    <3>2. ctl'.active = ctl.active
      BY <1>1, <3>1 DEF Silent, SameNames, Begun, Committed, Updated, Marked
    <3> QED
      BY <2>1, <3>1, <3>2 DEF Learned, Aged
  <2> QED
    BY <2>2, <2>3
<1> QED
  BY <1>6, <1>7 DEF Aged, Past

LEMMA ReadRunner ==
    ASSUME IInv, Linked, Learned, Runner, ~Pop
    PROVE  Read' /\ Chosen'
<1>1. /\ SameMoment
      /\ Silent \/ Begun \/ Committed \/ Updated \/ Marked
      /\ run' = Idle \/ run'.cmd = run.cmd
  BY RunnerNames, RunnerFrames
<1>2. run'.pc = "begin" /\ Current' =>
        /\ run'.loc.phase = ctl'.phase /\ ctl'.phase # "committed"
        /\ ctl'.phase = "prepared" => ctl'.cand # ctl'.latest
  BY RunnerReads DEF Reads, CheckPrepare
<1>3. run'.pc = "settle" => ReadAll'
  <2> SUFFICES ASSUME run'.pc = "settle"
               PROVE  ReadAll'
    OBVIOUS
  <2>1. /\ CheckTerminal /\ Valid(run.cmd.scope)
        /\ run'.loc.phase = ctl.phase /\ run'.loc.cand = ctl.cand
        /\ run'.loc.active = ctl.active /\ run'.loc.prev = ctl.prev
        /\ ctl.scope # NoScope /\ Valid(ctl.scope) => run'.loc.restore
    BY RunnerReads DEF Reads
  <2>2. ctl'.phase = ctl.phase /\ ctl'.cand = ctl.cand /\ ctl'.active = ctl.active
        /\ ctl'.prev = ctl.prev
    BY <2>1 DEF CheckTerminal
  <2>3. ctl.active # None => run'.loc.restore
    <3> SUFFICES ASSUME ctl.active # None
                 PROVE  ctl.scope # NoScope /\ Valid(ctl.scope)
      BY <2>1
    <3>1. Fresh(ctl.scope) /\ net.up
      BY <2>1 DEF Linked, NamesLinked, Valid
    <3>2. ctl.scope.epoch = ctl.epoch /\ ctl.epoch \in Nat /\ NoScope.epoch = -1
      BY <3>1, NumbersTyped DEF Fresh, NoScope, IInv
    <3> QED
      BY <3>1, <3>2, ValidFresh
  <2> QED
    BY <2>1, <2>2, <2>3 DEF ReadAll
<1>4. run'.pc = "publish" /\ run'.kind # "prepared" => (Current' => ReadAll')
  <2> SUFFICES ASSUME run'.pc = "publish", run'.kind # "prepared", Current'
               PROVE  ReadAll'
    OBVIOUS
  <2>1. run.pc = "settle" /\ run'.loc = run.loc
    BY RunnerReads DEF Reads
  <2>2. Current
    BY <1>1, IdlePc DEF SameMoment, Current
  <2>3. SameNames
    BY <1>1, <2>1 DEF Silent, Begun, Committed, Updated, Marked
  <2> QED
    BY <2>1, <2>2, <2>3 DEF Learned, Read, ReadAll, SameNames
<1>5. Chosen'
  <2> SUFFICES ASSUME run'.pc = "publish"
               PROVE  Chosen'
    BY DEF Chosen
  <2>1. run'.cmd = run.cmd
    BY <1>1, IdlePc
  <2>2. \/ run'.kind = "prepared"
        \/ run'.kind = SettleKind /\ run'.loc = run.loc
    BY RunnerReads DEF Reads
  <2> QED
    BY <2>1, <2>2 DEF Chosen, SettleKind, Serious, Cmd
<1> QED
  BY <1>2, <1>3, <1>4, <1>5 DEF Read

LEMMA ToldRunner ==
    ASSUME IInv, Learned, Runner, ~Pop
    PROVE  Told'
<1>1. /\ SameMoment
      /\ Silent \/ Begun \/ Committed \/ Updated \/ Marked
      /\ run' = Idle \/ run'.cmd = run.cmd
      /\ Busy /\ UNCHANGED <<queue, sent>>
  BY RunnerNames, RunnerFrames
<1>2. Busy' => run'.cmd = run.cmd /\ run'.cancelled = run.cancelled /\ (Current' => Current)
  BY <1>1, RunnerReads, IdleNotBusy DEF Reads, SameMoment, Current
<1>3. ToldQueue'
  BY <1>1 DEF Learned, Told, ToldQueue, SameMoment
<1>4. ToldRun'
  BY <1>1, <1>2 DEF Learned, Told, ToldRun, SameMoment, Cmd
<1>5. run'.pc = "post" /\ run.cmd.act = "prepare" => ctl'.cand = Cmd
  <2> SUFFICES ASSUME run'.pc = "post", run.cmd.act = "prepare"
               PROVE  ctl'.cand = Cmd
    OBVIOUS
  <2>1. ~Committed /\ ~Settle
    BY CommittedFacts DEF Settle, IInv, Steps, AtSettle, Terminal
  <2>2. CASE CheckPrepare /\ ctl.cand = Cmd
    BY <2>2 DEF CheckPrepare
  <2>3. CASE Updated
    BY <2>3, UpdatedFacts DEF Terminal, PublishedNames
  <2> QED
    BY <2>1, <2>2, <2>3, RunnerReads DEF Reads
<1>6. run'.pc = "post" /\ run.cmd.act = "commit" => ctl'.cand = Cmd /\ ctl'.phase \in Serious
  <2> SUFFICES ASSUME run'.pc = "post", run.cmd.act = "commit"
               PROVE  ctl'.cand = Cmd /\ ctl'.phase \in Serious
    OBVIOUS
  <2>1. ~Updated /\ ~Settle
    BY UpdatedFacts DEF Settle, IInv, Steps, AtSettle, Terminal
  <2>2. CASE CheckCommit /\ ctl.cand = Cmd /\ ctl.phase \in Serious
    BY <2>2 DEF CheckCommit
  <2>3. CASE Committed
    BY <2>3, CommittedFacts DEF Committed, Serious
  <2> QED
    BY <2>1, <2>2, <2>3, RunnerReads DEF Reads
<1>7. run'.pc = "ack" => run.pc = "post" /\ SameNames
  <2>1. run'.pc = "ack" => run.pc = "post"
    BY RunnerReads DEF Reads
  <2> QED
    BY <1>1, <2>1 DEF Silent, Begun, Committed, Updated, Marked
<1>8. ToldDone'
  <2>1. run'.pc \in {"post", "ack"} => Busy'
    BY DEF Busy
  <2> QED
    BY <1>2, <1>5, <1>6, <1>7, <2>1 DEF Learned, Told, ToldDone, SameNames, Cmd
<1> QED
  BY <1>3, <1>4, <1>8 DEF Told

LEMMA LearnedPop ==
    ASSUME IInv, IInv', Linked, Learned, Pop
    PROVE  Learned'
<1>1. /\ run'.cmd = queue[1] /\ 1 \in 1..Len(queue)
      /\ \A k \in 1..Len(queue') : queue'[k] = queue[k + 1] /\ k + 1 \in 1..Len(queue)
      /\ UNCHANGED <<net, ctl, rt, sent>> /\ run'.pc \in {"check", "retire"}
  BY PopQueue
<1>2. run'.cancelled = FALSE
  BY PopQueue, Zenon
<1>3. Phased' /\ Read' /\ Chosen' /\ ToldDone'
  BY <1>1 DEF Learned, Phased, Read, Chosen, ToldDone
<1>4. Aged'
  BY <1>1 DEF Learned, Aged, Past
<1>5. ToldQueue'
  BY <1>1 DEF Learned, Told, ToldQueue
<1>6. ToldRun'
  BY <1>1, <1>2 DEF Learned, Told, ToldQueue, ToldRun, Cmd
<1> QED
  BY <1>3, <1>4, <1>5, <1>6 DEF Learned, Told

\* A step of another thread: the names are what they were, and the moment moves on at most.
LEMMA LearnedStays ==
    ASSUME IInv, IInv', Learned, SameNames, SameStep \/ run' = Idle, ctl'.epoch = ctl.epoch,
           ctl'.retired = ctl.retired, ctl'.latest >= ctl.latest
    PROVE  Phased' /\ Aged' /\ Read' /\ Chosen' /\ ToldDone'
<1>1. Busy' => Busy /\ run'.cmd = run.cmd /\ run'.pc = run.pc /\ run'.loc = run.loc
               /\ run'.kind = run.kind
  BY SameStepServing
<1>2. /\ ctl.active \in MaybeIds /\ ctl.prev \in MaybeIds
      /\ ctl.cand <= ctl.latest /\ {ctl.cand, ctl.latest, ctl'.latest} \subseteq Nat
  BY IdsNat DEF IInv, Tied, Clock, Typed, TypedController, Controllers
<1>3. Phased'
  BY DEF Learned, Phased, SameNames
<1>4. run'.pc \in {"begin", "load", "settle", "publish", "post", "ack"} => Busy'
  BY DEF Busy
<1>5. Aged'
  <2>1. \A x \in MaybeIds : Past(x) => x = None \/ x < ctl'.latest \/ x \in ctl'.retired
    BY PastKeeps
  <2>2. /\ Past(ctl.active)' \/ (ctl.active = ctl.cand /\ ctl.phase \in Serious)
        /\ ctl.phase = "committed" => Past(ctl.prev)'
    BY <1>2, <2>1 DEF Learned, Aged, Past, SameNames
  <2> QED
    BY <1>1, <1>4, <2>2 DEF Learned, Aged, SameNames, Current, Cmd
<1>6. Read'
  <2>1. ctl.phase = "prepared" /\ ctl.cand # ctl.latest => ctl.cand # ctl'.latest
    BY <1>2
  <2> QED
    BY <1>1, <1>4, <2>1 DEF Learned, Read, ReadAll, SameNames, Current
<1>7. Chosen'
  BY <1>1, <1>4 DEF Learned, Chosen, Cmd
<1>8. ToldDone'
  BY <1>1, <1>4 DEF Learned, Told, ToldDone, SameNames, Current, Cmd
<1> QED
  BY <1>3, <1>5, <1>6, <1>7, <1>8

\* A step after which the runner's command belongs to an earlier epoch.
LEMMA LearnedOutdated ==
    ASSUME IInv, IInv', Learned, SameStep \/ run' = Idle, ctl'.epoch > ctl.epoch, sent' = sent,
           ctl'.retired = ctl.retired,
           (SameNames /\ ctl'.latest = ctl.latest) \/ (Blank' /\ ctl'.phase = "released"),
           (queue' = queue /\ ctl'.latest = ctl.latest) \/ queue' = Requeued
    PROVE  Learned'
<1>1. Busy' => /\ Busy /\ run'.cmd = run.cmd /\ run'.pc = run.pc /\ run'.loc = run.loc
               /\ run'.kind = run.kind /\ ~Current'
  BY SameStepServing
<1>2. run'.pc \in {"begin", "load", "settle", "publish", "post", "ack"} => Busy'
  BY DEF Busy
<1>3. Phased'
  BY DEF Learned, Phased, SameNames, Blank, Serious
<1>4. Aged'
  BY <1>1, <1>2 DEF Learned, Aged, Past, SameNames, Blank
<1>5. Read' /\ ToldDone'
  BY <1>1, <1>2 DEF Read, ToldDone
<1>6. Chosen'
  BY <1>1, <1>2 DEF Learned, Chosen, Cmd
<1>7. ToldQueue'
  <2>1. CASE queue' = queue /\ ctl'.latest = ctl.latest
    BY <2>1 DEF Learned, Told, ToldQueue
  <2>2. CASE queue' = Requeued
    <3>1. Len(queue') = 1 /\ queue'[1].act = "cleanup"
      BY <2>2 DEF Requeued
    <3> QED
      BY <3>1 DEF ToldQueue
  <2> QED
    BY <2>1, <2>2
<1>8. ToldRun'
  BY <1>1 DEF Learned, Told, ToldRun, Cmd
<1> QED
  BY <1>3, <1>4, <1>5, <1>6, <1>7, <1>8 DEF Learned, Told

LEMMA LearnedHandle ==
    ASSUME IInv, IInv', Learned, NEW a \in Actions, NEW i \in Ids, Handle(a, i)
    PROVE  Learned'
<1> DEFINE cmd == [act |-> a, id |-> i, scope |-> Scope]
<1>1. /\ SameNames /\ ctl'.epoch = ctl.epoch /\ ctl'.retired = ctl.retired
      /\ \/ ctl' = ctl /\ (a = "prepare" => i <= ctl.latest)
         \/ a = "prepare" /\ ctl'.latest = i /\ i > ctl.latest
      /\ sent'.dropped = sent.dropped \cup (IF a \in {"abort", "release"} THEN {i} ELSE {})
      /\ queue' = Append(queue, cmd)
  BY HandleNames
<1>2. SameStep \/ run' = Idle
  BY OtherMoves DEF Others
<1>3. {i, ctl.latest} \subseteq Nat /\ Cmd \in Nat
  BY IdsNat, CommandTyped DEF IInv, Typed, TypedController, Controllers
<1>4. ctl'.latest >= ctl.latest /\ ctl'.latest \in Nat
  BY <1>1, <1>3
<1>5. Phased' /\ Aged' /\ Read' /\ Chosen' /\ ToldDone'
  BY <1>1, <1>2, <1>4, LearnedStays
<1>6. /\ cmd.act \in {"abort", "release"} => cmd.id \in sent'.dropped
      /\ cmd.act = "prepare" => cmd.id <= ctl'.latest
  BY <1>1, <1>3
<1> HIDE DEF cmd
<1>7. ToldQueue'
  <2> SUFFICES ASSUME NEW k \in 1..Len(queue')
               PROVE  (/\ queue[k].act \in {"abort", "release"} => queue[k].id \in sent.dropped
                       /\ queue[k].act = "prepare" => queue[k].id <= ctl.latest)'
    BY DEF ToldQueue
  <2>1. queue \in Seq(Commands) /\ Len(queue) \in Nat
    BY DEF IInv, Typed, TypedQueue
  <2>2. k = Len(queue) + 1 \/ k \in 1..Len(queue)
    BY <1>1, <2>1
  <2>3. CASE k = Len(queue) + 1
    <3>1. queue'[k] = cmd
      BY <1>1, <2>1, <2>3
    <3> QED
      BY <1>6, <3>1
  <2>4. CASE k \in 1..Len(queue)
    <3>1. queue'[k] = queue[k]
      BY <1>1, <2>1, <2>4
    <3>2. queue[k].act = "prepare" => queue[k].id \in Nat /\ queue[k].id <= ctl.latest
      <4>1. queue[k] \in Commands
        BY <2>1, <2>4
      <4> QED
        BY <2>4, <4>1, IdsNat DEF Learned, Told, ToldQueue, Commands
    <3> QED
      BY <1>1, <1>3, <1>4, <2>4, <3>1, <3>2 DEF Learned, Told, ToldQueue
  <2> QED
    BY <2>2, <2>3, <2>4
<1>8. ToldRun'
  <2> DEFINE newer == a = "prepare" /\ i > ctl.latest
             cancels == /\ Busy /\ run.cmd.act = "prepare"
                        /\ newer \/ (a \in {"abort", "release"} /\ run.cmd.id = i)
  <2>1. run' = [Started EXCEPT !.cancelled = @ \/ cancels]
    BY DEF Handle
  <2> SUFFICES ASSUME Busy'
               PROVE  ToldRun'
    BY DEF ToldRun
  <2>2. Busy /\ run'.cmd = run.cmd
    BY <1>2, SameStepServing
  <2>3. Started = run
    BY <2>2 DEF Started, Busy
  <2>4. run'.cancelled => run.cancelled \/ cancels
    BY <2>1, <2>3 DEF IInv, Typed, TypedRunner, Runners
  <2>5. run.cmd.act \in {"abort", "release"} => Cmd \in sent'.dropped
    BY <1>1, <2>2 DEF Learned, Told, ToldRun
  <2>6. ASSUME run.cmd.act = "prepare", Current
        PROVE  Cmd <= ctl'.latest /\ (run'.cancelled => Cmd \in sent'.dropped \/ Cmd # ctl'.latest)
    <3>1. Cmd <= ctl.latest /\ (run.cancelled => Cmd \in sent.dropped \/ Cmd # ctl.latest)
      BY <2>2, <2>6 DEF Learned, Told, ToldRun
    <3>2. CASE ctl' = ctl /\ ~newer
      BY <1>1, <1>3, <2>4, <3>1, <3>2 DEF Cmd
    <3>3. CASE ctl'.latest = i /\ i > ctl.latest
      BY <1>3, <3>1, <3>3
    <3> QED
      BY <1>1, <1>3, <3>2, <3>3
  <2> QED
    BY <1>1, <2>2, <2>5, <2>6 DEF ToldRun, Current, Cmd
<1> QED
  BY <1>5, <1>7, <1>8 DEF Learned, Told

LEMMA LearnedKeeps ==
    ASSUME IInv, IInv', Linked, Learned, [Next]_vars
    PROVE  Learned'
<1>1. CASE Pop
  BY <1>1, LearnedPop
<1>2. CASE Runner /\ ~Pop
  BY <1>2, PhasedRunner, AgedRunner, ReadRunner, ToldRunner DEF Learned
<1>3. ASSUME UNCHANGED <<ctl, queue, sent>>, run' = run
      PROVE  Learned'
  BY <1>3 DEF Learned, Phased, Aged, Past, Read, ReadAll, Chosen, Told, ToldQueue, ToldRun, ToldDone,
              Busy, Current, Cmd
<1>4. CASE Others
  <2>1. CASE \E a \in Actions, i \in Ids : Handle(a, i)
    BY <2>1, LearnedHandle
  <2>2. ctl.epoch \in Nat
    BY NumbersTyped DEF IInv
  <2>3. CASE Cleared /\ sent' = sent
    <3>1. /\ ctl'.epoch > ctl.epoch /\ Blank' /\ ctl'.phase = "released" /\ queue' = Requeued
          /\ ctl'.retired = ctl.retired
      BY <2>2, <2>3 DEF Cleared, Blank
    <3> QED
      BY <1>4, <2>3, <3>1, OtherMoves, LearnedOutdated
  <2>4. CASE /\ SameNames /\ ctl'.epoch = ctl.epoch + 1 /\ ctl'.latest = ctl.latest
             /\ ctl'.retired = ctl.retired /\ UNCHANGED <<queue, run, sent>>
    <3>1. ctl'.epoch > ctl.epoch /\ (SameStep \/ run' = Idle)
      BY <2>2, <2>4 DEF SameStep
    <3> QED
      BY <2>4, <3>1, LearnedOutdated
  <2> QED
    BY <1>3, <1>4, <2>1, <2>3, <2>4, OtherNames
<1> QED
  BY <1>1, <1>2, <1>3, <1>4, NextCases DEF vars

(***************************************************************************)
(* The host and the controller's names.                                    *)
(***************************************************************************)
\* The identities that a command can still release by name.
Known(c) == Some({c.cand, c.active}) \cup (IF c.phase = "committed" THEN Some({c.prev}) ELSE {})
            \cup c.pending

\* The active identity, as long as anything of it is left, is the host's active runtime, or the
\* previous one of a commit that is not published yet.
Active(r, c) ==
    c.active \in Refs(r) =>
      \/ r.act = c.active
      \/ r.phase = "committed" /\ r.prev = c.active /\ c.phase \notin Serious

\* A published commit keeps the previous runtime where the host has it.
Previous(r, c) ==
    c.phase = "committed" /\ c.prev \in Refs(r) \ {c.cand} => r.prev = c.prev /\ r.act = c.cand

Matches(r, c) == Refs(r) \subseteq Known(c) /\ Active(r, c) /\ Previous(r, c)

Alive == net.up /\ ~ctl.closed
Undoing == run.pc = "publish" /\ run.kind = "aborted"

\* What the host holds the controller knows, before an update is published and after it.
Named == Refs(rt) \subseteq Known(ctl)
ActiveMatch == Active(rt, ctl)
PrevMatch == Alive /\ ~Undoing => Previous(rt, ctl)
Stays == run.pc = "publish" /\ Valid(run.cmd.scope) => Matches(rt, Published)

\* A candidate that waits for its commit has not been finalized, and a commit that waits to be
\* published has been made.
NotYet == ctl.phase = "prepared" => rt.phase # "finalized"
Swapped ==
    /\ run.pc = "promoted" /\ Current => rt.phase = "committed"
    /\ run.pc = "publish" /\ run.kind = "empty" => rt.act = None

Hosted == Named /\ ActiveMatch /\ PrevMatch /\ Stays /\ NotYet /\ Swapped

\* Two controllers with the same names, and two hosts with the same references.
Alike(c, d) ==
    /\ d.cand = c.cand /\ d.active = c.active /\ d.prev = c.prev /\ d.phase = c.phase
    /\ d.pending = c.pending

LEMMA AlikeMatches ==
    ASSUME NEW r, NEW c, NEW d, Alike(c, d)
    PROVE  /\ Known(d) = Known(c) /\ (Active(r, c) => Active(r, d))
           /\ (Previous(r, c) => Previous(r, d)) /\ (Matches(r, c) => Matches(r, d))
BY DEF Alike, Known, Active, Previous, Matches

LEMMA StandsMatches ==
    ASSUME NEW r, NEW q, NEW c, Refs(q) = Refs(r), Stands(r, q)
    PROVE  /\ (Active(r, c) => Active(q, c)) /\ (Previous(r, c) => Previous(q, c))
           /\ (Matches(r, c) => Matches(q, c))
BY DEF Stands, Active, Previous, Matches

LEMMA RestoresActive ==
    ASSUME NEW r, NEW q, NEW c, Restores(r, q), Active(r, c)
    PROVE  Active(q, c)
BY DEF Restores, Stands, Active

LEMMA TrimsPrevious ==
    ASSUME NEW r, NEW q, NEW c, Trims(r, q), Previous(r, c)
    PROVE  Previous(q, c)
BY DEF Trims, Stands, Previous

LEMMA OwnedRefs ==
    ASSUME NEW r \in Runtimes, Sound(r)
    PROVE  Owned(r) \subseteq Refs(r) /\ r.open \subseteq Owned(r)
BY NoneNoId DEF Runtimes, Sound, Owned, Refs, Some

LEMMA EmptyRefs ==
    ASSUME NEW r \in Runtimes, Sound(r), Owned(r) = {} \/ (Empty(r) /\ r.prev = None)
    PROVE  Refs(r) = {} /\ r.act = None
<1>1. CASE Owned(r) = {}
  <2>1. r.open = {} /\ r.act = None
    BY <1>1, OwnedRefs DEF Owned, Some
  <2>2. r.prev = None
    BY <2>1 DEF Sound
  <2> QED
    BY <2>1, <2>2 DEF Refs, Some
<1>2. CASE Empty(r) /\ r.prev = None
  BY <1>2 DEF Empty, Refs, Some
<1> QED
  BY <1>1, <1>2

\* Nothing is published for a command whose epoch or registration has gone.
LEMMA BlankPhase ==
    ASSUME IInv, Learned, Blank
    PROVE  ctl.phase \notin Serious /\ ctl.phase # "prepared"
BY DEF Learned, Phased, Blank, Serious

LEMMA OutdatedBlank ==
    ASSUME IInv, Linked, Busy, ~Current \/ (Alive /\ ~Valid(run.cmd.scope)),
           run.cmd.act \in Actions
    PROVE  Blank
<1>1. ~Serving
  BY ValidFresh DEF Serving, Linked, RunLinked, Alive
<1> QED
  BY <1>1 DEF Linked, RunLinked

LEMMA HeldBlank ==
    ASSUME IInv, Linked, Learned, Busy, run.cmd.act \in Actions, NEW phase, Held(phase)
    PROVE  \/ Current /\ ctl.cand = Cmd /\ ctl.phase = phase
           \/ Blank /\ ctl.phase \notin Serious /\ ctl.phase # "prepared" /\ Cmd \in ctl.pending
BY OutdatedBlank, BlankPhase DEF Held

LEMMA PublishedAre ==
    IInv /\ run.pc = "publish" => PublishedNames(Published) /\ Published.pending = ctl.pending
<1> SUFFICES ASSUME IInv, run.pc = "publish"
             PROVE  PublishedNames(Published) /\ Published.pending = ctl.pending
  OBVIOUS
<1>1. \A c : c = Published => PublishedNames(c) /\ c.pending = ctl.pending
  BY PublishFields, PublishMoves
<1> QED
  BY <1>1

\* The names of the update that waits to be published do not move with the steps of other threads.
LEMMA PublishedSame ==
    ASSUME IInv, IInv', run.pc = "publish", Alike(ctl, ctl'),
           run'.pc = run.pc, run'.cmd = run.cmd, run'.loc = run.loc, run'.kind = run.kind
    PROVE  Alike(Published, Published')
<1>1. PublishedNames(Published) /\ Published.pending = ctl.pending
  BY PublishedAre
<1>2. (IInv /\ run.pc = "publish" => PublishedNames(Published) /\ Published.pending = ctl.pending)'
  BY PublishedAre, PTL
<1>3. run.kind \in {"prepared", "empty", "dropped", "released", "aborted", "finalized"}
  BY DEF IInv, Steps, AtPublish
<1> QED
  BY <1>1, <1>2, <1>3 DEF PublishedNames, Alike, Cmd

(***************************************************************************)
(* Steps that publish nothing and swap nothing.                            *)
(***************************************************************************)
\* No step finalizes but the one that is for it.
NoFinal(q) == q.phase = "finalized" => rt.phase = "finalized"

LEMMA HostedQuiet ==
    ASSUME Hosted, Alive' => Alive, ~Undoing, Trims(rt, rt'), Alike(ctl, ctl'), NoFinal(rt'),
           run'.pc \notin {"publish", "promoted"}
    PROVE  Hosted'
<1>1. Refs(rt') \subseteq Known(ctl') /\ Active(rt', ctl')
  BY AlikeMatches, RestoresActive, TrimsRestores DEF Hosted, Named, ActiveMatch, Trims
<1>2. Previous(rt, ctl) => Previous(rt', ctl')
  BY AlikeMatches, TrimsPrevious
<1>3. Named' /\ ActiveMatch' /\ PrevMatch'
  BY <1>1, <1>2 DEF Named, ActiveMatch, PrevMatch, Hosted
<1>4. NotYet'
  BY DEF NotYet, NoFinal, Alike, Hosted
<1> QED
  BY <1>3, <1>4 DEF Hosted, Stays, Swapped

LEMMA ReleaseAllTrims ==
    ASSUME IInv, NEW next, ReleaseAll(next)
    PROVE  Trims(rt, rt') /\ Alike(ctl, ctl') /\ ctl'.closed = ctl.closed /\ NoFinal(rt')
           /\ run'.pc = next
<1>1. PICK o \in ReleaseRuntime(rt, None) :
        LET closed == o.ok /\ ~Present(o.rt)
        IN  /\ rt' = o.rt
            /\ ctl' = IF closed THEN [ctl EXCEPT !.retired = @ \cup ctl.pending \cup Owned(rt)]
                      ELSE ctl
            /\ run' = [run EXCEPT !.pc = next, !.kind = IF closed THEN "closed" ELSE "kept"]
  BY DEF ReleaseAll
<1>2. Trims(rt, o.rt) /\ o.rt.phase \in {rt.phase, "released"}
  <2>1. None \in MaybeIds
    BY DEF MaybeIds
  <2> QED
    BY <2>1, ReleaseTrims DEF IInv, Engine
<1>3. Alike(ctl, ctl') /\ ctl'.closed = ctl.closed
  <2> DEFINE retired == ctl.retired \cup ctl.pending \cup Owned(rt)
  <2>1. ctl' = ctl \/ ctl' = [ctl EXCEPT !.retired = retired]
    BY <1>1
  <2> HIDE DEF retired
  <2> QED
    BY <2>1 DEF IInv, Typed, TypedController, Controllers, Alike
<1>4. run'.pc = next
  BY <1>1 DEF IInv, Typed, TypedRunner, Runners
<1> QED
  BY <1>1, <1>2, <1>3, <1>4 DEF NoFinal

LEMMA AbortQuiet ==
    ASSUME IInv, NEW i \in Ids, rt.phase = "committed" => rt.ident = i,
           NEW o \in AbortRuntime(rt, i, FALSE)
    PROVE  Trims(rt, o.rt) /\ NoFinal(o.rt) /\ o.ok \in BOOLEAN /\ (o.ok => i \notin Refs(o.rt))
           /\ o.rt \in Runtimes /\ Sound(o.rt)
<1> DEFINE restore == FALSE
<1>1. restore \in BOOLEAN /\ ~restore /\ o \in AbortRuntime(rt, i, restore)
  OBVIOUS
<1> HIDE DEF restore
<1>2. rt \in Runtimes /\ Sound(rt)
  BY DEF IInv, Engine
<1>3. /\ Trims(rt, o.rt) /\ (o.ok => i \notin Refs(o.rt)) /\ o.rt.phase \in {rt.phase, "aborted"}
  BY <1>1, <1>2, AbortTrims
<1>4. o.ok \in BOOLEAN /\ o.rt \in Runtimes /\ Sound(o.rt)
  BY <1>1, <1>2, AbortMoves DEF Shrinks
<1> QED
  BY <1>3, <1>4 DEF NoFinal

LEMMA AlikeNot == ASSUME ctl' = ctl PROVE Alike(ctl, ctl') /\ (net' = net => (Alive' <=> Alive))
BY DEF Alike, Alive

LEMMA HostedChecks ==
    ASSUME IInv, Hosted, CheckPrepare \/ CheckCommit \/ CheckTerminal \/ Ack \/ Pop
    PROVE  Hosted'
<1>1. UNCHANGED <<ctl, rt, net>> /\ ~Undoing
  BY DEF CheckPrepare, CheckCommit, CheckTerminal, Ack, Pop, RunnerFrame, Undoing
<1>2. run'.pc \notin {"publish", "promoted"}
  BY RunnerMoves, IdlePc DEF Moves
<1> QED
  BY <1>1, <1>2, HostedQuiet, AlikeNot, TrimsNot DEF NoFinal

LEMMA HostedPost ==
    ASSUME IInv, Hosted, Post \/ FenceCleanup \/ Retire
    PROVE  Hosted'
<1>1. net' = net /\ ~Undoing
  BY DEF Post, FenceCleanup, Retire, RunnerFrame, Undoing
<1>2. ASSUME NEW next \in {"error", "clear"}, ReleaseAll(next)
      PROVE  Hosted'
  <2>1. Alive' => Alive
    BY <1>1, <1>2, ReleaseAllTrims DEF Alive
  <2> QED
    BY <1>1, <1>2, <2>1, ReleaseAllTrims, HostedQuiet
<1>3. CASE FenceCleanup \/ Retire
  BY <1>2, <1>3 DEF FenceCleanup, Retire
<1>4. CASE Post
  <2>1. CASE ReleaseAll("error")
    BY <1>2, <2>1
  <2>2. CASE ~ReleaseAll("error")
    <3>1. ctl' = ctl /\ run'.pc \notin {"publish", "promoted"}
      BY <1>4, <2>2, RunnerMoves DEF Post, Moves
    <3>2. Trims(rt, rt') /\ NoFinal(rt')
      <4>1. CASE rt' = rt
        BY <4>1, TrimsNot DEF NoFinal
      <4>2. CASE run.cmd.act = "prepare" /\ \E o \in AbortRuntime(rt, Cmd, FALSE) : rt' = o.rt
        <5>1. Cmd \in Ids /\ (rt.phase = "committed" => rt.ident = Cmd)
          BY <1>4, <4>2, CommandId DEF Post, IInv, Steps, AtPost, Actions
        <5> QED
          BY <4>2, <5>1, AbortQuiet
      <4> QED
        BY <1>4, <2>2, <4>1, <4>2 DEF Post
    <3> QED
      BY <1>1, <3>1, <3>2, HostedQuiet, AlikeNot
  <2> QED
    BY <2>1, <2>2
<1> QED
  BY <1>3, <1>4

LEMMA HostedMarked ==
    ASSUME IInv, Hosted, MarkFailed
    PROVE  Hosted'
<1>1. UNCHANGED <<rt, net>> /\ ~Undoing /\ run'.pc = "nack"
  BY RunnerMoves DEF MarkFailed, RunnerFrame, Undoing, Moves
<1>2. CASE ctl' = ctl
  BY <1>1, <1>2, HostedQuiet, AlikeNot, TrimsNot DEF NoFinal
<1>3. CASE ctl' = [ctl EXCEPT !.phase = "failed"] /\ ctl.phase \notin Serious
  <2>1. /\ ctl'.cand = ctl.cand /\ ctl'.active = ctl.active /\ ctl'.prev = ctl.prev
        /\ ctl'.phase = "failed" /\ ctl'.pending = ctl.pending
    BY <1>3 DEF IInv, Typed, TypedController, Controllers
  <2>2. Named' /\ ActiveMatch'
    BY <1>1, <1>3, <2>1 DEF Hosted, Named, Known, ActiveMatch, Active, Serious
  <2>3. PrevMatch' /\ NotYet' /\ Stays' /\ Swapped'
    BY <1>1, <2>1 DEF PrevMatch, Previous, NotYet, Stays, Swapped
  <2> QED
    BY <2>2, <2>3 DEF Hosted
<1> QED
  BY <1>2, <1>3 DEF MarkFailed, Serious

LEMMA HostedClear ==
    ASSUME IInv, Hosted, Clear
    PROVE  Hosted'
<1>1. UNCHANGED <<rt, net>> /\ ~Undoing /\ run'.pc \notin {"publish", "promoted"} /\ run.pc = "clear"
  BY RunnerMoves, IdlePc DEF Clear, Undoing, Moves
<1>2. CASE ctl' = ctl
  BY <1>1, <1>2, HostedQuiet, AlikeNot, TrimsNot DEF NoFinal
<1>3. CASE run.kind = "closed" /\ ctl' = [ctl EXCEPT !.pending = {}]
  <2>1. Refs(rt) = {}
    BY <1>1, <1>3, EmptyRefs DEF IInv, Engine, Steps, AtClear
  <2>2. Named' /\ ActiveMatch' /\ PrevMatch'
    BY <1>1, <2>1 DEF Named, ActiveMatch, Active, PrevMatch, Previous
  <2>3. ctl'.phase = ctl.phase
    BY <1>3 DEF IInv, Typed, TypedController, Controllers
  <2>4. NotYet' /\ Stays' /\ Swapped'
    BY <1>1, <2>3 DEF Hosted, NotYet, Stays, Swapped
  <2> QED
    BY <2>2, <2>4 DEF Hosted
<1> QED
  BY <1>2, <1>3 DEF Clear

(***************************************************************************)
(* Preparing and committing.                                               *)
(***************************************************************************)
LEMMA HostedBegin ==
    ASSUME IInv, Learned, Hosted, BeginPrepare
    PROVE  Hosted'
<1> DEFINE aborts == IF Dropping THEN AbortRuntime(rt, run.loc.cand, FALSE) ELSE {Outcome(TRUE, rt)}
           retired(o) == IF Dropping /\ o.ok THEN ctl.retired \cup {run.loc.cand} ELSE ctl.retired
           begun(o) == PrepareBegin(o.rt, Cmd)
<1>1. PICK o \in aborts, selected \in BOOLEAN :
        IF ~o.ok \/ ~Valid(run.cmd.scope)
        THEN /\ ctl' = [ctl EXCEPT !.retired = retired(o)]
             /\ rt' = o.rt
        ELSE /\ ctl' = [ctl EXCEPT !.retired = retired(o), !.cand = Cmd,
                                   !.phase = "preparing", !.fenced = TRUE]
             /\ rt' = IF selected THEN begun(o).rt ELSE Fenced(o.rt)
  BY DEF BeginPrepare, Dropping
<1>2. /\ run.pc = "begin" /\ net' = net /\ ~Undoing
      /\ run'.pc \notin {"publish", "promoted"}
  BY RunnerMoves DEF BeginPrepare, RunnerFrame, Undoing, Moves
<1>3. /\ run.cmd.act = "prepare"
      /\ rt.phase = "committed" => Dropping /\ rt.ident = run.loc.cand
      /\ Current => run.loc.cand = ctl.cand
  BY <1>2 DEF IInv, Steps, AtBegin
<1>4. Cmd \in Ids /\ rt \in Runtimes /\ Sound(rt) /\ ctl \in Controllers
  BY <1>3, CommandId DEF IInv, Actions, Engine, Typed, TypedController
<1>5. Dropping => run.loc.cand \in Ids
  BY DEF Dropping, IInv, Typed, TypedRunner, Runners, Locals, MaybeIds
<1>6. /\ o.ok \in BOOLEAN /\ Trims(rt, o.rt) /\ NoFinal(o.rt) /\ o.rt \in Runtimes /\ Sound(o.rt)
      /\ o.ok /\ Dropping => run.loc.cand \notin Refs(o.rt)
  <2>1. CASE Dropping
    BY <1>3, <1>5, <2>1, AbortQuiet
  <2>2. CASE ~Dropping
    <3>1. o = Outcome(TRUE, rt)
      BY <2>2
    <3>2. o.ok = TRUE /\ o.rt = rt
      BY <3>1 DEF Outcome
    <3> QED
      BY <1>4, <2>2, <3>2, TrimsNot DEF NoFinal
  <2> QED
    BY <2>1, <2>2
<1> HIDE DEF aborts, retired
<1>7. CASE ~o.ok \/ ~Valid(run.cmd.scope)
  <2>1. ctl' = [ctl EXCEPT !.retired = retired(o)] /\ rt' = o.rt
    BY <1>1, <1>7
  <2>2. Alike(ctl, ctl') /\ ctl'.closed = ctl.closed
    BY <1>4, <2>1 DEF Controllers, Alike
  <2> QED
    BY <1>2, <1>6, <2>1, <2>2, HostedQuiet DEF Alive
<1>8. CASE o.ok /\ Valid(run.cmd.scope)
  <2>1. /\ ctl' = [ctl EXCEPT !.retired = retired(o), !.cand = Cmd,
                              !.phase = "preparing", !.fenced = TRUE]
        /\ rt' = IF selected THEN begun(o).rt ELSE Fenced(o.rt)
    BY <1>1, <1>8
  <2>2. /\ ctl'.cand = Cmd /\ ctl'.phase = "preparing" /\ ctl'.active = ctl.active
        /\ ctl'.pending = ctl.pending
    BY <1>4, <2>1 DEF Controllers
  <2>3. Trims(o.rt, rt')
    <3>1. begun(o).rt = PrepareBegin(o.rt, Cmd).rt
      OBVIOUS
    <3>2. Trims(o.rt, begun(o).rt)
      BY <1>4, <1>6, <3>1, BeginTrims
    <3> QED
      BY <1>6, <2>1, <3>2, FencedStands
  <2>4. Refs(rt') \subseteq Known(ctl) \ {run.loc.cand} \/ (Refs(rt') \subseteq Known(ctl) /\ ~Dropping)
    BY <1>6, <1>8, <2>3 DEF Trims, Hosted, Named
  <2>5. Current
    BY <1>8 DEF Valid, Current
  <2>6. ctl.phase # "committed" /\ run.loc.phase = ctl.phase /\ run.loc.cand = ctl.cand
    BY <1>2, <1>3, <2>5 DEF Learned, Read
  <2>7. ~Dropping => ctl.cand \in {None, ctl.active}
    BY <1>2, <2>6 DEF Dropping, IInv, Tied, Candidate, Learned, Phased, Serious
  <2>8. Named'
    <3>1. None \notin Refs(rt')
      BY <1>6, <2>1, <2>3, NoneNoRef DEF Trims
    <3> QED
      BY <2>2, <2>4, <2>6, <2>7, <3>1 DEF Named, Known, Some
  <2>9. ActiveMatch'
    <3>1. Active(rt', ctl)
      BY <1>6, <2>3, TrimsRestores, RestoresActive DEF Hosted, ActiveMatch
    <3> QED
      BY <2>2, <3>1 DEF ActiveMatch, Active, Serious
  <2> QED
    BY <1>2, <2>2, <2>8, <2>9 DEF Hosted, PrevMatch, Previous, NotYet, Stays, Swapped
<1> QED
  BY <1>6, <1>7, <1>8

LEMMA HostedLoad ==
    ASSUME IInv, Linked, Learned, Hosted, Load
    PROVE  Hosted'
<1>1. PICK o \in LoadFails(rt, Cmd) \cup LoadDone(rt, Cmd, run.cancelled) : rt' = o.rt
  BY DEF Load
<1>2. run.pc = "load" /\ UNCHANGED <<ctl, net>> /\ run'.pc \notin {"publish", "promoted"}
  BY RunnerMoves DEF Load, RunnerFrame, Moves
<1>3. /\ run.cmd.act = "prepare" /\ Held("preparing")
      /\ rt.ident = Cmd /\ rt.phase = "preparing" /\ rt.cand = None /\ rt.act # Cmd
  BY <1>2 DEF IInv, Steps, AtLoad
<1>4. run.cmd.act \in Actions /\ Cmd \in Ids /\ rt \in Runtimes /\ Sound(rt)
      /\ run.cancelled \in BOOLEAN /\ Busy
  BY <1>2, <1>3, CommandId DEF IInv, Actions, Engine, Typed, TypedRunner, Runners, Busy
<1>5. /\ rt' \in Runtimes /\ rt'.act = rt.act /\ Refs(rt') \subseteq Refs(rt) \cup {Cmd}
  BY <1>1, <1>3, <1>4, LoadMoves, LoadRefs
<1>6. \/ Current /\ ctl.cand = Cmd /\ ctl.phase = "preparing" /\ ctl.active # Cmd
      \/ /\ Blank /\ ctl.phase \notin Serious /\ ctl.phase # "prepared" /\ Cmd \in ctl.pending
  BY <1>2, <1>3, <1>4, HeldBlank DEF Learned, Aged
<1>7. Named'
  BY <1>2, <1>4, <1>5, <1>6, NoneNoId DEF Hosted, Named, Known, Some
<1>8. ActiveMatch'
  <2>1. ctl.active \in Refs(rt') => ctl.active \in Refs(rt)
    BY <1>5, <1>6, NoneNoRef DEF Blank
  <2> QED
    BY <1>2, <1>3, <1>5, <2>1 DEF Hosted, ActiveMatch, Active
<1> QED
  BY <1>2, <1>6, <1>7, <1>8 DEF Hosted, PrevMatch, Previous, NotYet, Stays, Swapped, Serious

LEMMA HostedRecheck ==
    ASSUME IInv, Linked, Learned, Hosted, Recheck
    PROVE  Hosted'
<1>1. run.pc = "recheck" /\ UNCHANGED <<ctl, net>> /\ ~Undoing
  BY DEF Recheck, RunnerFrame, Undoing
<1>2. /\ run.cmd.act = "prepare" /\ Held("preparing")
      /\ rt.ident = Cmd /\ rt.phase = "prepared"
  BY <1>1 DEF IInv, Steps, AtLoaded
<1>3. Cmd \in Ids
  BY <1>2, CommandId DEF Actions, IInv
<1>4. CASE run' = [run EXCEPT !.pc = "publish", !.kind = "prepared"] /\ rt' = rt
           /\ Valid(run.cmd.scope)
  <2>1. run'.pc = "publish" /\ run'.kind = "prepared"
    BY <1>4 DEF IInv, Typed, TypedRunner, Runners
  <2>2. ctl.phase = "preparing"
    BY <1>2, <1>4 DEF Held, Current, Valid
  <2>3. Published' = [ctl EXCEPT !.phase = "prepared"]
    BY <1>1, <2>1 DEF Published
  <2>4. /\ Published'.cand = ctl.cand /\ Published'.active = ctl.active
        /\ Published'.phase = "prepared" /\ Published'.pending = ctl.pending
    BY <2>3 DEF IInv, Typed, TypedController, Controllers
  <2>5. Matches(rt', Published')
    BY <1>4, <2>2, <2>4
      DEF Matches, Hosted, Named, Known, ActiveMatch, Active, Previous, Serious
  <2> QED
    BY <1>1, <1>4, <2>1, <2>5
      DEF Hosted, Stays, Named, ActiveMatch, PrevMatch, Alive, Undoing, NotYet, Swapped
<1>5. CASE (\E o \in AbortRuntime(rt, Cmd, FALSE) : rt' = o.rt) /\ Goto("error")
  <2>1. Trims(rt, rt') /\ NoFinal(rt')
    BY <1>2, <1>3, <1>5, AbortQuiet
  <2>2. run'.pc = "error"
    BY <1>5, GotoMoves
  <2> QED
    BY <1>1, <2>1, <2>2, HostedQuiet, AlikeNot
<1> QED
  BY <1>4, <1>5 DEF Recheck

LEMMA HostedPromote ==
    ASSUME IInv, Linked, Learned, Hosted, Promote
    PROVE  Hosted'
<1> DEFINE o == CommitRuntime(rt, Cmd)
<1>1. /\ run.pc = "promote" /\ UNCHANGED <<ctl, net>> /\ rt' = o.rt
      /\ Goto(IF o.ok THEN "promoted" ELSE "error")
  BY DEF Promote, RunnerFrame
<1>2. run.cmd.act = "commit" /\ Held("prepared") /\ Busy
  BY <1>1 DEF IInv, Steps, AtPromote, Busy
<1>3. Cmd \in Ids /\ rt \in Runtimes /\ Sound(rt)
  BY <1>2, CommandId DEF Actions, IInv, Engine
<1>4. \/ Current /\ ctl.cand = Cmd /\ ctl.phase = "prepared"
      \/ Blank /\ ctl.phase \notin Serious /\ ctl.phase # "prepared"
  BY <1>2, HeldBlank DEF Actions
<1>5. \/ rt' = rt /\ (o.ok => rt.phase \in Serious)
      \/ /\ o.ok /\ rt.phase = "prepared" /\ rt'.phase = "committed"
         /\ rt'.act = Cmd /\ rt'.prev = rt.act /\ Refs(rt') \subseteq Refs(rt)
  BY <1>1, <1>3, CommitSwaps DEF Serious
<1>6. o.ok \in BOOLEAN
  BY <1>3, CommitMoves
<1>7. run'.pc = (IF o.ok THEN "promoted" ELSE "error") /\ run'.cmd = run.cmd
  BY <1>1, GotoMoves
<1> HIDE DEF o
<1>8. Named'
  BY <1>1, <1>5 DEF Hosted, Named
<1>9. ActiveMatch'
  <2>1. CASE rt' = rt
    BY <1>1, <2>1 DEF Hosted, ActiveMatch
  <2>2. CASE /\ rt.phase = "prepared" /\ rt'.phase = "committed" /\ rt'.prev = rt.act
             /\ Refs(rt') \subseteq Refs(rt)
    <3>1. ctl.active \in Refs(rt') => rt.act = ctl.active
      BY <2>2 DEF Hosted, ActiveMatch, Active
    <3> QED
      BY <1>1, <1>4, <2>2, <3>1 DEF ActiveMatch, Active, Serious
  <2> QED
    BY <1>5, <2>1, <2>2
<1>10. PrevMatch'
  BY <1>1, <1>4 DEF PrevMatch, Previous, Serious
<1>11. NotYet'
  BY <1>1, <1>5 DEF Hosted, NotYet
<1>12. Stays' /\ Swapped'
  <2>1. run'.pc = "promoted" /\ Current' => rt'.phase = "committed"
    <3>1. run'.pc = "promoted" /\ Current' => o.ok /\ Current
      BY <1>1, <1>6, <1>7 DEF Current
    <3>2. Current => ctl.phase = "prepared"
      BY <1>2 DEF Held
    <3> QED
      BY <1>5, <3>1, <3>2 DEF Hosted, NotYet, Serious
  <2> QED
    BY <1>7, <2>1 DEF Stays, Swapped
<1> QED
  BY <1>8, <1>9, <1>10, <1>11, <1>12 DEF Hosted

LEMMA HostedPublishCommit ==
    ASSUME IInv, Linked, Learned, Hosted, PublishCommit
    PROVE  Hosted'
<1>1. run.pc = "promoted" /\ net' = net /\ run'.pc \notin {"publish", "promoted"} /\ ~Undoing
  BY RunnerMoves DEF PublishCommit, RunnerFrame, Moves, Undoing
<1>2. run.cmd.act = "commit" /\ Held("prepared") /\ Busy /\ rt.ident = Cmd
  BY <1>1 DEF IInv, Steps, AtPromote, Busy
<1>3. Cmd \in Ids /\ rt \in Runtimes /\ Sound(rt) /\ ctl \in Controllers
  BY <1>2, CommandId DEF Actions, IInv, Engine, Typed, TypedController
<1>4. \/ Current /\ ctl.cand = Cmd /\ ctl.phase = "prepared"
      \/ Blank /\ ctl.phase \notin Serious /\ ctl.phase # "prepared"
  BY <1>2, HeldBlank DEF Actions
<1>5. CASE Valid(run.cmd.scope) /\ Cmd = ctl.latest
  <2>1. ctl' = [ctl EXCEPT !.prev = ctl.active, !.active = Cmd, !.scope = run.cmd.scope,
                            !.phase = "committed", !.fenced = FALSE] /\ rt' = rt
    BY <1>5 DEF PublishCommit
  <2>2. /\ ctl'.cand = ctl.cand /\ ctl'.phase = "committed" /\ ctl'.active = Cmd
        /\ ctl'.prev = ctl.active /\ ctl'.pending = ctl.pending
    BY <1>3, <2>1 DEF Controllers
  <2>3. ctl.cand = Cmd /\ ctl.phase = "prepared" /\ rt.phase = "committed" /\ rt.act = Cmd
    BY <1>1, <1>2, <1>5 DEF Held, Valid, Current, Hosted, Swapped, IInv, Engine, Sound
  <2>4. Named'
    BY <2>1, <2>2, <2>3 DEF Hosted, Named, Known, Some
  <2>5. ActiveMatch'
    BY <2>1, <2>2, <2>3 DEF ActiveMatch, Active
  <2>6. PrevMatch'
    BY <2>1, <2>2, <2>3 DEF PrevMatch, Previous, Hosted, ActiveMatch, Active
  <2> QED
    BY <1>1, <2>2, <2>4, <2>5, <2>6 DEF Hosted, NotYet, Stays, Swapped
<1>6. CASE ~(Valid(run.cmd.scope) /\ Cmd = ctl.latest)
  <2> DEFINE restore == ctl.scope # NoScope /\ Valid(ctl.scope)
  <2>1. ctl' = ctl /\ \E o \in AbortRuntime(rt, Cmd, restore) : rt' = Fenced(o.rt)
    BY <1>6 DEF PublishCommit
  <2>2. restore \in BOOLEAN
    BY DEF Valid
  <2> HIDE DEF restore
  <2>3. PICK o \in AbortRuntime(rt, Cmd, restore) : rt' = Fenced(o.rt)
    BY <2>1
  <2>4. /\ Restores(rt, o.rt) /\ o.rt.phase \in {rt.phase, "aborted"} /\ o.rt \in Runtimes
    BY <1>2, <1>3, <2>2, AbortTrims, AbortMoves DEF Shrinks
  <2>5. Restores(rt, rt') /\ rt'.phase = o.rt.phase
    BY <2>3, <2>4, RestoresFenced, FencedStands DEF Stands
  <2>6. Named' /\ ActiveMatch'
    BY <2>1, <2>5, RestoresActive DEF Hosted, Named, ActiveMatch, Restores
  <2>7. PrevMatch'
    BY <1>4, <2>1 DEF PrevMatch, Previous, Serious
  <2>8. NotYet'
    BY <2>1, <2>4, <2>5 DEF NotYet, Hosted
  <2> QED
    BY <1>1, <2>6, <2>7, <2>8 DEF Hosted, Stays, Swapped
<1> QED
  BY <1>5, <1>6

LEMMA HostedPublish ==
    ASSUME IInv, Linked, Learned, Hosted, Publish
    PROVE  Hosted'
<1>1. run.pc = "publish" /\ UNCHANGED <<net, rt>> /\ run'.pc \notin {"publish", "promoted"}
  BY RunnerMoves DEF Publish, RunnerFrame, Moves
<1>2. CASE Valid(run.cmd.scope) /\ ctl' = Published
  <2>1. Matches(rt', ctl')
    BY <1>1, <1>2 DEF Hosted, Stays
  <2>2. NotYet'
    <3>1. PublishedNames(ctl')
      BY <1>2, PublishFields
    <3>2. run.kind \in {"prepared", "empty", "dropped", "released", "aborted", "finalized"}
          /\ (run.kind = "prepared" => rt.phase = "prepared")
      BY <1>1 DEF IInv, Steps, AtPublish, AtLoaded
    <3> QED
      BY <1>1, <3>1, <3>2 DEF PublishedNames, Hosted, NotYet
  <2> QED
    BY <1>1, <2>1, <2>2 DEF Hosted, Matches, Named, ActiveMatch, PrevMatch, Stays, Swapped
<1>3. CASE ~Valid(run.cmd.scope) /\ ctl' = ctl
  <2>1. Alive => Blank
    <3>1. Busy /\ run.cmd.act \in Actions
      BY <1>1 DEF Busy, IInv, Typed, TypedRunner
    <3> QED
      BY <1>3, <3>1, OutdatedBlank
  <2>2. PrevMatch'
    BY <1>1, <1>3, <2>1, BlankPhase DEF PrevMatch, Previous, Alive, Serious
  <2> QED
    BY <1>1, <1>3, <2>2 DEF Hosted, Named, ActiveMatch, NotYet, Stays, Swapped
<1> QED
  BY <1>2, <1>3 DEF Publish

(***************************************************************************)
(* Terminal commands.                                                      *)
(***************************************************************************)
LEMMA SettleTrims ==
    ASSUME IInv, run.pc = "settle", NEW o \in SettleRuntime(SettleKind)
    PROVE  /\ o.ok \in BOOLEAN /\ o.rt \in Runtimes /\ Restores(rt, o.rt)
           /\ ~(o.ok /\ SettleKind \in {"aborted", "finalized"}) => Trims(rt, o.rt)
           /\ o.ok /\ SettleKind \in {"pending", "dropped", "released", "aborted"} =>
                Cmd \notin Refs(o.rt)
           /\ o.ok /\ (SettleKind = "finalized" \/ (SettleKind = "released" /\ rt.act = Cmd)) =>
                rt.prev \notin Refs(o.rt)
           /\ SettleKind = "empty" => Refs(o.rt) = {} /\ o.rt.act = None
           /\ SettleKind # "finalized" => NoFinal(o.rt)
<1> DEFINE kind == SettleKind
<1>1. /\ run.cmd.act \in Terminal
      /\ Cmd = run.loc.cand /\ rt.phase = "committed" => rt.ident = Cmd
  BY DEF IInv, Steps, AtSettle
<1>2. Cmd \in Ids /\ Cmd \in MaybeIds /\ Cmd # None /\ rt \in Runtimes /\ Sound(rt)
      /\ run.loc.restore \in BOOLEAN
  BY <1>1, CommandId, NoneNoId
    DEF IInv, Actions, Terminal, Engine, Typed, TypedRunner, Runners, Locals, MaybeIds
<1>3. /\ kind \in SettleKinds
      /\ kind = "empty" => ~Present(rt)
      /\ kind = "aborted" => Cmd = run.loc.cand
  BY DEF SettleKind, SettleKinds
<1>4. ~Present(rt) => Refs(rt) = {} /\ rt.act = None
  BY <1>2, EmptyRefs DEF Present
<1>5. o \in SettleRuntime(kind) /\ o.ok \in BOOLEAN /\ o.rt \in Runtimes
  BY SettleMoves DEF Shrinks
<1>6. Trims(rt, rt) /\ NoFinal(rt)
  BY TrimsNot DEF NoFinal
<1> HIDE DEF kind
<1>7. CASE kind = "pending"
  <2>1. CASE Cmd \in Owned(rt)
    <3>1. o \in ReleaseRuntime(rt, Cmd)
      BY <1>5, <1>7, <2>1 DEF SettleRuntime
    <3>2. Trims(rt, o.rt) /\ (o.ok => Cmd \notin Refs(o.rt)) /\ NoFinal(o.rt)
      BY <1>2, <3>1, ReleaseTrims DEF NoFinal
    <3> QED
      BY <1>5, <1>7, <3>2, TrimsRestores DEF kind
  <2>2. CASE Cmd \notin Owned(rt)
    <3>1. o = Outcome(~Present(rt), rt)
      BY <1>5, <1>7, <2>2 DEF SettleRuntime
    <3>2. o.ok = ~Present(rt) /\ o.rt = rt
      BY <3>1 DEF Outcome
    <3> QED
      BY <1>4, <1>5, <1>6, <1>7, <3>2, TrimsRestores DEF kind
  <2> QED
    BY <2>1, <2>2
<1>8. CASE kind = "dropped"
  <2>1. o \in RetirePrevious(rt, Cmd)
    BY <1>5, <1>8 DEF SettleRuntime
  <2>2. Trims(rt, o.rt) /\ (o.ok => Cmd \notin Refs(o.rt)) /\ NoFinal(o.rt)
    BY <1>2, <2>1, RetireTrims, RetireMoves DEF NoFinal
  <2> QED
    BY <1>5, <1>8, <2>2, TrimsRestores DEF kind
<1>9. CASE kind = "released"
  <2>1. o \in ReleaseRuntime(rt, Cmd)
    BY <1>5, <1>9 DEF SettleRuntime
  <2>2. /\ Trims(rt, o.rt) /\ NoFinal(o.rt)
        /\ o.ok => Cmd \notin Refs(o.rt) /\ (rt.act = Cmd => rt.prev \notin Refs(o.rt))
    BY <1>2, <2>1, ReleaseTrims DEF NoFinal
  <2> QED
    BY <1>5, <1>9, <2>2, TrimsRestores DEF kind
<1>10. CASE kind = "aborted"
  <2>1. o \in AbortRuntime(rt, Cmd, run.loc.restore)
    BY <1>5, <1>10 DEF SettleRuntime
  <2>2. /\ Restores(rt, o.rt) /\ (~o.ok => Trims(rt, o.rt)) /\ NoFinal(o.rt)
        /\ o.ok => Cmd \notin Refs(o.rt)
    BY <1>1, <1>2, <1>3, <1>10, <2>1, AbortTrims DEF NoFinal
  <2> QED
    BY <1>5, <1>10, <2>2 DEF kind
<1>11. CASE kind = "finalized"
  <2>1. o \in FinalizeRuntime(rt, Cmd)
    BY <1>5, <1>11 DEF SettleRuntime
  <2>2. /\ Restores(rt, o.rt) /\ (~o.ok => Trims(rt, o.rt))
        /\ o.ok => rt.prev \notin Refs(o.rt)
    BY <1>2, <2>1, FinalizeTrims
  <2> QED
    BY <1>5, <1>11, <2>2 DEF kind
<1>12. CASE kind \in {"done", "empty", "refused"}
  <2>1. o = Outcome(kind # "refused", rt)
    BY <1>5, <1>12 DEF SettleRuntime
  <2>2. o.rt = rt
    BY <2>1 DEF Outcome
  <2> QED
    BY <1>3, <1>4, <1>5, <1>6, <1>12, <2>2, TrimsRestores DEF kind
<1> QED
  BY <1>3, <1>7, <1>8, <1>9, <1>10, <1>11, <1>12 DEF SettleKinds

\* What is published of a terminal command matches what its native call has left.
LEMMA SettleStays ==
    ASSUME IInv, IInv', Linked, Learned, Hosted, Current, Alive, run.pc = "settle",
           NEW o \in SettleRuntime(SettleKind), o.ok, rt' = o.rt,
           run'.pc = "publish", run'.kind = SettleKind, run'.loc = run.loc, run'.cmd = run.cmd,
           SameNames, ctl'.pending = ctl.pending, SettleKind # "pending"
    PROVE  Matches(rt', Published')
<1> DEFINE c == Published'
           r == rt
           q == rt'
           kind == SettleKind
<1>1. (IInv /\ run.pc = "publish" => PublishedNames(Published) /\ Published.pending = ctl.pending)'
  BY PublishedAre, PTL
<1>2. PublishedNames(Published)' /\ c.pending = ctl.pending
  BY <1>1
<1>3. ReadAll /\ Refs(r) \subseteq Known(ctl) /\ Active(r, ctl) /\ Previous(r, ctl)
  BY DEF Learned, Read, Hosted, Named, ActiveMatch, PrevMatch, Undoing
<1>4. /\ Restores(r, q)
      /\ kind \notin {"aborted", "finalized"} => Trims(r, q)
      /\ kind \in {"dropped", "released", "aborted"} => Cmd \notin Refs(q)
      /\ kind = "finalized" \/ (kind = "released" /\ r.act = Cmd) => r.prev \notin Refs(q)
      /\ kind = "empty" => Refs(q) = {}
  BY SettleTrims
<1>5. /\ kind \in {"empty", "dropped", "released", "aborted", "finalized"}
      /\ kind = "dropped" => Cmd = run.loc.prev
      /\ kind = "released" => Cmd \in {run.loc.active, run.loc.cand}
      /\ kind = "aborted" => Cmd = run.loc.cand
      /\ kind = "finalized" => run.loc.phase \in Serious
  <2>1. kind \in {"prepared", "empty", "dropped", "released", "aborted", "finalized"}
    BY DEF IInv, Steps, AtPublish
  <2> QED
    BY <2>1 DEF SettleKind, Serious
<1>6. /\ Refs(q) \subseteq Known(ctl) /\ Active(q, ctl)
      /\ kind # "aborted" /\ kind # "finalized" => Previous(q, ctl)
      /\ None \notin Refs(q)
  <2>1. None \notin Refs(q)
    BY NoneNoRef DEF IInv, Engine
  <2> QED
    BY <1>3, <1>4, <2>1, RestoresActive, TrimsPrevious DEF Restores
<1>7. Phased
  BY DEF Learned
<1> SUFFICES Matches(q, c)
  OBVIOUS
<1> HIDE DEF q, r, kind
<1>8. Cmd' = Cmd
  BY DEF Cmd
<1>9. CASE kind = "empty"
  BY <1>4, <1>9 DEF Matches, Active, Previous
<1>10. CASE kind = "dropped"
  <2>1. /\ c.cand = ctl.cand /\ c.active = ctl.active /\ c.phase = ctl.phase /\ c.prev = None
    BY <1>2, <1>10 DEF PublishedNames, SameNames, kind
  <2>2. ctl.prev \notin Refs(q)
    BY <1>3, <1>4, <1>5, <1>10 DEF ReadAll
  <2>3. Refs(q) \subseteq Known(c)
    BY <1>2, <1>6, <2>1, <2>2 DEF Known, Some
  <2> QED
    BY <1>6, <2>1, <2>3 DEF Matches, Active, Previous
<1>11. CASE kind = "released"
  <2>1. /\ c.cand = (IF ctl.cand = Cmd THEN None ELSE ctl.cand)
        /\ c.phase = (IF ctl.cand = Cmd THEN "released" ELSE ctl.phase)
        /\ IF ctl.active = Cmd THEN c.active = None /\ c.prev = None
           ELSE c.active = ctl.active /\ c.prev = ctl.prev
    BY <1>2, <1>8, <1>11 DEF PublishedNames, SameNames, kind
  <2>2. Cmd \in {ctl.active, ctl.cand} /\ Cmd \notin Refs(q)
        /\ (r.act = Cmd => r.prev \notin Refs(q))
    BY <1>3, <1>4, <1>5, <1>11 DEF ReadAll
  <2>3. ctl.phase = "committed" => ctl.cand = Cmd /\ ctl.active = Cmd
    BY <1>7, <2>2 DEF Phased, Serious
  <2>4. ctl.phase = "committed" => ctl.prev \notin Refs(q)
    BY <1>3, <1>4, <2>2, <2>3 DEF Previous, Restores
  <2>5. Refs(q) \subseteq Known(c)
    BY <1>2, <1>6, <2>1, <2>2, <2>4 DEF Known, Some
  <2>6. Active(q, c)
    BY <1>6, <2>1 DEF Active, Serious
  <2>7. c.phase # "committed"
    BY <2>1, <2>3
  <2> QED
    BY <2>5, <2>6, <2>7 DEF Matches, Previous
<1>12. CASE kind = "aborted"
  <2>1. /\ c.cand = None /\ c.prev = None /\ c.phase = "aborted"
        /\ c.active = (IF ~run.loc.restore THEN None
                       ELSE IF run.loc.phase = "committed" THEN run.loc.prev ELSE ctl.active)
    BY <1>2, <1>12 DEF PublishedNames, SameNames, kind
  <2>2. /\ Cmd = ctl.cand /\ Cmd \notin Refs(q) /\ run.loc.phase = ctl.phase
        /\ run.loc.prev = ctl.prev /\ (ctl.active # None => run.loc.restore)
    BY <1>3, <1>4, <1>5, <1>12 DEF ReadAll
  <2>3. ctl.phase = "committed" => ctl.active = Cmd /\ ctl.active # None
    BY <1>7, <2>2 DEF Phased, Serious
  <2>4. Refs(q) \subseteq Known(c)
    BY <1>2, <1>6, <2>1, <2>2, <2>3 DEF Known, Some
  <2>5. Active(q, c)
    <3>1. CASE c.active = None
      BY <1>6, <3>1 DEF Active
    <3>2. CASE ctl.phase # "committed" /\ c.active = ctl.active
      BY <1>6, <2>1, <3>2 DEF Active, Serious
    <3>3. CASE ctl.phase = "committed" /\ c.active = ctl.prev
      <4> SUFFICES ASSUME ctl.prev \in Refs(q)
                   PROVE  q.act = ctl.prev
        BY <3>3 DEF Active
      <4>1. r.prev = ctl.prev /\ r.act = Cmd
        BY <1>3, <1>4, <2>2, <3>3 DEF Previous, Restores
      <4>2. Cmd # None /\ q.act # Cmd
        BY <2>2, <2>3, <3>3 DEF Refs, Some
      <4> QED
        BY <1>4, <4>1, <4>2 DEF Restores, Stands
    <3> QED
      BY <2>1, <2>2, <3>1, <3>2, <3>3
  <2> QED
    BY <2>1, <2>4, <2>5 DEF Matches, Previous
<1>13. CASE kind = "finalized"
  <2>1. /\ c.cand = ctl.cand /\ c.active = ctl.active /\ c.phase = "finalized" /\ c.prev = None
    BY <1>2, <1>13 DEF PublishedNames, SameNames, kind
  <2>2. ctl.phase \in Serious /\ r.prev \notin Refs(q)
    BY <1>3, <1>4, <1>5, <1>13 DEF ReadAll
  <2>3. ctl.phase = "committed" => ctl.prev \notin Refs(q) \/ ctl.prev = ctl.cand
    BY <1>3, <1>4, <2>2 DEF Previous, Restores
  <2>4. Refs(q) \subseteq Known(c)
    BY <1>2, <1>6, <2>1, <2>3 DEF Known, Some
  <2>5. Active(q, c)
    BY <1>6, <2>1, <2>2 DEF Active
  <2> QED
    BY <2>1, <2>4, <2>5 DEF Matches, Previous
<1> QED
  BY <1>5, <1>9, <1>10, <1>11, <1>12, <1>13

LEMMA HostedSettle ==
    ASSUME IInv, IInv', Linked, Learned, Hosted, Settle
    PROVE  Hosted'
<1> DEFINE kind == SettleKind
           pending == IF kind = "pending" THEN ctl.pending \ {Cmd} ELSE ctl.pending
           retired == ctl.retired \cup SettleRecord(kind)
<1>1. PICK o \in SettleRuntime(kind) :
        /\ rt' = o.rt
        /\ ctl' = IF o.ok THEN [ctl EXCEPT !.retired = retired, !.pending = pending] ELSE ctl
        /\ run' = [run EXCEPT !.kind = kind,
                     !.pc = IF ~o.ok THEN "error"
                            ELSE IF kind \in {"done", "pending"} THEN "post" ELSE "publish"]
  BY DEF Settle
<1>2. run.pc = "settle" /\ net' = net /\ ~Undoing
  BY DEF Settle, RunnerFrame, Undoing
<1>3. /\ o.ok \in BOOLEAN /\ o.rt \in Runtimes /\ Restores(rt, o.rt)
      /\ ~(o.ok /\ kind \in {"aborted", "finalized"}) => Trims(rt, o.rt)
      /\ o.ok /\ kind \in {"pending", "dropped", "released", "aborted"} => Cmd \notin Refs(o.rt)
      /\ o.ok /\ kind = "finalized" => rt.prev \notin Refs(o.rt)
      /\ kind = "empty" => o.rt.act = None
      /\ kind # "finalized" => NoFinal(o.rt)
  BY <1>2, SettleTrims
<1> DEFINE pc == IF ~o.ok THEN "error"
                 ELSE IF kind \in {"done", "pending"} THEN "post" ELSE "publish"
<1>4. /\ pc = "publish" => o.ok /\ kind \notin {"done", "pending"}
      /\ pc \in {"error", "post", "publish"} /\ run' = [run EXCEPT !.kind = kind, !.pc = pc]
      /\ o.ok /\ kind = "aborted" => pc = "publish"
  BY <1>1, <1>3
<1>5. (pending = ctl.pending \/ (kind = "pending" /\ pending = ctl.pending \ {Cmd}))
      /\ (kind # "pending" => pending = ctl.pending)
  OBVIOUS
<1> HIDE DEF kind, pending, retired, pc
<1>6. run'.pc = pc /\ run'.kind = kind /\ run'.loc = run.loc /\ run'.cmd = run.cmd
  BY <1>4 DEF IInv, Typed, TypedRunner, Runners
<1>7. SameNames /\ ctl'.pending = (IF o.ok THEN pending ELSE ctl.pending)
      /\ ctl'.closed = ctl.closed /\ ctl'.epoch = ctl.epoch
  BY <1>1 DEF IInv, Typed, TypedController, Controllers, SameNames
<1>8. Named'
  <2>1. Refs(rt') \subseteq Known(ctl)
    BY <1>1, <1>3 DEF Hosted, Named, Restores
  <2> QED
    BY <1>1, <1>3, <1>5, <1>7, <2>1 DEF Named, Known, SameNames
<1>9. ActiveMatch'
  <2>1. Active(rt', ctl)
    BY <1>1, <1>3, RestoresActive DEF Hosted, ActiveMatch
  <2> QED
    BY <1>7, <2>1 DEF ActiveMatch, Active, SameNames
<1>10. PrevMatch'
  <2> SUFFICES ASSUME Alive', ~Undoing'
               PROVE  Previous(rt', ctl')
    BY DEF PrevMatch
  <2>1. Previous(rt, ctl)
    BY <1>2, <1>7 DEF Alive, Hosted, PrevMatch
  <2>2. ~(o.ok /\ kind = "aborted")
    BY <1>4, <1>6 DEF Undoing
  <2>3. Previous(rt', ctl)
    <3>1. CASE Trims(rt, o.rt)
      BY <1>1, <2>1, <3>1, TrimsPrevious
    <3>2. CASE o.ok /\ kind = "finalized"
      BY <1>1, <1>3, <2>1, <3>2 DEF Previous, Restores
    <3> QED
      BY <1>3, <2>2, <3>1, <3>2
  <2> QED
    BY <1>7, <2>3 DEF Previous, SameNames
<1>11. NotYet'
  <2>1. CASE kind # "finalized"
    BY <1>1, <1>3, <1>7, <2>1 DEF Hosted, NotYet, NoFinal, SameNames
  <2>2. CASE kind = "finalized"
    <3>1. run.loc.phase \in Serious
      BY <2>2 DEF kind, SettleKind, Serious
    <3>2. Current => ctl.phase \in Serious
      BY <1>2, <3>1 DEF Learned, Read, ReadAll
    <3>3. ~Current => Blank
      <4>1. Busy /\ run.cmd.act \in Actions
        BY <1>2 DEF Busy, IInv, Typed, TypedRunner
      <4> QED
        BY <4>1, OutdatedBlank
    <3>4. ctl.phase # "prepared"
      BY <3>2, <3>3, BlankPhase DEF Serious
    <3> QED
      BY <1>7, <3>4 DEF NotYet, SameNames
  <2> QED
    BY <2>1, <2>2
<1>12. Swapped'
  BY <1>1, <1>3, <1>4, <1>6 DEF Swapped
<1>13. Stays'
  <2> SUFFICES ASSUME run'.pc = "publish", Valid(run.cmd.scope)'
               PROVE  Matches(rt', Published')
    BY DEF Stays
  <2>1. Current /\ Alive
    BY <1>2, <1>6, <1>7 DEF Valid, Current, Alive
  <2>2. o.ok /\ kind # "pending" /\ ctl'.pending = ctl.pending
    BY <1>4, <1>5, <1>6, <1>7
  <2> QED
    BY <1>1, <1>2, <1>6, <1>7, <2>1, <2>2, SettleStays DEF kind
<1> QED
  BY <1>8, <1>9, <1>10, <1>11, <1>12, <1>13 DEF Hosted

(***************************************************************************)
(* The other threads and the world.                                        *)
(***************************************************************************)
\* A step that leaves the names and the references alone.
LEMMA HostedStays ==
    ASSUME IInv, IInv', Hosted, SameStep, Alike(ctl, ctl'), Refs(rt') = Refs(rt), Stands(rt, rt'),
           Alive' => Alive \/ Blank, Learned,
           Valid(run.cmd.scope)' /\ run'.pc = "publish" => Valid(run.cmd.scope),
           Busy' /\ Current' => Current
    PROVE  Hosted'
<1>1. Named' /\ ActiveMatch' /\ NotYet'
  <2>1. Active(rt, ctl')
    BY AlikeMatches DEF Hosted, ActiveMatch
  <2> QED
    BY <2>1, AlikeMatches, StandsMatches DEF Hosted, Named, ActiveMatch, NotYet, Alike, Stands
<1>2. /\ run'.pc \in {"publish", "promoted"} => run'.pc = run.pc /\ run'.kind = run.kind
                                               /\ run'.cmd = run.cmd /\ run'.loc = run.loc
      /\ run.pc = "publish" => run'.kind = run.kind /\ run'.pc = run.pc
  BY DEF SameStep
<1>3. PrevMatch'
  <2>1. CASE Blank
    BY <2>1, BlankPhase DEF PrevMatch, Previous, Alike, Serious
  <2>2. CASE ~Blank
    <3>1. Undoing => Undoing'
      BY <1>2 DEF Undoing
    <3>2. Previous(rt, ctl) => Previous(rt', ctl')
      BY AlikeMatches, StandsMatches
    <3> QED
      BY <2>2, <3>1, <3>2 DEF PrevMatch, Hosted
  <2> QED
    BY <2>1, <2>2
<1>4. Stays'
  <2> SUFFICES ASSUME run'.pc = "publish", Valid(run.cmd.scope)'
               PROVE  Matches(rt', Published')
    BY DEF Stays
  <2>1. Matches(rt, Published)
    BY <1>2 DEF Hosted, Stays
  <2>2. Alike(Published, Published')
    BY <1>2, PublishedSame
  <2>3. Matches(rt, Published')
    BY <2>1, <2>2, AlikeMatches
  <2> QED
    BY <2>3, StandsMatches
<1>5. Swapped'
  BY <1>2 DEF Hosted, Swapped, Stands, Busy
<1> QED
  BY <1>1, <1>3, <1>4, <1>5 DEF Hosted

LEMMA HostedHandle ==
    ASSUME IInv, IInv', Learned, Hosted, NEW a \in Actions, NEW i \in Ids, Handle(a, i)
    PROVE  Hosted'
<1>1. /\ SameNames /\ ctl'.pending = ctl.pending /\ net' = net
      /\ ctl'.epoch = ctl.epoch /\ ctl'.closed = ctl.closed
      /\ rt' = rt \/ rt' = Fenced(rt)
  BY HandleNames
<1>2. SameStep
  <2> DEFINE newer == a = "prepare" /\ i > ctl.latest
             cancels == /\ Busy /\ run.cmd.act = "prepare"
                        /\ newer \/ (a \in {"abort", "release"} /\ run.cmd.id = i)
  <2>1. run' = [Started EXCEPT !.cancelled = @ \/ cancels] /\ cancels \in BOOLEAN
    BY DEF Handle, Busy
  <2> HIDE DEF cancels
  <2> QED
    BY <2>1, StartedTyped DEF SameStep, IInv
<1>3. Refs(rt') = Refs(rt) /\ Stands(rt, rt')
  BY <1>1, FencedStands DEF IInv, Engine, Stands
<1>4. /\ Alike(ctl, ctl') /\ (Alive' => Alive)
      /\ run'.pc = "publish" /\ Valid(run.cmd.scope)' => Valid(run.cmd.scope)
      /\ Busy' /\ Current' => Current
  BY <1>1, <1>2, SameStepServing DEF SameNames, Alike, Alive, Valid, Current, SameStep
<1> QED
  BY <1>2, <1>3, <1>4, HostedStays

LEMMA HostedCleared ==
    ASSUME IInv, Hosted, Cleared, SameStep \/ run' = Idle, rt' = Fenced(rt)
    PROVE  Hosted'
<1>1. ctl'.epoch > ctl.epoch
  BY NumbersTyped DEF Cleared, IInv
<1>2. Busy' => /\ ~Current' /\ run'.pc = run.pc /\ run'.kind = run.kind
  BY <1>1, SameStepServing
<1>3. Refs(rt') = Refs(rt) /\ Stands(rt, rt') /\ None \notin Refs(rt)
  BY FencedStands, NoneNoRef DEF IInv, Engine
<1>4. Named'
  BY <1>3 DEF Hosted, Named, Known, Cleared, Some
<1>5. ActiveMatch' /\ PrevMatch' /\ NotYet'
  BY <1>3 DEF Cleared, ActiveMatch, Active, PrevMatch, Previous, NotYet
<1>6. Stays' /\ Swapped'
  BY <1>2, <1>3 DEF Stays, Swapped, Hosted, Stands, Busy, Valid, Current
<1> QED
  BY <1>4, <1>5, <1>6 DEF Hosted

LEMMA HostedOthers ==
    ASSUME IInv, IInv', Linked, Learned, Hosted, Others, ~Overtakes
    PROVE  Hosted'
<1>1. CASE \E a \in Actions, i \in Ids : Handle(a, i)
  BY <1>1, HostedHandle
<1>2. CASE Cleared /\ rt' = Fenced(rt)
  BY <1>2, OtherMoves, HostedCleared
<1>3. CASE /\ Reopen /\ SameNames /\ ctl'.epoch = ctl.epoch + 1
           /\ ctl'.pending = ctl.pending /\ UNCHANGED <<net, queue, run, rt>>
  <2>1. Blank
    BY <1>3, GoneBlank DEF Reopen, Opened
  <2>2. SameStep /\ ctl'.epoch > ctl.epoch
    BY <1>3, NumbersTyped DEF SameStep, IInv
  <2>3. Busy' => ~Current'
    BY <2>2, SameStepServing
  <2>4. Alike(ctl, ctl') /\ Stands(rt, rt')
    BY <1>3 DEF SameNames, Alike, Stands
  <2> QED
    BY <1>3, <2>1, <2>2, <2>3, <2>4, HostedStays DEF Busy, Valid, Current
<1>4. CASE /\ UNCHANGED <<ctl, run>>
           /\ \/ Drop \/ Reconnect \/ net' = net
              \/ net.lost /\ net.up /\ net' = [net EXCEPT !.lost = FALSE]
           /\ rt' = rt \/ \E i \in Ids : rt' = [rt EXCEPT !.dead = @ \cup {i}]
  <2>1. Refs(rt') = Refs(rt) /\ Stands(rt, rt')
    <3>1. /\ rt'.act = rt.act /\ rt'.prev = rt.prev /\ rt'.phase = rt.phase /\ rt'.open = rt.open
      BY <1>4 DEF IInv, Engine, Runtimes
    <3> QED
      BY <3>1 DEF Refs, Stands
  <2>2. CASE Reconnect
    <3>1. Blank /\ ~Serving
      BY <2>2, GoneBlank DEF Reconnect, Overtakes, Opened
    <3>2. run.pc = "publish" => ~Current
      BY <3>1 DEF Serving, Busy, IInv, Typed, TypedRunner
    <3> QED
      BY <1>4, <2>1, <3>1, <3>2, HostedStays DEF SameStep, Alike, Valid, Current
  <2>3. CASE ~Reconnect
    <3>1. (net'.up => net.up) /\ net'.link = net.link
      BY <1>4, <2>3 DEF Drop, IInv, Typed, TypedWorld
    <3> QED
      BY <1>4, <2>1, <3>1, HostedStays DEF SameStep, Alike, Alive, Valid, Current
  <2> QED
    BY <2>2, <2>3
<1> QED
  BY <1>1, <1>2, <1>3, <1>4, OtherNames

LEMMA HostedRunner ==
    ASSUME IInv, IInv', Linked, Learned, Hosted, Runner
    PROVE  Hosted'
BY HostedChecks, HostedBegin, HostedLoad, HostedRecheck, HostedPromote, HostedPublishCommit,
   HostedSettle, HostedPublish, HostedPost, HostedMarked, HostedClear DEF Runner

LEMMA HostedKeeps ==
    ASSUME IInv, IInv', Linked, Learned, Hosted, [Next]_vars, ~Overtakes
    PROVE  Hosted'
<1>1. CASE UNCHANGED vars
  <2>1. SameStep /\ Alike(ctl, ctl') /\ Stands(rt, rt')
    BY <1>1 DEF vars, SameStep, Alike, Stands
  <2> QED
    BY <1>1, <2>1, HostedStays DEF vars, Alive, Valid, Current, Busy
<1> QED
  BY <1>1, HostedRunner, HostedOthers, NextCases

LEMMA HostedInit == Init => Linked /\ Learned /\ Hosted
<1> SUFFICES ASSUME Init
             PROVE  Linked /\ Learned /\ Hosted
  OBVIOUS
<1>1. /\ ctl.cand = None /\ ctl.active = None /\ ctl.prev = None /\ ctl.phase = "idle"
      /\ ctl.pending = {} /\ ~net.lost /\ Len(queue) = 0 /\ run = Idle
      /\ rt.act = None /\ rt.prev = None /\ rt.open = {}
  BY DEF Init
<1>2. run.pc = "idle" /\ ~Busy
  BY <1>1, IdlePc DEF Busy
<1>3. Linked
  BY <1>1, <1>2 DEF Linked, QueueLinked, RunLinked, NamesLinked, Blank
<1>4. Learned
  BY <1>1, <1>2 DEF Learned, Phased, Serious, Aged, Past, Read, Chosen, Told, ToldQueue, ToldRun,
                    ToldDone
<1>5. Refs(rt) = {}
  BY <1>1 DEF Refs, Some
<1>6. Hosted
  BY <1>1, <1>2, <1>5 DEF Hosted, Named, ActiveMatch, Active, PrevMatch, Previous, Stays, NotYet,
                          Swapped
<1> QED
  BY <1>3, <1>4, <1>6

Paired == Linked /\ Learned /\ Hosted

LEMMA PairedInvariance == Spec /\ [][~Overtakes]_vars => [](IInv /\ Paired)
<1>1. Init => IInv /\ Paired
  BY IInvInit, HostedInit DEF Paired
<1>2. IInv /\ Paired /\ [Next]_vars /\ [~Overtakes]_vars => (IInv /\ Paired)'
  <2> SUFFICES ASSUME IInv, Paired, [Next]_vars, [~Overtakes]_vars
               PROVE  (IInv /\ Paired)'
    OBVIOUS
  <2>1. IInv'
    BY NextKeeps
  <2>2. ~Overtakes
    BY DEF Overtakes, Reconnect, vars, IInv, Typed, TypedWorld
  <2> QED
    BY <2>1, <2>2, LinkedKeeps, LearnedKeeps, HostedKeeps DEF Paired
<1> QED
  BY <1>1, <1>2, PTL DEF Spec

\* Nothing native is lost, as long as no reconnect overtakes the callback of the connection it
\* replaces: whatever the host owns, the controller's candidate, active or previous identity or its
\* pending retirements name, so that a command or a cleanup still releases it.
THEOREM NothingLostProved == Spec /\ [][~Overtakes]_vars => []NothingLost
<1>1. IInv /\ Paired => NothingLost
  <2> SUFFICES ASSUME IInv, Paired
               PROVE  NothingLost
    OBVIOUS
  <2>1. Owned(rt) \subseteq Refs(rt) /\ rt.open \subseteq Owned(rt)
    BY OwnedRefs DEF IInv, Engine
  <2>2. Refs(rt) \subseteq Known(ctl)
    BY DEF Paired, Hosted, Named
  <2> QED
    BY <2>1, <2>2 DEF NothingLost, Known, Some
<1> QED
  BY <1>1, PairedInvariance, PTL

(***************************************************************************)
(* After a "ready".                                                        *)
(***************************************************************************)
\* The candidate is the newest identity and nobody has given it up.
Wanted ==
    Alive /\ ctl.cand # None /\ ctl.cand = ctl.latest /\ ctl.cand \notin sent.dropped

\* A wanted candidate that is committed can execute, one that is only prepared waits in the host,
\* and one whose commit is not published yet is unfenced in the host.
Fit ==
    Wanted /\ ctl.phase \in Serious =>
      /\ ~ctl.fenced /\ ~rt.fenced
      /\ rt.act = ctl.cand /\ rt.ident = ctl.cand /\ rt.phase \in Serious

Unswapped ==
    Wanted /\ ctl.phase = "prepared" /\ run.pc # "promoted" =>
      rt.phase = "prepared" /\ rt.ident = ctl.cand

JustSwapped == Wanted /\ run.pc = "promoted" => rt.act = Cmd /\ ~rt.fenced

Cleaning == run.pc = "retire" => run.cmd.act = "cleanup"

Fitted == Fit /\ Unswapped /\ JustSwapped /\ Cleaning

\* The identity the last "ready" answered for is wanted, and nothing but its finalize is to come.
Served ==
    serving # None =>
      /\ Wanted /\ ctl.cand = serving /\ ctl.phase \in Serious
      /\ \A k \in 1..Len(queue) : queue[k].act = "finalize"
      /\ Busy => run.cmd.act = "finalize"

\* While a candidate is wanted the runner works for a command that is valid.
LEMMA WantedDoing ==
    ASSUME IInv, Linked, Wanted, Busy
    PROVE  Doing /\ Valid(run.cmd.scope) /\ Current /\ run.cmd.act \in Actions /\ ~Blank
           /\ ctl.pending = {}
<1>1. ~Blank /\ ctl.pending = {}
  BY DEF Wanted, Blank, IInv, Tied, Candidate
<1>2. Serving
  BY <1>1 DEF Linked, RunLinked
<1>3. Valid(run.cmd.scope)
  BY <1>1, <1>2, OutdatedBlank DEF Wanted, Serving
<1> QED
  BY <1>1, <1>2, <1>3 DEF Doing, Serving

\* What was given up is not wanted.
LEMMA WantedNotDropped ==
    ASSUME IInv, Learned, Wanted, Busy, run.cmd.act \in {"abort", "release"}
    PROVE  Cmd # ctl.cand
BY DEF Wanted, Learned, Told, ToldRun

\* A step of the runner makes no candidate wanted, but by beginning to prepare it.
LEMMA WantedRunner ==
    ASSUME IInv, Learned, Runner, Wanted', ctl'.phase # "preparing"
    PROVE  Wanted /\ ctl'.cand = ctl.cand
<1>1. net' = net /\ sent' = sent
  BY RunnerFrames DEF Pop
<1>2. SameMoment /\ ctl'.cand = ctl.cand
  <2>1. CASE Silent \/ Committed \/ Marked
    BY <2>1, RunnerNames DEF Silent, SameNames, Committed, Marked
  <2>2. CASE Updated
    BY <2>2, UpdatedFacts, RunnerNames DEF PublishedNames, Wanted
  <2> QED
    BY <2>1, <2>2, RunnerNames DEF Begun
<1> QED
  BY <1>1, <1>2 DEF Wanted, Alive, SameMoment

\* Steps that touch neither the host nor what was published.
LEMMA FittedSame ==
    ASSUME Fitted, Wanted' => Wanted, SameNames, ctl'.fenced = ctl.fenced,
           rt'.act = rt.act, rt'.ident = rt.ident, rt'.phase = rt.phase, rt'.fenced = rt.fenced,
           run'.pc = "promoted" => run.pc = "promoted" /\ run'.cmd = run.cmd,
           Wanted /\ ctl.phase = "prepared" /\ run.pc = "promoted" => run'.pc = "promoted",
           run'.pc = "retire" => run.pc = "retire" /\ run'.cmd = run.cmd
    PROVE  Fitted'
BY DEF Fitted, Fit, Unswapped, JustSwapped, Cleaning, SameNames, Cmd

LEMMA FittedPop ==
    ASSUME IInv, Fitted, Pop
    PROVE  Fitted'
<1>1. UNCHANGED <<net, ctl, rt, sent>> /\ run.pc = "idle"
  BY DEF Pop
<1>2. run'.pc \in {"check", "retire"}
  BY RunnerMoves
<1>3. Cleaning'
  <2> DEFINE pc == IF Head(queue).act = "cleanup" THEN "retire" ELSE "check"
  <2>1. run' = [run EXCEPT !.cmd = Head(queue), !.cancelled = FALSE, !.pc = pc] /\ run \in Runners
    BY DEF Pop, IInv, Typed, TypedRunner
  <2>2. pc = "retire" => Head(queue).act = "cleanup"
    OBVIOUS
  <2> HIDE DEF pc
  <2>3. run'.pc = pc /\ run'.cmd = Head(queue)
    BY <2>1 DEF Runners
  <2> QED
    BY <2>2, <2>3 DEF Cleaning
<1> QED
  BY <1>1, <1>2, <1>3 DEF Fitted, Fit, Unswapped, JustSwapped, Wanted, Alive

LEMMA FittedQuiet ==
    ASSUME IInv, Linked, Learned, Fitted,
           CheckPrepare \/ CheckCommit \/ CheckTerminal \/ Ack \/ Clear \/ Post \/ FenceCleanup \/ Retire
    PROVE  Fitted'
<1>1. Runner /\ Busy /\ ~Pop
  BY DEF Runner, CheckPrepare, CheckCommit, CheckTerminal, Ack, Clear, Post, FenceCleanup, Retire,
         Busy, Pop
<1>2. run'.pc \notin {"promoted", "retire"} /\ run.pc # "promoted"
  BY RunnerMoves, IdlePc DEF Moves, CheckPrepare, CheckCommit, CheckTerminal, Ack, Clear
<1>3. Silent /\ SameMoment
  <2>1. run.pc \notin {"begin", "promoted", "publish", "failed"} /\ ~MarkFailed
    BY DEF CheckPrepare, CheckCommit, CheckTerminal, Ack, Clear, Post, FenceCleanup, Retire, MarkFailed
  <2> QED
    BY <1>1, <2>1, RunnerNames DEF Begun, Committed, Updated, Marked
<1>4. Wanted' => Wanted
  BY <1>1, <1>3, RunnerFrames DEF Silent, SameNames, SameMoment, Wanted, Alive
<1>5. Wanted => rt' = rt
  <2> SUFFICES ASSUME Wanted
               PROVE  rt' = rt
    OBVIOUS
  <2>1. Valid(run.cmd.scope) /\ Current /\ run.cmd.act \in Actions
    BY <1>1, WantedDoing
  <2>2. ~FenceCleanup /\ ~Retire
    BY <2>1 DEF FenceCleanup, Retire, Fitted, Cleaning, Actions
  <2>3. CASE Post
    <3>1. run.pc = "post"
      BY <2>3 DEF Post
    <3>2. ~(run.cmd.act = "prepare" /\ (run.cancelled \/ Cmd # ctl.latest))
      BY <1>1, <2>1, <3>1 DEF Learned, Told, ToldRun, ToldDone, Wanted
    <3> QED
      BY <2>1, <2>3, <3>2 DEF Post
  <2> QED
    BY <2>2, <2>3 DEF CheckPrepare, CheckCommit, CheckTerminal, Ack, Clear
<1>6. CASE Wanted
  BY <1>2, <1>3, <1>4, <1>5, <1>6, FittedSame DEF Silent
<1>7. CASE ~Wanted
  BY <1>2, <1>4, <1>7 DEF Fitted, Fit, Unswapped, JustSwapped, Cleaning
<1> QED
  BY <1>6, <1>7

\* No command that prepares comes between a wanted candidate and what the host has of it.
LEMMA FittedPrepare ==
    ASSUME IInv, Linked, Learned, Fitted, BeginPrepare \/ Load \/ Recheck \/ MarkFailed
    PROVE  Fitted'
<1>1. Runner /\ Busy /\ ~Pop /\ run.pc \in {"begin", "load", "recheck", "error", "failed"}
  BY DEF Runner, BeginPrepare, Load, Recheck, MarkFailed, Busy, Pop
<1>2. run'.pc \notin {"promoted", "retire"}
  BY RunnerMoves DEF Moves
<1> SUFFICES ASSUME Wanted', ctl'.phase \in Serious \cup {"prepared"}
             PROVE  Fitted'
  BY <1>2 DEF Fitted, Fit, Unswapped, JustSwapped, Cleaning
<1>3. Wanted /\ ctl'.cand = ctl.cand
  BY <1>1, WantedRunner DEF Serious
<1>4. Valid(run.cmd.scope) /\ Current
  BY <1>1, <1>3, WantedDoing
<1>5. Silent
  BY <1>1, RunnerNames DEF Begun, Committed, Updated, Marked, Serious
<1>6. ctl.phase \in Serious \cup {"prepared"} /\ ctl'.phase # "preparing"
  BY <1>5 DEF Silent, SameNames, Serious
<1>7. ~Load /\ ~Recheck
  BY <1>4, <1>6 DEF Load, Recheck, IInv, Steps, AtLoad, AtLoaded, Held, Serious
<1>8. ~BeginPrepare
  <2> SUFFICES ASSUME BeginPrepare
               PROVE  FALSE
    OBVIOUS
  <2>1. run.pc = "begin"
    BY DEF BeginPrepare
  <2>2. run.loc.phase = ctl.phase /\ ctl.phase # "committed" /\ ctl.phase # "prepared"
    BY <1>3, <1>4, <2>1 DEF Learned, Read, Wanted
  <2>3. ~Dropping
    BY <1>6, <2>2 DEF Dropping, Serious
  <2> DEFINE aborts == IF Dropping THEN AbortRuntime(rt, run.loc.cand, FALSE) ELSE {Outcome(TRUE, rt)}
             retired(o) == IF Dropping /\ o.ok THEN ctl.retired \cup {run.loc.cand} ELSE ctl.retired
  <2>4. PICK o \in aborts :
          ~o.ok \/ ~Valid(run.cmd.scope)
          \/ ctl' = [ctl EXCEPT !.retired = retired(o), !.cand = Cmd, !.phase = "preparing",
                                !.fenced = TRUE]
    BY DEF BeginPrepare, Dropping
  <2>5. o.ok = TRUE
    BY <2>3 DEF Outcome
  <2> HIDE DEF aborts, retired
  <2>6. ctl' = [ctl EXCEPT !.retired = retired(o), !.cand = Cmd, !.phase = "preparing",
                           !.fenced = TRUE]
    BY <1>4, <2>4, <2>5
  <2> QED
    BY <1>6, <2>6 DEF IInv, Typed, TypedController, Controllers
<1>9. rt' = rt
  BY <1>7, <1>8 DEF MarkFailed
<1> QED
  BY <1>1, <1>2, <1>3, <1>5, <1>9, FittedSame DEF Silent

LEMMA FittedPromote ==
    ASSUME IInv, Linked, Learned, Fitted, Promote
    PROVE  Fitted'
<1> DEFINE o == CommitRuntime(rt, Cmd)
<1>1. /\ run.pc = "promote" /\ UNCHANGED <<ctl, net, sent>> /\ rt' = o.rt
      /\ Goto(IF o.ok THEN "promoted" ELSE "error")
  BY DEF Promote, RunnerFrame
<1>2. run.cmd.act = "commit" /\ Held("prepared") /\ Busy
  BY <1>1 DEF IInv, Steps, AtPromote, Busy
<1>3. Cmd \in Ids /\ rt \in Runtimes /\ Sound(rt)
  BY <1>2, CommandId DEF Actions, IInv, Engine
<1>4. \/ rt' = rt /\ (o.ok => rt.phase \in Serious)
      \/ o.ok /\ rt'.act = Cmd /\ ~rt'.fenced
  BY <1>1, <1>3, CommitSwaps DEF Serious
<1>5. o.ok \in BOOLEAN
  BY <1>3, CommitMoves
<1>6. run'.pc = (IF o.ok THEN "promoted" ELSE "error") /\ run'.cmd = run.cmd
  BY <1>1, GotoMoves
<1> HIDE DEF o
<1>7. Wanted' <=> Wanted
  BY <1>1 DEF Wanted, Alive
<1>8. CASE Wanted
  <2>1. ctl.phase = "prepared"
    BY <1>2, <1>8, WantedDoing DEF Held
  <2>2. rt.phase = "prepared" /\ rt.ident = ctl.cand
    BY <1>1, <1>8, <2>1 DEF Fitted, Unswapped
  <2>3. Fit' /\ Cleaning'
    BY <1>1, <1>6, <2>1 DEF Fit, Serious, Cleaning
  <2>4. Unswapped'
    BY <1>1, <1>4, <1>5, <1>6, <2>2 DEF Unswapped
  <2>5. JustSwapped'
    BY <1>4, <1>6, <2>2 DEF JustSwapped, Serious, Cmd
  <2> QED
    BY <2>3, <2>4, <2>5 DEF Fitted
<1>9. CASE ~Wanted
  BY <1>6, <1>7, <1>9 DEF Fitted, Fit, Unswapped, JustSwapped, Cleaning
<1> QED
  BY <1>8, <1>9

LEMMA FittedCommit ==
    ASSUME IInv, Linked, Learned, Hosted, Fitted, PublishCommit
    PROVE  Fitted'
<1>1. Runner /\ Busy /\ ~Pop /\ run.pc = "promoted" /\ UNCHANGED <<net, sent>>
  BY DEF Runner, PublishCommit, RunnerFrame, Busy, Pop
<1>2. run'.pc \notin {"promoted", "retire"} /\ run.cmd.act = "commit" /\ Held("prepared")
      /\ rt.ident = Cmd
  BY <1>1, RunnerMoves DEF Moves, IInv, Steps, AtPromote
<1> SUFFICES ASSUME Wanted'
             PROVE  Fitted'
  BY <1>2 DEF Fitted, Fit, Unswapped, JustSwapped, Cleaning
<1>3. SameMoment /\ (Silent \/ Committed)
  BY <1>1, RunnerNames DEF Begun, BeginPrepare, Updated, Marked
<1>4. Wanted
  BY <1>1, <1>3 DEF Silent, SameNames, Committed, SameMoment, Wanted, Alive
<1>5. Valid(run.cmd.scope) /\ Cmd = ctl.latest /\ ctl.cand = Cmd
  BY <1>1, <1>2, <1>4, WantedDoing DEF Held, Wanted
<1>6. rt' = rt /\ ctl' = [ctl EXCEPT !.prev = ctl.active, !.active = Cmd, !.scope = run.cmd.scope,
                                     !.phase = "committed", !.fenced = FALSE]
  BY <1>5 DEF PublishCommit
<1>7. ctl'.cand = Cmd /\ ctl'.phase = "committed" /\ ~ctl'.fenced
  BY <1>5, <1>6 DEF IInv, Typed, TypedController, Controllers
<1>8. rt.phase = "committed" /\ rt.act = Cmd /\ ~rt.fenced
  BY <1>1, <1>4, <1>5 DEF Hosted, Swapped, Valid, Current, Fitted, JustSwapped
<1>9. Fit'
  BY <1>2, <1>6, <1>7, <1>8 DEF Fit, Serious
<1> QED
  BY <1>2, <1>7, <1>9 DEF Fitted, Unswapped, JustSwapped, Cleaning

\* What a terminal command does to the host while a candidate is wanted.
LEMMA SettleFits ==
    ASSUME IInv, Linked, Learned, Fitted, Wanted, run.pc = "settle",
           NEW o \in SettleRuntime(SettleKind)
    PROVE  /\ o.rt.ident = rt.ident
           /\ ctl.phase = "prepared" => o.rt.phase = rt.phase
           /\ ctl.phase \in Serious => /\ o.rt.act = rt.act /\ o.rt.fenced = rt.fenced
                                       /\ o.rt.phase \in {rt.phase, "finalized"}
<1> DEFINE kind == SettleKind
<1>1. Busy /\ run.cmd.act \in Terminal
  BY DEF Busy, IInv, Steps, AtSettle
<1>2. Current /\ Cmd \in Ids /\ ctl.pending = {} /\ rt \in Runtimes /\ Sound(rt)
  BY <1>1, WantedDoing, CommandId DEF IInv, Engine
<1>3. ReadAll /\ ~run.loc.pending
  BY <1>2 DEF Learned, Read, IInv, Steps, AtSettle
<1>4. kind \in SettleKinds /\ kind # "pending"
  BY <1>3 DEF SettleKind, SettleKinds
<1>5. Cmd \in MaybeIds /\ Cmd # None
  BY <1>2, NoneNoId DEF MaybeIds
<1>6. CASE kind \in {"done", "empty", "refused"}
  <2>1. o = Outcome(kind # "refused", rt)
    BY <1>6 DEF SettleRuntime
  <2> QED
    BY <2>1 DEF Outcome
<1>7. CASE kind = "dropped"
  <2>1. o \in RetirePrevious(rt, Cmd)
    BY <1>7 DEF SettleRuntime
  <2> QED
    BY <1>2, <2>1, RetireMoves DEF Shrinks
<1>8. CASE kind = "released"
  <2>1. o \in ReleaseRuntime(rt, Cmd)
    BY <1>8 DEF SettleRuntime
  <2>2. run.cmd.act = "release" /\ Cmd \in {run.loc.active, run.loc.cand}
    BY <1>8 DEF SettleKind
  <2>3. Cmd # ctl.cand /\ Cmd = ctl.active
    BY <1>1, <1>3, <2>2, WantedNotDropped DEF ReadAll
  <2>4. ctl.phase \notin Serious
    BY <2>3 DEF Learned, Phased
  <2>5. o.rt.ident = rt.ident
    BY <1>2, <1>5, <2>1, ReleaseMoves DEF Shrinks
  <2>6. ctl.phase = "prepared" => o.rt.phase = rt.phase
    <3>1. ctl.phase = "prepared" => rt.ident = ctl.cand
      BY DEF Fitted, Unswapped
    <3> QED
      BY <1>2, <1>5, <2>1, <2>3, <3>1, ReleaseTrims
  <2> QED
    BY <2>4, <2>5, <2>6
<1>9. CASE kind = "aborted"
  <2>1. run.cmd.act = "abort" /\ Cmd = run.loc.cand
    BY <1>9 DEF SettleKind
  <2> QED
    BY <1>1, <1>3, <2>1, WantedNotDropped DEF ReadAll
<1>10. CASE kind = "finalized"
  <2>1. o \in FinalizeRuntime(rt, Cmd)
    BY <1>10 DEF SettleRuntime
  <2>2. ctl.phase \in Serious
    BY <1>3, <1>10 DEF SettleKind, ReadAll, Serious
  <2>3. ctl.phase # "prepared"
    BY <2>2 DEF Serious
  <2>4. o.rt.phase \in {rt.phase, "finalized"}
    BY <1>2, <2>1, FinalizeTrims
  <2> QED
    BY <1>2, <2>1, <2>3, <2>4, FinalizeMoves DEF Shrinks
<1> QED
  BY <1>4, <1>6, <1>7, <1>8, <1>9, <1>10 DEF SettleKinds

LEMMA FittedSettle ==
    ASSUME IInv, Linked, Learned, Fitted, Settle
    PROVE  Fitted'
<1>1. Runner /\ ~Pop /\ run.pc = "settle" /\ UNCHANGED <<net, sent>>
  BY DEF Runner, Settle, RunnerFrame, Pop
<1>2. run'.pc \notin {"promoted", "retire"}
  BY RunnerMoves DEF Moves
<1>3. SameMoment /\ Silent
  BY <1>1, RunnerNames DEF Begun, BeginPrepare, Committed, Updated, Marked
<1>4. Wanted' <=> Wanted
  BY <1>1, <1>3 DEF Silent, SameNames, SameMoment, Wanted, Alive
<1>5. CASE Wanted
  <2>1. PICK o \in SettleRuntime(SettleKind) : rt' = o.rt
    BY DEF Settle
  <2>2. /\ rt'.ident = rt.ident
        /\ ctl.phase = "prepared" => rt'.phase = rt.phase
        /\ ctl.phase \in Serious => /\ rt'.act = rt.act /\ rt'.fenced = rt.fenced
                                    /\ rt'.phase \in {rt.phase, "finalized"}
    BY <1>1, <1>5, <2>1, SettleFits
  <2>3. Fit'
    BY <1>3, <1>5, <2>2 DEF Fitted, Fit, Silent, SameNames, Serious
  <2>4. Unswapped'
    BY <1>1, <1>3, <1>5, <2>2 DEF Fitted, Unswapped, Silent, SameNames
  <2> QED
    BY <1>2, <2>3, <2>4 DEF Fitted, JustSwapped, Cleaning
<1>6. CASE ~Wanted
  BY <1>2, <1>4, <1>6 DEF Fitted, Fit, Unswapped, JustSwapped, Cleaning
<1> QED
  BY <1>5, <1>6

LEMMA FittedPublish ==
    ASSUME IInv, Linked, Learned, Fitted, Publish
    PROVE  Fitted'
<1>1. Runner /\ Busy /\ ~Pop /\ run.pc = "publish" /\ UNCHANGED <<net, sent, rt>>
  BY DEF Runner, Publish, RunnerFrame, Busy, Pop
<1>2. run'.pc \notin {"promoted", "retire"}
  BY RunnerMoves DEF Moves
<1> SUFFICES ASSUME Wanted', ctl'.phase \in Serious \cup {"prepared"}
             PROVE  Fitted'
  BY <1>2 DEF Fitted, Fit, Unswapped, JustSwapped, Cleaning
<1>3. Wanted /\ ctl'.cand = ctl.cand /\ ctl'.cand # None
  BY <1>1, WantedRunner DEF Serious, Wanted
<1>4. Valid(run.cmd.scope) /\ Current
  BY <1>1, <1>3, WantedDoing
<1>5. Updated
  BY <1>1, <1>4 DEF Updated, Publish, Doing, IInv, Typed, TypedRunner
<1>6. /\ PublishedNames(ctl')
      /\ run.kind \in {"prepared", "empty", "dropped", "released", "aborted", "finalized"}
      /\ run.kind = "prepared" => run.cmd.act = "prepare" /\ ctl.cand = Cmd
      /\ run.kind # "prepared" => ReadAll
      /\ run.kind = "finalized" => ctl.phase \in Serious
  BY <1>5, UpdatedFacts
<1>7. /\ Fit /\ (ctl.phase = "prepared" => rt.phase = "prepared" /\ rt.ident = ctl.cand)
  BY <1>1, <1>3 DEF Fitted, Unswapped
<1>8. /\ ctl'.phase \in Serious => Fit /\ ctl.phase \in Serious /\ ~ctl'.fenced
      /\ ctl'.phase = "prepared" => rt.phase = "prepared" /\ rt.ident = ctl.cand
  <2>1. CASE run.kind = "prepared"
    <3>1. rt.phase = "prepared" /\ rt.ident = ctl.cand /\ ctl'.phase = "prepared"
      BY <1>1, <1>6, <2>1 DEF IInv, Steps, AtLoaded, PublishedNames
    <3> QED
      BY <3>1 DEF Serious
  <2>2. CASE run.kind \in {"dropped", "empty"}
    <3>1. ctl'.phase = ctl.phase /\ ctl'.fenced = ctl.fenced
      BY <1>3, <1>6, <2>2 DEF PublishedNames
    <3> QED
      BY <1>3, <1>7, <3>1 DEF Fit
  <2>3. CASE run.kind = "finalized"
    <3>1. ctl.phase \in Serious /\ ctl'.fenced = ctl.fenced /\ ctl'.phase = "finalized"
      BY <1>6, <2>3 DEF PublishedNames
    <3> QED
      BY <1>3, <1>7, <3>1 DEF Fit
  <2>4. CASE run.kind = "released"
    <3>1. ctl.cand # Cmd /\ ctl'.phase = ctl.phase
      BY <1>3, <1>6, <2>4 DEF PublishedNames
    <3>2. Cmd = ctl.active
      BY <1>1, <1>6, <2>4, <3>1 DEF Learned, Chosen, ReadAll
    <3>3. ctl.phase \notin Serious
      BY <3>1, <3>2 DEF Learned, Phased
    <3> QED
      BY <1>7, <3>1, <3>3
  <2>5. CASE run.kind = "aborted"
    BY <1>3, <1>6, <2>5 DEF PublishedNames
  <2> QED
    BY <1>6, <2>1, <2>2, <2>3, <2>4, <2>5
<1> QED
  BY <1>1, <1>2, <1>3, <1>8 DEF Fitted, Fit, Unswapped, JustSwapped, Cleaning

LEMMA FittedOthers ==
    ASSUME IInv, Linked, Fitted, Others, ~Overtakes
    PROVE  Fitted'
<1>1. /\ Busy' => run'.pc = run.pc /\ run'.cmd = run.cmd
      /\ run'.pc \in {"promoted", "retire"} => Busy'
  BY OtherMoves, SameStepServing DEF Busy
<1>2. ASSUME ~Wanted'
      PROVE  Fitted'
  BY <1>1, <1>2 DEF Fitted, Fit, Unswapped, JustSwapped, Cleaning
<1>3. CASE \E a \in Actions, i \in Ids : Handle(a, i)
  <2>1. PICK a \in Actions, i \in Ids : Handle(a, i)
    BY <1>3
  <2>2. /\ SameNames /\ net' = net /\ sent.dropped \subseteq sent'.dropped
        /\ \/ ctl' = ctl /\ rt' = rt
           \/ ctl'.latest = i /\ i > ctl.latest
    BY <2>1, HandleNames
  <2>3. CASE ctl' = ctl /\ rt' = rt
    <3>1. Wanted' => Wanted
      BY <2>2, <2>3 DEF Wanted, Alive
    <3>2. SameStep
      <4> DEFINE newer == a = "prepare" /\ i > ctl.latest
                 cancels == /\ Busy /\ run.cmd.act = "prepare"
                            /\ newer \/ (a \in {"abort", "release"} /\ run.cmd.id = i)
      <4>1. run' = [Started EXCEPT !.cancelled = @ \/ cancels] /\ cancels \in BOOLEAN
        BY <2>1 DEF Handle, Busy
      <4> HIDE DEF cancels
      <4> QED
        BY <4>1, StartedTyped DEF SameStep, IInv
    <3> QED
      BY <1>1, <2>2, <2>3, <3>1, <3>2, FittedSame DEF SameStep
  <2>4. CASE ctl'.latest = i /\ i > ctl.latest
    <3>1. ctl.cand <= ctl.latest /\ {ctl.cand, ctl.latest, i} \subseteq Nat
      BY IdsNat DEF IInv, Tied, Clock, Typed, TypedController, Controllers
    <3>2. ctl'.cand # ctl'.latest
      BY <2>2, <2>4, <3>1 DEF SameNames
    <3> QED
      BY <1>2, <3>2 DEF Wanted
  <2> QED
    BY <2>2, <2>3, <2>4
<1>4. CASE Cleared
  BY <1>2, <1>4 DEF Cleared, Wanted
<1>5. CASE Reopen /\ SameNames
  BY <1>2, <1>5 DEF Reopen, SameNames, Wanted, IInv, Tied, Candidate
<1>6. CASE /\ UNCHANGED <<ctl, run, sent>>
           /\ \/ Drop \/ Reconnect \/ net' = net
              \/ net.lost /\ net.up /\ net' = [net EXCEPT !.lost = FALSE]
           /\ rt' = rt \/ \E i \in Ids : rt' = [rt EXCEPT !.dead = @ \cup {i}]
  <2>1. /\ rt'.act = rt.act /\ rt'.ident = rt.ident /\ rt'.phase = rt.phase
        /\ rt'.fenced = rt.fenced
    BY <1>6 DEF IInv, Engine, Runtimes
  <2>2. Wanted' => Wanted
    <3>1. CASE Reconnect
      <4>1. ctl'.cand = None
        BY <1>6, <3>1, GoneBlank DEF Reconnect, Overtakes, Opened, Blank
      <4> QED
        BY <4>1 DEF Wanted
    <3>2. CASE ~Reconnect
      <4>1. net'.up => net.up
        BY <1>6, <3>2 DEF Drop, IInv, Typed, TypedWorld
      <4> QED
        BY <1>6, <4>1 DEF Wanted, Alive
    <3> QED
      BY <3>1, <3>2
  <2> QED
    BY <1>6, <2>1, <2>2, FittedSame DEF SameNames
<1> QED
  BY <1>3, <1>4, <1>5, <1>6, OtherNames

LEMMA FittedKeeps ==
    ASSUME IInv, Linked, Learned, Hosted, Fitted, [Next]_vars, ~Overtakes
    PROVE  Fitted'
<1>1. CASE UNCHANGED vars
  BY <1>1 DEF vars, Fitted, Fit, Unswapped, JustSwapped, Cleaning, Wanted, Alive, Cmd
<1>2. CASE Runner
  BY <1>2, FittedPop, FittedQuiet, FittedPrepare, FittedPromote, FittedCommit, FittedSettle,
     FittedPublish DEF Runner
<1> QED
  BY <1>1, <1>2, FittedOthers, NextCases

LEMMA ServedPop ==
    ASSUME IInv, Served, Pop
    PROVE  Served'
<1>1. /\ run'.cmd = queue[1] /\ 1 \in 1..Len(queue)
      /\ \A k \in 1..Len(queue') : queue'[k] = queue[k + 1] /\ k + 1 \in 1..Len(queue)
      /\ UNCHANGED <<net, ctl, rt, sent, serving>>
  BY PopQueue
<1> SUFFICES ASSUME serving # None
             PROVE  Served'
  BY <1>1 DEF Served
<1>2. Wanted' /\ ctl'.cand = serving /\ ctl'.phase \in Serious
  BY <1>1 DEF Served, Wanted, Alive
<1>3. run'.cmd.act = "finalize" /\ \A k \in 1..Len(queue') : queue'[k].act = "finalize"
  BY <1>1 DEF Served
<1> QED
  BY <1>1, <1>2, <1>3 DEF Served

\* What was published last is still there when the runner says so.
LEMMA ServedAck ==
    ASSUME IInv, Learned, Served, Ack
    PROVE  Served'
<1>1. UNCHANGED <<net, ctl, queue, sent>> /\ run.pc \in {"ack", "nack"}
  BY DEF Ack
<1>2. ~Busy'
  BY RunnerMoves, IdlePc DEF Moves, Busy
<1>3. CASE serving' = serving
  BY <1>1, <1>2, <1>3 DEF Served, Wanted, Alive
<1>4. CASE /\ run.pc = "ack" /\ Valid(run.cmd.scope) /\ run.cmd.act = "commit" /\ queue = <<>>
           /\ Cmd = ctl.latest /\ Cmd \notin sent.dropped /\ serving' = Cmd
  <2>1. ctl.cand = Cmd /\ ctl.phase \in Serious
    BY <1>4 DEF Learned, Told, ToldDone, Valid, Current
  <2>2. Cmd # None
    BY <1>4, CommandId, NoneNoId DEF Actions, IInv
  <2>3. Len(queue') = 0
    BY <1>1, <1>4
  <2> QED
    BY <1>1, <1>2, <1>4, <2>1, <2>2, <2>3 DEF Served, Wanted, Alive, Valid
<1> QED
  BY <1>3, <1>4 DEF Ack

LEMMA ServedRunner ==
    ASSUME IInv, Linked, Learned, Hosted, Fitted, Served, Runner, ~Pop, ~Ack
    PROVE  Served'
<1>1. /\ Busy /\ UNCHANGED <<net, queue, sent, serving>>
      /\ run' = Idle \/ run'.cmd = run.cmd
  BY RunnerFrames
<1> SUFFICES ASSUME serving # None
             PROVE  Served'
  BY <1>1 DEF Served
<1>2. /\ Wanted /\ ctl.cand = serving /\ ctl.phase \in Serious
      /\ \A k \in 1..Len(queue) : queue[k].act = "finalize"
      /\ run.cmd.act = "finalize"
  BY <1>1 DEF Served
<1>3. Busy' => run'.cmd = run.cmd
  BY <1>1, IdleNotBusy
<1>4. SameMoment /\ ctl'.cand = ctl.cand /\ ctl'.phase \in Serious
  <2>1. CASE Silent
    BY <1>2, <2>1, RunnerNames DEF Silent, SameNames
  <2>2. ~Begun /\ ~Committed /\ ~Marked
    BY <1>2, CommittedFacts DEF Begun, Marked, IInv, Steps, AtBegin
  <2>3. CASE Updated
    <3>1. /\ PublishedNames(ctl') /\ run.pc = "publish"
          /\ run.kind \in {"prepared", "empty", "dropped", "released", "aborted", "finalized"}
          /\ run.kind # "prepared"
      BY <1>2, <2>3, UpdatedFacts
    <3>2. run.kind \notin {"aborted", "released"}
      BY <1>2, <3>1 DEF Learned, Chosen
    <3>3. run.kind # "empty"
      <4>1. rt.act = ctl.cand /\ ctl.cand # None
        BY <1>2 DEF Fitted, Fit, Wanted
      <4> QED
        BY <3>1, <4>1 DEF Hosted, Swapped
    <3>4. SameMoment
      BY RunnerNames
    <3> QED
      BY <1>2, <3>1, <3>2, <3>3, <3>4 DEF PublishedNames, Serious
  <2> QED
    BY <2>1, <2>2, <2>3, RunnerNames
<1>5. Wanted'
  BY <1>1, <1>2, <1>4 DEF Wanted, Alive, SameMoment
<1> QED
  BY <1>1, <1>2, <1>3, <1>4, <1>5 DEF Served

LEMMA ServedHandle ==
    ASSUME IInv, Served, NEW a \in Actions, NEW i \in Ids, Handle(a, i)
    PROVE  Served'
<1> DEFINE cmd == [act |-> a, id |-> i, scope |-> Scope]
<1>1. /\ net' = net /\ queue' = Append(queue, cmd)
      /\ serving' = IF a = "finalize" THEN serving ELSE None
      /\ a = "finalize" => ctl' = ctl /\ sent'.dropped = sent.dropped
  BY HandleNames
<1> SUFFICES ASSUME serving # None, a = "finalize"
             PROVE  Served'
  BY <1>1 DEF Served
<1>2. cmd.act = "finalize"
  OBVIOUS
<1> HIDE DEF cmd
<1>3. Wanted' /\ ctl'.cand = serving' /\ ctl'.phase \in Serious /\ serving' = serving
  BY <1>1 DEF Served, Wanted, Alive
<1>4. Busy' => Busy /\ run'.cmd = run.cmd
  <2>1. Others
    BY DEF Others
  <2> QED
    BY <2>1, OtherMoves, SameStepServing
<1>5. ASSUME NEW k \in 1..Len(queue')
      PROVE  queue'[k].act = "finalize"
  <2>1. queue \in Seq(Commands) /\ Len(queue) \in Nat
    BY DEF IInv, Typed, TypedQueue
  <2>2. CASE k = Len(queue) + 1
    BY <1>1, <1>2, <2>1, <2>2
  <2>3. CASE k \in 1..Len(queue)
    <3>1. queue'[k] = queue[k]
      BY <1>1, <2>1, <2>3
    <3> QED
      BY <2>3, <3>1 DEF Served
  <2> QED
    BY <1>1, <2>1, <2>2, <2>3
<1> QED
  BY <1>3, <1>4, <1>5 DEF Served

LEMMA ServedOthers ==
    ASSUME IInv, Served, Others
    PROVE  Served'
<1>1. CASE \E a \in Actions, i \in Ids : Handle(a, i)
  BY <1>1, ServedHandle
<1>2. CASE serving' = None
  BY <1>2 DEF Served
<1>3. CASE Reopen /\ serving' = serving
  <2>1. serving = None
    BY <1>3 DEF Reopen, Served, Wanted, Alive
  <2> QED
    BY <1>2, <1>3, <2>1
<1>4. CASE /\ UNCHANGED <<ctl, queue, run, sent>> /\ serving' = serving
           /\ \/ Reconnect \/ net' = net
              \/ net.lost /\ net.up /\ net' = [net EXCEPT !.lost = FALSE]
  <2>1. CASE Reconnect
    <3>1. serving = None
      BY <2>1 DEF Reconnect, Served, Wanted, Alive
    <3> QED
      BY <1>2, <1>4, <3>1
  <2>2. CASE ~Reconnect
    <3>1. net'.up = net.up
      BY <1>4, <2>2 DEF IInv, Typed, TypedWorld
    <3> QED
      BY <1>4, <3>1 DEF Served, Wanted, Alive, Busy
  <2> QED
    BY <2>1, <2>2
<1> QED
  BY <1>1, <1>2, <1>3, <1>4, OtherNames DEF Cleared

LEMMA ServedKeeps ==
    ASSUME IInv, Linked, Learned, Hosted, Fitted, Served, [Next]_vars
    PROVE  Served'
<1>1. CASE UNCHANGED vars
  BY <1>1 DEF vars, Served, Wanted, Alive, Busy
<1>2. CASE Runner
  BY <1>2, ServedPop, ServedAck, ServedRunner
<1> QED
  BY <1>1, <1>2, ServedOthers, NextCases

LEMMA FittedInit == Init => Fitted /\ Served
<1> SUFFICES ASSUME Init
             PROVE  Fitted /\ Served
  OBVIOUS
<1>1. ctl.cand = None /\ run.pc = "idle" /\ serving = None
  BY IdlePc DEF Init
<1> QED
  BY <1>1 DEF Fitted, Fit, Unswapped, JustSwapped, Cleaning, Wanted, Served

\* After a "ready" the committed identity can execute, as long as no reconnect overtakes the
\* callback of the connection it replaces: until the next command but its finalize, an
\* invalidation or a lost connection, controller and host agree on it, and neither is fenced.
THEOREM ReadyServesProved == Spec /\ [][~Overtakes]_vars => []ReadyServes
<1> DEFINE Ready2 == Fitted /\ Served
<1>1. Init => Ready2
  BY FittedInit
<1>2. IInv /\ Paired /\ Ready2 /\ [Next]_vars /\ [~Overtakes]_vars => Ready2'
  <2> SUFFICES ASSUME IInv, Paired, Ready2, [Next]_vars, [~Overtakes]_vars
               PROVE  Ready2'
    OBVIOUS
  <2>1. ~Overtakes
    BY DEF Overtakes, Reconnect, vars, IInv, Typed, TypedWorld
  <2> QED
    BY <2>1, FittedKeeps, ServedKeeps DEF Paired
<1>3. IInv /\ Paired /\ Ready2 => ReadyServes
  <2> SUFFICES ASSUME IInv, Paired, Ready2, serving # None
               PROVE  ctl.active = serving /\ ~ctl.fenced /\ (Ready(rt, serving) \/ serving \in rt.dead)
    BY DEF ReadyServes
  <2>1. Wanted /\ ctl.cand = serving /\ ctl.phase \in Serious
    BY DEF Served
  <2>2. /\ ~ctl.fenced /\ ~rt.fenced /\ rt.act = serving /\ rt.phase \in Serious
        /\ ctl.active = serving
    BY <2>1 DEF Fitted, Fit, Paired, Learned, Phased
  <2> QED
    BY <2>2 DEF Ready, Serious
<1> QED
  BY <1>1, <1>2, <1>3, PairedInvariance, PTL DEF Spec

=============================================================================
