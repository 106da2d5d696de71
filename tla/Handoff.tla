------------------------------ MODULE Handoff ------------------------------
(***************************************************************************)
(* A planned handoff of the leadership: the HandoffCoordinator             *)
(* (src/src/cluster_handoff.py) of a leader, over the controller and the   *)
(* authority of its node, while everything AutoRole describes goes on.     *)
(*                                                                         *)
(* commit fences the old leader under the coordinator's lock, asks the     *)
(* quorum with no lock held, installs the new leader's certificate in the  *)
(* node's own authority, and takes the lock again to write the record,     *)
(* whatever has become of it meanwhile.  The target is another process     *)
(* (new_role_controller is None): it learns of its lease by on_reconnect.  *)
(*                                                                         *)
(* on_quorum_loss has two critical sections of the controller's lock, and  *)
(* so has the fencing here.  The record lives in memory.                   *)
(***************************************************************************)
EXTENDS AutoRole

CONSTANTS
    Coordinators, \* the nodes with a coordinator attached
    Commits,      \* calls of commit
    MayOverlap    \* a handoff is prepared while a commit is still under way

ASSUME CoordinatorsAssumption == Coordinators \subseteq Nodes /\ MayOverlap \in BOOLEAN

VARIABLES
    record,       \* node -> HandoffCoordinator._record
    commit        \* call -> where it is, its node, and its certificate

handoff == <<record, commit>>

NoRecord == [state |-> "idle", target |-> 0, old |-> NoCert, new |-> NoCert]
NotCalled == [phase |-> "none", node |-> 0, cert |-> NoCert]

\* The coordinator's lock is held by a commit that fences the old leader.
Locked(n) == \E c \in Commits : commit[c].node = n /\ commit[c].phase = "fencing"

UnderWay(n) == \E c \in Commits : commit[c].node = n /\ commit[c].phase # "done"

Sets(n, state_) == record' = [record EXCEPT ![n].state = state_]

\* What a commit's thread does next, with certificate x.
Proceeds(c, where, x) ==
    commit' = [commit EXCEPT ![c] = [phase |-> where, node |-> @.node, cert |-> x]]

\* prepare: the node must lead with the certificate the authority admits, and no other
\* handoff of this coordinator may be open or committed.
Prepare(n, target) ==
    /\ ~Locked(n)
    /\ UnderWay(n) => MayOverlap
    /\ record[n].state \in {"idle", "aborted", "failed"}
    /\ target # n /\ auth[n].leader = n /\ CanAdmit(n, auth[n]) /\ state[n] = "leader"
    /\ record' = [record EXCEPT ![n] =
         [state |-> "prepared", target |-> target, old |-> auth[n], new |-> NoCert]]
    /\ UNCHANGED <<vars, commit>>

\* The certificate is still the one the handoff was prepared with, or was revoked by fencing.
HandsOff(n) ==
    \/ record[n].state = "prepared" /\ auth[n] = record[n].old
    \/ record[n].state = "awaiting_quorum" /\ auth[n] \in {NoCert, record[n].old}

\* Mutant: the quorum is asked before the old leader is fenced.
CommitUnfenced(c, n, now) ==
    /\ commit[c] = NotCalled /\ ~Locked(n) /\ HandsOff(n)
    /\ commit' = [commit EXCEPT ![c] = [phase |-> "asking", node |-> n,
                                        cert |-> Wanted(record[n].target, now)]]
    /\ Sets(n, "awaiting_quorum")
    /\ UNCHANGED vars

\* commit, up to the first critical section of on_quorum_loss, which is the only one when
\* the controller is stopped.
CommitBegin(c, n, now) ==
    /\ commit[c] = NotCalled /\ ~Locked(n) /\ HandsOff(n)
    /\ \E where \in {"fencing", "asking"} :
         /\ where = "asking" <=> state[n] = "stopped"
         /\ commit' = [commit EXCEPT ![c] = [phase |-> where, node |-> n,
                                             cert |-> Wanted(record[n].target, now)]]
    /\ \/ /\ state[n] = "stopped"
          /\ Transition(n, "stopped") /\ Sets(n, "awaiting_quorum")
          /\ UNCHANGED lost
       \/ /\ state[n] # "stopped"
          /\ lost' = [lost EXCEPT ![n] = TRUE]
          /\ UNCHANGED <<state, cert, current, authority, record>>
    /\ UNCHANGED <<quorum, threads, permit, written, bounds>>

\* The old leader is fenced, the lock released, and the quorum asked for the target's lease.
CommitFenced(c) ==
    LET n == commit[c].node
    IN  /\ commit[c].phase = "fencing"
        /\ Transition(n, "read_only")
        /\ Sets(n, "awaiting_quorum")
        /\ Proceeds(c, "asking", commit[c].cert)
        /\ UNCHANGED <<quorum, lost, threads, permit, written, bounds>>

\* The quorum issues a lease of a new term, or it does not; then the handoff waits for
\* another commit.
CommitAnswered(c) ==
    /\ commit[c].phase = "asking"
    /\ \/ \E t \in 1 .. MaxTerm :
             LET x == [commit[c].cert EXCEPT !.term = t, !.lease = t]
             IN  /\ \A y \in granted : y.term # t
                 /\ Register!Grant(x)
                 /\ Proceeds(c, "answered", x)
          /\ UNCHANGED record
       \/ /\ ~Locked(commit[c].node)
          /\ Sets(commit[c].node, "awaiting_quorum")
          /\ Proceeds(c, "done", NoCert)
          /\ UNCHANGED quorum
    /\ UNCHANGED <<controller, authority, threads, permit, written, bounds>>

\* Mutant: that the authority refuses the certificate is not noticed.
CommitInstallsUnseen(c) ==
    LET n == commit[c].node
        x == commit[c].cert
    IN  /\ commit[c].phase = "answered"
        /\ Proceeds(c, "installed", x)
        /\ IF Supersedes(n, x) THEN Install(n, x) ELSE UNCHANGED authority
        /\ UNCHANGED <<quorum, controller, threads, permit, written, bounds, record>>

\* The certificate is installed in the authority of the old leader, or refused.  Its expiry is
\* judged with the reading commit began with, by which it is valid.
CommitInstalls(c) ==
    LET n == commit[c].node
        x == commit[c].cert
    IN  /\ commit[c].phase = "answered"
        /\ \/ Supersedes(n, x) /\ Install(n, x) /\ Proceeds(c, "installed", x)
           \/ ~Supersedes(n, x) /\ UNCHANGED authority /\ Proceeds(c, "refused", x)
        /\ UNCHANGED <<quorum, controller, threads, permit, written, bounds, record>>

\* The record is written: committed or failed, whatever it was.
CommitSettles(c) ==
    LET n == commit[c].node
    IN  /\ commit[c].phase \in {"installed", "refused"} /\ ~Locked(n)
        /\ record' = [record EXCEPT ![n] =
             [state |-> IF commit[c].phase = "installed" THEN "committed" ELSE "failed",
              target |-> @.target, old |-> @.old, new |-> commit[c].cert]]
        /\ Proceeds(c, "done", NoCert)
        /\ UNCHANGED vars

\* abort: of a handoff that has not fenced anybody, or has failed.
Abort(n) ==
    /\ ~Locked(n) /\ record[n].state \in {"prepared", "failed"}
    /\ Sets(n, "aborted")
    /\ UNCHANGED <<vars, commit>>

\* recover_pending, after its timeout.
RecoverPending(n) ==
    /\ ~Locked(n) /\ record[n].state = "awaiting_quorum"
    /\ Sets(n, "failed")
    /\ UNCHANGED <<vars, commit>>

\* The process dies, its coordinator and its calls with it.
CrashForgets(n) ==
    /\ Crash(n)
    /\ record' = [m \in Coordinators |-> IF m = n THEN NoRecord ELSE record[m]]
    /\ commit' = [c \in Commits |-> IF commit[c].node = n
                                    THEN [NotCalled EXCEPT !.phase = "done"] ELSE commit[c]]

HandoffInit ==
    /\ Init
    /\ record = [n \in Coordinators |-> NoRecord]
    /\ commit = [c \in Commits |-> NotCalled]

HandoffStep ==
    \/ \E n \in Coordinators :
         \/ \E target \in Nodes : Prepare(n, target)
         \/ Abort(n) \/ RecoverPending(n)
         \/ \E c \in Commits, now \in Readings : CommitBegin(c, n, now)
    \/ \E c \in Commits :
         CommitFenced(c) \/ CommitAnswered(c) \/ CommitInstalls(c) \/ CommitSettles(c)

HandoffNext ==
    \/ (Tick \/ \E n \in Nodes : Serves(n)) /\ UNCHANGED handoff
    \/ \E n \in Nodes : CrashForgets(n)
    \/ HandoffStep

HandoffSpec == HandoffInit /\ [][HandoffNext]_<<vars, handoff>>

\* The renewal threads run, as in AutoRole; nothing is assumed of an operator's handoff.
FairHandoffSpec == HandoffSpec /\ Fairness

(***************************************************************************)
(* Properties.                                                             *)
(***************************************************************************)
\* From the moment a handoff has fenced the old leader, that leader never writes again under
\* the lease it handed off, however the handoff goes on and whatever late renewal, replayed
\* certificate or recovery it meets ("never restore the old write permit").
OldLeaseFenced ==
    installs = 0 =>
        \A n \in Coordinators :
            record[n].state \in {"awaiting_quorum", "committed", "failed"} =>
                ~(CanWrite(n) /\ cert[n].term = record[n].old.term)

\* A handoff that reports committed has moved on: its certificate is of a later term than
\* the one handed off, and the old leader's authority accepts nothing older any more.
CommittedMovesOn ==
    \A n \in Coordinators :
        record[n].state = "committed" =>
            /\ record[n].new.term > record[n].old.term
            /\ term[n] >= record[n].new.term

\* A handoff that was reported committed stays committed.
CommittedStays ==
    [][\A n \in Coordinators :
          record[n].state = "committed" =>
              record'[n].state = "committed" \/ CrashForgets(n)]_<<vars, handoff>>
=============================================================================
