---------------------------- MODULE HandoffProofs ----------------------------
(***************************************************************************)
(* Proofs about Handoff, for every set of nodes, coordinators and calls,   *)
(* every lease, skew and bound.                                            *)
(*                                                                         *)
(* A handoff puts a certificate of another node into the authority of the  *)
(* old leader, so the authority no longer follows the controller as it     *)
(* does in AutoRole (AuthorityFollows).  What is left of it is             *)
(* OwnAuthority: a certificate of the node's own is in the authority only  *)
(* while the controller leads with it.  Everything else that AutoRole's    *)
(* steps preserve (Backed) is preserved by the handoff's steps as well.    *)
(***************************************************************************)
EXTENDS Handoff, AutoRoleProofs

RecordStates == {"idle", "prepared", "awaiting_quorum", "committed", "failed", "aborted"}
Answered == {"answered", "installed", "refused"}
Phases == {"none", "fencing", "asking", "done"} \cup Answered

\* A record that is not idle names another node, and a lease that was granted.
Records ==
    /\ record \in [Coordinators -> [state : RecordStates, target : Nodes \cup {0},
                                    old : MaybeCert, new : MaybeCert]]
    /\ \A n \in Coordinators :
         /\ record[n].state # "idle" => record[n].target \in Nodes \ {n}
         /\ record[n].old \in granted \cup {NoCert}

\* What a call asks for, and what it got, is a lease of another node.
CallTyped(k, issued) ==
    /\ k \in [phase : Phases, node : Coordinators \cup {0}, cert : MaybeCert]
    /\ k.phase = "none" => k.node = 0
    /\ k.phase \notin {"none", "done"} => k.node \in Coordinators
    /\ k.phase \in {"fencing", "asking"} =>
         k.cert \in [term : {0}, leader : Nodes \ {k.node}, lease : {0}, expires : Nat]
    /\ k.phase \in Answered => k.cert \in issued /\ k.cert.leader # k.node

Calls ==
    /\ commit \in [Commits -> [phase : Phases, node : Coordinators \cup {0}, cert : MaybeCert]]
    /\ \A c \in Commits : CallTyped(commit[c], granted)

\* While a call is under way, its node has a record.
Recorded ==
    \A c \in Commits :
        commit[c].phase \notin {"none", "done"} => record[commit[c].node].state # "idle"

\* Until an operator installs a certificate, one that names the node itself is in its
\* authority only while its controller leads with it.
OwnAuthority ==
    installs = 0 =>
        \A n \in Nodes :
            /\ offer[n].to # "authority"
            /\ auth[n].leader = n => auth[n] = cert[n] /\ state[n] = "leader"

\* The invariant of every handoff.
HInv == Backed /\ Records /\ Calls /\ Recorded /\ OwnAuthority

\* The authority never goes back behind the lease that is handed off, and a call that was
\* answered got a lease of another term, which is a later one once it is installed.
TermsMove ==
    /\ \A n \in Coordinators : term[n] >= record[n].old.term
    /\ \A c \in Commits :
         /\ commit[c].phase \in Answered =>
              commit[c].cert.term # record[commit[c].node].old.term
         /\ commit[c].phase = "installed" =>
              /\ commit[c].cert.term > record[commit[c].node].old.term
              /\ term[commit[c].node] >= commit[c].cert.term

\* The old leader has been fenced: by the record, or by a call that is past it.
PastFence(n) ==
    \/ record[n].state \in {"awaiting_quorum", "committed", "failed"}
    \/ \E c \in Commits : commit[c].node = n /\ commit[c].phase \in Answered \cup {"asking"}

\* From then on the lease handed off is in no authority of the old leader.
OldGone ==
    installs = 0 =>
        \A n \in Coordinators :
            PastFence(n) /\ auth[n].leader = n => auth[n].term # record[n].old.term

\* The invariant of handoffs that are not prepared while a call is under way.
MInv == TermsMove /\ CommittedMovesOn /\ OldGone

LEMMA StateTypes ==
  ASSUME Backed
  PROVE  /\ Ledger /\ Roles /\ Flight /\ Hands /\ Rest
         /\ granted \subseteq Certs /\ installs \in Nat
         /\ \A n \in Nodes : term[n] \in Nat /\ auth[n] \in MaybeCert
  <1>1. Ledger /\ Roles /\ Flight /\ Hands /\ Rest
    BY Parts
  <1> QED
    BY <1>1, BoundsAssumption DEF Ledger, Roles, Rest

\* A certificate that is no node's is nobody's.
LEMMA NoLeader == NoCert \in MaybeCert /\ NoCert.leader \notin Nodes
  BY NoCertTyped, NodesAssumption DEF NoCert

(***************************************************************************)
(* What AutoRole's invariant keeps.                                        *)
(***************************************************************************)
\* A commit transitions, is answered or installs as a node does by itself.
LEMMA HandoffBacked ==
  ASSUME Backed, Calls, HandoffStep
  PROVE  Backed' /\ granted \subseteq granted' /\ installs' = installs /\ offer' = offer
  <1> USE DEF quorum, authority, bounds, controller, threads
  <1>0. /\ Ledger /\ Roles /\ Flight /\ Hands /\ Rest
        /\ granted \subseteq Certs
    BY StateTypes
  <1>1. ASSUME UNCHANGED vars
        PROVE  Backed' /\ granted \subseteq granted' /\ installs' = installs /\ offer' = offer
    BY <1>1, StutterBacked DEF vars
  <1>2. ASSUME NEW n \in Coordinators, NEW c \in Commits, NEW now \in Readings,
               CommitBegin(c, n, now)
        PROVE  Backed' /\ granted \subseteq granted' /\ installs' = installs /\ offer' = offer
    <2>1. Ledger' /\ Flight' /\ Hands'
      BY <1>0, <1>2, LedgerKept, FlightKept, HandsKept DEF CommitBegin
    <2>2. Roles'
      BY <1>0, <1>2, TransitionStep, RolesKept, CoordinatorsAssumption DEF CommitBegin
    <2>3. Rest'
      BY <1>0, <1>2 DEF CommitBegin, Rest
    <2> QED
      BY <1>2, <2>1, <2>2, <2>3, PartsNext DEF CommitBegin
  <1>3. ASSUME NEW c \in Commits, CommitFenced(c)
        PROVE  Backed' /\ granted \subseteq granted' /\ installs' = installs /\ offer' = offer
    <2>1. commit[c].node \in Nodes
      BY <1>3, CoordinatorsAssumption DEF CommitFenced, Calls, CallTyped
    <2>2. Roles'
      BY <1>0, <1>3, <2>1, TransitionStep DEF CommitFenced
    <2> QED
      BY <1>0, <1>3, <2>2, LedgerKept, FlightKept, HandsKept, PartsNext DEF CommitFenced, Rest
  <1>4. ASSUME NEW c \in Commits, CommitAnswered(c)
        PROVE  Backed' /\ granted \subseteq granted' /\ installs' = installs /\ offer' = offer
    <2>1. Ledger' /\ granted \subseteq granted'
      <3>1. CASE UNCHANGED quorum
        BY <1>0, <1>4, <3>1, LedgerKept DEF CommitAnswered
      <3>2. ASSUME NEW t \in 1 .. MaxTerm,
                   Register!Grant([commit[c].cert EXCEPT !.term = t, !.lease = t])
            PROVE  Ledger' /\ granted \subseteq granted'
        <4>1. [commit[c].cert EXCEPT !.term = t, !.lease = t] \in Certs
          BY <1>4, <3>2 DEF CommitAnswered, Calls, CallTyped, Certs
        <4> QED
          BY <1>0, <1>4, <3>2, <4>1, GrantStep DEF CommitAnswered
      <3> QED
        BY <1>4, <3>1, <3>2 DEF CommitAnswered
    <2>2. Roles' /\ Flight' /\ Hands' /\ Rest'
      BY <1>0, <1>4, <2>1, RolesKept, FlightKept, HandsKept DEF CommitAnswered, Rest
    <2> QED
      BY <1>4, <2>1, <2>2, PartsNext DEF CommitAnswered
  <1>5. ASSUME NEW c \in Commits, CommitInstalls(c)
        PROVE  Backed' /\ granted \subseteq granted' /\ installs' = installs /\ offer' = offer
    <2>1. /\ commit[c].cert \in granted /\ commit[c].cert \in Certs
          /\ commit[c].node \in Nodes
      BY <1>0, <1>5, CoordinatorsAssumption DEF CommitInstalls, Calls, CallTyped, Answered
    <2>2. Roles'
      <3>1. CASE UNCHANGED authority
        BY <1>0, <1>5, <3>1, RolesKept DEF CommitInstalls
      <3>2. CASE Install(commit[c].node, commit[c].cert)
        <4>1. commit[c].cert \in MaybeCert /\ commit[c].cert.term \in 0 .. MaxTerm
          BY <2>1 DEF Certs, MaybeCert
        <4>2. term' \in [Nodes -> 0 .. MaxTerm] /\ auth' \in [Nodes -> MaybeCert]
          BY <1>0, <3>2, <4>1 DEF Install, Roles
        <4>3. RoleBacked'
          BY <1>0, <1>5, <2>1, <3>2 DEF CommitInstalls, Install, Roles, RoleBacked
        <4> QED
          BY <1>0, <1>5, <4>2, <4>3 DEF Roles, CommitInstalls
      <3> QED
        BY <1>5, <3>1, <3>2 DEF CommitInstalls
    <2> QED
      BY <1>0, <1>5, <2>2, LedgerKept, FlightKept, HandsKept, PartsNext DEF CommitInstalls, Rest
  <1>6. ASSUME NEW n \in Coordinators,
               (\E target \in Nodes : Prepare(n, target)) \/ Abort(n) \/ RecoverPending(n)
        PROVE  UNCHANGED vars
    BY <1>6 DEF Prepare, Abort, RecoverPending
  <1>7. ASSUME NEW c \in Commits, CommitSettles(c)
        PROVE  UNCHANGED vars
    BY <1>7 DEF CommitSettles
  <1> QED
    BY <1>1, <1>2, <1>3, <1>4, <1>5, <1>6, <1>7 DEF HandoffStep

(***************************************************************************)
(* Records and calls.                                                      *)
(***************************************************************************)
\* A step of a node changes none of the handoff's variables, nor does time.
LEMMA CallsKept ==
  ASSUME Records, Calls, Recorded, UNCHANGED handoff, granted \subseteq granted'
  PROVE  Records' /\ Calls' /\ Recorded'
  BY DEF Records, Calls, CallTyped, Recorded, handoff

\* A crash takes the node's record and calls with it.
LEMMA CrashCalls ==
  ASSUME Records, Calls, Recorded, NEW n \in Nodes, CrashForgets(n)
  PROVE  Records' /\ Calls' /\ Recorded'
  <1>1. granted' = granted
    BY DEF CrashForgets, Crash, quorum
  <1>2. /\ NoRecord \in [state : RecordStates, target : Nodes \cup {0},
                         old : MaybeCert, new : MaybeCert]
        /\ NoRecord.state = "idle" /\ NoRecord.old = NoCert
    BY NoLeader DEF NoRecord, RecordStates
  <1>3. /\ [NotCalled EXCEPT !.phase = "done"] \in
             [phase : Phases, node : Coordinators \cup {0}, cert : MaybeCert]
        /\ [NotCalled EXCEPT !.phase = "done"].phase = "done"
    BY NoLeader DEF NotCalled, Phases
  <1>4. Records'
    BY <1>1, <1>2 DEF CrashForgets, Records
  <1>5. Calls'
    BY <1>1, <1>3 DEF CrashForgets, Calls, CallTyped, Answered
  <1>6. Recorded'
    <2> DEFINE k == [NotCalled EXCEPT !.phase = "done"]
    <2>0. commit' = [c \in Commits |-> IF commit[c].node = n THEN k ELSE commit[c]]
      BY DEF CrashForgets
    <2>1. \A c \in Commits :
             \/ commit'[c].phase = "done"
             \/ commit'[c] = commit[c] /\ commit[c].node # n
      <3> HIDE DEF k
      <3>1. k.phase = "done"
        BY <1>3 DEF k
      <3> QED
        BY <2>0, <3>1
    <2>2. \A m \in Coordinators : m # n => record'[m] = record[m]
      BY DEF CrashForgets
    <2> QED
      BY <2>1, <2>2 DEF Calls, CallTyped, Recorded
  <1> QED
    BY <1>4, <1>5, <1>6

\* A record that is not idle changes its state, and perhaps the new certificate.
LEMMA RecordStep ==
  ASSUME Records, granted \subseteq granted', NEW n \in Coordinators, NEW r,
         record[n].state # "idle", record' = [record EXCEPT ![n] = r],
         r \in [state : RecordStates \ {"idle"}, target : {record[n].target},
                old : {record[n].old}, new : MaybeCert]
  PROVE  Records' /\ \A m \in Coordinators : record[m].state # "idle" => record'[m].state # "idle"
  <1>1. /\ r.state # "idle" /\ r.target = record[n].target /\ r.old = record[n].old
        /\ record[n] \in [state : RecordStates, target : Nodes \cup {0},
                          old : MaybeCert, new : MaybeCert]
    BY DEF Records
  <1>2. r \in [state : RecordStates, target : Nodes \cup {0}, old : MaybeCert, new : MaybeCert]
    BY <1>1
  <1>3. \A m \in Coordinators : record'[m] = IF m = n THEN r ELSE record[m]
    BY DEF Records
  <1>4. record' \in [Coordinators -> [state : RecordStates, target : Nodes \cup {0},
                                      old : MaybeCert, new : MaybeCert]]
    BY <1>2 DEF Records
  <1> QED
    BY <1>1, <1>3, <1>4 DEF Records

LEMMA SetsStep ==
  ASSUME Records, granted \subseteq granted', NEW n \in Coordinators, NEW s \in RecordStates \ {"idle"},
         record[n].state # "idle", Sets(n, s)
  PROVE  Records' /\ \A m \in Coordinators : record[m].state # "idle" => record'[m].state # "idle"
  <1>1. record' = [record EXCEPT ![n] = [state |-> s, target |-> record[n].target,
                                         old |-> record[n].old, new |-> record[n].new]]
    <2>1. record[n] \in [state : RecordStates, target : Nodes \cup {0},
                         old : MaybeCert, new : MaybeCert]
      BY DEF Records
    <2>2. [record[n] EXCEPT !.state = s] =
             [state |-> s, target |-> record[n].target,
              old |-> record[n].old, new |-> record[n].new]
      BY <2>1
    <2> QED
      BY <2>2 DEF Sets
  <1>2. [state |-> s, target |-> record[n].target, old |-> record[n].old, new |-> record[n].new]
          \in [state : RecordStates \ {"idle"}, target : {record[n].target},
               old : {record[n].old}, new : MaybeCert]
    BY DEF Records
  <1> QED
    BY <1>1, <1>2, RecordStep

\* One call moves on.
LEMMA CallStep ==
  ASSUME Calls, granted \subseteq granted', NEW c \in Commits, NEW k, CallTyped(k, granted'),
         commit' = [commit EXCEPT ![c] = k]
  PROVE  Calls'
  BY DEF Calls, CallTyped

\* Every step of a handoff keeps records and calls.
LEMMA HandoffCalls ==
  ASSUME HInv, HandoffStep
  PROVE  Records' /\ Calls' /\ Recorded'
  <1>0. /\ Backed /\ Records /\ Calls /\ Recorded
        /\ granted \subseteq granted' /\ granted \subseteq Certs /\ Certs \subseteq MaybeCert
    BY HandoffBacked, StateTypes, NoCertTyped DEF HInv
  <1>1. ASSUME NEW n \in Coordinators, NEW target \in Nodes, Prepare(n, target)
        PROVE  Records' /\ Calls' /\ Recorded'
    <2>1. auth[n] \in granted \cup {NoCert} /\ auth[n] \in MaybeCert
      BY <1>0, StateTypes, CoordinatorsAssumption DEF Backed, RoleBacked
    <2>2. record' = [record EXCEPT ![n] = [state |-> "prepared", target |-> target,
                                           old |-> auth[n], new |-> NoCert]]
      BY <1>1 DEF Prepare
    <2>3. [state |-> "prepared", target |-> target, old |-> auth[n], new |-> NoCert]
             \in [state : RecordStates, target : Nodes \cup {0}, old : MaybeCert, new : MaybeCert]
      BY <2>1, NoLeader DEF RecordStates
    <2>4. record' \in [Coordinators -> [state : RecordStates, target : Nodes \cup {0},
                                        old : MaybeCert, new : MaybeCert]]
      BY <1>0, <2>2, <2>3 DEF Records
    <2>5. Records' /\ \A m \in Coordinators : record[m].state # "idle" => record'[m].state # "idle"
      BY <1>0, <1>1, <2>1, <2>2, <2>4 DEF Records, Prepare
    <2>6. commit' = commit
      BY <1>1 DEF Prepare
    <2> QED
      BY <1>0, <2>5, <2>6 DEF Calls, CallTyped, Recorded
  <1>2. ASSUME NEW n \in Coordinators, Abort(n) \/ RecoverPending(n)
        PROVE  Records' /\ Calls' /\ Recorded'
    <2>1. \E s \in RecordStates \ {"idle"} : Sets(n, s) /\ record[n].state # "idle"
      BY <1>2 DEF Abort, RecoverPending, RecordStates
    <2>2. Records' /\ \A m \in Coordinators : record[m].state # "idle" => record'[m].state # "idle"
      BY <1>0, <2>1, SetsStep
    <2>3. commit' = commit
      BY <1>2 DEF Abort, RecoverPending
    <2> QED
      BY <1>0, <2>2, <2>3 DEF Calls, CallTyped, Recorded
  <1>3. ASSUME NEW n \in Coordinators, NEW c \in Commits, NEW now \in Readings,
               CommitBegin(c, n, now)
        PROVE  Records' /\ Calls' /\ Recorded'
    <2>1. PICK where \in {"fencing", "asking"} :
             commit' = [commit EXCEPT ![c] = [phase |-> where, node |-> n,
                                              cert |-> Wanted(record[n].target, now)]]
      BY <1>3 DEF CommitBegin
    <2>2. record[n].state # "idle" /\ record[n].target \in Nodes \ {n}
      BY <1>0, <1>3 DEF CommitBegin, HandsOff, Records
    <2>3. Wanted(record[n].target, now) \in
             [term : {0}, leader : Nodes \ {n}, lease : {0}, expires : Nat]
      <3>1. now + LeaseMs \in Nat
        BY BoundsAssumption DEF Readings
      <3> QED
        BY <2>2, <3>1 DEF Wanted
    <2>4. Wanted(record[n].target, now) \in MaybeCert
      BY <2>3, BoundsAssumption DEF MaybeCert
    <2>5. Calls'
      <3> DEFINE k == [phase |-> where, node |-> n, cert |-> Wanted(record[n].target, now)]
      <3>1. CallTyped(k, granted')
        BY <2>3, <2>4 DEF CallTyped, Phases, Answered
      <3> HIDE DEF k
      <3> QED
        BY <1>0, <2>1, <3>1, CallStep DEF k
    <2>6. Records' /\ \A m \in Coordinators : record[m].state # "idle" => record'[m].state # "idle"
      <3>1. CASE Sets(n, "awaiting_quorum")
        BY <1>0, <2>2, <3>1, SetsStep DEF RecordStates
      <3>2. CASE record' = record
        BY <1>0, <3>2 DEF Records
      <3> QED
        BY <1>3, <3>1, <3>2 DEF CommitBegin
    <2> QED
      BY <1>0, <2>1, <2>2, <2>5, <2>6 DEF Calls, CallTyped, Recorded
  <1>4. ASSUME NEW c \in Commits, NEW k, commit' = [commit EXCEPT ![c] = k], CallTyped(k, granted'),
               k.node = commit[c].node, commit[c].phase \notin {"none", "done"},
               \/ UNCHANGED record
               \/ Sets(commit[c].node, "awaiting_quorum")
               \/ \E s \in RecordStates \ {"idle"}, x \in MaybeCert :
                     record' = [record EXCEPT ![commit[c].node] =
                        [state |-> s, target |-> @.target, old |-> @.old, new |-> x]]
        PROVE  Records' /\ Calls' /\ Recorded'
    <2>1. commit[c].node \in Coordinators /\ record[commit[c].node].state # "idle"
      BY <1>0, <1>4 DEF Calls, CallTyped, Recorded
    <2>2. Calls'
      BY <1>0, <1>4, CallStep
    <2>3. Records' /\ \A m \in Coordinators : record[m].state # "idle" => record'[m].state # "idle"
      <3>1. CASE UNCHANGED record
        BY <1>0, <3>1 DEF Records
      <3>2. CASE Sets(commit[c].node, "awaiting_quorum")
        BY <1>0, <2>1, <3>2, SetsStep DEF RecordStates
      <3>3. ASSUME NEW s \in RecordStates \ {"idle"}, NEW x \in MaybeCert,
                   record' = [record EXCEPT ![commit[c].node] =
                      [state |-> s, target |-> @.target, old |-> @.old, new |-> x]]
            PROVE  Records' /\ \A m \in Coordinators :
                      record[m].state # "idle" => record'[m].state # "idle"
        <4> DEFINE n == commit[c].node
        <4>1. record' = [record EXCEPT ![n] = [state |-> s, target |-> record[n].target,
                                               old |-> record[n].old, new |-> x]]
          BY <3>3
        <4>2. [state |-> s, target |-> record[n].target, old |-> record[n].old, new |-> x]
                 \in [state : RecordStates \ {"idle"}, target : {record[n].target},
                      old : {record[n].old}, new : MaybeCert]
          OBVIOUS
        <4> HIDE DEF n
        <4> QED
          BY <1>0, <2>1, <4>1, <4>2, RecordStep DEF n
      <3> QED
        BY <1>4, <3>1, <3>2, <3>3
    <2>4. \A d \in Commits : commit'[d] = IF d = c THEN k ELSE commit[d]
      BY <1>0, <1>4 DEF Calls
    <2> QED
      BY <1>0, <1>4, <2>1, <2>2, <2>3, <2>4 DEF Calls, CallTyped, Recorded
  <1>5. ASSUME NEW c \in Commits, CommitFenced(c)
        PROVE  Records' /\ Calls' /\ Recorded'
    <2> DEFINE k == [phase |-> "asking", node |-> commit[c].node, cert |-> commit[c].cert]
    <2>1. commit' = [commit EXCEPT ![c] = k]
      BY <1>5 DEF CommitFenced, Proceeds
    <2>2. /\ CallTyped(k, granted') /\ k.node = commit[c].node
          /\ commit[c].phase \notin {"none", "done"}
      BY <1>0, <1>5 DEF CommitFenced, Calls, CallTyped, Answered, Phases
    <2> HIDE DEF k
    <2> QED
      BY <1>4, <1>5, <2>1, <2>2 DEF CommitFenced
  <1>6. ASSUME NEW c \in Commits, CommitAnswered(c)
        PROVE  Records' /\ Calls' /\ Recorded'
    <2>0. commit[c].phase = "asking" /\ CallTyped(commit[c], granted)
      BY <1>0, <1>6 DEF CommitAnswered, Calls
    <2>1. CASE Sets(commit[c].node, "awaiting_quorum") /\ Proceeds(c, "done", NoCert)
      <3> DEFINE k == [phase |-> "done", node |-> commit[c].node, cert |-> NoCert]
      <3>1. commit' = [commit EXCEPT ![c] = k]
        BY <2>1 DEF Proceeds
      <3>2. CallTyped(k, granted') /\ k.node = commit[c].node
        BY <2>0, NoLeader DEF CallTyped, Answered, Phases
      <3> HIDE DEF k
      <3> QED
        BY <1>4, <2>0, <2>1, <3>1, <3>2
    <2>2. ASSUME NEW t \in 1 .. MaxTerm, NEW x,
                 x = [commit[c].cert EXCEPT !.term = t, !.lease = t],
                 Register!Grant(x), Proceeds(c, "answered", x), UNCHANGED record
          PROVE  Records' /\ Calls' /\ Recorded'
      <3> DEFINE k == [phase |-> "answered", node |-> commit[c].node, cert |-> x]
      <3>1. commit' = [commit EXCEPT ![c] = k]
        BY <2>2 DEF Proceeds
      <3>2. x \in Certs /\ x.leader # commit[c].node /\ x \in granted'
        BY <2>0, <2>2 DEF CallTyped, Certs, Register!Grant
      <3>3. CallTyped(k, granted') /\ k.node = commit[c].node
        BY <1>0, <2>0, <3>2 DEF CallTyped, Answered, Phases
      <3> HIDE DEF k
      <3> QED
        BY <1>4, <2>0, <2>2, <3>1, <3>3
    <2> QED
      BY <1>6, <2>1, <2>2 DEF CommitAnswered
  <1>7. ASSUME NEW c \in Commits, NEW where \in {"installed", "refused"},
               CommitInstalls(c), Proceeds(c, where, commit[c].cert)
        PROVE  Records' /\ Calls' /\ Recorded'
    <2> DEFINE k == [phase |-> where, node |-> commit[c].node, cert |-> commit[c].cert]
    <2>1. commit' = [commit EXCEPT ![c] = k]
      BY <1>7 DEF Proceeds
    <2>2. /\ CallTyped(k, granted') /\ k.node = commit[c].node
          /\ commit[c].phase \notin {"none", "done"}
      BY <1>0, <1>7 DEF CommitInstalls, Calls, CallTyped, Answered, Phases
    <2> HIDE DEF k
    <2> QED
      BY <1>4, <1>7, <2>1, <2>2 DEF CommitInstalls
  <1>8. ASSUME NEW c \in Commits, CommitSettles(c)
        PROVE  Records' /\ Calls' /\ Recorded'
    <2> DEFINE k == [phase |-> "done", node |-> commit[c].node, cert |-> NoCert]
    <2>1. commit' = [commit EXCEPT ![c] = k]
      BY <1>8 DEF CommitSettles, Proceeds
    <2>2. /\ CallTyped(k, granted') /\ k.node = commit[c].node
          /\ commit[c].phase \notin {"none", "done"} /\ commit[c].cert \in MaybeCert
      BY <1>0, <1>8, NoLeader DEF CommitSettles, Calls, CallTyped, Answered, Phases
    <2>3. \E s \in RecordStates \ {"idle"}, x \in MaybeCert :
             record' = [record EXCEPT ![commit[c].node] =
                [state |-> s, target |-> @.target, old |-> @.old, new |-> x]]
      <3>1. PICK s \in RecordStates \ {"idle"} :
               s = IF commit[c].phase = "installed" THEN "committed" ELSE "failed"
        BY DEF RecordStates
      <3>2. record' = [record EXCEPT ![commit[c].node] =
               [state |-> s, target |-> @.target, old |-> @.old, new |-> commit[c].cert]]
        BY <1>8, <3>1 DEF CommitSettles
      <3> HIDE DEF k
      <3> QED
        BY <2>2, <3>2
    <2> HIDE DEF k
    <2> QED
      BY <1>4, <2>1, <2>2, <2>3
  <1> QED
    BY <1>1, <1>2, <1>3, <1>5, <1>6, <1>7, <1>8 DEF HandoffStep, CommitInstalls

(***************************************************************************)
(* Whose certificate an authority holds.                                   *)
(***************************************************************************)
\* To role and authority of a node, a handoff does one of three things: nothing, what
\* on_quorum_loss does, or installing a certificate of another node.
HandoffRole(n) ==
    \/ \E s \in {"read_only", "stopped"} : Transition(n, s)
    \/ \E x \in granted : /\ x.leader # n /\ Supersedes(n, x) /\ Install(n, x)
                          /\ UNCHANGED <<state, cert>>

LEMMA HandoffRoles ==
  ASSUME HInv, HandoffStep
  PROVE  UNCHANGED <<state, cert, term, auth>> \/ \E n \in Coordinators : HandoffRole(n)
  <1>1. ASSUME NEW n \in Coordinators, NEW c \in Commits, NEW now \in Readings,
               CommitBegin(c, n, now)
        PROVE  UNCHANGED <<state, cert, term, auth>> \/ HandoffRole(n)
    BY <1>1 DEF CommitBegin, HandoffRole, authority
  <1>2. ASSUME NEW c \in Commits, CommitFenced(c)
        PROVE  commit[c].node \in Coordinators /\ HandoffRole(commit[c].node)
    <2>1. commit[c].node \in Coordinators
      BY <1>2 DEF CommitFenced, HInv, Calls, CallTyped
    <2>2. Transition(commit[c].node, "read_only")
      BY <1>2 DEF CommitFenced
    <2> QED
      BY <2>1, <2>2 DEF HandoffRole
  <1>3. ASSUME NEW c \in Commits, CommitInstalls(c)
        PROVE  \/ UNCHANGED <<state, cert, term, auth>>
               \/ commit[c].node \in Coordinators /\ HandoffRole(commit[c].node)
    <2>1. /\ commit[c].node \in Coordinators
          /\ commit[c].cert \in granted /\ commit[c].cert.leader # commit[c].node
      BY <1>3 DEF CommitInstalls, HInv, Calls, CallTyped, Answered
    <2>2. UNCHANGED <<state, cert>>
      BY <1>3 DEF CommitInstalls, controller
    <2>3. \/ Supersedes(commit[c].node, commit[c].cert) /\ Install(commit[c].node, commit[c].cert)
          \/ UNCHANGED authority
      BY <1>3 DEF CommitInstalls
    <2> QED
      BY <2>1, <2>2, <2>3 DEF HandoffRole, authority
  <1>4. ASSUME NEW c \in Commits, CommitAnswered(c) \/ CommitSettles(c)
        PROVE  UNCHANGED <<state, cert, term, auth>>
    BY <1>4 DEF CommitAnswered, CommitSettles, vars, controller, authority
  <1>5. ASSUME NEW n \in Coordinators,
               (\E target \in Nodes : Prepare(n, target)) \/ Abort(n) \/ RecoverPending(n)
        PROVE  UNCHANGED <<state, cert, term, auth>>
    BY <1>5 DEF Prepare, Abort, RecoverPending, vars, controller, authority
  <1> QED
    BY <1>1, <1>2, <1>3, <1>4, <1>5 DEF HandoffStep

\* A certificate of the node's own comes into its authority with the role it gives, and is
\* taken out of it, or replaced, when the role is given up.
LEMMA HandoffOwn ==
  ASSUME HInv, HandoffStep
  PROVE  OwnAuthority'
  <1>0. installs' = installs /\ offer' = offer /\ Roles
    BY HandoffBacked, StateTypes DEF HInv
  <1>1. ASSUME NEW n \in Nodes, NEW s \in {"read_only", "stopped"}, Transition(n, s)
        PROVE  OwnAuthority'
    BY <1>0, <1>1, NoLeader DEF HInv, OwnAuthority, Transition, Roles
  <1>2. ASSUME NEW n \in Nodes, NEW x \in granted, x.leader # n, Install(n, x),
               UNCHANGED <<state, cert>>
        PROVE  OwnAuthority'
    BY <1>0, <1>2 DEF HInv, OwnAuthority, Install, Roles
  <1>3. CASE UNCHANGED <<state, cert, term, auth>>
    BY <1>0, <1>3 DEF HInv, OwnAuthority
  <1> QED
    BY <1>1, <1>2, <1>3, HandoffRoles, CoordinatorsAssumption DEF HandoffRole

LEMMA NodeOwn ==
  ASSUME HInv, NEW n \in Nodes, NodeStep(n)
  PROVE  OwnAuthority'
  <1> SUFFICES ASSUME installs' = 0, NEW m \in Nodes
               PROVE  /\ offer'[m].to # "authority"
                      /\ auth'[m].leader = m => auth'[m] = cert'[m] /\ state'[m] = "leader"
    BY DEF OwnAuthority
  <1>0. Backed /\ Roles /\ RoleStep(n)
    BY NodeRoles, Parts DEF HInv
  <1>1. /\ installs = 0 /\ offer'[m].to # "authority" /\ offer[n].to # "authority"
        /\ auth[m].leader = m => auth[m] = cert[m] /\ state[m] = "leader"
        /\ auth[n].leader = n => auth[n] = cert[n] /\ state[n] = "leader"
    BY <1>0, OffersKept DEF HInv, OwnAuthority
  <1>2. CASE \E s \in {"read_only", "stopped", state[n]} : Transition(n, s)
    BY <1>0, <1>1, <1>2, NoLeader DEF Transition, Roles
  <1>3. CASE \E x \in granted : Takes(n, x)
    BY <1>0, <1>1, <1>3 DEF Takes, Install, Roles
  <1>4. CASE Crash(n)
    BY <1>0, <1>1, <1>4, NoLeader DEF Crash, Roles
  <1>5. CASE /\ state[n] \in {"starting", "stopped"}
             /\ state' = [state EXCEPT ![n] = "starting"] /\ UNCHANGED <<cert, term, auth>>
    BY <1>0, <1>1, <1>5 DEF Roles
  <1> QED
    BY <1>0, <1>1, <1>2, <1>3, <1>4, <1>5 DEF RoleStep

(***************************************************************************)
(* The invariant of every handoff, and what it says.                       *)
(***************************************************************************)
LEMMA InitHInv == HandoffInit => HInv /\ MInv
  <1> SUFFICES ASSUME HandoffInit PROVE HInv /\ MInv
    OBVIOUS
  <1>1. /\ NoRecord \in [state : RecordStates, target : Nodes \cup {0},
                         old : MaybeCert, new : MaybeCert]
        /\ NoRecord.state = "idle" /\ NoRecord.old = NoCert
        /\ NotCalled \in [phase : Phases, node : Coordinators \cup {0}, cert : MaybeCert]
        /\ NotCalled.phase = "none" /\ NotCalled.node = 0
    BY NoLeader DEF NoRecord, RecordStates, NotCalled, Phases
  <1>2. Backed
    BY InitBacked DEF HandoffInit
  <1>3. Records /\ Calls /\ Recorded
    BY <1>1 DEF HandoffInit, Records, Calls, CallTyped, Recorded, Answered
  <1>4. OwnAuthority
    BY NoLeader DEF HandoffInit, Init, OwnAuthority, NoOffer
  <1>5. MInv
    BY <1>1, NoCertTyped, CoordinatorsAssumption
       DEF HandoffInit, Init, MInv, TermsMove, CommittedMovesOn, OldGone, PastFence, Answered
  <1> QED
    BY <1>2, <1>3, <1>4, <1>5 DEF HInv

\* The steps that change nothing of the handoff, a crash, and the handoff's own.
LEMMA NextHInv == HInv /\ [HandoffNext]_<<vars, handoff>> => HInv'
  <1> SUFFICES ASSUME HInv, [HandoffNext]_<<vars, handoff>> PROVE HInv'
    OBVIOUS
  <1>1. CASE (Tick \/ UNCHANGED vars) /\ UNCHANGED handoff
    <2>1. Backed' /\ granted \subseteq granted'
      BY <1>1, TickBacked, StutterBacked DEF HInv, Tick, Register!Tick, vars, quorum
    <2>2. OwnAuthority'
      BY <1>1 DEF HInv, OwnAuthority, Tick, vars, controller, authority, threads, bounds
    <2> QED
      BY <1>1, <2>1, <2>2, CallsKept DEF HInv
  <1>2. ASSUME NEW n \in Nodes, Serves(n), UNCHANGED handoff
        PROVE  HInv'
    BY <1>2, NodeBacked, NodeGrants, NodeOwn, CallsKept DEF HInv, NodeStep
  <1>3. ASSUME NEW n \in Nodes, CrashForgets(n)
        PROVE  HInv'
    BY <1>3, NodeBacked, NodeOwn, CrashCalls DEF HInv, NodeStep, CrashForgets
  <1>4. CASE HandoffStep
    BY <1>4, HandoffBacked, HandoffCalls, HandoffOwn DEF HInv
  <1> QED
    BY <1>1, <1>2, <1>3, <1>4 DEF HandoffNext

\* The invariant holds of every behaviour of handoffs, overlapping ones included.
THEOREM HandoffInvariance == HandoffSpec => []HInv
  <1> QED
    BY InitHInv, NextHInv, PTL DEF HandoffSpec

\* Handoffs do not give a second node write authority, whatever commits, answers and installs
\* meet the renewals, takeovers, crashes and replays of the nodes.
THEOREM HandoffOneWriter == HandoffSpec => []SingleWriter
  <1>1. HInv => SingleWriter
    BY BackedSingle DEF HInv
  <1> QED
    BY <1>1, HandoffInvariance, PTL

\* Nor does a handoff, or a lease that was handed off, make a leader of a node again: that takes
\* a lease of a term its authority has not seen.
THEOREM HandoffRegain == ASSUME MaxInstalls = 0 PROVE HandoffSpec => RegainNeedsNewTerm
  <1>1. HInv /\ [HandoffNext]_<<vars, handoff>> =>
           [\A n \in Nodes : state[n] # "leader" /\ state'[n] = "leader"
                                => cert'[n].term > term[n]]_vars
    <2> SUFFICES ASSUME HInv, [HandoffNext]_<<vars, handoff>>, NEW n \in Nodes,
                        state[n] # "leader", state'[n] = "leader"
                 PROVE  cert'[n].term > term[n]
      OBVIOUS
    <2>1. installs = 0
      BY DEF HInv, Backed, TypeOK
    <2>2. auth[n].leader # n
      BY <2>1 DEF HInv, OwnAuthority
    <2>3. ASSUME NEW m \in Nodes, NodeStep(m)
          PROVE  cert'[n].term > term[n]
      BY <2>2, <2>3, NodeRegain DEF HInv
    <2>4. CASE HandoffStep
      <3>1. Roles
        BY StateTypes DEF HInv
      <3>2. state' = state \/ \E m \in Coordinators : HandoffRole(m)
        BY <2>4, HandoffRoles
      <3> QED
        BY <3>1, <3>2, CoordinatorsAssumption DEF HandoffRole, Transition, Roles
    <2>5. CASE Tick \/ UNCHANGED vars
      BY <2>5 DEF Tick, vars, controller
    <2> QED
      BY <2>3, <2>4, <2>5 DEF HandoffNext, NodeStep, CrashForgets
  <1> QED
    BY <1>1, HandoffInvariance, PTL DEF HandoffSpec, RegainNeedsNewTerm

(***************************************************************************)
(* Handoffs that are not prepared while a commit is under way.             *)
(***************************************************************************)
\* A node that serves does not crash in the same step.
LEMMA ServesAlive ==
  ASSUME Backed, NEW n \in Nodes, Serves(n)
  PROVE  ~Crash(n)
  <1> SUFFICES ASSUME Crash(n) PROVE FALSE
    OBVIOUS
  <1> USE DEF bounds
  <1>0. /\ events \in Nat /\ Roles /\ Flight /\ Hands
        /\ losing \in [Nodes -> BOOLEAN]
        /\ offer \in [Nodes -> [to : {"none", "controller", "authority"}, cert : MaybeCert]]
    BY Parts, BoundsAssumption DEF Backed, TypeOK
  <1>1. /\ events' = events + 1 /\ installs' = installs
        /\ state'[n] = "starting" /\ losing'[n] = FALSE /\ offer'[n] = NoOffer
    BY <1>0 DEF Crash, Roles
  <1>2. ASSUME NEW s, Transition(n, s) PROVE s = "starting"
    BY <1>0, <1>1, <1>2 DEF Transition, Roles
  <1>3. CASE \E now \in Readings : AttemptTakeover(n, now)
    <2>1. PICK now \in Readings : AttemptTakeover(n, now)
      BY <1>3
    <2>2. takeover'[n].phase = "idle"
      BY <1>0 DEF Crash, Flight, Idle
    <2> QED
      BY <1>0, <1>2, <2>1, <2>2 DEF AttemptTakeover, Ask, Flight
  <1>4. CASE QuorumLossBegin(n) \/ Stop(n) \/ ReconnectEmpty(n)
    BY <1>0, <1>1, <1>2, <1>4 DEF QuorumLossBegin, Stop, ReconnectEmpty
  <1>5. CASE \E x \in granted : ReconnectCheck(n, x)
    BY <1>0, <1>1, <1>2, <1>5 DEF ReconnectCheck, NoOffer
  <1>6. CASE \E x \in granted : InstallCheck(n, x)
    BY <1>0, <1>1, <1>6 DEF InstallCheck, NoOffer
  <1>7. ASSUME events' = events
        PROVE  FALSE
    BY <1>0, <1>1, <1>7
  <1>8. /\ \A now \in Readings : Start(n, now) \/ RenewBegin(n, now) => events' = events
        /\ TakeoverAnswered(n) \/ TakeoverFinish(n) \/ RenewalDue(n) \/ RenewAnswered(n)
           \/ RenewFinish(n) \/ QuorumLossEnd(n) => events' = events
        /\ ReconnectConsume(n) \/ Demote(n) \/ Write(n) \/ InstallOffered(n) => events' = events
        /\ \A x \in granted : Admit(n, x) => events' = events
    BY DEF Start, TakeoverAnswered, TakeoverFinish, RenewalDue, RenewBegin, RenewAnswered,
           RenewFinish, QuorumLossEnd, ReconnectConsume, Demote, Admit, Write, InstallOffered
  <1> QED
    BY <1>3, <1>4, <1>5, <1>6, <1>7, <1>8 DEF Serves

\* A step of a node that is not a crash does not take the authority back, and puts the lease
\* handed off into no authority that gave it up.
LEMMA ServesMoves ==
  ASSUME HInv, MInv, NEW n \in Nodes, Serves(n), UNCHANGED handoff
  PROVE  MInv'
  <1>0. /\ Backed /\ Roles /\ NodeStep(n) /\ RoleStep(n) /\ granted \subseteq Certs
        /\ \A m \in Nodes : term[m] \in Nat /\ term'[m] \in Nat
    BY NodeRoles, StateTypes, NodeBacked, PartsNext, BoundsAssumption
       DEF HInv, NodeStep, Roles
  <1>1. \A m \in Nodes : term'[m] >= term[m]
    BY <1>0, ServesAlive, TermsGrow
  <1>2. /\ \A m \in Coordinators : record[m].old.term \in Nat /\ record[m].new.term \in Nat
        /\ \A c \in Commits : commit[c].cert.term \in Nat
        /\ \A c \in Commits : commit[c].phase \in Answered => commit[c].node \in Coordinators
    BY BoundsAssumption DEF HInv, Records, Calls, CallTyped, Answered, MaybeCert
  <1>3. TermsMove'
    BY <1>0, <1>1, <1>2, CoordinatorsAssumption DEF MInv, TermsMove, handoff, Answered
  <1>4. CommittedMovesOn'
    BY <1>0, <1>1, <1>2, CoordinatorsAssumption DEF MInv, CommittedMovesOn, handoff
  <1>5. OldGone'
    <2> SUFFICES ASSUME installs' = 0, NEW m \in Coordinators, PastFence(m)', auth'[m].leader = m
                 PROVE  auth'[m].term # record[m].old.term
      BY DEF OldGone, handoff
    <2>1. /\ installs = 0 /\ m \in Nodes /\ PastFence(m) /\ offer[n].to # "authority"
          /\ auth[m].leader = m => auth[m].term # record[m].old.term
      BY <1>0, OffersKept, CoordinatorsAssumption
         DEF PastFence, handoff, MInv, OldGone, HInv, OwnAuthority
    <2>2. CASE auth'[m] = auth[m]
      BY <2>1, <2>2
    <2>3. ASSUME NEW x \in granted, Takes(n, x), m = n
          PROVE  auth'[m].term # record[m].old.term
      <3>1. auth'[m] = x /\ Supersedes(m, x) /\ x.term \in Nat
        BY <1>0, <2>1, <2>3 DEF Takes, CanInstall, Install, Roles, Certs
      <3>2. auth[m] # NoCert => auth[m].term = term[m]
        BY <1>0, <2>1 DEF Roles, RoleBacked
      <3>3. term[m] >= record[m].old.term
        BY DEF MInv, TermsMove
      <3> QED
        BY <1>0, <1>2, <2>1, <3>1, <3>2, <3>3 DEF Supersedes
    <2>4. auth'[m] \in {auth[m], NoCert} \/ \E x \in granted : Takes(n, x) /\ m = n
      BY <1>0, <2>1 DEF RoleStep, Transition, Takes, Install, Crash, Roles
    <2> QED
      BY <2>1, <2>2, <2>3, <2>4, NoLeader
  <1> QED
    BY <1>3, <1>4, <1>5 DEF MInv

\* A crash takes record and calls with it.
LEMMA CrashMoves ==
  ASSUME HInv, MInv, NEW n \in Nodes, CrashForgets(n)
  PROVE  MInv'
  <1>0. Roles /\ installs' = installs
    BY StateTypes DEF HInv, CrashForgets, Crash, Roles
  <1>1. \A m \in Nodes : m # n => term'[m] = term[m] /\ auth'[m] = auth[m]
    BY <1>0 DEF CrashForgets, Crash, Roles
  <1>2. term'[n] = 0 /\ record' = [m \in Coordinators |-> IF m = n THEN NoRecord ELSE record[m]]
    BY <1>0 DEF CrashForgets, Crash, Roles
  <1>3. /\ NoRecord.state = "idle" /\ NoRecord.old.term = 0
        /\ [NotCalled EXCEPT !.phase = "done"].phase = "done"
    BY DEF NoRecord, NoCert, NotCalled
  <1>4. \A c \in Commits :
           \/ commit'[c].phase = "done"
           \/ commit'[c] = commit[c] /\ commit[c].node # n
    <2> DEFINE k == [NotCalled EXCEPT !.phase = "done"]
    <2>1. commit' = [c \in Commits |-> IF commit[c].node = n THEN k ELSE commit[c]]
      BY DEF CrashForgets
    <2> HIDE DEF k
    <2>2. k.phase = "done"
      BY <1>3 DEF k
    <2> QED
      BY <2>1, <2>2
  <1>5. \A c \in Commits : commit[c].phase \in Answered => commit[c].node \in Coordinators
    BY DEF HInv, Calls, CallTyped, Answered
  <1>6. \A m \in Coordinators :
           \/ m # n /\ record'[m] = record[m] /\ term'[m] = term[m] /\ auth'[m] = auth[m]
           \/ m = n /\ record'[m].state = "idle" /\ record'[m].old.term = 0 /\ term'[m] = 0
    BY <1>1, <1>2, <1>3, CoordinatorsAssumption
  <1>7. TermsMove'
    BY <1>4, <1>5, <1>6 DEF MInv, TermsMove, Answered
  <1>8. CommittedMovesOn'
    BY <1>6 DEF MInv, CommittedMovesOn
  <1>9. OldGone'
    <2>1. \A m \in Coordinators : PastFence(m)' => PastFence(m) /\ m # n
      BY <1>4, <1>6 DEF PastFence, Answered
    <2> QED
      BY <1>0, <1>6, <2>1 DEF MInv, OldGone
  <1> QED
    BY <1>7, <1>8, <1>9 DEF MInv

\* A record changes its state only.
LEMMA SetsKeeps ==
  ASSUME Records, NEW n \in Coordinators, NEW s, Sets(n, s)
  PROVE  \A m \in Coordinators :
            /\ record'[m].old = record[m].old /\ record'[m].new = record[m].new
            /\ record'[m].state = IF m = n THEN s ELSE record[m].state
  <1>1. record[n] \in [state : RecordStates, target : Nodes \cup {0},
                       old : MaybeCert, new : MaybeCert]
    BY DEF Records
  <1>2. [record[n] EXCEPT !.state = s] =
           [state |-> s, target |-> record[n].target, old |-> record[n].old, new |-> record[n].new]
    BY <1>1
  <1>3. record' = [record EXCEPT ![n] = [state |-> s, target |-> record[n].target,
                                         old |-> record[n].old, new |-> record[n].new]]
    BY <1>2 DEF Sets
  <1> QED
    BY <1>3 DEF Records

\* What a step of a handoff leaves as it was, and no worse: the lease handed off, the term.
LEMMA HandoffTerms ==
  ASSUME HInv, HandoffStep
  PROVE  \A m \in Nodes : term'[m] >= term[m] /\ term[m] \in Nat /\ term'[m] \in Nat
  <1>1. /\ Roles /\ granted \subseteq Certs
        /\ \A m \in Nodes : term[m] \in Nat /\ term'[m] \in Nat
    BY StateTypes, HandoffBacked, PartsNext, BoundsAssumption DEF HInv, Roles
  <1>2. ASSUME NEW n \in Coordinators, HandoffRole(n)
        PROVE  \A m \in Nodes : term'[m] >= term[m]
    BY <1>1, <1>2 DEF HandoffRole, Transition, Supersedes, Install, Roles, Certs
  <1> QED
    BY <1>1, <1>2, HandoffRoles

\* A record that is prepared anew meets no call of its node under way.
LEMMA PrepareMoves ==
  ASSUME HInv, MInv, MayOverlap = FALSE, NEW n \in Coordinators, NEW target \in Nodes,
         Prepare(n, target)
  PROVE  MInv'
  <1>1. /\ UNCHANGED <<term, auth, installs, commit>> /\ n \in Nodes /\ ~UnderWay(n)
        /\ auth[n] # NoCert
    BY CoordinatorsAssumption DEF Prepare, vars, authority, bounds, CanAdmit
  <1>2. auth[n].term = term[n] /\ term[n] \in Nat
    BY <1>1, StateTypes DEF HInv, Roles, RoleBacked
  <1>3. record' = [record EXCEPT ![n] = [state |-> "prepared", target |-> target,
                                         old |-> auth[n], new |-> NoCert]]
    BY DEF Prepare
  <1>4. /\ record'[n].state = "prepared" /\ record'[n].old = auth[n]
        /\ \A m \in Coordinators : m # n => record'[m] = record[m]
    BY <1>3 DEF HInv, Records
  <1>5. \A c \in Commits : commit[c].phase \in Answered \cup {"asking"} =>
           commit[c].node \in Coordinators /\ commit[c].node # n
    BY <1>1 DEF UnderWay, HInv, Calls, CallTyped, Answered
  <1>6. TermsMove'
    <2>1. \A m \in Coordinators : term'[m] >= record'[m].old.term
      BY <1>1, <1>2, <1>4 DEF MInv, TermsMove
    <2>2. \A c \in Commits : commit[c].phase \in Answered =>
             record'[commit[c].node] = record[commit[c].node]
      BY <1>4, <1>5
    <2>3. "installed" \in Answered
      BY DEF Answered
    <2> QED
      BY <1>1, <2>1, <2>2, <2>3 DEF MInv, TermsMove
  <1>7. CommittedMovesOn'
    BY <1>1, <1>4 DEF MInv, CommittedMovesOn
  <1>8. OldGone'
    <2>1. \A m \in Coordinators : PastFence(m)' => PastFence(m) /\ m # n
      BY <1>1, <1>4, <1>5 DEF PastFence
    <2> QED
      BY <1>1, <1>4, <2>1 DEF MInv, OldGone
  <1> QED
    BY <1>6, <1>7, <1>8 DEF MInv

\* Nothing is committed by giving a handoff up.
LEMMA AbortMoves ==
  ASSUME HInv, MInv, NEW n \in Coordinators, Abort(n) \/ RecoverPending(n)
  PROVE  MInv'
  <1>1. UNCHANGED <<term, auth, installs, commit>>
    BY DEF Abort, RecoverPending, vars, authority, bounds
  <1>2. PICK s \in {"aborted", "failed"} :
           Sets(n, s) /\ (s = "failed" => record[n].state = "awaiting_quorum")
    BY DEF Abort, RecoverPending
  <1>3. \A m \in Coordinators :
           /\ record'[m].old = record[m].old /\ record'[m].new = record[m].new
           /\ record'[m].state = IF m = n THEN s ELSE record[m].state
    BY <1>2, SetsKeeps DEF HInv
  <1>4. \A c \in Commits : commit[c].phase \in Answered => commit[c].node \in Coordinators
    BY DEF HInv, Calls, CallTyped, Answered
  <1>5. TermsMove'
    BY <1>1, <1>3, <1>4 DEF MInv, TermsMove, Answered
  <1>6. CommittedMovesOn'
    BY <1>1, <1>3 DEF MInv, CommittedMovesOn
  <1>7. OldGone'
    <2>1. \A m \in Coordinators : PastFence(m)' => PastFence(m)
      BY <1>1, <1>2, <1>3 DEF PastFence
    <2> QED
      BY <1>1, <1>3, <2>1 DEF MInv, OldGone
  <1> QED
    BY <1>5, <1>6, <1>7 DEF MInv

\* A transition that gives up the role takes the node's own certificate out of its authority.
LEMMA Fences ==
  ASSUME HInv, NEW n \in Nodes, NEW s \in {"read_only", "stopped"}, Transition(n, s), installs = 0
  PROVE  auth'[n].leader # n /\ \A m \in Nodes : m # n => auth'[m] = auth[m]
  BY StateTypes, NoLeader DEF HInv, OwnAuthority, Transition, Roles

LEMMA BeginMoves ==
  ASSUME HInv, MInv, NEW n \in Coordinators, NEW c \in Commits, NEW now \in Readings,
         CommitBegin(c, n, now)
  PROVE  MInv'
  <1>0. /\ n \in Nodes /\ UNCHANGED <<term, installs>> /\ commit[c].phase = "none"
        /\ \A d \in Commits : commit[d].phase \in Answered => commit[d].node \in Coordinators
    BY CoordinatorsAssumption
       DEF CommitBegin, Transition, authority, bounds, NotCalled, HInv, Calls, CallTyped, Answered
  <1>1. PICK where \in {"fencing", "asking"} :
           /\ where = "asking" <=> state[n] = "stopped"
           /\ commit' = [commit EXCEPT ![c] = [phase |-> where, node |-> n,
                                               cert |-> Wanted(record[n].target, now)]]
    BY DEF CommitBegin
  <1>2. /\ commit'[c].phase = where /\ commit'[c].node = n
        /\ \A d \in Commits : d # c => commit'[d] = commit[d]
    BY <1>1 DEF HInv, Calls
  <1>3. \A m \in Coordinators :
           /\ record'[m].old = record[m].old /\ record'[m].new = record[m].new
           /\ record'[m].state # record[m].state => m = n /\ record'[m].state = "awaiting_quorum"
    <2>1. CASE Sets(n, "awaiting_quorum")
      BY <2>1, SetsKeeps DEF HInv
    <2>2. CASE record' = record
      BY <2>2
    <2> QED
      BY <2>1, <2>2 DEF CommitBegin
  <1>4. TermsMove'
    BY <1>0, <1>1, <1>2, <1>3 DEF MInv, TermsMove, Answered
  <1>5. CommittedMovesOn'
    BY <1>0, <1>3 DEF MInv, CommittedMovesOn
  <1>6. OldGone'
    <2> SUFFICES ASSUME installs = 0, NEW m \in Coordinators, PastFence(m)', auth'[m].leader = m
                 PROVE  auth'[m].term # record'[m].old.term
      BY <1>0 DEF OldGone
    <2>1. CASE state[n] = "stopped"
      <3>1. Transition(n, "stopped")
        BY <2>1 DEF CommitBegin
      <3>2. m # n /\ auth'[m] = auth[m]
        BY <1>0, <3>1, Fences, CoordinatorsAssumption
      <3>3. PastFence(m)
        BY <1>2, <1>3, <3>2 DEF PastFence
      <3> QED
        BY <1>3, <3>2, <3>3 DEF MInv, OldGone
    <2>2. CASE state[n] # "stopped"
      <3>1. where = "fencing" /\ UNCHANGED <<auth, record>>
        BY <1>1, <2>2 DEF CommitBegin, authority
      <3>2. PastFence(m)
        BY <1>2, <3>1 DEF PastFence, Answered
      <3> QED
        BY <3>1, <3>2 DEF MInv, OldGone
    <2> QED
      BY <2>1, <2>2
  <1> QED
    BY <1>4, <1>5, <1>6 DEF MInv

LEMMA FencedMoves ==
  ASSUME HInv, MInv, NEW c \in Commits, CommitFenced(c)
  PROVE  MInv'
  <1> DEFINE n == commit[c].node
  <1>0. /\ n \in Coordinators /\ n \in Nodes /\ UNCHANGED <<term, installs>>
        /\ \A d \in Commits : commit[d].phase \in Answered => commit[d].node \in Coordinators
    BY CoordinatorsAssumption
       DEF CommitFenced, Transition, bounds, HInv, Calls, CallTyped, Answered
  <1>1. Transition(n, "read_only") /\ Sets(n, "awaiting_quorum")
    BY DEF CommitFenced
  <1>2. /\ commit'[c].phase = "asking" /\ commit'[c].node = n
        /\ \A d \in Commits : d # c => commit'[d] = commit[d]
    BY DEF CommitFenced, Proceeds, HInv, Calls
  <1> HIDE DEF n
  <1>3. \A m \in Coordinators :
           /\ record'[m].old = record[m].old /\ record'[m].new = record[m].new
           /\ record'[m].state = IF m = n THEN "awaiting_quorum" ELSE record[m].state
    BY <1>0, <1>1, SetsKeeps DEF HInv
  <1>4. TermsMove'
    BY <1>0, <1>2, <1>3 DEF MInv, TermsMove, Answered
  <1>5. CommittedMovesOn'
    BY <1>0, <1>3 DEF MInv, CommittedMovesOn
  <1>6. OldGone'
    <2> SUFFICES ASSUME installs = 0, NEW m \in Coordinators, PastFence(m)', auth'[m].leader = m
                 PROVE  auth'[m].term # record'[m].old.term
      BY <1>0 DEF OldGone
    <2>1. m # n /\ auth'[m] = auth[m]
      BY <1>0, <1>1, Fences, CoordinatorsAssumption
    <2>2. PastFence(m)
      BY <1>2, <1>3, <2>1 DEF PastFence
    <2> QED
      BY <1>3, <2>1, <2>2 DEF MInv, OldGone
  <1> QED
    BY <1>4, <1>5, <1>6 DEF MInv

\* The quorum's terms are fresh, so that a lease that was granted has another one.
LEMMA AnsweredMoves ==
  ASSUME HInv, MInv, NEW c \in Commits, CommitAnswered(c)
  PROVE  MInv'
  <1> DEFINE n == commit[c].node
  <1>0. /\ n \in Coordinators /\ n \in Nodes /\ UNCHANGED <<term, auth, installs>>
        /\ commit[c].phase = "asking" /\ PastFence(n) /\ CallTyped(commit[c], granted)
        /\ \A d \in Commits : commit[d].phase \in Answered => commit[d].node \in Coordinators
    BY CoordinatorsAssumption
       DEF CommitAnswered, authority, bounds, HInv, Calls, CallTyped, Answered, PastFence
  <1>1. ASSUME NEW t \in 1 .. MaxTerm, NEW x,
               x = [commit[c].cert EXCEPT !.term = t, !.lease = t],
               \A y \in granted : y.term # t,
               Proceeds(c, "answered", x), UNCHANGED record
        PROVE  MInv'
    <2>1. /\ commit'[c].phase = "answered" /\ commit'[c].node = n /\ commit'[c].cert = x
          /\ \A d \in Commits : d # c => commit'[d] = commit[d]
      BY <1>1 DEF Proceeds, HInv, Calls
    <2>2. x.term # record[n].old.term
      <3>1. x.term = t
        BY <1>0, <1>1 DEF CallTyped
      <3>2. record[n].old \in granted \/ record[n].old.term = 0
        BY <1>0 DEF HInv, Records, NoCert
      <3> QED
        BY <1>1, <3>1, <3>2
    <2> HIDE DEF n
    <2>3. TermsMove'
      BY <1>0, <1>1, <2>1, <2>2 DEF MInv, TermsMove, Answered
    <2>4. CommittedMovesOn'
      BY <1>0, <1>1 DEF MInv, CommittedMovesOn
    <2>5. OldGone'
      <3>1. \A m \in Coordinators : PastFence(m)' => PastFence(m)
        BY <1>0, <1>1, <2>1 DEF PastFence
      <3> QED
        BY <1>0, <1>1, <3>1 DEF MInv, OldGone
    <2> QED
      BY <2>3, <2>4, <2>5 DEF MInv
  <1>2. CASE Sets(n, "awaiting_quorum") /\ Proceeds(c, "done", NoCert)
    <2>1. /\ commit'[c].phase = "done"
          /\ \A d \in Commits : d # c => commit'[d] = commit[d]
      BY <1>2 DEF Proceeds, HInv, Calls
    <2> HIDE DEF n
    <2>2. \A m \in Coordinators :
             /\ record'[m].old = record[m].old /\ record'[m].new = record[m].new
             /\ record'[m].state = IF m = n THEN "awaiting_quorum" ELSE record[m].state
      BY <1>0, <1>2, SetsKeeps DEF HInv
    <2>3. TermsMove'
      BY <1>0, <2>1, <2>2 DEF MInv, TermsMove, Answered
    <2>4. CommittedMovesOn'
      BY <1>0, <2>2 DEF MInv, CommittedMovesOn
    <2>5. OldGone'
      <3>1. \A m \in Coordinators : PastFence(m)' => PastFence(m)
        BY <1>0, <2>1, <2>2 DEF PastFence, Answered
      <3> QED
        BY <1>0, <2>2, <3>1 DEF MInv, OldGone
    <2> QED
      BY <2>3, <2>4, <2>5 DEF MInv
  <1> QED
    BY <1>1, <1>2 DEF CommitAnswered

\* A certificate that is installed is newer than the authority's, or of its lease, and so later
\* than the lease handed off, whose term it does not have.
LEMMA InstallsMoves ==
  ASSUME HInv, MInv, NEW c \in Commits, CommitInstalls(c)
  PROVE  MInv'
  <1> DEFINE n == commit[c].node
             x == commit[c].cert
  <1>0. /\ n \in Coordinators /\ n \in Nodes /\ UNCHANGED <<record, installs>>
        /\ commit[c].phase = "answered" /\ x \in granted /\ x.leader # n /\ x.term \in Nat
        /\ \A m \in Coordinators : record[m].old.term \in Nat
        /\ \A d \in Commits : commit[d].cert.term \in Nat
        /\ \A d \in Commits : commit[d].phase \in Answered => commit[d].node \in Coordinators
    BY StateTypes, CoordinatorsAssumption, BoundsAssumption
       DEF CommitInstalls, bounds, HInv, Records, Calls, CallTyped, Answered, Certs, MaybeCert
  <1>1. HandoffStep /\ Roles
    BY StateTypes DEF HandoffStep, HInv
  <1>2. \A m \in Nodes : term'[m] >= term[m] /\ term[m] \in Nat /\ term'[m] \in Nat
    BY <1>1, HandoffTerms
  <1>3. /\ commit'[c].phase \in {"installed", "refused"}
        /\ commit'[c].node = n /\ commit'[c].cert = x
        /\ \A d \in Commits : d # c => commit'[d] = commit[d]
    BY DEF CommitInstalls, Proceeds, HInv, Calls
  <1>4. commit'[c].phase = "installed" => x.term > record[n].old.term /\ term'[n] >= x.term
    <2> SUFFICES ASSUME commit'[c].phase = "installed"
                 PROVE  x.term > record[n].old.term /\ term'[n] >= x.term
      OBVIOUS
    <2>1. Supersedes(n, x) /\ Install(n, x)
      BY DEF CommitInstalls, Proceeds, HInv, Calls
    <2>2. x.term # record[n].old.term /\ term[n] >= record[n].old.term
      BY <1>0 DEF MInv, TermsMove, Answered
    <2>3. x.term >= term[n] /\ term'[n] = x.term
      BY <1>0, <1>1, <1>2, <2>1 DEF Supersedes, Install, Roles
    <2> QED
      BY <1>0, <1>2, <2>2, <2>3
  <1>5. \A m \in Coordinators : auth'[m] = auth[m] \/ auth'[m].leader # m
    BY <1>0, <1>1, CoordinatorsAssumption DEF CommitInstalls, Install, authority, Roles
  <1> HIDE DEF n, x
  <1>6. TermsMove'
    <2>1. \A m \in Coordinators : term'[m] >= record'[m].old.term
      BY <1>0, <1>2, CoordinatorsAssumption DEF MInv, TermsMove
    <2>2. ASSUME NEW d \in Commits
          PROVE  /\ commit'[d].phase \in Answered =>
                      commit'[d].cert.term # record'[commit'[d].node].old.term
                 /\ commit'[d].phase = "installed" =>
                      /\ commit'[d].cert.term > record'[commit'[d].node].old.term
                      /\ term'[commit'[d].node] >= commit'[d].cert.term
      <3>1. CASE d = c
        BY <1>0, <1>3, <1>4, <3>1 DEF MInv, TermsMove, Answered, n, x
      <3>2. CASE d # c
        BY <1>0, <1>2, <1>3, <3>2, CoordinatorsAssumption DEF MInv, TermsMove, Answered
      <3> QED
        BY <3>1, <3>2
    <2> QED
      BY <2>1, <2>2 DEF TermsMove
  <1>7. CommittedMovesOn'
    <2>1. \A m \in Coordinators : record[m].new.term \in Nat
      BY BoundsAssumption DEF HInv, Records, MaybeCert
    <2> QED
      BY <1>0, <1>2, <2>1, CoordinatorsAssumption DEF MInv, CommittedMovesOn
  <1>8. OldGone'
    <2>1. \A m \in Coordinators : PastFence(m)' => PastFence(m)
      BY <1>0, <1>3 DEF PastFence, Answered, n
    <2> QED
      BY <1>0, <1>5, <2>1 DEF MInv, OldGone
  <1> QED
    BY <1>6, <1>7, <1>8 DEF MInv

\* What is written into the record is what was installed.
LEMMA SettlesMoves ==
  ASSUME HInv, MInv, NEW c \in Commits, CommitSettles(c)
  PROVE  MInv'
  <1> DEFINE n == commit[c].node
             s == IF commit[c].phase = "installed" THEN "committed" ELSE "failed"
  <1>0. /\ n \in Coordinators /\ UNCHANGED <<term, auth, installs>> /\ PastFence(n)
        /\ \A d \in Commits : commit[d].phase \in Answered => commit[d].node \in Coordinators
    BY DEF CommitSettles, vars, authority, bounds, HInv, Calls, CallTyped, Answered, PastFence
  <1>1. /\ commit'[c].phase = "done"
        /\ \A d \in Commits : d # c => commit'[d] = commit[d]
    BY DEF CommitSettles, Proceeds, HInv, Calls
  <1>2. record' = [record EXCEPT ![n] = [state |-> s, target |-> record[n].target,
                                         old |-> record[n].old, new |-> commit[c].cert]]
    BY DEF CommitSettles
  <1>3. s = "committed" => commit[c].cert.term > record[n].old.term /\ term[n] >= commit[c].cert.term
    BY DEF MInv, TermsMove
  <1> HIDE DEF n, s
  <1>4. /\ record'[n].state = s /\ record'[n].old = record[n].old /\ record'[n].new = commit[c].cert
        /\ \A m \in Coordinators : m # n => record'[m] = record[m]
    BY <1>0, <1>2 DEF HInv, Records
  <1>5. TermsMove'
    BY <1>0, <1>1, <1>4 DEF MInv, TermsMove, Answered
  <1>6. CommittedMovesOn'
    BY <1>0, <1>3, <1>4 DEF MInv, CommittedMovesOn
  <1>7. OldGone'
    <2>1. \A m \in Coordinators : PastFence(m)' => PastFence(m)
      BY <1>0, <1>1, <1>4 DEF PastFence, Answered
    <2> QED
      BY <1>0, <1>4, <2>1 DEF MInv, OldGone
  <1> QED
    BY <1>5, <1>6, <1>7 DEF MInv

LEMMA NextMInv ==
  ASSUME MayOverlap = FALSE
  PROVE  HInv /\ MInv /\ [HandoffNext]_<<vars, handoff>> => MInv'
  <1> SUFFICES ASSUME HInv, MInv, [HandoffNext]_<<vars, handoff>> PROVE MInv'
    OBVIOUS
  <1>1. CASE (Tick \/ UNCHANGED vars) /\ UNCHANGED handoff
    BY <1>1 DEF MInv, TermsMove, CommittedMovesOn, OldGone, PastFence, Tick, vars, authority,
                bounds, handoff
  <1>2. CASE HandoffStep
    BY <1>2, PrepareMoves, AbortMoves, BeginMoves, FencedMoves, AnsweredMoves, InstallsMoves,
       SettlesMoves DEF HandoffStep
  <1> QED
    BY <1>1, <1>2, ServesMoves, CrashMoves DEF HandoffNext

\* So does the second invariant, as long as handoffs of a node do not overlap.
THEOREM MovesInvariance == ASSUME MayOverlap = FALSE PROVE HandoffSpec => [](HInv /\ MInv)
  <1> QED
    BY InitHInv, NextHInv, NextMInv, PTL DEF HandoffSpec

\* A handoff that reports committed moved on to a later term, whatever else was installed
\* between its fencing and its last step.
THEOREM HandoffMovesOn == ASSUME MayOverlap = FALSE PROVE HandoffSpec => []CommittedMovesOn
  <1> QED
    BY MovesInvariance, PTL DEF MInv

\* The old leader does not write again under the lease it handed off.
THEOREM OldFenced == ASSUME MayOverlap = FALSE PROVE HandoffSpec => []OldLeaseFenced
  <1>1. HInv /\ MInv => OldLeaseFenced
    <2> SUFFICES ASSUME HInv, MInv, installs = 0, NEW n \in Coordinators,
                        record[n].state \in {"awaiting_quorum", "committed", "failed"},
                        CanWrite(n), cert[n].term = record[n].old.term
                 PROVE  FALSE
      BY DEF OldLeaseFenced
    <2>1. n \in Nodes /\ cert[n] = auth[n] /\ state[n] = "leader" /\ PastFence(n)
      BY CoordinatorsAssumption DEF CanWrite, CanAdmit, PastFence
    <2>2. cert[n].leader = n
      BY <2>1 DEF HInv, Backed, RoleBacked
    <2> QED
      BY <2>1, <2>2 DEF MInv, OldGone
  <1> QED
    BY <1>1, MovesInvariance, PTL
=============================================================================
