------------------------------ MODULE AutoRole ------------------------------
(***************************************************************************)
(* The write authority of the nodes: AutoRoleController                    *)
(* (src/src/cluster_auto_role.py) in its "auto" mode, the                  *)
(* ControlPlaneAuthority it drives (src/src/cluster_control_contract.py)   *)
(* and the ControlFence in front of every control write                    *)
(* (src/src/cluster_fence.py).                                             *)
(*                                                                         *)
(* The quorum is the lease register of ControlLease, which ClusterQuorum   *)
(* implements.  A takeover or renewal asks the quorum with no lock held,   *)
(* and the answer is consumed later, under the controller's lock, only if  *)
(* no transition happened meanwhile.  The code captures a generation       *)
(* counter and compares it for equality; here current[n] is the set of n's *)
(* calls whose captured generation still is the controller's.              *)
(*                                                                         *)
(* A step of this module is one critical section of the controller's lock. *)
(* Controller, authority and permits live in memory: a crash forgets them. *)
(***************************************************************************)
EXTENDS Naturals, FiniteSets

CONSTANTS
    Nodes,        \* the nodes; each runs a controller
    LeaseMs,      \* the lease duration
    MaxSkew,      \* bound on |clock reading - true time|
    MaxClock,     \* bound on true time
    MaxTerm,      \* bound on the terms the quorum hands out
    MaxEvents,    \* bound on disconnects, reconnects, stops, crashes and installs
    MaxInstalls   \* bound on operators' installs through the API, among them

ASSUME NodesAssumption == 0 \notin Nodes  \* 0 is the leader of no certificate
ASSUME BoundsAssumption ==
    /\ LeaseMs \in Nat \ {0} /\ MaxSkew \in Nat /\ MaxClock \in Nat
    /\ MaxTerm \in Nat /\ MaxEvents \in Nat /\ MaxInstalls \in Nat

VARIABLES
    clock,        \* true time
    granted,      \* certificates the quorum issued
    state,        \* node -> AutoRoleController._state
    cert,         \* node -> AutoRoleController._certificate
    lost,         \* node -> _reconnect_requires_new_quorum
    current,      \* node -> its calls that no transition has outdated
    term,         \* node -> ControlPlaneAuthority._committed_term
    auth,         \* node -> ControlPlaneAuthority._certificate
    takeover,     \* node -> the attempt_takeover in flight
    renewal,      \* node -> the renew_lease of the renewal thread in flight
    losing,       \* node -> an on_quorum_loss that has let go of the lock
    offer,        \* node -> a certificate checked, on its way to be consumed
    permit,       \* node -> the certificate a control write was admitted with
    written,      \* the term of the last control write of the cluster
    events,       \* disconnects, reconnects, stops, crashes and installs so far
    installs      \* operators' installs so far

quorum == <<clock, granted>>
controller == <<state, cert, lost, current>>
authority == <<term, auth>>
threads == <<takeover, renewal, losing, offer>>
bounds == <<events, installs>>
vars == <<quorum, controller, authority, threads, permit, written, bounds>>

NoCert == [term |-> 0, leader |-> 0, lease |-> 0, expires |-> 0]

\* A call with nothing in flight.  While a call is asking, cert is the lease it
\* asks for; once it is answered, the certificate it got (or NoCert).
Idle == [phase |-> "idle", cert |-> NoCert]

NoOffer == [to |-> "none", cert |-> NoCert]

Register == INSTANCE ControlLease

\* The readings of the wall clock a thread may get.
Readings == {t \in 0 .. (clock + MaxSkew) : clock <= t + MaxSkew}

\* The certificate is unexpired on some clock, and on every clock.
MayBeValid(x) == x.expires + MaxSkew > clock
Unexpired(x) == x.expires > clock + MaxSkew

(***************************************************************************)
(* AutoRoleController._transition, and ControlPlaneAuthority.              *)
(***************************************************************************)
\* A transition outdates every call in flight; one to read_only or stopped
\* revokes the controller's certificate, if the authority still holds it.
Transition(n, s) ==
    /\ state' = [state EXCEPT ![n] = s]
    /\ current' = [current EXCEPT ![n] = {}]
    /\ auth' = IF s \in {"read_only", "stopped"} /\ auth[n] = cert[n]
               THEN [auth EXCEPT ![n] = NoCert] ELSE auth
    /\ UNCHANGED <<cert, term>>

\* Mutant: a revoked certificate, or a renewal of its lease, installs again.
InstallRevoked(n, x) ==
    /\ MayBeValid(x)
    /\ x.term >= term[n]
    /\ x.term = term[n] /\ auth[n] # NoCert =>
          /\ x.leader = auth[n].leader /\ x.lease = auth[n].lease
          /\ x.expires > auth[n].expires \/ x = auth[n]

\* install_certificate: terms never go back, a term keeps its lease and only
\* extends it, and a revoked certificate is not installed again.
Supersedes(n, x) ==
    \/ x.term > term[n]
    \/ /\ x.term = term[n]
       /\ auth[n] # NoCert
       /\ x.leader = auth[n].leader /\ x.lease = auth[n].lease
       /\ x.expires > auth[n].expires \/ x = auth[n]

CanInstall(n, x) == MayBeValid(x) /\ Supersedes(n, x)

Install(n, x) ==
    /\ auth' = [auth EXCEPT ![n] = x]
    /\ term' = [term EXCEPT ![n] = x.term]

\* admit_control_write: exactly the current certificate, unexpired.
CanAdmit(n, x) ==
    x # NoCert /\ x = auth[n] /\ x.term >= term[n] /\ MayBeValid(x)

(***************************************************************************)
(* AutoRoleController.consume_certificate and on_quorum_loss.              *)
(***************************************************************************)
\* Mutant: a node that consumes a certificate leads, whoever it names.
ConsumeAsLeader(n, x) ==
    /\ state[n] # "stopped"
    /\ CanInstall(n, x)
    /\ Install(n, x)
    /\ cert' = [cert EXCEPT ![n] = x]
    /\ lost' = [lost EXCEPT ![n] = FALSE]
    /\ state' = [state EXCEPT ![n] = "leader"]
    /\ current' = [current EXCEPT ![n] = {}]

\* Unless the controller is stopped, the certificate is installed and decides
\* the role; the node becomes read-only when the authority refuses it or when
\* the committed prefix cannot be verified.
Consume(n, x) ==
    \/ /\ state[n] = "stopped"
       /\ Transition(n, "stopped")
       /\ UNCHANGED lost
    \/ /\ state[n] # "stopped"
       /\ CanInstall(n, x)
       /\ Install(n, x)
       /\ cert' = [cert EXCEPT ![n] = x]
       /\ lost' = [lost EXCEPT ![n] = FALSE]
       /\ state' = [state EXCEPT ![n] = IF x.leader = n THEN "leader" ELSE "follower"]
       /\ current' = [current EXCEPT ![n] = {}]
    \/ /\ state[n] # "stopped"
       /\ Transition(n, "read_only")
       /\ UNCHANGED lost

\* on_quorum_loss by a thread that holds the lock throughout.
LoseQuorum(n) ==
    /\ lost' = [lost EXCEPT ![n] = TRUE]
    /\ Transition(n, "read_only")

(***************************************************************************)
(* attempt_takeover, from start or from on_reconnect.                      *)
(***************************************************************************)
Ask(n, x) == [phase |-> "asking", cert |-> x]

\* The lease acquire asks for; its term comes with the answer.
Wanted(n, now) == [term |-> 0, leader |-> n, lease |-> 0, expires |-> now + LeaseMs]

\* start: of a new process, or of one whose scheduler was stopped.  Without a
\* voter runtime the node is read-only.
Start(n, now) ==
    /\ takeover[n] = Idle
    /\ state[n] \in {"starting", "stopped"}
    /\ \/ /\ state' = [state EXCEPT ![n] = "starting"]
          /\ takeover' = [takeover EXCEPT ![n] = Ask(n, Wanted(n, now))]
          /\ current' = [current EXCEPT ![n] =
                           IF state[n] = "stopped" THEN {"takeover"} ELSE @ \cup {"takeover"}]
          /\ UNCHANGED <<cert, authority>>
       \/ Transition(n, "read_only") /\ UNCHANGED takeover
    /\ UNCHANGED <<quorum, lost, renewal, losing, offer, permit, written, bounds>>

\* on_reconnect with the available voters, in any state.
AttemptTakeover(n, now) ==
    /\ events < MaxEvents
    /\ events' = events + 1
    /\ takeover[n] = Idle
    /\ \/ /\ state[n] = "stopped"
          /\ Transition(n, "stopped")
          /\ UNCHANGED takeover
       \/ /\ state[n] # "stopped"
          /\ takeover' = [takeover EXCEPT ![n] = Ask(n, Wanted(n, now))]
          /\ current' = [current EXCEPT ![n] = @ \cup {"takeover"}]
          /\ UNCHANGED <<state, cert, authority>>
    /\ UNCHANGED <<quorum, lost, renewal, losing, offer, permit, written, installs>>

\* The quorum answers: a lease of a new term, or nothing.
TakeoverAnswered(n) ==
    /\ takeover[n].phase = "asking"
    /\ \/ \E t \in 1 .. MaxTerm :
             LET x == [term |-> t, leader |-> n, lease |-> t,
                       expires |-> takeover[n].cert.expires]
             IN  /\ \A y \in granted : y.term # t
                 /\ Register!Grant(x)
                 /\ takeover' = [takeover EXCEPT ![n] = [phase |-> "answered", cert |-> x]]
       \/ /\ takeover' = [takeover EXCEPT ![n] = [phase |-> "answered", cert |-> NoCert]]
          /\ UNCHANGED quorum
    /\ UNCHANGED <<controller, authority, renewal, losing, offer, permit, written, bounds>>

\* The answer is applied, unless the role changed since the call began.
TakeoverFinish(n) ==
    /\ takeover[n].phase = "answered"
    /\ \/ /\ "takeover" \notin current[n]
          /\ Transition(n, state[n]) /\ UNCHANGED lost
       \/ /\ "takeover" \in current[n] /\ takeover[n].cert = NoCert
          /\ Transition(n, "read_only") /\ UNCHANGED lost
       \/ /\ "takeover" \in current[n] /\ takeover[n].cert # NoCert
          /\ Consume(n, takeover[n].cert)
    /\ takeover' = [takeover EXCEPT ![n] = Idle]
    /\ UNCHANGED <<quorum, renewal, losing, offer, permit, written, bounds>>

(***************************************************************************)
(* renew_lease, by the renewal thread.                                     *)
(***************************************************************************)
\* The loop looks at the state before it calls renew_lease.
RenewalDue(n) ==
    /\ renewal[n] = Idle
    /\ state[n] = "leader"
    /\ renewal' = [renewal EXCEPT ![n].phase = "due"]
    /\ UNCHANGED <<quorum, controller, authority, takeover, losing, offer,
                   permit, written, bounds>>

\* A leader asks to extend its lease; collector.renew gives up at once when the
\* certificate has expired or would not be extended.
RenewBegin(n, now) ==
    /\ renewal[n].phase = "due"
    /\ \/ /\ state[n] = "leader"
          /\ current' = [current EXCEPT ![n] = @ \cup {"renewal"}]
          /\ renewal' = [renewal EXCEPT ![n] =
                IF cert[n].expires > now /\ now + LeaseMs > cert[n].expires
                THEN Ask(n, [cert[n] EXCEPT !.expires = now + LeaseMs])
                ELSE [phase |-> "answered", cert |-> NoCert]]
          /\ UNCHANGED <<state, cert, authority>>
       \/ /\ state[n] # "leader"
          /\ Transition(n, IF state[n] = "stopped" THEN "stopped" ELSE "read_only")
          /\ renewal' = [renewal EXCEPT ![n] = Idle]
    /\ UNCHANGED <<quorum, lost, takeover, losing, offer, permit, written, bounds>>

RenewAnswered(n) ==
    /\ renewal[n].phase = "asking"
    /\ \/ /\ Register!Grant(renewal[n].cert)
          /\ renewal' = [renewal EXCEPT ![n].phase = "answered"]
       \/ /\ renewal' = [renewal EXCEPT ![n] = [phase |-> "answered", cert |-> NoCert]]
          /\ UNCHANGED quorum
    /\ UNCHANGED <<controller, authority, takeover, losing, offer, permit, written, bounds>>

\* Mutant: a renewal that fails leaves the leader as it is.
RenewFinishKeepsRole(n) ==
    /\ renewal[n].phase = "answered"
    /\ \/ /\ "renewal" \notin current[n] \/ renewal[n].cert = NoCert
          /\ Transition(n, state[n]) /\ UNCHANGED lost
       \/ /\ "renewal" \in current[n] /\ renewal[n].cert # NoCert
          /\ Consume(n, renewal[n].cert)
    /\ renewal' = [renewal EXCEPT ![n] = Idle]
    /\ UNCHANGED <<quorum, takeover, losing, offer, permit, written, bounds>>

\* A renewal the quorum did not grant drops the authority.  (The code's second
\* test, that the certificate is still the one captured, follows from the
\* first: the certificate only changes in a transition.)
RenewFinish(n) ==
    /\ renewal[n].phase = "answered"
    /\ \/ /\ "renewal" \notin current[n]
          /\ Transition(n, state[n]) /\ UNCHANGED lost
       \/ /\ "renewal" \in current[n] /\ renewal[n].cert = NoCert
          /\ LoseQuorum(n)
       \/ /\ "renewal" \in current[n] /\ renewal[n].cert # NoCert
          /\ Consume(n, renewal[n].cert)
    /\ renewal' = [renewal EXCEPT ![n] = Idle]
    /\ UNCHANGED <<quorum, takeover, losing, offer, permit, written, bounds>>

(***************************************************************************)
(* on_quorum_loss and on_disconnect, stop, and certificates from outside.  *)
(***************************************************************************)
\* on_quorum_loss sets its flag in one critical section ...
QuorumLossBegin(n) ==
    /\ events < MaxEvents
    /\ events' = events + 1
    /\ ~losing[n]
    /\ \/ /\ state[n] = "stopped"
          /\ Transition(n, "stopped")
          /\ UNCHANGED <<lost, losing>>
       \/ /\ state[n] # "stopped"
          /\ lost' = [lost EXCEPT ![n] = TRUE]
          /\ losing' = [losing EXCEPT ![n] = TRUE]
          /\ UNCHANGED <<state, cert, current, authority>>
    /\ UNCHANGED <<quorum, takeover, renewal, offer, permit, written, installs>>

\* ... and makes its transition in the next, whatever the state is by then.
QuorumLossEnd(n) ==
    /\ losing[n]
    /\ losing' = [losing EXCEPT ![n] = FALSE]
    /\ Transition(n, "read_only")
    /\ UNCHANGED <<quorum, lost, takeover, renewal, offer, permit, written, bounds>>

Stop(n) ==
    /\ events < MaxEvents
    /\ events' = events + 1
    /\ Transition(n, "stopped")
    /\ UNCHANGED <<quorum, lost, threads, permit, written, installs>>

\* on_reconnect with a certificate the quorum issued: after a loss, it must not
\* be the one last consumed.
ReconnectCheck(n, x) ==
    /\ events < MaxEvents
    /\ events' = events + 1
    /\ offer[n] = NoOffer
    /\ \/ /\ lost[n] /\ cert[n] = x
          /\ Transition(n, "read_only")
          /\ UNCHANGED offer
       \/ /\ ~(lost[n] /\ cert[n] = x)
          /\ offer' = [offer EXCEPT ![n] = [to |-> "controller", cert |-> x]]
          /\ UNCHANGED <<state, cert, current, authority>>
    /\ UNCHANGED <<quorum, lost, takeover, renewal, losing, permit, written, installs>>

ReconnectConsume(n) ==
    /\ offer[n].to = "controller"
    /\ Consume(n, offer[n].cert)
    /\ offer' = [offer EXCEPT ![n] = NoOffer]
    /\ UNCHANGED <<quorum, takeover, renewal, losing, permit, written, bounds>>

\* on_reconnect with neither voters nor a certificate.
ReconnectEmpty(n) ==
    /\ events < MaxEvents
    /\ events' = events + 1
    /\ Transition(n, "read_only")
    /\ UNCHANGED <<quorum, lost, threads, permit, written, installs>>

(***************************************************************************)
(* Control writes.                                                         *)
(***************************************************************************)
CanWrite(n) == state[n] = "leader" /\ CanAdmit(n, cert[n])

\* can_write, the fence's role guard: it passes, or it fails and demotes a
\* leader whose certificate has expired or is not the authority's.
GuardPasses(n) == CanWrite(n) /\ UNCHANGED <<controller, authority>>

GuardFails(n) ==
    \/ /\ state[n] # "leader"
       /\ UNCHANGED <<controller, authority>>
    \/ /\ state[n] = "leader"
       /\ ~(CanAdmit(n, cert[n]) /\ Unexpired(cert[n]))
       /\ LoseQuorum(n)

\* A status poll, or a control request that is refused at the door.
Demote(n) ==
    /\ state[n] = "leader"
    /\ GuardFails(n)
    /\ UNCHANGED <<quorum, threads, permit, written, bounds>>

\* ControlFence.admit_http: the request presents certificate x.
Admit(n, x) ==
    /\ permit[n] = NoCert
    /\ GuardPasses(n)
    /\ CanAdmit(n, x)
    /\ permit' = [permit EXCEPT ![n] = x]
    /\ UNCHANGED <<quorum, threads, written, bounds>>

\* Mutant: the admitted request writes without a second look.
WriteWithoutPermitCheck(n) ==
    /\ permit[n] # NoCert
    /\ permit' = [permit EXCEPT ![n] = NoCert]
    /\ written' = permit[n].term
    /\ UNCHANGED <<quorum, controller, authority, threads, bounds>>

\* require_current_permit, and the write it guards; or its refusal.
Write(n) ==
    /\ permit[n] # NoCert
    /\ permit' = [permit EXCEPT ![n] = NoCert]
    /\ \/ GuardPasses(n) /\ auth[n] = permit[n] /\ written' = permit[n].term
       \/ GuardPasses(n) /\ auth[n] # permit[n] /\ UNCHANGED written
       \/ GuardFails(n) /\ UNCHANGED written
    /\ UNCHANGED <<quorum, threads, bounds>>

\* install_control_plane_certificate: the API checks that the node is master,
\* then installs a certificate the quorum issued straight into the authority.
InstallCheck(n, x) ==
    /\ events < MaxEvents /\ installs < MaxInstalls
    /\ events' = events + 1 /\ installs' = installs + 1
    /\ offer[n] = NoOffer
    /\ GuardPasses(n)
    /\ offer' = [offer EXCEPT ![n] = [to |-> "authority", cert |-> x]]
    /\ UNCHANGED <<quorum, takeover, renewal, losing, permit, written>>

InstallOffered(n) ==
    /\ offer[n].to = "authority"
    /\ offer' = [offer EXCEPT ![n] = NoOffer]
    /\ \/ CanInstall(n, offer[n].cert) /\ Install(n, offer[n].cert)
       \/ ~(CanInstall(n, offer[n].cert) /\ Unexpired(offer[n].cert))
          /\ UNCHANGED authority
    /\ UNCHANGED <<quorum, controller, takeover, renewal, losing, permit, written, bounds>>

(***************************************************************************)
(* The environment, and the specification.                                 *)
(***************************************************************************)
\* The process of node n dies and is restarted.
Crash(n) ==
    /\ events < MaxEvents
    /\ events' = events + 1
    /\ state' = [state EXCEPT ![n] = "starting"]
    /\ cert' = [cert EXCEPT ![n] = NoCert]
    /\ lost' = [lost EXCEPT ![n] = FALSE]
    /\ current' = [current EXCEPT ![n] = {}]
    /\ term' = [term EXCEPT ![n] = 0]
    /\ auth' = [auth EXCEPT ![n] = NoCert]
    /\ takeover' = [takeover EXCEPT ![n] = Idle]
    /\ renewal' = [renewal EXCEPT ![n] = Idle]
    /\ losing' = [losing EXCEPT ![n] = FALSE]
    /\ offer' = [offer EXCEPT ![n] = NoOffer]
    /\ permit' = [permit EXCEPT ![n] = NoCert]
    /\ UNCHANGED <<quorum, written, installs>>

Tick ==
    /\ clock < MaxClock
    /\ Register!Tick
    /\ UNCHANGED <<controller, authority, threads, permit, written, bounds>>

Init ==
    /\ Register!Init
    /\ state = [n \in Nodes |-> "starting"]
    /\ cert = [n \in Nodes |-> NoCert]
    /\ lost = [n \in Nodes |-> FALSE]
    /\ current = [n \in Nodes |-> {}]
    /\ term = [n \in Nodes |-> 0]
    /\ auth = [n \in Nodes |-> NoCert]
    /\ takeover = [n \in Nodes |-> Idle]
    /\ renewal = [n \in Nodes |-> Idle]
    /\ losing = [n \in Nodes |-> FALSE]
    /\ offer = [n \in Nodes |-> NoOffer]
    /\ permit = [n \in Nodes |-> NoCert]
    /\ written = 0
    /\ events = 0
    /\ installs = 0

Serves(n) ==
    \/ \E now \in Readings : Start(n, now)
    \/ \E now \in Readings : AttemptTakeover(n, now)
    \/ TakeoverAnswered(n)
    \/ TakeoverFinish(n)
    \/ RenewalDue(n)
    \/ \E now \in Readings : RenewBegin(n, now)
    \/ RenewAnswered(n)
    \/ RenewFinish(n)
    \/ QuorumLossBegin(n)
    \/ QuorumLossEnd(n)
    \/ Stop(n)
    \/ \E x \in granted : ReconnectCheck(n, x)
    \/ ReconnectConsume(n)
    \/ ReconnectEmpty(n)
    \/ Demote(n)
    \/ \E x \in granted : Admit(n, x)
    \/ Write(n)
    \/ \E x \in granted : InstallCheck(n, x)
    \/ InstallOffered(n)

NodeStep(n) == Serves(n) \/ Crash(n)

Next == Tick \/ \E n \in Nodes : NodeStep(n)

Spec == Init /\ [][Next]_vars

\* The renewal thread runs, and the quorum answers it: every request has a
\* timeout, after which collector.renew returns.
RenewalRuns(n) ==
    \/ RenewalDue(n)
    \/ \E now \in Readings : RenewBegin(n, now)
    \/ RenewAnswered(n)
    \/ RenewFinish(n)

Fairness == \A n \in Nodes : WF_vars(RenewalRuns(n))

FairSpec == Spec /\ Fairness

(***************************************************************************)
(* Properties.                                                             *)
(***************************************************************************)
States == {"starting", "leader", "follower", "read_only", "stopped"}

Certs == [term : 1 .. MaxTerm, leader : Nodes, lease : 1 .. MaxTerm, expires : Nat]

\* Certificates, the lease a call asks for, and NoCert.
MaybeCert ==
    [term : 0 .. MaxTerm, leader : Nodes \cup {0}, lease : 0 .. MaxTerm, expires : Nat]

\* The types of the variables.
TypeOK ==
    /\ clock \in 0 .. MaxClock
    /\ granted \subseteq Certs
    /\ state \in [Nodes -> States]
    /\ cert \in [Nodes -> MaybeCert]
    /\ lost \in [Nodes -> BOOLEAN]
    /\ current \in [Nodes -> SUBSET {"takeover", "renewal"}]
    /\ term \in [Nodes -> 0 .. MaxTerm]
    /\ auth \in [Nodes -> MaybeCert]
    /\ takeover \in [Nodes -> [phase : {"idle", "asking", "answered"}, cert : MaybeCert]]
    /\ renewal \in [Nodes -> [phase : {"idle", "due", "asking", "answered"}, cert : MaybeCert]]
    /\ losing \in [Nodes -> BOOLEAN]
    /\ offer \in [Nodes -> [to : {"none", "controller", "authority"}, cert : MaybeCert]]
    /\ permit \in [Nodes -> MaybeCert]
    /\ written \in 0 .. MaxTerm
    /\ events \in 0 .. MaxEvents
    /\ installs \in 0 .. MaxInstalls

\* At most one node has write authority (can_write), as far as certificates
\* that no clock sees as expired go.
SingleWriter ==
    \A m, n \in Nodes :
        CanWrite(m) /\ CanWrite(n) /\ Unexpired(cert[m]) /\ Unexpired(cert[n]) => m = n

\* At most one node has write authority by its own clock.
NoSplitBrain == \A m, n \in Nodes : CanWrite(m) /\ CanWrite(n) => m = n

\* The writes of the cluster never go back to an older leader: a permit that
\* was admitted under a lease that another leader has since taken over does
\* not write, however late it comes.
WritesNeverGoBack == [][written' >= written]_vars

\* A node that is neither leader nor follower has no certificate installed, so
\* that a certificate it held does not become usable again by itself.
FencedMeansRevoked ==
    \A n \in Nodes : state[n] \notin {"leader", "follower"} => auth[n] = NoCert

\* A node that was not leader becomes leader only with a larger term than any
\* it has installed before, whichever late answer or replayed certificate it is
\* given.
RegainNeedsNewTerm ==
    [][\A n \in Nodes :
          state[n] # "leader" /\ state'[n] = "leader" => cert'[n].term > term[n]]_vars

\* A stopped controller leaves that state only when it is started or reconnected
\* or its process restarts: a loss that is noticed late leaves it stopped.
StoppedStaysStopped ==
    [][\A n \in Nodes :
          state[n] = "stopped" /\ state'[n] # "stopped" =>
             \/ \E now \in Readings : Start(n, now)
             \/ Crash(n) \/ ReconnectEmpty(n)
             \/ \E x \in granted : ReconnectCheck(n, x)]_vars

\* A leader whose lease has run out does not stay leader, even if nobody asks
\* it to write: its renewal thread finds out.
StaleLeader(n) == state[n] = "leader" /\ ~MayBeValid(cert[n])

ExpiryNoticed == \A n \in Nodes : []<>~StaleLeader(n)

(***************************************************************************)
(* The inductive invariant.                                                *)
(***************************************************************************)
\* A call asks for a well-formed lease, and what it was answered is granted.
CallsBacked ==
    \A n \in Nodes :
        /\ takeover[n].phase = "asking" =>
              takeover[n].cert \in [term : {0}, leader : {n}, lease : {0}, expires : Nat]
        /\ renewal[n].phase = "asking" => renewal[n].cert \in Certs
        /\ takeover[n].phase = "answered" => takeover[n].cert \in granted \cup {NoCert}
        /\ renewal[n].phase = "answered" => renewal[n].cert \in granted \cup {NoCert}

\* Every certificate a node holds was granted, and the role it has is the one
\* its certificate gives it.
RoleBacked ==
    \A n \in Nodes :
        /\ cert[n] \in granted \cup {NoCert} /\ auth[n] \in granted \cup {NoCert}
        /\ state[n] = "leader" => cert[n] \in granted /\ cert[n].leader = n
        /\ state[n] = "follower" => cert[n] \in granted /\ cert[n].leader # n
        /\ auth[n] # NoCert => auth[n].term = term[n]

\* So was every certificate on its way, and every permit's.
HandsBacked ==
    \A n \in Nodes :
        /\ permit[n] \in granted \cup {NoCert}
        /\ offer[n].to # "none" => offer[n].cert \in granted

\* The register: unexpired certificates belong to one lease.
GrantedExclusive ==
    \A x, y \in granted : Unexpired(x) /\ Unexpired(y) => Register!SameLease(x, y)

\* With exact clocks, no write was made with a later term than an unexpired
\* lease has.
WritesBacked ==
    MaxSkew = 0 =>
        /\ written = 0 \/ \E y \in granted : y.term = written
        /\ \A x \in granted : Unexpired(x) => written <= x.term

\* Whatever a node holds was granted by the quorum: what every step preserves, an operator's
\* handoff included.
Backed ==
    /\ TypeOK
    /\ CallsBacked
    /\ RoleBacked
    /\ HandsBacked
    /\ GrantedExclusive
    /\ WritesBacked

\* Until an operator installs a certificate, the authority holds what the controller does,
\* and nothing once the node is fenced.
AuthorityFollows ==
    installs = 0 =>
        \A n \in Nodes :
            /\ offer[n].to # "authority"
            /\ auth[n] \in {NoCert, cert[n]}
            /\ state[n] \notin {"leader", "follower"} => auth[n] = NoCert

\* The invariant that every step preserves and the properties follow from.
IInv == Backed /\ AuthorityFollows
=============================================================================
