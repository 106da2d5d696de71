--------------------------- MODULE ClusterQuorum ---------------------------
(***************************************************************************)
(* The lease election of the control plane (src/src/cluster_quorum.py).    *)
(*                                                                         *)
(* Every voter keeps a durable ledger: the term it promised to a leader,   *)
(* one vote per term, and the certificate it regards as active.  A call of *)
(* QuorumCollector.acquire or .renew visits the voters one at a time, in   *)
(* sorted order, in up to four rounds: reserve_term, prepare, sign_vote    *)
(* and commit_certificate.  The rounds of different calls interleave.      *)
(*                                                                         *)
(* The collector reads the clock once, at the start of a call, and sends   *)
(* that reading with every request; a voter decides with the reading it is *)
(* sent and never with its own clock.  Readings may differ from true time  *)
(* by at most MaxSkew.                                                     *)
(*                                                                         *)
(* A remote voter is reached over HTTP with a timeout: a request the       *)
(* collector gave up on may be lost, or executed by the voter at any later *)
(* moment ("late").  A voter executes a request in one SQLite transaction, *)
(* so a voter that crashes is a voter whose requests time out.             *)
(***************************************************************************)
EXTENDS Naturals, FiniteSets

CONSTANTS
    Voters,       \* the voter ids of the voter set, in their sorted order
    Candidates,   \* the voters some call tries to make leader
    Calls,        \* the threads that run acquire or renew
    LeaseMs,      \* QuorumPolicy.lease_duration_ms
    MaxSkew,      \* bound on |clock reading - true time|
    MaxClock,     \* bound on true time
    MaxLeases,    \* bound on the number of acquire calls
    MaxFaults     \* bound on the number of timeouts and collector crashes

ASSUME VotersAssumption == Voters \subseteq Nat \ {0} /\ IsFiniteSet(Voters)
ASSUME CandidatesAssumption == Candidates \subseteq Voters
ASSUME BoundsAssumption ==
    /\ LeaseMs \in Nat \ {0}
    /\ MaxSkew \in Nat /\ MaxClock \in Nat
    /\ MaxLeases \in Nat /\ MaxFaults \in Nat

VARIABLES
    clock,        \* true time
    promised,     \* voter -> durable promise (promised_term, promised_leader)
    votes,        \* rows of quorum_votes, of all the voters
    active,       \* voter -> durable active certificate (active_* columns)
    call,         \* thread -> the acquire or renew it is running
    late,         \* requests the collector gave up on, still in flight
    leases,       \* lease ids drawn so far
    faults,       \* timeouts and crashes so far
    issued        \* certificates returned to a caller as accepted

vars == <<clock, promised, votes, active, call, late, leases, faults, issued>>

ledger == <<promised, votes, active>>

(***************************************************************************)
(* Data.                                                                   *)
(***************************************************************************)
NoLeader == 0

\* Mutant: half of the voters instead of a strict majority.
QuorumOfHalf == Cardinality(Voters) \div 2

quorum_size == Cardinality(Voters) \div 2 + 1

election_allowed == Cardinality(Voters) >= 3

NoCertificate == [term |-> 0, leader |-> NoLeader, lease |-> 0, expires |-> 0]

Ops == {"reserve_term", "prepare", "sign_vote", "commit_certificate"}

Idle == [op |-> "idle", leader |-> NoLeader, term |-> 0, lease |-> 0,
         expires |-> 0, now |-> 0, todo |-> {}, got |-> {}, signers |-> {}]

\* The readings of the wall clock a thread may get at true time clock.
Readings == {t \in 0 .. (clock + MaxSkew) : clock <= t + MaxSkew}

\* Two rows speak of the same lease.
SameLease(x, y) == x.term = y.term /\ x.leader = y.leader /\ x.lease = y.lease

\* The request a call sends to voter v in its current round.
Request(c, v) ==
    [op |-> call[c].op, voter |-> v, leader |-> call[c].leader,
     term |-> call[c].term, lease |-> call[c].lease,
     expires |-> call[c].expires, now |-> call[c].now,
     signers |-> call[c].signers]

\* The row voter r.voter keeps in quorum_votes once it has signed request r;
\* its signature column is determined by the row.
VoteRow(r) == [voter |-> r.voter, term |-> r.term, leader |-> r.leader,
               lease |-> r.lease, expires |-> r.expires]

Certificate(r) == [term |-> r.term, leader |-> r.leader, lease |-> r.lease,
                   expires |-> r.expires]

SignedCertificate(k) == [term |-> k.term, leader |-> k.leader, lease |-> k.lease,
                         expires |-> k.expires, signers |-> k.signers]

(***************************************************************************)
(* SQLiteVoterLedger: when each operation is granted, and what it writes.  *)
(***************************************************************************)
CanReserve(r) == active[r.voter].expires <= r.now

ReserveTerm(r) ==
    LET p == promised[r.voter].term
        a == active[r.voter].term
    IN  /\ promised' = [promised EXCEPT ![r.voter] =
                          [term |-> (IF p >= a THEN p ELSE a) + 1,
                           leader |-> r.leader]]
        /\ UNCHANGED <<votes, active>>

CanPrepare(r) ==
    /\ active[r.voter].expires > r.now => r.term <= active[r.voter].term
    /\ r.term >= promised[r.voter].term
    /\ r.term = promised[r.voter].term =>
          promised[r.voter].leader \in {NoLeader, r.leader}

Prepare(r) ==
    /\ promised' = [promised EXCEPT ![r.voter] =
                      [term |-> r.term, leader |-> r.leader]]
    /\ UNCHANGED <<votes, active>>

\* Mutant: an existing vote of the term is not looked up.
SignWithoutVoteLookup(r) ==
    /\ r.expires > r.now
    /\ promised[r.voter].term = r.term
    /\ promised[r.voter].leader = r.leader
    /\ active[r.voter].expires > r.now => SameLease(active[r.voter], r)

CanSign(r) ==
    /\ r.expires > r.now
    /\ promised[r.voter].term = r.term
    /\ promised[r.voter].leader = r.leader
    /\ active[r.voter].expires > r.now => SameLease(active[r.voter], r)
    /\ \A w \in votes : w.voter = r.voter /\ w.term = r.term =>
          SameLease(w, r) /\ w.expires <= r.expires

SignVote(r) ==
    /\ votes' = {w \in votes : w.voter # r.voter \/ w.term # r.term}
                  \cup {VoteRow(r)}
    /\ UNCHANGED <<promised, active>>

\* validate_certificate: not expired, known leader, a majority of signatures.
validate_certificate(r) ==
    /\ r.leader \in Voters
    /\ r.expires > r.now
    /\ r.signers \subseteq Voters
    /\ Cardinality(r.signers) >= quorum_size

\* Mutant: the durable vote is not compared with the certificate.
CommitWithoutVote(r) ==
    /\ validate_certificate(r)
    /\ r.voter \in r.signers
    /\ active[r.voter].expires > r.now => SameLease(active[r.voter], r)
    /\ r.term >= active[r.voter].term

\* Mutant: an unexpired lease of another call may be replaced.
CommitOverActive(r) ==
    /\ validate_certificate(r)
    /\ r.voter \in r.signers
    /\ VoteRow(r) \in votes
    /\ r.term >= active[r.voter].term

\* Mutant: neither the active lease nor its term is compared.
CommitUnchecked(r) ==
    /\ validate_certificate(r)
    /\ r.voter \in r.signers
    /\ VoteRow(r) \in votes

CanCommit(r) ==
    /\ validate_certificate(r)
    /\ r.voter \in r.signers
    /\ VoteRow(r) \in votes
    /\ active[r.voter].expires > r.now => SameLease(active[r.voter], r)
    /\ r.term >= active[r.voter].term

CommitCertificate(r) ==
    /\ active' = [active EXCEPT ![r.voter] = Certificate(r)]
    /\ UNCHANGED <<promised, votes>>

Granted(r) ==
    \/ r.op = "reserve_term" /\ CanReserve(r)
    \/ r.op = "prepare" /\ CanPrepare(r)
    \/ r.op = "sign_vote" /\ CanSign(r)
    \/ r.op = "commit_certificate" /\ CanCommit(r)

Execute(r) ==
    \/ r.op = "reserve_term" /\ ReserveTerm(r)
    \/ r.op = "prepare" /\ Prepare(r)
    \/ r.op = "sign_vote" /\ SignVote(r)
    \/ r.op = "commit_certificate" /\ CommitCertificate(r)

(***************************************************************************)
(* QuorumCollector: the calls.                                             *)
(***************************************************************************)
\* acquire: blocked unless a third voter is configured.
AcquireBegin(c, leader, now) ==
    /\ call[c].op = "idle"
    /\ election_allowed
    /\ leases < MaxLeases
    /\ leases' = leases + 1
    /\ call' = [call EXCEPT ![c] =
                  [Idle EXCEPT !.op = "reserve_term", !.leader = leader,
                               !.lease = leases + 1, !.now = now,
                               !.expires = now + LeaseMs, !.todo = Voters]]
    /\ UNCHANGED <<clock, ledger, late, issued, faults>>

\* Mutant: renewal adds a lease duration to the old expiry.
RenewFromExpiry(c, cert, now) ==
    /\ call[c].op = "idle"
    /\ election_allowed
    /\ cert.expires > now
    /\ now + LeaseMs > cert.expires
    /\ call' = [call EXCEPT ![c] =
                  [Idle EXCEPT !.op = "prepare", !.leader = cert.leader,
                               !.term = cert.term, !.lease = cert.lease,
                               !.now = now, !.expires = cert.expires + LeaseMs,
                               !.todo = Voters]]
    /\ UNCHANGED <<clock, ledger, late, leases, issued, faults>>

\* renew: the certificate must still be valid, and its expiry must move forward.
RenewBegin(c, cert, now) ==
    /\ call[c].op = "idle"
    /\ election_allowed
    /\ cert.expires > now
    /\ now + LeaseMs > cert.expires
    /\ call' = [call EXCEPT ![c] =
                  [Idle EXCEPT !.op = "prepare", !.leader = cert.leader,
                               !.term = cert.term, !.lease = cert.lease,
                               !.now = now, !.expires = now + LeaseMs,
                               !.todo = Voters]]
    /\ UNCHANGED <<clock, ledger, late, leases, issued, faults>>

\* The voters of a round are visited in sorted order.
NextVoter(c, v) ==
    /\ call[c].op \in Ops
    /\ v \in call[c].todo
    /\ \A w \in call[c].todo : v <= w

\* Voter v executes the request and its answer arrives in time.  The term of
\* an acquire is the largest term a voter reserved for it.
Answered(c, v) ==
    /\ NextVoter(c, v)
    /\ Granted(Request(c, v))
    /\ Execute(Request(c, v))
    /\ call' = [call EXCEPT
                  ![c].todo = @ \ {v},
                  ![c].got  = @ \cup {v},
                  ![c].term = IF call[c].op = "reserve_term" /\ promised'[v].term > @
                              THEN promised'[v].term ELSE @]
    /\ UNCHANGED <<clock, late, leases, issued, faults>>

\* What a failed request does to the call: a failed commit ends it, any other
\* failure only loses that voter.
Skipped(c, v) ==
    IF call[c].op = "commit_certificate" THEN Idle
    ELSE [call[c] EXCEPT !.todo = @ \ {v}]

Refused(c, v) ==
    /\ NextVoter(c, v)
    /\ ~Granted(Request(c, v))
    /\ call' = [call EXCEPT ![c] = Skipped(c, v)]
    /\ UNCHANGED <<clock, ledger, late, leases, issued, faults>>

\* No answer in time: the request is lost or stays in flight.
TimedOut(c, v) ==
    /\ NextVoter(c, v)
    /\ faults < MaxFaults
    /\ faults' = faults + 1
    /\ late' = late \cup {Request(c, v)}
    /\ call' = [call EXCEPT ![c] = Skipped(c, v)]
    /\ UNCHANGED <<clock, ledger, leases, issued>>

\* A request in flight reaches its voter, whose answer nobody reads, or is lost.
LateArrival(r) ==
    /\ r \in late
    /\ late' = late \ {r}
    /\ \/ Granted(r) /\ Execute(r)
       \/ UNCHANGED ledger
    /\ UNCHANGED <<clock, call, leases, issued, faults>>

RoundOver(c) == call[c].op # "idle" /\ call[c].todo = {}

\* A round without a majority ends the call.
NoQuorum(c) ==
    /\ RoundOver(c)
    /\ call[c].op # "commit_certificate"
    /\ Cardinality(call[c].got) < quorum_size
    /\ call' = [call EXCEPT ![c] = Idle]
    /\ UNCHANGED <<clock, ledger, late, leases, issued, faults>>

\* A majority reserved a term: prepare visits every voter with the largest.
PrepareRound(c) ==
    /\ RoundOver(c)
    /\ call[c].op = "reserve_term"
    /\ Cardinality(call[c].got) >= quorum_size
    /\ call' = [call EXCEPT ![c].op = "prepare", ![c].todo = Voters, ![c].got = {}]
    /\ UNCHANGED <<clock, ledger, late, leases, issued, faults>>

\* A majority prepared: those voters are asked to sign.
SignRound(c) ==
    /\ RoundOver(c)
    /\ call[c].op = "prepare"
    /\ Cardinality(call[c].got) >= quorum_size
    /\ call' = [call EXCEPT ![c].op = "sign_vote", ![c].todo = call[c].got,
                            ![c].got = {}]
    /\ UNCHANGED <<clock, ledger, late, leases, issued, faults>>

\* A majority signed: the signers are asked to commit the certificate.
CommitRound(c) ==
    /\ RoundOver(c)
    /\ call[c].op = "sign_vote"
    /\ Cardinality(call[c].got) >= quorum_size
    /\ call' = [call EXCEPT ![c].op = "commit_certificate", ![c].todo = call[c].got,
                            ![c].signers = call[c].got, ![c].got = {}]
    /\ UNCHANGED <<clock, ledger, late, leases, issued, faults>>

\* Every signer committed: the certificate is handed to the caller.
Accepted(c) ==
    /\ RoundOver(c)
    /\ call[c].op = "commit_certificate"
    /\ issued' = issued \cup {SignedCertificate(call[c])}
    /\ call' = [call EXCEPT ![c] = Idle]
    /\ UNCHANGED <<clock, ledger, late, leases, faults>>

\* The collector's process dies during a call.
Crash(c) ==
    /\ call[c].op # "idle"
    /\ faults < MaxFaults
    /\ faults' = faults + 1
    /\ call' = [call EXCEPT ![c] = Idle]
    /\ UNCHANGED <<clock, ledger, late, leases, issued>>

Tick ==
    /\ clock < MaxClock
    /\ clock' = clock + 1
    /\ UNCHANGED <<ledger, call, late, leases, issued, faults>>

Init ==
    /\ clock = 0
    /\ promised = [v \in Voters |-> [term |-> 0, leader |-> NoLeader]]
    /\ votes = {}
    /\ active = [v \in Voters |-> NoCertificate]
    /\ call = [c \in Calls |-> Idle]
    /\ late = {}
    /\ leases = 0
    /\ faults = 0
    /\ issued = {}


Next ==
    \/ \E c \in Calls :
          \/ \E leader \in Candidates, now \in Readings : AcquireBegin(c, leader, now)
          \/ \E cert \in issued, now \in Readings : RenewBegin(c, cert, now)
          \/ \E v \in Voters : Answered(c, v)
          \/ \E v \in Voters : Refused(c, v)
          \/ \E v \in Voters : TimedOut(c, v)
          \/ NoQuorum(c)
          \/ PrepareRound(c)
          \/ SignRound(c)
          \/ CommitRound(c)
          \/ Accepted(c)
          \/ Crash(c)
    \/ \E r \in late : LateArrival(r)
    \/ Tick

Spec == Init /\ [][Next]_vars

(***************************************************************************)
(* Properties.                                                             *)
(***************************************************************************)
Leases == 0 .. MaxLeases

Requests ==
    [op : Ops, voter : Voters, leader : Candidates, term : Nat, lease : Leases,
     expires : Nat, now : Nat, signers : SUBSET Voters]

CallRecords ==
    [op : Ops \cup {"idle"}, leader : Candidates \cup {NoLeader}, term : Nat,
     lease : Leases, expires : Nat, now : Nat, todo : SUBSET Voters,
     got : SUBSET Voters, signers : SUBSET Voters]

\* The types of the ledgers, the calls, the requests in flight and the
\* certificates.
TypeOK ==
    /\ clock \in 0 .. MaxClock
    /\ promised \in [Voters -> [term : Nat, leader : Candidates \cup {NoLeader}]]
    /\ votes \subseteq [voter : Voters, term : Nat, leader : Candidates,
                        lease : Leases, expires : Nat]
    /\ active \in [Voters -> [term : Nat, leader : Candidates \cup {NoLeader},
                              lease : Leases, expires : Nat]]
    /\ call \in [Calls -> CallRecords]
    /\ \A c \in Calls : call[c].op # "idle" => call[c].leader \in Candidates
    /\ late \subseteq Requests
    /\ leases \in Leases
    /\ faults \in 0 .. MaxFaults
    /\ issued \subseteq [term : Nat, leader : Candidates, lease : Leases,
                         expires : Nat, signers : SUBSET Voters]

\* x is past its expiry on no clock of the cluster.
Unexpired(x) == x.expires > clock + MaxSkew

\* Mutual exclusion of leases: two certificates that acquire or renew returned
\* as accepted and that are unexpired belong to the same lease, whatever the
\* interleaving of competing calls, timeouts and late requests.
LeaseExclusive ==
    \A x, y \in issued : Unexpired(x) /\ Unexpired(y) => SameLease(x, y)

\* A term names one lease: no two accepted certificates of one term differ in
\* leader or lease id, expired or not (sign_vote's duplicate-vote check).
OneLeasePerTerm ==
    \A x, y \in issued : x.term = y.term => SameLease(x, y)

\* While an accepted certificate is unexpired, every voter that signed it still
\* has its lease as the active one, for at least as long: no later commit, of
\* a competing call or of a request that arrives late, takes it away.
IssuedBacked ==
    \A x \in issued : Unexpired(x) =>
        \A v \in x.signers :
            SameLease(active[v], x) /\ active[v].expires >= x.expires

\* A voter is never locked for longer than one lease: the certificate of a call
\* that failed half-way through its commits (and that nobody holds) stops
\* reserve_term for at most LeaseMs after the reading it was made with.
BoundedLockout ==
    \A v \in Voters : active[v].expires <= clock + MaxSkew + LeaseMs

\* A certificate that is accepted before it expires carries the largest term
\* accepted so far, so that ControlPlaneAuthority's term comparison orders
\* leaders by the order in which they obtained their leases.
FreshTermsGrow ==
    [][\A x \in issued' \ issued :
          Unexpired(x) => \A y \in issued : y.term <= x.term]_vars

\* The durable vote of a voter in a term never changes leader or lease, and its
\* expiry never moves back, across renewals, duplicates and late requests.
VoteIsFinal ==
    [][\A w \in votes : \E x \in votes' :
          x.voter = w.voter /\ SameLease(x, w) /\ x.expires >= w.expires]_vars

\* acquire and renew implement the lease register: every certificate they
\* return is one the register may grant at that moment.
Lease == INSTANCE ControlLease WITH granted <- issued

LeaseRegister == Lease!Spec

(***************************************************************************)
(* The inductive invariant.  Voted and Committed say what a voter's ledger *)
(* must show for a signature and for a commit that a call has collected;   *)
(* they take the ledger as a parameter.                                    *)
(***************************************************************************)
\* Voter v's vote in x's term is for x's lease and lasts at least as long.
Voted(rows, v, x) ==
    \E w \in rows : w.voter = v /\ SameLease(w, x) /\ w.expires >= x.expires

\* A ledger whose active certificate is a has not gone back behind x, and still
\* holds x's lease if x is unexpired at time t.
Committed(a, t, x) ==
    /\ a.term >= x.term
    /\ x.expires > t + MaxSkew => SameLease(a, x) /\ a.expires >= x.expires

\* A voter has at most one vote row per term.
VoteKey == \A w, x \in votes : w.voter = x.voter /\ w.term = x.term => w = x

\* A request carries a reading that true time has reached.
Dated(k, t) == k.now <= t + MaxSkew /\ k.expires <= t + MaxSkew + LeaseMs

RequestsDated ==
    /\ \A c \in Calls : Dated(call[c], clock)
    /\ \A r \in late : Dated(r, clock)

\* The answers a call has counted are still borne out by the ledgers.
CallEvidence ==
    \A c \in Calls :
        /\ call[c].op = "sign_vote" =>
              \A v \in call[c].got : Voted(votes, v, call[c])
        /\ call[c].op = "commit_certificate" =>
              /\ Cardinality(call[c].signers) >= quorum_size
              /\ \A v \in call[c].signers :
                    /\ Voted(votes, v, call[c])
                    /\ v \in call[c].todo \/ Committed(active[v], clock, call[c])

IssuedEvidence ==
    \A x \in issued :
        /\ Cardinality(x.signers) >= quorum_size
        /\ \A v \in x.signers :
              Voted(votes, v, x) /\ Committed(active[v], clock, x)

\* The invariant that is preserved by every step and implies the properties.
IInv ==
    /\ TypeOK
    /\ VoteKey
    /\ RequestsDated
    /\ CallEvidence
    /\ IssuedEvidence
    /\ BoundedLockout
=============================================================================
