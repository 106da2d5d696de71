------------------------ MODULE ClusterQuorumProofs ------------------------
(***************************************************************************)
(* Proofs about ClusterQuorum: IInv is inductive; the safety properties of *)
(* the lease election follow from it, for every voter set, every number of *)
(* concurrent calls, every lease duration and every clock skew.            *)
(***************************************************************************)
EXTENDS ClusterQuorum, FiniteSetTheorems, TLAPS

\* Two sets of voters that both reach quorum_size share a voter.
LEMMA QuorumsIntersect ==
    ASSUME NEW S \in SUBSET Voters, NEW T \in SUBSET Voters,
           Cardinality(S) >= quorum_size, Cardinality(T) >= quorum_size
    PROVE  \E v \in Voters : v \in S /\ v \in T
<1>1. IsFiniteSet(S) /\ IsFiniteSet(T) /\ IsFiniteSet(Voters)
  BY VotersAssumption, FS_Subset
<1>2. /\ Cardinality(S) \in Nat /\ Cardinality(T) \in Nat
      /\ Cardinality(Voters) \in Nat
  BY <1>1, FS_CardinalityType
<1>3. Cardinality(S) + Cardinality(T) > Cardinality(Voters)
  BY <1>2 DEF quorum_size
<1>4. S \cap T # {}
  BY <1>1, <1>3, FS_MajoritiesIntersect
<1>. QED  BY <1>4

\* One granted request of a voter, in time or late: the ledgers keep their
\* types and one row per term; no vote that was counted is taken back, and no
\* commit that was counted is displaced before it expires.
LEMMA ExecuteStep ==
    ASSUME TypeOK, VoteKey, BoundedLockout,
           NEW r \in Requests, Dated(r, clock), Granted(r), Execute(r)
    PROVE  /\ promised' \in [Voters -> [term : Nat, leader : Candidates \cup {NoLeader}]]
           /\ votes' \subseteq [voter : Voters, term : Nat, leader : Candidates,
                                lease : Leases, expires : Nat]
           /\ active' \in [Voters -> [term : Nat, leader : Candidates \cup {NoLeader},
                                      lease : Leases, expires : Nat]]
           /\ \A w, x \in votes' : w.voter = x.voter /\ w.term = x.term => w = x
           /\ \A v \in Voters : active'[v].expires <= clock + MaxSkew + LeaseMs
           /\ \A v, x : x.expires \in Nat /\ Voted(votes, v, x) => Voted(votes', v, x)
           /\ \A v \in Voters : \A x :
                 /\ x.term \in Nat /\ x.expires \in Nat
                 /\ Voted(votes, v, x) /\ Committed(active[v], clock, x)
                 => Committed(active'[v], clock, x)
<1>. USE DEF Requests, Dated
<1>1. CASE r.op = "reserve_term"
  <2>1. votes' = votes /\ active' = active
    BY <1>1 DEF Execute, ReserveTerm
  <2>2. promised' \in [Voters -> [term : Nat, leader : Candidates \cup {NoLeader}]]
    BY <1>1 DEF Execute, ReserveTerm, TypeOK
  <2>. QED  BY <2>1, <2>2 DEF TypeOK, VoteKey, BoundedLockout
<1>2. CASE r.op = "prepare"
  <2>1. votes' = votes /\ active' = active
    BY <1>2 DEF Execute, Prepare
  <2>2. promised' \in [Voters -> [term : Nat, leader : Candidates \cup {NoLeader}]]
    BY <1>2 DEF Execute, Prepare, TypeOK
  <2>. QED  BY <2>1, <2>2 DEF TypeOK, VoteKey, BoundedLockout
<1>3. CASE r.op = "sign_vote"
  <2>1. /\ promised' = promised /\ active' = active
        /\ votes' = {w \in votes : w.voter # r.voter \/ w.term # r.term}
                      \cup {VoteRow(r)}
    BY <1>3 DEF Execute, SignVote
  <2>2. \A w \in votes : w.voter = r.voter /\ w.term = r.term =>
           SameLease(w, r) /\ w.expires <= r.expires
    BY <1>3 DEF Granted, CanSign
  <2>3. votes' \subseteq [voter : Voters, term : Nat, leader : Candidates,
                          lease : Leases, expires : Nat]
    BY <2>1 DEF TypeOK, VoteRow
  <2>4. \A w, x \in votes' : w.voter = x.voter /\ w.term = x.term => w = x
    BY <2>1 DEF VoteKey, VoteRow
  <2>5. ASSUME NEW v, NEW x, x.expires \in Nat, Voted(votes, v, x)
        PROVE  Voted(votes', v, x)
    <3>1. PICK w \in votes : w.voter = v /\ SameLease(w, x) /\ w.expires >= x.expires
      BY <2>5 DEF Voted
    <3>2. CASE w.voter # r.voter \/ w.term # r.term
      BY <3>1, <3>2, <2>1 DEF Voted
    <3>3. CASE w.voter = r.voter /\ w.term = r.term
      <4>1. SameLease(w, r) /\ w.expires <= r.expires
        BY <2>2, <3>3
      <4>2. VoteRow(r) \in votes' /\ w.expires \in Nat
        BY <2>1 DEF TypeOK
      <4>3. /\ VoteRow(r).voter = v /\ SameLease(VoteRow(r), x)
            /\ VoteRow(r).expires = r.expires
        BY <3>1, <3>3, <4>1 DEF VoteRow, SameLease
      <4>. QED  BY <4>1, <4>2, <4>3, <3>1, <2>5 DEF Voted
    <3>. QED  BY <3>2, <3>3
  <2>. QED  BY <2>1, <2>3, <2>4, <2>5 DEF TypeOK, BoundedLockout
<1>4. CASE r.op = "commit_certificate"
  <2>1. /\ promised' = promised /\ votes' = votes
        /\ active' = [active EXCEPT ![r.voter] = Certificate(r)]
    BY <1>4 DEF Execute, CommitCertificate
  <2>2. active' \in [Voters -> [term : Nat, leader : Candidates \cup {NoLeader},
                                lease : Leases, expires : Nat]]
    BY <2>1 DEF TypeOK, Certificate
  <2>3. \A v \in Voters : active'[v].expires <= clock + MaxSkew + LeaseMs
    BY <2>1 DEF TypeOK, BoundedLockout, Certificate
  <2>4. ASSUME NEW v \in Voters, NEW x, x.term \in Nat, x.expires \in Nat,
               Voted(votes, v, x), Committed(active[v], clock, x)
        PROVE  Committed(active'[v], clock, x)
    <3>1. CASE v # r.voter
      BY <3>1, <2>1, <2>4 DEF TypeOK
    <3>2. CASE v = r.voter
      <4>1. /\ VoteRow(r) \in votes
            /\ active[v].expires > r.now => SameLease(active[v], r)
            /\ r.term >= active[v].term
        BY <1>4, <3>2 DEF Granted, CanCommit
      <4>2. active'[v] = Certificate(r) /\ active[v].term \in Nat /\ active[v].expires \in Nat
        BY <2>1, <3>2 DEF TypeOK
      <4>3. r.term >= x.term
        BY <4>1, <4>2, <2>4 DEF Committed
      <4>4. ASSUME x.expires > clock + MaxSkew
            PROVE  SameLease(r, x) /\ r.expires >= x.expires
        <5>1. SameLease(active[v], x) /\ active[v].expires >= x.expires
          BY <4>4, <2>4 DEF Committed
        <5>2. active[v].expires > r.now
          BY <5>1, <4>4, <4>2, <2>4, BoundsAssumption DEF TypeOK
        <5>3. SameLease(r, x)
          BY <5>1, <5>2, <4>1 DEF SameLease
        <5>4. PICK w \in votes : w.voter = v /\ SameLease(w, x) /\ w.expires >= x.expires
          BY <2>4 DEF Voted
        <5>5. w = VoteRow(r)
          BY <5>3, <5>4, <4>1, <3>2 DEF VoteKey, VoteRow, SameLease
        <5>. QED  BY <5>3, <5>4, <5>5 DEF VoteRow
      <4>. QED  BY <4>2, <4>3, <4>4 DEF Committed, Certificate, SameLease
    <3>. QED  BY <3>1, <3>2
  <2>. QED  BY <2>1, <2>2, <2>3, <2>4 DEF TypeOK, VoteKey
<1>. QED  BY <1>1, <1>2, <1>3, <1>4 DEF Ops

\* Idle is a value every call may take.
LEMMA IdleTyped ==
    /\ Idle \in CallRecords
    /\ Idle.op = "idle"
    /\ \A t \in Nat : Dated(Idle, t)
BY BoundsAssumption DEF Idle, CallRecords, Leases, Dated, NoLeader

\* The initial ledgers are empty and no call runs.
LEMMA InitIInv == Init => IInv
<1>. SUFFICES ASSUME Init PROVE IInv
  OBVIOUS
<1>. USE BoundsAssumption DEF Init
<1>1. TypeOK
  BY IdleTyped DEF TypeOK, NoCertificate, Leases
<1>2. VoteKey /\ IssuedEvidence
  BY DEF VoteKey, IssuedEvidence
<1>3. RequestsDated /\ CallEvidence
  BY IdleTyped DEF RequestsDated, CallEvidence
<1>4. BoundedLockout
  BY DEF BoundedLockout, NoCertificate
<1>. QED  BY <1>1, <1>2, <1>3, <1>4 DEF IInv

\* The request of a running call is well typed and dated.
LEMMA RequestTyped ==
    ASSUME TypeOK, RequestsDated, NEW c \in Calls, NEW v \in Voters,
           call[c].op # "idle"
    PROVE  Request(c, v) \in Requests /\ Dated(Request(c, v), clock)
BY DEF TypeOK, CallRecords, RequestsDated, Request, Requests, Dated

\* Steps that only move the calls: new values of one call keep the invariant
\* when they are typed, dated and backed by the ledgers.
LEMMA CallOnlyStep ==
    ASSUME IInv, NEW c \in Calls, NEW k,
           UNCHANGED <<clock, promised, votes, active, issued>>,
           call' = [call EXCEPT ![c] = k],
           late' \subseteq Requests, \A r \in late' : Dated(r, clock),
           leases' \in Leases, faults' \in 0 .. MaxFaults,
           k \in CallRecords,
           k.op # "idle" => k.leader \in Candidates,
           Dated(k, clock),
           k.op = "sign_vote" => \A v \in k.got : Voted(votes, v, k),
           k.op = "commit_certificate" =>
              /\ Cardinality(k.signers) >= quorum_size
              /\ \A v \in k.signers :
                    /\ Voted(votes, v, k)
                    /\ v \in k.todo \/ Committed(active[v], clock, k)
    PROVE  IInv'
<1>1. TypeOK'
  BY DEF IInv, TypeOK, CallRecords
<1>2. VoteKey' /\ IssuedEvidence' /\ BoundedLockout'
  BY DEF IInv, VoteKey, IssuedEvidence, BoundedLockout
<1>3. \A d \in Calls : call'[d] = IF d = c THEN k ELSE call[d]
  BY DEF IInv, TypeOK, CallRecords
<1>4. RequestsDated'
  BY <1>3 DEF IInv, RequestsDated
<1>5. CallEvidence'
  BY <1>3 DEF IInv, CallEvidence
<1>. QED  BY <1>1, <1>2, <1>4, <1>5 DEF IInv

\* Counted answers stay backed when a voter executes a request.
LEMMA EvidenceStep ==
    ASSUME IInv, NEW r \in Requests, Dated(r, clock), Granted(r), Execute(r),
           UNCHANGED <<clock, issued>>
    PROVE  /\ IssuedEvidence'
           /\ \A c \in Calls :
                /\ call[c].op = "sign_vote" =>
                      \A v \in call[c].got : Voted(votes', v, call[c])
                /\ call[c].op = "commit_certificate" =>
                      /\ Cardinality(call[c].signers) >= quorum_size
                      /\ \A v \in call[c].signers :
                            /\ Voted(votes', v, call[c])
                            /\ \/ v \in call[c].todo
                               \/ Committed(active'[v], clock, call[c])
<1>1. /\ \A v, x : x.expires \in Nat /\ Voted(votes, v, x) => Voted(votes', v, x)
      /\ \A v \in Voters : \A x :
            /\ x.term \in Nat /\ x.expires \in Nat
            /\ Voted(votes, v, x) /\ Committed(active[v], clock, x)
            => Committed(active'[v], clock, x)
  BY ExecuteStep DEF IInv
<1>2. \A x \in issued : x.term \in Nat /\ x.expires \in Nat /\ x.signers \subseteq Voters
  BY DEF IInv, TypeOK, CallRecords
<1>3. IssuedEvidence'
  BY <1>1, <1>2 DEF IInv, IssuedEvidence
<1>4. \A c \in Calls : /\ call[c].term \in Nat /\ call[c].expires \in Nat
                       /\ call[c].signers \subseteq Voters
  BY DEF IInv, TypeOK, CallRecords
<1>. QED  BY <1>1, <1>3, <1>4 DEF IInv, CallEvidence

\* An answer in time: the voter's ledger changes and the call counts the voter.
LEMMA AnsweredStep ==
    ASSUME IInv, NEW c \in Calls, NEW v \in Voters, Answered(c, v)
    PROVE  IInv'
<1>. DEFINE r == Request(c, v)
<1>1. /\ Granted(r) /\ Execute(r)
      /\ UNCHANGED <<clock, late, leases, issued, faults>>
  BY DEF Answered
<1>2. call[c].op # "idle" /\ r.op = call[c].op
  BY <1>1 DEF Granted, Request
<1>3. r \in Requests /\ Dated(r, clock)
  BY <1>2, RequestTyped DEF IInv
<1>4. PICK t \in Nat : call' = [call EXCEPT ![c] =
             [call[c] EXCEPT !.todo = @ \ {v}, !.got = @ \cup {v}, !.term = t]]
           /\ (call[c].op # "reserve_term" => t = call[c].term)
  <2>1. promised'[v].term \in Nat /\ call[c].term \in Nat
    BY <1>1, <1>3, ExecuteStep DEF IInv, TypeOK, CallRecords
  <2>. QED  BY <2>1 DEF Answered, IInv, TypeOK, CallRecords
<1>5. \A d \in Calls : call'[d] =
         IF d = c THEN [call[c] EXCEPT !.todo = @ \ {v}, !.got = @ \cup {v}, !.term = t]
         ELSE call[d]
  BY <1>4 DEF IInv, TypeOK, CallRecords
<1>6. TypeOK'
  <2>1. /\ promised' \in [Voters -> [term : Nat, leader : Candidates \cup {NoLeader}]]
        /\ votes' \subseteq [voter : Voters, term : Nat, leader : Candidates,
                             lease : Leases, expires : Nat]
        /\ active' \in [Voters -> [term : Nat, leader : Candidates \cup {NoLeader},
                                   lease : Leases, expires : Nat]]
    BY <1>1, <1>3, ExecuteStep DEF IInv
  <2>2. call' \in [Calls -> CallRecords]
    <3>1. [call[c] EXCEPT !.todo = @ \ {v}, !.got = @ \cup {v}, !.term = t]
             \in CallRecords
      BY ZenonT(60) DEF IInv, TypeOK, CallRecords
    <3>. QED  BY <1>4, <3>1 DEF IInv, TypeOK, CallRecords
  <2>3. \A d \in Calls : call'[d].op # "idle" => call'[d].leader \in Candidates
    BY <1>5 DEF IInv, TypeOK, CallRecords
  <2>. QED  BY <2>1, <2>2, <2>3, <1>1 DEF IInv, TypeOK, CallRecords
<1>7. VoteKey' /\ BoundedLockout'
  BY <1>1, <1>3, ExecuteStep DEF IInv, VoteKey, BoundedLockout
<1>8. RequestsDated'
  BY ZenonT(60), <1>1, <1>5 DEF IInv, RequestsDated, Dated, TypeOK, CallRecords
<1>9. IssuedEvidence'
  BY <1>1, <1>3, EvidenceStep
<1>10. ASSUME NEW d \in Calls
       PROVE /\ call'[d].op = "sign_vote" =>
                   \A w \in call'[d].got : Voted(votes', w, call'[d])
             /\ call'[d].op = "commit_certificate" =>
                   /\ Cardinality(call'[d].signers) >= quorum_size
                   /\ \A w \in call'[d].signers :
                         /\ Voted(votes', w, call'[d])
                         /\ \/ w \in call'[d].todo
                            \/ Committed(active'[w], clock', call'[d])
  <2>1. /\ call[d].op = "sign_vote" =>
              \A w \in call[d].got : Voted(votes', w, call[d])
        /\ call[d].op = "commit_certificate" =>
              /\ Cardinality(call[d].signers) >= quorum_size
              /\ \A w \in call[d].signers :
                    /\ Voted(votes', w, call[d])
                    /\ \/ w \in call[d].todo
                       \/ Committed(active'[w], clock, call[d])
    BY <1>1, <1>3, EvidenceStep
  <2>2. CASE d # c
    BY <2>1, <2>2, <1>1, <1>5
  <2>3. CASE d = c /\ call[c].op = "sign_vote"
    <3>1. /\ call'[c].op = "sign_vote" /\ call'[c].got = call[c].got \cup {v}
          /\ SameLease(call'[c], call[c]) /\ call'[c].expires = call[c].expires
      BY <1>4, <1>5, <2>3 DEF SameLease, IInv, TypeOK, CallRecords
    <3>2. Voted(votes', v, call[c])
      <4>1. VoteRow(r) \in votes'
        BY <1>1, <1>2, <2>3 DEF Execute, SignVote
      <4>2. /\ VoteRow(r).voter = v /\ SameLease(VoteRow(r), call[c])
            /\ VoteRow(r).expires = call[c].expires
        BY DEF VoteRow, Request, SameLease
      <4>3. call[c].expires \in Nat
        BY DEF IInv, TypeOK, CallRecords
      <4>. QED  BY <4>1, <4>2, <4>3 DEF Voted
    <3>. QED  BY <3>1, <3>2, <2>1, <2>3 DEF Voted, SameLease
  <2>4. CASE d = c /\ call[c].op = "commit_certificate"
    <3>1. /\ call'[c].op = "commit_certificate" /\ call'[c].signers = call[c].signers
          /\ call'[c].todo = call[c].todo \ {v}
          /\ SameLease(call'[c], call[c]) /\ call'[c].expires = call[c].expires
      BY <1>4, <1>5, <2>4 DEF SameLease, IInv, TypeOK, CallRecords
    <3>2. Committed(active'[v], clock, call[c])
      <4>1. active'[v] = Certificate(r)
        BY <1>1, <1>2, <2>4 DEF Execute, CommitCertificate, Request, IInv, TypeOK, CallRecords
      <4>2. call[c].term \in Nat /\ call[c].expires \in Nat
        BY DEF IInv, TypeOK, CallRecords
      <4>. QED  BY <4>1, <4>2 DEF Committed, Certificate, Request, SameLease
    <3>. QED  BY <3>1, <3>2, <2>1, <2>4, <1>1 DEF Voted, Committed, SameLease
  <2>5. CASE d = c /\ call[c].op \notin {"sign_vote", "commit_certificate"}
    <3>1. call'[c].op = call[c].op
      BY <1>5 DEF IInv, TypeOK, CallRecords
    <3>. QED  BY <2>5, <3>1
  <2>. QED  BY <2>2, <2>3, <2>4, <2>5
<1>11. CallEvidence'
  BY <1>10 DEF CallEvidence
<1>. QED  BY <1>6, <1>7, <1>8, <1>9, <1>11 DEF IInv

\* A request that arrives after its call gave up.
LEMMA LateStep ==
    ASSUME IInv, NEW r \in late, LateArrival(r)
    PROVE  IInv'
<1>1. /\ late' \subseteq late
      /\ UNCHANGED <<clock, call, leases, issued, faults>>
  BY DEF LateArrival
<1>2. r \in Requests /\ Dated(r, clock)
  BY DEF IInv, TypeOK, RequestsDated
<1>3. RequestsDated'
  BY <1>1 DEF IInv, RequestsDated
<1>4. CASE UNCHANGED ledger
  <2>1. UNCHANGED <<promised, votes, active>>
    BY <1>4 DEF ledger
  <2>2. TypeOK'
    BY <1>1, <2>1 DEF IInv, TypeOK
  <2>. QED  BY <1>1, <1>3, <2>1, <2>2
              DEF IInv, VoteKey, CallEvidence, IssuedEvidence, BoundedLockout
<1>5. CASE Granted(r) /\ Execute(r)
  <2>1. TypeOK'
    BY <1>1, <1>2, <1>5, ExecuteStep DEF IInv, TypeOK
  <2>2. VoteKey' /\ BoundedLockout'
    BY <1>1, <1>2, <1>5, ExecuteStep DEF IInv, VoteKey, BoundedLockout
  <2>3. IssuedEvidence' /\ CallEvidence'
    BY <1>1, <1>2, <1>5, EvidenceStep DEF CallEvidence
  <2>. QED  BY <1>3, <2>1, <2>2, <2>3 DEF IInv
<1>. QED  BY <1>4, <1>5 DEF LateArrival

\* A call that ends, by failure or by a crash.
LEMMA IdleStep ==
    ASSUME IInv, NEW c \in Calls, call' = [call EXCEPT ![c] = Idle],
           UNCHANGED <<clock, ledger, issued>>,
           late' \subseteq Requests, \A r \in late' : Dated(r, clock),
           leases' \in Leases, faults' \in 0 .. MaxFaults
    PROVE  IInv'
<1>1. clock \in Nat /\ UNCHANGED <<clock, promised, votes, active, issued>>
  BY DEF IInv, TypeOK, ledger
<1>. QED  BY <1>1, IdleTyped, CallOnlyStep

\* A voter that refuses, or does not answer.
LEMMA SkippedStep ==
    ASSUME IInv, NEW c \in Calls, NEW v \in Voters, call[c].op # "idle",
           call' = [call EXCEPT ![c] = Skipped(c, v)],
           UNCHANGED <<clock, ledger, leases, issued>>,
           late' \subseteq late \cup {Request(c, v)}, faults' \in 0 .. MaxFaults
    PROVE  IInv'
<1>1. late' \subseteq Requests /\ \A r \in late' : Dated(r, clock)
  BY RequestTyped DEF IInv, TypeOK, RequestsDated
<1>2. leases' \in Leases
  BY DEF IInv, TypeOK
<1>3. CASE call[c].op = "commit_certificate"
  BY <1>1, <1>2, <1>3, IdleStep DEF Skipped
<1>4. CASE call[c].op # "commit_certificate"
  <2>. DEFINE k == [call[c] EXCEPT !.todo = @ \ {v}]
  <2>1. call' = [call EXCEPT ![c] = k]
    BY <1>4 DEF Skipped
  <2>2. /\ k \in CallRecords /\ k.op = call[c].op /\ k.leader = call[c].leader
        /\ k.got = call[c].got /\ SameLease(k, call[c])
        /\ k.expires = call[c].expires /\ k.now = call[c].now
    BY DEF IInv, TypeOK, CallRecords, SameLease
  <2>3. Dated(k, clock)
    BY <2>2 DEF IInv, RequestsDated, Dated
  <2>4. k.op = "sign_vote" => \A w \in k.got : Voted(votes, w, k)
    BY <2>2 DEF IInv, CallEvidence, Voted, SameLease
  <2>5. k.op # "idle" /\ k.leader \in Candidates /\ k.op # "commit_certificate"
    BY <2>2, <1>4 DEF IInv, TypeOK
  <2>6. UNCHANGED <<clock, promised, votes, active, issued>>
    BY DEF ledger
  <2>. HIDE DEF k
  <2>. QED  BY <1>1, <1>2, <2>1, <2>2, <2>3, <2>4, <2>5, <2>6, CallOnlyStep
<1>. QED  BY <1>3, <1>4

\* A call that starts.
LEMMA BeginStep ==
    ASSUME IInv, NEW c \in Calls,
           \/ \E leader \in Candidates, now \in Readings : AcquireBegin(c, leader, now)
           \/ \E cert \in issued, now \in Readings : RenewBegin(c, cert, now)
    PROVE  IInv'
<1>0. /\ UNCHANGED <<clock, promised, votes, active, issued>>
      /\ late' \subseteq Requests /\ \A r \in late' : Dated(r, clock)
      /\ faults' \in 0 .. MaxFaults
  BY DEF IInv, TypeOK, RequestsDated, AcquireBegin, RenewBegin, ledger
<1>1. ASSUME NEW leader \in Candidates, NEW now \in Readings,
             AcquireBegin(c, leader, now)
      PROVE  IInv'
  <2>. DEFINE k == [Idle EXCEPT !.op = "reserve_term", !.leader = leader,
                               !.lease = leases + 1, !.now = now,
                               !.expires = now + LeaseMs, !.todo = Voters]
  <2>1. /\ call' = [call EXCEPT ![c] = k]
        /\ leases' = leases + 1 /\ leases < MaxLeases
    BY <1>1 DEF AcquireBegin
  <2>2. leases' \in Leases /\ now \in Nat /\ now <= clock + MaxSkew
    BY <2>1, BoundsAssumption DEF IInv, TypeOK, Leases, Readings
  <2>3. /\ k \in CallRecords /\ k.op = "reserve_term" /\ k.leader \in Candidates
        /\ k.now = now /\ k.expires = now + LeaseMs
    <3>1. leases + 1 \in Leases /\ now + LeaseMs \in Nat
      BY <2>1, <2>2, BoundsAssumption
    <3>. QED  BY <2>2, <3>1, IdleTyped DEF CallRecords, Ops
  <2>4. Dated(k, clock)
    BY <2>2, <2>3, BoundsAssumption DEF Dated, IInv, TypeOK
  <2>. HIDE DEF k
  <2>. QED  BY <1>0, <2>1, <2>2, <2>3, <2>4, CallOnlyStep
<1>2. ASSUME NEW cert \in issued, NEW now \in Readings,
             RenewBegin(c, cert, now)
      PROVE  IInv'
  <2>. DEFINE k == [Idle EXCEPT !.op = "prepare", !.leader = cert.leader,
                               !.term = cert.term, !.lease = cert.lease,
                               !.now = now, !.expires = now + LeaseMs,
                               !.todo = Voters]
  <2>1. call' = [call EXCEPT ![c] = k] /\ leases' \in Leases
    BY <1>2 DEF RenewBegin, IInv, TypeOK
  <2>2. now \in Nat /\ now <= clock + MaxSkew
    BY BoundsAssumption DEF IInv, TypeOK, Readings
  <2>3. cert.leader \in Candidates /\ cert.term \in Nat /\ cert.lease \in Leases
    BY DEF IInv, TypeOK
  <2>4. /\ k \in CallRecords /\ k.op = "prepare" /\ k.leader \in Candidates
        /\ k.now = now /\ k.expires = now + LeaseMs
    <3>1. now + LeaseMs \in Nat
      BY <2>2, BoundsAssumption
    <3>. QED  BY <2>2, <2>3, <3>1, IdleTyped DEF CallRecords, Ops
  <2>5. Dated(k, clock)
    BY <2>2, <2>4, BoundsAssumption DEF Dated, IInv, TypeOK
  <2>. HIDE DEF k
  <2>. QED  BY <1>0, <2>1, <2>4, <2>5, CallOnlyStep
<1>. QED  BY <1>1, <1>2

\* A call that goes from one round to the next.
LEMMA RoundStep ==
    ASSUME IInv, NEW c \in Calls,
           PrepareRound(c) \/ SignRound(c) \/ CommitRound(c)
    PROVE  IInv'
<1>0. /\ UNCHANGED <<clock, promised, votes, active, issued>>
      /\ late' \subseteq Requests /\ \A r \in late' : Dated(r, clock)
      /\ leases' \in Leases /\ faults' \in 0 .. MaxFaults
      /\ call[c] \in CallRecords /\ call[c].op # "idle"
      /\ call[c].leader \in Candidates /\ Dated(call[c], clock)
  BY DEF IInv, TypeOK, RequestsDated, PrepareRound, SignRound, CommitRound,
         RoundOver, ledger
<1>1. CASE PrepareRound(c)
  <2>. DEFINE k == [call[c] EXCEPT !.op = "prepare", !.todo = Voters, !.got = {}]
  <2>1. call' = [call EXCEPT ![c] = k]
    BY <1>1 DEF PrepareRound, IInv, TypeOK
  <2>2. /\ k \in CallRecords /\ k.op = "prepare" /\ k.leader \in Candidates
        /\ Dated(k, clock)
    BY <1>0 DEF CallRecords, Ops, Dated
  <2>. HIDE DEF k
  <2>. QED  BY <1>0, <2>1, <2>2, CallOnlyStep
<1>2. CASE SignRound(c)
  <2>. DEFINE k == [call[c] EXCEPT !.op = "sign_vote", !.todo = call[c].got, !.got = {}]
  <2>1. call' = [call EXCEPT ![c] = k]
    BY <1>2 DEF SignRound, IInv, TypeOK
  <2>2. /\ k \in CallRecords /\ k.op = "sign_vote" /\ k.leader \in Candidates
        /\ k.got = {} /\ Dated(k, clock)
    BY <1>0 DEF CallRecords, Ops, Dated
  <2>. HIDE DEF k
  <2>. QED  BY <1>0, <2>1, <2>2, CallOnlyStep
<1>3. CASE CommitRound(c)
  <2>. DEFINE k == [call[c] EXCEPT !.op = "commit_certificate", !.todo = call[c].got,
                                   !.signers = call[c].got, !.got = {}]
  <2>1. /\ call' = [call EXCEPT ![c] = k] /\ call[c].op = "sign_vote"
        /\ Cardinality(call[c].got) >= quorum_size
    BY <1>3 DEF CommitRound, IInv, TypeOK
  <2>2. /\ k \in CallRecords /\ k.op = "commit_certificate" /\ k.leader \in Candidates
        /\ k.signers = call[c].got /\ k.todo = call[c].got /\ Dated(k, clock)
        /\ SameLease(k, call[c]) /\ k.expires = call[c].expires
    BY <1>0 DEF CallRecords, Ops, Dated, SameLease
  <2>3. \A v \in k.signers : Voted(votes, v, k)
    BY <2>1, <2>2 DEF IInv, CallEvidence, Voted, SameLease
  <2>. HIDE DEF k
  <2>. QED  BY <1>0, <2>1, <2>2, <2>3, CallOnlyStep
<1>. QED  BY <1>1, <1>2, <1>3

\* Every signer has committed: the certificate joins those issued.
LEMMA AcceptedStep ==
    ASSUME IInv, NEW c \in Calls, Accepted(c)
    PROVE  IInv'
<1>. DEFINE x == SignedCertificate(call[c])
<1>1. /\ UNCHANGED <<clock, promised, votes, active, late, leases, faults>>
      /\ issued' = issued \cup {x} /\ call' = [call EXCEPT ![c] = Idle]
      /\ call[c].op = "commit_certificate" /\ call[c].todo = {}
  BY DEF Accepted, ledger, RoundOver
<1>2. /\ x \in [term : Nat, leader : Candidates, lease : Leases,
                expires : Nat, signers : SUBSET Voters]
      /\ SameLease(x, call[c]) /\ x.expires = call[c].expires
      /\ x.signers = call[c].signers
  BY <1>1 DEF IInv, TypeOK, CallRecords, SignedCertificate, SameLease
<1>3. /\ Cardinality(x.signers) >= quorum_size
      /\ \A v \in x.signers : Voted(votes, v, x) /\ Committed(active[v], clock, x)
  BY <1>1, <1>2 DEF IInv, CallEvidence, Voted, Committed, SameLease
<1>. HIDE DEF x
<1>4. TypeOK'
  BY <1>1, <1>2, IdleTyped DEF IInv, TypeOK
<1>5. VoteKey' /\ BoundedLockout'
  BY <1>1 DEF IInv, VoteKey, BoundedLockout
<1>6. \A d \in Calls : call'[d] = IF d = c THEN Idle ELSE call[d]
  BY <1>1 DEF IInv, TypeOK
<1>7. RequestsDated' /\ CallEvidence'
  BY <1>1, <1>6, IdleTyped DEF IInv, RequestsDated, CallEvidence, TypeOK
<1>8. IssuedEvidence'
  BY <1>1, <1>3 DEF IInv, IssuedEvidence
<1>. QED  BY <1>4, <1>5, <1>7, <1>8 DEF IInv

\* Time passes: what was unexpired may expire, and nothing else changes.
LEMMA TickStep == IInv /\ Tick => IInv'
<1>. SUFFICES ASSUME IInv, Tick PROVE IInv'
  OBVIOUS
<1>1. /\ clock' = clock + 1 /\ clock \in Nat /\ MaxSkew \in Nat /\ LeaseMs \in Nat
      /\ UNCHANGED <<promised, votes, active, call, late, leases, issued, faults>>
  BY BoundsAssumption DEF IInv, TypeOK, Tick, ledger
<1>2. TypeOK'
  BY <1>1, BoundsAssumption DEF IInv, TypeOK, Tick
<1>3. VoteKey'
  BY <1>1 DEF IInv, VoteKey
<1>4. RequestsDated'
  BY <1>1 DEF IInv, TypeOK, CallRecords, Requests, RequestsDated, Dated
<1>5. \A a, x : x.expires \in Nat /\ Committed(a, clock, x) => Committed(a, clock', x)
  BY <1>1 DEF Committed
<1>6. CallEvidence'
  BY <1>1, <1>5 DEF IInv, TypeOK, CallRecords, CallEvidence
<1>7. IssuedEvidence'
  BY <1>1, <1>5 DEF IInv, TypeOK, IssuedEvidence
<1>8. BoundedLockout'
  BY <1>1 DEF IInv, TypeOK, BoundedLockout
<1>. QED  BY <1>2, <1>3, <1>4, <1>6, <1>7, <1>8 DEF IInv

\* Every step of the election preserves the invariant.
LEMMA NextIInv == IInv /\ [Next]_vars => IInv'
<1>. SUFFICES ASSUME IInv, [Next]_vars PROVE IInv'
  OBVIOUS
<1>1. CASE UNCHANGED vars
  <2>1. UNCHANGED <<clock, promised, votes, active, call, late, leases, faults, issued>>
    BY <1>1 DEF vars
  <2>2. TypeOK'
    BY <2>1 DEF IInv, TypeOK
  <2>. QED  BY <2>1, <2>2 DEF IInv, VoteKey, RequestsDated, CallEvidence,
                              IssuedEvidence, BoundedLockout
<1>2. CASE Tick
  BY <1>2, TickStep
<1>3. ASSUME NEW r \in late, LateArrival(r) PROVE IInv'
  BY <1>3, LateStep
<1>4. ASSUME NEW c \in Calls,
             \/ \E leader \in Candidates, now \in Readings : AcquireBegin(c, leader, now)
             \/ \E cert \in issued, now \in Readings : RenewBegin(c, cert, now)
      PROVE  IInv'
  BY <1>4, BeginStep
<1>5. ASSUME NEW c \in Calls, NEW v \in Voters, Answered(c, v) PROVE IInv'
  BY <1>5, AnsweredStep
<1>6. ASSUME NEW c \in Calls, NEW v \in Voters, Refused(c, v) \/ TimedOut(c, v)
      PROVE  IInv'
  <2>1. call[c].op # "idle"
    BY <1>6 DEF Refused, TimedOut, NextVoter, Ops
  <2>2. /\ call' = [call EXCEPT ![c] = Skipped(c, v)]
        /\ UNCHANGED <<clock, ledger, leases, issued>>
        /\ late' \subseteq late \cup {Request(c, v)}
        /\ faults' \in 0 .. MaxFaults
    BY <1>6, BoundsAssumption DEF Refused, TimedOut, IInv, TypeOK
  <2>. QED  BY <2>1, <2>2, SkippedStep
<1>7. ASSUME NEW c \in Calls, NoQuorum(c) \/ Crash(c) PROVE IInv'
  <2>1. /\ call' = [call EXCEPT ![c] = Idle]
        /\ UNCHANGED <<clock, ledger, late, leases, issued>>
        /\ late' \subseteq Requests /\ \A r \in late' : Dated(r, clock)
        /\ leases' \in Leases /\ faults' \in 0 .. MaxFaults
    BY <1>7, BoundsAssumption DEF NoQuorum, Crash, IInv, TypeOK, RequestsDated
  <2>. QED  BY <2>1, IdleStep
<1>8. ASSUME NEW c \in Calls, PrepareRound(c) \/ SignRound(c) \/ CommitRound(c)
      PROVE  IInv'
  BY <1>8, RoundStep
<1>9. ASSUME NEW c \in Calls, Accepted(c) PROVE IInv'
  BY <1>9, AcceptedStep
<1>. QED  BY <1>1, <1>2, <1>3, <1>4, <1>5, <1>6, <1>7, <1>8, <1>9 DEF Next

\* IInv holds throughout every behaviour of the election.
THEOREM Invariance == Spec => []IInv
BY InitIInv, NextIInv, PTL DEF Spec

\* Two certificates of one term that are each borne out by a majority of vote
\* rows belong to one lease.
LEMMA EvidenceUnique ==
    ASSUME IInv, NEW x, NEW y, x.signers \subseteq Voters, y.signers \subseteq Voters,
           Cardinality(x.signers) >= quorum_size,
           Cardinality(y.signers) >= quorum_size,
           \A v \in x.signers : Voted(votes, v, x),
           \A v \in y.signers : Voted(votes, v, y),
           x.term = y.term
    PROVE  SameLease(x, y)
<1>1. PICK v \in Voters : v \in x.signers /\ v \in y.signers
  BY QuorumsIntersect
<1>2. PICK w \in votes : w.voter = v /\ SameLease(w, x)
  BY <1>1 DEF Voted
<1>3. PICK z \in votes : z.voter = v /\ SameLease(z, y)
  BY <1>1 DEF Voted
<1>4. w = z
  BY <1>2, <1>3 DEF IInv, VoteKey, SameLease
<1>. QED  BY <1>2, <1>3, <1>4 DEF SameLease

\* If x is unexpired and committed by a majority, any certificate y that a
\* majority has committed has no larger term, and is of x's lease if it is
\* unexpired too.
LEMMA CommittedWins ==
    ASSUME IInv, NEW x, NEW y, x.signers \subseteq Voters, y.signers \subseteq Voters,
           Cardinality(x.signers) >= quorum_size,
           Cardinality(y.signers) >= quorum_size,
           \A v \in x.signers : Committed(active[v], clock, x),
           \A v \in y.signers : Committed(active[v], clock, y),
           Unexpired(x)
    PROVE  /\ y.term <= x.term
           /\ Unexpired(y) => SameLease(x, y)
<1>1. PICK v \in Voters : v \in x.signers /\ v \in y.signers
  BY QuorumsIntersect
<1>2. SameLease(active[v], x) /\ active[v].term >= y.term
  BY <1>1 DEF Committed, Unexpired
<1>3. Unexpired(y) => SameLease(active[v], y)
  BY <1>1 DEF Committed, Unexpired
<1>. QED  BY <1>2, <1>3 DEF SameLease

\* Type correctness of the ledgers, calls, requests and certificates.
THEOREM TypeCorrect == Spec => []TypeOK
BY Invariance, PTL DEF IInv

\* At most one lease is unexpired at any time: the mutual exclusion that
\* acquire and renew promise to the control plane.
THEOREM Exclusion == Spec => []LeaseExclusive
<1>1. IInv => LeaseExclusive
  <2>. SUFFICES ASSUME IInv, NEW x \in issued, NEW y \in issued,
                       Unexpired(x), Unexpired(y)
                PROVE  SameLease(x, y)
    BY DEF LeaseExclusive
  <2>1. /\ x.signers \subseteq Voters /\ y.signers \subseteq Voters
        /\ Cardinality(x.signers) >= quorum_size
        /\ Cardinality(y.signers) >= quorum_size
        /\ \A v \in x.signers : Committed(active[v], clock, x)
        /\ \A v \in y.signers : Committed(active[v], clock, y)
    BY DEF IInv, TypeOK, IssuedEvidence
  <2>. QED  BY <2>1, CommittedWins
<1>. QED  BY <1>1, Invariance, PTL

\* A term names one lease among all the certificates ever accepted.
THEOREM TermUniqueness == Spec => []OneLeasePerTerm
<1>1. IInv => OneLeasePerTerm
  <2>. SUFFICES ASSUME IInv, NEW x \in issued, NEW y \in issued, x.term = y.term
                PROVE  SameLease(x, y)
    BY DEF OneLeasePerTerm
  <2>1. /\ x.signers \subseteq Voters /\ y.signers \subseteq Voters
        /\ Cardinality(x.signers) >= quorum_size
        /\ Cardinality(y.signers) >= quorum_size
        /\ \A v \in x.signers : Voted(votes, v, x)
        /\ \A v \in y.signers : Voted(votes, v, y)
    BY DEF IInv, TypeOK, IssuedEvidence
  <2>. QED  BY <2>1, EvidenceUnique
<1>. QED  BY <1>1, Invariance, PTL

\* The voters that signed an unexpired certificate keep its lease active.
THEOREM Backing == Spec => []IssuedBacked
<1>1. IInv => IssuedBacked
  BY DEF IInv, IssuedEvidence, IssuedBacked, Committed, Unexpired
<1>. QED  BY <1>1, Invariance, PTL

\* A lease nobody holds blocks a voter for at most one lease duration.
THEOREM Lockout == Spec => []BoundedLockout
BY Invariance, PTL DEF IInv

\* A step of the election is a step of the lease register, or leaves it alone.
LEMMA RegisterStep == IInv /\ [Next]_vars => [Lease!Next]_<<clock, issued>>
<1>. SUFFICES ASSUME IInv, [Next]_vars
              PROVE  [Lease!Next]_<<clock, issued>>
  OBVIOUS
<1>1. ASSUME NEW c \in Calls, Accepted(c) PROVE Lease!Next
  <2>. DEFINE x == SignedCertificate(call[c])
  <2>1. /\ issued' = issued \cup {x} /\ UNCHANGED clock
        /\ call[c].op = "commit_certificate" /\ call[c].todo = {}
    BY <1>1 DEF Accepted, RoundOver
  <2>2. /\ SameLease(x, call[c]) /\ x.expires = call[c].expires
        /\ x.signers = call[c].signers /\ x.signers \subseteq Voters
    BY DEF IInv, TypeOK, CallRecords, SignedCertificate, SameLease
  <2>3. /\ Cardinality(x.signers) >= quorum_size
        /\ \A v \in x.signers : Voted(votes, v, x) /\ Committed(active[v], clock, x)
    BY <2>1, <2>2 DEF IInv, CallEvidence, Voted, Committed, SameLease
  <2>. HIDE DEF x
  <2>4. ASSUME NEW y \in issued
        PROVE  /\ y.term = x.term => SameLease(x, y)
               /\ Unexpired(x) => (Unexpired(y) => SameLease(x, y)) /\ y.term <= x.term
    <3>1. /\ y.signers \subseteq Voters /\ Cardinality(y.signers) >= quorum_size
          /\ \A v \in y.signers : Voted(votes, v, y) /\ Committed(active[v], clock, y)
      BY DEF IInv, TypeOK, IssuedEvidence
    <3>2. y.term = x.term => SameLease(x, y)
      BY <2>2, <2>3, <3>1, EvidenceUnique
    <3>3. Unexpired(x) => (Unexpired(y) => SameLease(x, y)) /\ y.term <= x.term
      BY <2>2, <2>3, <3>1, CommittedWins
    <3>. QED  BY <3>2, <3>3
  <2>5. Lease!Grant(x)
    BY <2>1, <2>4 DEF Lease!Grant, Lease!SameLease, Lease!Unexpired,
                      SameLease, Unexpired
  <2>. QED  BY <2>1, <2>5 DEF Lease!Next
<1>2. CASE Tick
  BY <1>2 DEF Tick, Lease!Next, Lease!Tick
<1>3. CASE UNCHANGED vars
  BY <1>3 DEF vars
<1>4. ASSUME NEW r \in late, LateArrival(r) PROVE UNCHANGED <<clock, issued>>
  BY <1>4 DEF LateArrival
<1>5. ASSUME NEW c \in Calls,
             \/ \E leader \in Candidates, now \in Readings : AcquireBegin(c, leader, now)
             \/ \E cert \in issued, now \in Readings : RenewBegin(c, cert, now)
             \/ \E v \in Voters : Answered(c, v)
             \/ \E v \in Voters : Refused(c, v)
             \/ \E v \in Voters : TimedOut(c, v)
             \/ NoQuorum(c) \/ PrepareRound(c) \/ SignRound(c) \/ CommitRound(c)
             \/ Crash(c)
      PROVE  UNCHANGED <<clock, issued>>
  BY <1>5 DEF AcquireBegin, RenewBegin, Answered, Refused, TimedOut, NoQuorum,
              PrepareRound, SignRound, CommitRound, Crash
<1>. QED  BY <1>1, <1>2, <1>3, <1>4, <1>5 DEF Next

\* The election implements the lease register.
THEOREM Refinement == Spec => LeaseRegister
<1>1. Init => Lease!Init
  BY DEF Init, Lease!Init
<1>. QED  BY <1>1, Invariance, RegisterStep, PTL DEF Spec, LeaseRegister, Lease!Spec

\* A certificate accepted before it expires has the largest term so far.
THEOREM FreshTerms == Spec => FreshTermsGrow
<1>1. IInv /\ [Next]_vars =>
        [\A x \in issued' \ issued :
            Unexpired(x) => \A y \in issued : y.term <= x.term]_vars
  <2>. SUFFICES ASSUME IInv, [Next]_vars, NEW x \in issued' \ issued, Unexpired(x),
                       NEW y \in issued
                PROVE  y.term <= x.term
    OBVIOUS
  <2>1. [Lease!Next]_<<clock, issued>>
    BY RegisterStep
  <2>2. PICK z \in issued' : Lease!Grant(z)
    BY <2>1 DEF Lease!Next, Lease!Tick
  <2>3. z = x
    BY <2>2 DEF Lease!Grant
  <2>. QED  BY <2>2, <2>3 DEF Lease!Grant, Lease!Unexpired, Unexpired
<1>. QED  BY <1>1, Invariance, PTL DEF Spec, FreshTermsGrow

\* A vote keeps its leader and lease, and its expiry never moves back.
THEOREM VotesFinal == Spec => VoteIsFinal
<1>1. IInv /\ [Next]_vars =>
        [\A w \in votes : \E x \in votes' :
            x.voter = w.voter /\ SameLease(x, w) /\ x.expires >= w.expires]_vars
  <2>. SUFFICES ASSUME IInv, [Next]_vars, NEW w \in votes
                PROVE  \E x \in votes' :
                          x.voter = w.voter /\ SameLease(x, w) /\ x.expires >= w.expires
    OBVIOUS
  <2>0. w.expires \in Nat /\ Voted(votes, w.voter, w)
    BY DEF IInv, TypeOK, Voted, SameLease
  <2>1. CASE votes' = votes
    BY <2>0, <2>1 DEF Voted
  <2>2. ASSUME NEW r \in Requests, Dated(r, clock), Granted(r), Execute(r)
        PROVE  Voted(votes', w.voter, w)
    BY <2>0, <2>2, ExecuteStep DEF IInv
  <2>3. ASSUME NEW c \in Calls, NEW v \in Voters, Answered(c, v)
        PROVE  Voted(votes', w.voter, w)
    <3>1. Granted(Request(c, v)) /\ Execute(Request(c, v)) /\ call[c].op # "idle"
      BY <2>3 DEF Answered, NextVoter, Ops
    <3>2. Request(c, v) \in Requests /\ Dated(Request(c, v), clock)
      BY <3>1, RequestTyped DEF IInv
    <3>. QED  BY <3>1, <3>2, <2>2
  <2>4. ASSUME NEW r \in late, LateArrival(r)
        PROVE  Voted(votes', w.voter, w)
    <3>1. r \in Requests /\ Dated(r, clock)
      BY DEF IInv, TypeOK, RequestsDated
    <3>2. CASE UNCHANGED ledger
      BY <3>2, <2>0 DEF ledger
    <3>. QED  BY <2>2, <2>4, <3>1, <3>2 DEF LateArrival
  <2>5. ASSUME NEW c \in Calls,
             \/ \E leader \in Candidates, now \in Readings : AcquireBegin(c, leader, now)
             \/ \E cert \in issued, now \in Readings : RenewBegin(c, cert, now)
             \/ \E v \in Voters : Refused(c, v)
             \/ \E v \in Voters : TimedOut(c, v)
             \/ NoQuorum(c) \/ PrepareRound(c) \/ SignRound(c) \/ CommitRound(c)
             \/ Accepted(c) \/ Crash(c)
        PROVE  votes' = votes
    BY <2>5 DEF AcquireBegin, RenewBegin, Refused, TimedOut, NoQuorum,
                PrepareRound, SignRound, CommitRound, Accepted, Crash, ledger
  <2>6. CASE Tick
    BY <2>6, <2>1 DEF Tick, ledger
  <2>7. CASE UNCHANGED vars
    BY <2>7, <2>1 DEF vars
  <2>8. Voted(votes', w.voter, w) =>
          \E x \in votes' : x.voter = w.voter /\ SameLease(x, w) /\ x.expires >= w.expires
    BY DEF Voted
  <2>. QED  BY <2>1, <2>3, <2>4, <2>5, <2>6, <2>7, <2>8 DEF Next
<1>. QED  BY <1>1, Invariance, PTL DEF Spec, VoteIsFinal
=============================================================================
