---------------------- MODULE JournalReplicationProofs ----------------------
(***************************************************************************)
(* Proofs about JournalReplication, for every set of replicas, every       *)
(* number of pushing threads and every bound: IInv is inductive.  That     *)
(* snapshots only grow carries each claim on the replicas, once it has     *)
(* been made, through every later push, late request and truncation.       *)
(***************************************************************************)
EXTENDS JournalReplication, FiniteSetTheorems, SequenceTheorems, TLAPS

\* Two sets of replicas that both reach required_quorum share one.
LEMMA QuorumsIntersect ==
    ASSUME NEW S \in SUBSET Nodes, NEW T \in SUBSET Nodes, IsQuorum(S), IsQuorum(T)
    PROVE  \E n \in Nodes : n \in S /\ n \in T
<1>1. IsFiniteSet(S) /\ IsFiniteSet(T) /\ IsFiniteSet(Nodes)
  BY NodesAssumption, FS_Subset
<1>2. /\ Cardinality(S) \in Nat /\ Cardinality(T) \in Nat
      /\ Cardinality(Nodes) \in Nat
  BY <1>1, FS_CardinalityType
<1>3. Cardinality(S) + Cardinality(T) > Cardinality(Nodes)
  BY <1>2 DEF IsQuorum, required_quorum
<1>4. S \cap T # {}
  BY <1>1, <1>3, FS_MajoritiesIntersect
<1>. QED  BY <1>4

\* A larger set of replicas still is a quorum.
LEMMA QuorumsGrow ==
    ASSUME NEW S \in SUBSET Nodes, NEW T \in SUBSET Nodes, S \subseteq T, IsQuorum(S)
    PROVE  IsQuorum(T)
<1>1. IsFiniteSet(T)
  BY NodesAssumption, FS_Subset
<1>2. Cardinality(S) <= Cardinality(T) /\ Cardinality(S) \in Nat /\ Cardinality(T) \in Nat
  BY <1>1, FS_Subset, FS_CardinalityType
<1>3. Cardinality(Nodes) \in Nat
  BY NodesAssumption, FS_CardinalityType
<1>. QED  BY <1>2, <1>3 DEF IsQuorum, required_quorum

\* The order of chains: reflexive, transitive, with the empty chain at the
\* bottom, and linear below any one chain.
LEMMA PrefixOrder ==
    ASSUME NEW s \in Chain, NEW t \in Chain, NEW u \in Chain
    PROVE  /\ IsPrefixOf(s, s) /\ IsPrefixOf(<<>>, s)
           /\ IsPrefixOf(s, t) /\ IsPrefixOf(t, u) => IsPrefixOf(s, u)
           /\ IsPrefixOf(s, u) /\ IsPrefixOf(t, u) /\ Len(s) <= Len(t)
                => IsPrefixOf(s, t)
BY DEF Chain, IsPrefixOf

\* Cutting a chain at one of its points yields a prefix.
LEMMA FirstOfChain ==
    ASSUME NEW s \in Chain, NEW k \in Nat, k <= Len(s)
    PROVE  FirstOf(s, k) \in Chain /\ IsPrefixOf(FirstOf(s, k), s) /\ Len(FirstOf(s, k)) = k
<1>1. Len(s) \in Nat /\ \A i \in 1..Len(s) : s[i] \in 1..MaxEvents
  BY LenProperties, ElementOfSeq DEF Chain
<1>2. \A i \in 1..k : s[i] \in 1..MaxEvents
  BY <1>1
<1>3. [i \in 1..k |-> s[i]] \in Seq(1..MaxEvents)
  BY <1>2
<1>4. Len([i \in 1..k |-> s[i]]) = k
  BY <1>3
<1>. QED  BY <1>1, <1>3, <1>4 DEF Chain, FirstOf, IsPrefixOf

\* What holds of every replica change: types, rows in agreement, and growth.
LEMMA ApplyStep ==
    ASSUME IInv, NEW n \in Nodes, NEW ck \in Chain, CanApply(n, ck), Apply(n, ck)
    PROVE  /\ rec' \in [Nodes -> Chain] /\ snap' \in [Nodes -> Chain]
           /\ RecOfSnap'
           /\ \A m \in Nodes : IsPrefixOf(snap[m], snap'[m])
           /\ \A m \in Nodes : IsPrefixOf(rec[m], rec'[m])
           /\ rec = snap => rec' = snap'
           /\ snap'[n] = ck
           /\ \A m \in Nodes : snap'[m] = snap[m] \/ snap'[m] = ck
<1>1. /\ rec \in [Nodes -> Chain] /\ snap \in [Nodes -> Chain]
      /\ rec' = [rec EXCEPT ![n] = ck] /\ snap' = [snap EXCEPT ![n] = ck]
  BY DEF IInv, TypeOK, Apply
<1>2. rec' \in [Nodes -> Chain] /\ snap' \in [Nodes -> Chain] /\ snap'[n] = ck
  BY <1>1
<1>3. IsPrefixOf(rec[n], ck) /\ IsPrefixOf(snap[n], ck)
  <2>1. CASE snap[n] = <<>>
    BY <2>1, PrefixOrder DEF CanApply
  <2>2. CASE snap[n] # <<>>
    BY <2>2 DEF CanApply
  <2>. QED  BY <2>1, <2>2
<1>4. \A m \in Nodes : IsPrefixOf(snap[m], snap'[m])
  BY <1>1, <1>3, PrefixOrder
<1>5. \A m \in Nodes : IsPrefixOf(rec[m], rec'[m])
  BY <1>1, <1>3, PrefixOrder
<1>6. RecOfSnap'
  BY <1>1, PrefixOrder DEF IInv, RecOfSnap
<1>7. rec = snap => rec' = snap'
  BY <1>1
<1>8. \A m \in Nodes : snap'[m] = snap[m] \/ snap'[m] = ck
  BY <1>1
<1>. QED  BY <1>2, <1>4, <1>5, <1>6, <1>7, <1>8

\* Dropping the tail of a replica's events leaves a prefix of its snapshot.
LEMMA TruncateStep ==
    ASSUME IInv, NEW n \in Nodes, NEW k \in Nat, k < Len(rec[n]), truncate_to(n, k)
    PROVE  /\ rec' \in [Nodes -> Chain] /\ snap' = snap
           /\ RecOfSnap'
           /\ \A m \in Nodes \ {n} : rec'[m] = rec[m]
<1>1. /\ rec \in [Nodes -> Chain] /\ snap \in [Nodes -> Chain] /\ snap' = snap
      /\ rec' = [rec EXCEPT ![n] = FirstOf(rec[n], k)]
  BY DEF IInv, TypeOK, truncate_to
<1>2. FirstOf(rec[n], k) \in Chain /\ IsPrefixOf(FirstOf(rec[n], k), rec[n])
  <2>1. rec[n] \in Chain /\ Len(rec[n]) \in Nat
    BY <1>1 DEF Chain
  <2>. QED  BY <2>1, FirstOfChain
<1>3. IsPrefixOf(FirstOf(rec[n], k), snap[n])
  BY <1>1, <1>2, PrefixOrder DEF IInv, RecOfSnap
<1>. QED  BY <1>1, <1>2, <1>3 DEF IInv, RecOfSnap

\* A chain that a quorum's snapshots continue stays so while snapshots grow.
LEMMA BackingKept ==
    ASSUME NEW c \in Chain, snap \in [Nodes -> Chain], snap' \in [Nodes -> Chain],
           \A m \in Nodes : IsPrefixOf(snap[m], snap'[m]),
           IsQuorum({n \in Nodes : IsPrefixOf(c, snap[n])})
    PROVE  IsQuorum({n \in Nodes : IsPrefixOf(c, snap'[n])})
<1>1. {n \in Nodes : IsPrefixOf(c, snap[n])} \subseteq {n \in Nodes : IsPrefixOf(c, snap'[n])}
  BY PrefixOrder
<1>. QED  BY <1>1, QuorumsGrow

\* The campaign, idle or not, is a record of these fields.
LEMMA CampaignTyped ==
    ASSUME TypeOK PROVE campaign.mark \in Chain /\ campaign.signed \in SUBSET Nodes
<1>1. <<>> \in Chain
  BY DEF Chain
<1>. QED  BY <1>1 DEF TypeOK, NoCampaign

\* Appending keeps every prefix of the journal one.
LEMMA AppendChain ==
    ASSUME NEW s \in Chain, NEW t \in Chain, NEW e \in 1..MaxEvents, IsPrefixOf(s, t)
    PROVE  Append(t, e) \in Chain /\ IsPrefixOf(s, Append(t, e))
BY DEF Chain, IsPrefixOf

\* The initial state.
LEMMA InitIInv == Init => IInv
<1>. SUFFICES ASSUME Init PROVE IInv
  OBVIOUS
<1>1. <<>> \in Chain /\ IsPrefixOf(<<>>, <<>>)
  BY DEF Chain, IsPrefixOf
<1>2. TypeOK
  BY <1>1, BoundsAssumption DEF Init, TypeOK, IdlePush, NoCampaign, IdleGuard
<1>3. RecOfSnap /\ AcksBacked /\ AckedBacked /\ NeverTruncated
  BY <1>1 DEF Init, RecOfSnap, AcksBacked, AckedBacked, NeverTruncated, IdlePush
<1>4. OneHistory
  BY <1>1 DEF Init, OneHistory, IdlePush, IdleGuard, NoCampaign
<1>5. SignedBacked
  BY <1>1 DEF Init, SignedBacked, CertifiedHeld, PassedHolds, NoCampaign
<1>. QED  BY <1>2, <1>3, <1>4, <1>5 DEF IInv

\* A checkpoint reaches a replica that accepts it: what the snapshots backed
\* they still back.
LEMMA ApplyCarries ==
    ASSUME IInv, NEW n \in Nodes, NEW ck \in Chain, CanApply(n, ck), Apply(n, ck),
           MaxRestores = 0 => IsPrefixOf(ck, journal),
           UNCHANGED <<source, acked, election, passed>>
    PROVE  /\ rec' \in [Nodes -> Chain] /\ snap' \in [Nodes -> Chain]
           /\ RecOfSnap' /\ AckedBacked' /\ SignedBacked' /\ NeverTruncated'
           /\ MaxRestores = 0 => \A m \in Nodes : IsPrefixOf(snap'[m], journal')
           /\ \A m \in Nodes : IsPrefixOf(snap[m], snap'[m])
           /\ snap'[n] = ck
<1>1. /\ rec' \in [Nodes -> Chain] /\ snap' \in [Nodes -> Chain]
      /\ rec \in [Nodes -> Chain] /\ snap \in [Nodes -> Chain] /\ RecOfSnap'
      /\ \A m \in Nodes : IsPrefixOf(snap[m], snap'[m])
      /\ \A m \in Nodes : IsPrefixOf(rec[m], rec'[m])
      /\ rec = snap => rec' = snap'
      /\ snap'[n] = ck
      /\ \A m \in Nodes : snap'[m] = snap[m] \/ snap'[m] = ck
  BY ApplyStep DEF IInv, TypeOK
<1>2. UNCHANGED <<journal, acked, campaign, certs, passed>>
  BY DEF source, election
<1>3. AckedBacked'
  <2>. SUFFICES ASSUME NEW c \in acked
                PROVE  IsQuorum({m \in Nodes : IsPrefixOf(c, snap'[m])})
    BY <1>2 DEF AckedBacked, IsQuorum
  <2>1. c \in Chain /\ IsQuorum({m \in Nodes : IsPrefixOf(c, snap[m])})
    BY DEF IInv, TypeOK, AckedBacked
  <2>. QED  BY <1>1, <2>1, BackingKept
<1>4. ASSUME MaxRestores = 0 PROVE \A m \in campaign.signed : IsPrefixOf(campaign.mark, snap'[m])
  <2>. SUFFICES ASSUME NEW m \in campaign.signed PROVE IsPrefixOf(campaign.mark, snap'[m])
    OBVIOUS
  <2>1. m \in Nodes /\ campaign.mark \in Chain /\ IsPrefixOf(campaign.mark, snap[m])
    BY <1>4, CampaignTyped DEF IInv, SignedBacked
  <2>. QED  BY <1>1, <2>1, PrefixOrder
<1>5. ASSUME MaxRestores = 0, NEW c \in certs
      PROVE  IsQuorum({m \in Nodes : IsPrefixOf(c.mark, snap'[m])})
  <2>1. c.mark \in Chain /\ IsQuorum({m \in Nodes : IsPrefixOf(c.mark, snap[m])})
    BY <1>5 DEF IInv, TypeOK, SignedBacked, CertifiedHeld
  <2>. QED  BY <1>1, <2>1, BackingKept
<1>6. ASSUME MaxRestores = 0, NEW m \in Nodes PROVE IsPrefixOf(passed[m], rec'[m])
  <2>1. passed[m] \in Chain /\ IsPrefixOf(passed[m], rec[m])
    BY <1>6 DEF IInv, TypeOK, SignedBacked, PassedHolds
  <2>. QED  BY <1>1, <2>1, PrefixOrder
<1>7. SignedBacked'
  BY <1>2, <1>4, <1>5, <1>6 DEF SignedBacked, CertifiedHeld, PassedHolds, IsQuorum
<1>8. NeverTruncated'
  BY <1>1, <1>2 DEF IInv, NeverTruncated
<1>9. MaxRestores = 0 => \A m \in Nodes : IsPrefixOf(snap'[m], journal')
  BY <1>1, <1>2 DEF IInv, OneHistory
<1>. QED  BY <1>1, <1>3, <1>7, <1>8, <1>9

\* The source appends.
LEMMA AppendEventStep == IInv /\ AppendEvent => IInv'
<1>. SUFFICES ASSUME IInv, AppendEvent PROVE IInv'
  OBVIOUS
<1>1. /\ appended' = appended + 1 /\ journal' = Append(journal, appended + 1)
      /\ UNCHANGED <<restores, rec, snap, push, late, acked, campaign, certs, controls,
                     guard, passed>>
  BY DEF AppendEvent, replicas, pushes, election, takeover
<1>2. journal \in Chain /\ appended + 1 \in 1..MaxEvents
  BY BoundsAssumption DEF IInv, TypeOK, AppendEvent
<1>3. journal' \in Chain /\ \A s \in Chain : IsPrefixOf(s, journal) => IsPrefixOf(s, journal')
  BY <1>1, <1>2, AppendChain, PrefixOrder
<1>4. TypeOK'
  BY <1>1, <1>2, <1>3 DEF IInv, TypeOK
<1>5. RecOfSnap' /\ AcksBacked' /\ AckedBacked' /\ NeverTruncated'
  BY <1>1 DEF IInv, RecOfSnap, AcksBacked, AckedBacked, NeverTruncated, IsQuorum
<1>6. SignedBacked'
  BY <1>1 DEF IInv, SignedBacked, CertifiedHeld, PassedHolds, IsQuorum
<1>7. OneHistory'
  <2>. SUFFICES ASSUME MaxRestores = 0
                PROVE  /\ \A n \in Nodes : /\ IsPrefixOf(snap[n], journal')
                                           /\ IsPrefixOf(guard[n].mark, journal')
                                           /\ IsPrefixOf(guard[n].got, journal')
                       /\ \A p \in Pushers : IsPrefixOf(push[p].ck, journal')
                       /\ \A r \in late : IsPrefixOf(r[2], journal')
                       /\ IsPrefixOf(campaign.mark, journal')
                       /\ \A c \in certs : IsPrefixOf(c.mark, journal')
    BY <1>1 DEF OneHistory
  <2>1. /\ \A n \in Nodes : snap[n] \in Chain /\ guard[n].mark \in Chain /\ guard[n].got \in Chain
        /\ \A p \in Pushers : push[p].ck \in Chain
        /\ \A r \in late : r[2] \in Chain
        /\ campaign.mark \in Chain
        /\ \A c \in certs : c.mark \in Chain
    BY CampaignTyped DEF IInv, TypeOK
  <2>. QED  BY <1>3, <2>1 DEF IInv, OneHistory
<1>. QED  BY <1>4, <1>5, <1>6, <1>7 DEF IInv

\* The source is restored: what the replicas back does not depend on it.
LEMMA RestoreSourceStep ==
    ASSUME IInv, NEW k \in 0..MaxEvents, RestoreSource(k) PROVE IInv'
<1>1. /\ journal' = FirstOf(journal, k) /\ restores' = restores + 1
      /\ push' = [p \in Pushers |-> IdlePush]
      /\ UNCHANGED <<appended, rec, snap, late, acked, campaign, certs, controls,
                     guard, passed>>
  BY DEF RestoreSource, replicas, election, takeover
<1>2. MaxRestores # 0 /\ restores' \in 0..MaxRestores
  BY <1>1, BoundsAssumption DEF RestoreSource, IInv, TypeOK
<1>3. journal' \in Chain /\ <<>> \in Chain
  <2>1. journal \in Chain /\ k \in Nat /\ Len(journal) \in Nat
    BY LenProperties, BoundsAssumption DEF IInv, TypeOK, Chain
  <2>. QED  BY <1>1, <2>1, FirstOfChain DEF RestoreSource, Chain
<1>4. TypeOK'
  BY <1>1, <1>2, <1>3 DEF IInv, TypeOK, IdlePush
<1>5. RecOfSnap' /\ AcksBacked' /\ AckedBacked' /\ NeverTruncated'
  BY <1>1 DEF IInv, RecOfSnap, AcksBacked, AckedBacked, NeverTruncated, IsQuorum, IdlePush
<1>. QED  BY <1>2, <1>4, <1>5 DEF IInv, OneHistory, SignedBacked

\* The source reads what it will push, or one target's answer is lost or a
\* refusal: no replica changes, and no ACK is counted.
LEMMA PushOnlyStep ==
    ASSUME IInv, NEW p \in Pushers,
           \/ ReadSnapshot(p) \/ ReadEvents(p)
           \/ \E n \in Nodes : PushRefused(p, n) \/ PushFails(p, n)
    PROVE  IInv'
<1>1. /\ UNCHANGED <<journal, appended, restores, rec, snap, acked, campaign, certs,
                     controls, guard, passed>>
      /\ \E q \in [phase : {"idle", "reading", "sending"}, ck : Chain,
                   todo : SUBSET Nodes, acks : SUBSET Nodes] :
            /\ push' = [push EXCEPT ![p] = q]
            /\ \A n \in q.acks : IsPrefixOf(q.ck, snap[n])
            /\ MaxRestores = 0 => IsPrefixOf(q.ck, journal)
      /\ late' \in SUBSET (Nodes \X Chain)
      /\ MaxRestores = 0 => \A r \in late' : IsPrefixOf(r[2], journal)
  <2>. USE DEF source, replicas, election, takeover
  <2>0. journal \in Chain /\ <<>> \in Chain /\ IsPrefixOf(journal, journal)
         /\ IsPrefixOf(<<>>, journal)
    <3>1. journal \in Chain /\ <<>> \in Chain
      BY DEF IInv, TypeOK, Chain
    <3>. QED  BY <3>1, PrefixOrder
  <2>1. CASE ReadSnapshot(p)
    <3>. DEFINE q == [phase |-> "reading", ck |-> journal, todo |-> {}, acks |-> {}]
    <3>1. push' = [push EXCEPT ![p] = q] /\ late' = late
      BY <2>1 DEF ReadSnapshot
    <3>2. q \in [phase : {"idle", "reading", "sending"}, ck : Chain,
                 todo : SUBSET Nodes, acks : SUBSET Nodes]
      BY <2>0
    <3>3. UNCHANGED <<journal, appended, restores, rec, snap, acked, campaign, certs,
                     controls, guard, passed>>
      BY <2>1 DEF ReadSnapshot
    <3>4. late \in SUBSET (Nodes \X Chain) /\ (MaxRestores = 0 => \A r \in late : IsPrefixOf(r[2], journal))
      BY DEF IInv, TypeOK, OneHistory
    <3>. QED  BY <2>0, <3>1, <3>2, <3>3, <3>4
  <2>2. CASE ReadEvents(p)
    <3>. DEFINE q == IF Len(journal) = Len(push[p].ck)
                       THEN [phase |-> "sending", ck |-> journal, todo |-> Nodes, acks |-> {}]
                       ELSE IdlePush
    <3>1. push' = [push EXCEPT ![p] = q] /\ late' = late
      BY <2>2 DEF ReadEvents
    <3>2. /\ q \in [phase : {"idle", "reading", "sending"}, ck : Chain,
                    todo : SUBSET Nodes, acks : SUBSET Nodes]
          /\ q.acks = {} /\ q.ck \in {<<>>, journal}
      BY <2>0 DEF IdlePush
    <3>3. UNCHANGED <<journal, appended, restores, rec, snap, acked, campaign, certs,
                     controls, guard, passed>>
      BY <2>2 DEF ReadEvents
    <3>4. late \in SUBSET (Nodes \X Chain) /\ (MaxRestores = 0 => \A r \in late : IsPrefixOf(r[2], journal))
      BY DEF IInv, TypeOK, OneHistory
    <3>. HIDE DEF q
    <3>. QED  BY <2>0, <3>1, <3>2, <3>3, <3>4
  <2>3. CASE \E n \in Nodes : PushRefused(p, n) \/ PushFails(p, n)
    <3>1. PICK n \in Nodes : PushRefused(p, n) \/ PushFails(p, n)
      BY <2>3
    <3>. DEFINE q == [phase |-> "sending", ck |-> push[p].ck,
                      todo |-> push[p].todo \ {n}, acks |-> push[p].acks]
    <3>2. push' = [push EXCEPT ![p] = q] /\ late' \in {late, late \union {<<n, push[p].ck>>}}
      BY <3>1 DEF PushRefused, PushFails, Visited
    <3>3. /\ push[p].ck \in Chain /\ push[p].todo \in SUBSET Nodes /\ push[p].acks \in SUBSET Nodes
          /\ \A m \in push[p].acks : IsPrefixOf(push[p].ck, snap[m])
          /\ MaxRestores = 0 => IsPrefixOf(push[p].ck, journal)
          /\ late \in SUBSET (Nodes \X Chain)
          /\ MaxRestores = 0 => \A r \in late : IsPrefixOf(r[2], journal)
      BY DEF IInv, TypeOK, AcksBacked, OneHistory
    <3>4. UNCHANGED <<journal, appended, restores, rec, snap, acked, campaign, certs,
                     controls, guard, passed>>
      BY <3>1 DEF PushRefused, PushFails
    <3>5. q \in [phase : {"idle", "reading", "sending"}, ck : Chain,
                 todo : SUBSET Nodes, acks : SUBSET Nodes]
      BY <3>3
    <3>6. /\ late' \in SUBSET (Nodes \X Chain)
          /\ MaxRestores = 0 => \A r \in late' : IsPrefixOf(r[2], journal)
      BY <3>2, <3>3
    <3>. QED  BY <3>2, <3>3, <3>4, <3>5, <3>6
  <2>. QED  BY <2>1, <2>2, <2>3
<1>2. TypeOK'
  BY <1>1 DEF IInv, TypeOK
<1>3. RecOfSnap' /\ AckedBacked' /\ NeverTruncated' /\ SignedBacked'
  BY <1>1 DEF IInv, RecOfSnap, AckedBacked, NeverTruncated, SignedBacked,
              CertifiedHeld, PassedHolds, IsQuorum
<1>4. AcksBacked' /\ OneHistory'
  <2>1. push \in [Pushers -> [phase : {"idle", "reading", "sending"}, ck : Chain,
                              todo : SUBSET Nodes, acks : SUBSET Nodes]]
    BY DEF IInv, TypeOK
  <2>. QED  BY <1>1, <2>1 DEF IInv, AcksBacked, OneHistory
<1>. QED  BY <1>2, <1>3, <1>4 DEF IInv

\* A target takes the checkpoint and is counted.
LEMMA PushAppliedStep ==
    ASSUME IInv, NEW p \in Pushers, NEW n \in Nodes, PushApplied(p, n) PROVE IInv'
<1>. DEFINE ck == push[p].ck
            q == [phase |-> "sending", ck |-> ck,
                  todo |-> push[p].todo \ {n}, acks |-> push[p].acks \union {n}]
<1>1. /\ CanApply(n, ck) /\ Apply(n, ck) /\ push' = [push EXCEPT ![p] = q]
      /\ UNCHANGED <<source, acked, election, passed>>
      /\ UNCHANGED <<journal, appended, restores, late, acked, campaign, certs, controls,
                     guard, passed>>
  BY DEF PushApplied, Visited, source, election, takeover
<1>2. /\ push \in [Pushers -> [phase : {"idle", "reading", "sending"}, ck : Chain,
                               todo : SUBSET Nodes, acks : SUBSET Nodes]]
      /\ snap \in [Nodes -> Chain]
      /\ MaxRestores = 0 => IsPrefixOf(ck, journal)
  BY DEF IInv, TypeOK, OneHistory
<1>3. /\ rec' \in [Nodes -> Chain] /\ snap' \in [Nodes -> Chain]
      /\ RecOfSnap' /\ AckedBacked' /\ SignedBacked' /\ NeverTruncated'
      /\ MaxRestores = 0 => \A m \in Nodes : IsPrefixOf(snap'[m], journal')
      /\ \A m \in Nodes : IsPrefixOf(snap[m], snap'[m])
      /\ snap'[n] = ck
  BY <1>1, <1>2, ApplyCarries
<1>4. TypeOK'
  BY <1>1, <1>2, <1>3 DEF IInv, TypeOK
<1>5. AcksBacked'
  <2>. SUFFICES ASSUME NEW r \in Pushers, NEW m \in push'[r].acks
                PROVE  IsPrefixOf(push'[r].ck, snap'[m])
    BY DEF AcksBacked
  <2>1. CASE r = p /\ m = n
    BY <1>1, <1>2, <1>3, <2>1, PrefixOrder
  <2>2. CASE ~(r = p /\ m = n)
    <3>1. m \in push[r].acks /\ push'[r].ck = push[r].ck
      BY <1>1, <1>2, <2>2
    <3>2. m \in Nodes /\ push[r].ck \in Chain /\ IsPrefixOf(push[r].ck, snap[m])
      BY <1>2, <3>1 DEF IInv, AcksBacked
    <3>. QED  BY <1>2, <1>3, <3>1, <3>2, PrefixOrder
  <2>. QED  BY <2>1, <2>2
<1>6. OneHistory'
  BY <1>1, <1>2, <1>3 DEF IInv, OneHistory
<1>. QED  BY <1>3, <1>4, <1>5, <1>6 DEF IInv

\* Growing snapshots keep the ACKs of pushes that do not move.
LEMMA AcksKept ==
    ASSUME IInv, push' = push, snap' \in [Nodes -> Chain],
           \A m \in Nodes : IsPrefixOf(snap[m], snap'[m])
    PROVE  AcksBacked'
<1>. SUFFICES ASSUME NEW r \in Pushers, NEW m \in push[r].acks
              PROVE  IsPrefixOf(push[r].ck, snap'[m])
  BY DEF AcksBacked
<1>1. m \in Nodes /\ push[r].ck \in Chain /\ IsPrefixOf(push[r].ck, snap[m]) /\ snap[m] \in Chain
  BY DEF IInv, TypeOK, AcksBacked
<1>. QED  BY <1>1, PrefixOrder

\* A request is served after its sender has given up.
LEMMA LateRequestStep ==
    ASSUME IInv, NEW n \in Nodes, NEW ck, LateRequest(n, ck) PROVE IInv'
<1>1. /\ late' = late \ {<<n, ck>>} /\ <<n, ck>> \in late
      /\ UNCHANGED <<source, acked, election, passed>>
      /\ UNCHANGED <<journal, appended, restores, push, acked, campaign, certs, controls,
                     guard, passed>>
  BY DEF LateRequest, source, election, takeover
<1>2. ck \in Chain /\ late' \in SUBSET (Nodes \X Chain)
  BY <1>1 DEF IInv, TypeOK
<1>3. MaxRestores = 0 => IsPrefixOf(ck, journal)
  BY <1>1 DEF IInv, OneHistory
<1>4. CASE CanApply(n, ck)
  <2>1. Apply(n, ck)
    BY <1>4 DEF LateRequest
  <2>2. /\ rec' \in [Nodes -> Chain] /\ snap' \in [Nodes -> Chain]
        /\ RecOfSnap' /\ AckedBacked' /\ SignedBacked' /\ NeverTruncated'
        /\ MaxRestores = 0 => \A m \in Nodes : IsPrefixOf(snap'[m], journal')
        /\ \A m \in Nodes : IsPrefixOf(snap[m], snap'[m])
    BY <1>1, <1>2, <1>3, <1>4, <2>1, ApplyCarries
  <2>3. TypeOK'
    BY <1>1, <1>2, <2>2 DEF IInv, TypeOK
  <2>4. AcksBacked'
    BY <1>1, <2>2, AcksKept
  <2>5. OneHistory'
    BY <1>1, <2>2 DEF IInv, OneHistory
  <2>. QED  BY <2>2, <2>3, <2>4, <2>5 DEF IInv
<1>5. CASE ~CanApply(n, ck)
  <2>1. rec' = rec /\ snap' = snap
    BY <1>5 DEF LateRequest, replicas
  <2>2. TypeOK'
    BY <1>1, <1>2, <2>1 DEF IInv, TypeOK
  <2>3. RecOfSnap' /\ AcksBacked' /\ AckedBacked' /\ NeverTruncated' /\ SignedBacked'
    BY <1>1, <2>1 DEF IInv, RecOfSnap, AcksBacked, AckedBacked, NeverTruncated, SignedBacked,
                      CertifiedHeld, PassedHolds, IsQuorum
  <2>4. OneHistory'
    BY <1>1, <2>1 DEF IInv, OneHistory
  <2>. QED  BY <2>2, <2>3, <2>4 DEF IInv
<1>. QED  BY <1>4, <1>5

\* A push ends: its ACKs are the quorum that the report is about.
LEMMA PushEndsStep == ASSUME IInv, NEW p \in Pushers, PushEnds(p) PROVE IInv'
<1>1. /\ acked' = IF IsQuorum(push[p].acks) THEN acked \union {push[p].ck} ELSE acked
      /\ push' = [push EXCEPT ![p] = IdlePush]
      /\ UNCHANGED <<journal, appended, restores, rec, snap, late, campaign, certs, controls,
                     guard, passed>>
  BY DEF PushEnds, source, replicas, election, takeover
<1>2. /\ push \in [Pushers -> [phase : {"idle", "reading", "sending"}, ck : Chain,
                               todo : SUBSET Nodes, acks : SUBSET Nodes]]
      /\ <<>> \in Chain /\ IsPrefixOf(<<>>, journal)
  <2>1. <<>> \in Chain /\ journal \in Chain
    BY DEF IInv, TypeOK, Chain
  <2>. QED  BY <2>1, PrefixOrder DEF IInv, TypeOK
<1>3. TypeOK'
  BY <1>1, <1>2 DEF IInv, TypeOK, IdlePush
<1>4. AckedBacked'
  <2>. SUFFICES ASSUME NEW c \in acked'
                PROVE  IsQuorum({n \in Nodes : IsPrefixOf(c, snap[n])})
    BY <1>1 DEF AckedBacked, IsQuorum
  <2>1. CASE c \in acked
    BY <2>1 DEF IInv, AckedBacked
  <2>2. CASE c \notin acked
    <3>1. c = push[p].ck /\ IsQuorum(push[p].acks) /\ push[p].acks \in SUBSET Nodes
      BY <1>1, <1>2, <2>2
    <3>2. push[p].acks \subseteq {n \in Nodes : IsPrefixOf(c, snap[n])}
      BY <3>1 DEF IInv, AcksBacked
    <3>. QED  BY <3>1, <3>2, QuorumsGrow
  <2>. QED  BY <2>1, <2>2
<1>5. AcksBacked' /\ OneHistory'
  BY <1>1, <1>2 DEF IInv, AcksBacked, OneHistory, IdlePush
<1>6. RecOfSnap' /\ NeverTruncated' /\ SignedBacked'
  BY <1>1 DEF IInv, RecOfSnap, NeverTruncated, SignedBacked, CertifiedHeld, PassedHolds, IsQuorum
<1>. QED  BY <1>3, <1>4, <1>5, <1>6 DEF IInv

\* A verified replica that is at least as long as a prefix of the one history
\* holds it; this is where forks of the source would matter.
LEMMA LongerHolds ==
    ASSUME IInv, MaxRestores = 0, NEW n \in Nodes, NEW mark \in Chain,
           IsPrefixOf(mark, journal), Len(snap[n]) >= Len(mark)
    PROVE  IsPrefixOf(mark, snap[n])
<1>1. snap[n] \in Chain /\ journal \in Chain /\ IsPrefixOf(snap[n], journal)
  BY DEF IInv, TypeOK, OneHistory
<1>. QED  BY <1>1, PrefixOrder

\* A campaign begins, with the candidate's verified chain, the renewed
\* certificate's prefix, or nothing.
LEMMA CampaignBeginsStep ==
    ASSUME IInv, NEW n \in Nodes, Acquire(n) \/ \E c \in certs : Renew(n, c) PROVE IInv'
<1>1. /\ MaxControls # 0 /\ controls' \in 0..MaxControls
      /\ UNCHANGED <<journal, appended, restores, rec, snap, push, late, acked, certs,
                     guard, passed>>
  BY BoundsAssumption DEF Acquire, Renew, source, replicas, pushes, takeover, IInv, TypeOK
<1>2. \E m \in Chain : /\ campaign' = [leader |-> n, mark |-> m, signed |-> {}]
                       /\ MaxRestores = 0 => IsPrefixOf(m, journal)
  <2>0. /\ <<>> \in Chain /\ IsPrefixOf(<<>>, journal)
        /\ snap[n] \in Chain /\ (MaxRestores = 0 => IsPrefixOf(snap[n], journal))
    <3>1. <<>> \in Chain /\ journal \in Chain
      BY DEF IInv, TypeOK, Chain
    <3>. QED  BY <3>1, PrefixOrder DEF IInv, TypeOK, OneHistory
  <2>1. CASE Acquire(n)
    BY <2>0, <2>1 DEF Acquire, propose
  <2>2. CASE \E c \in certs : Renew(n, c)
    <3>1. PICK c \in certs : Renew(n, c)
      BY <2>2
    <3>2. c.mark \in Chain /\ (MaxRestores = 0 => IsPrefixOf(c.mark, journal))
      BY DEF IInv, TypeOK, OneHistory
    <3>3. campaign' = [leader |-> n, signed |-> {},
                       mark |-> IF Verified(n) THEN snap[n] ELSE c.mark]
      BY <3>1 DEF Renew
    <3>. QED  BY <2>0, <3>2, <3>3
  <2>. QED  BY <2>1, <2>2
<1>3. TypeOK'
  BY <1>1, <1>2 DEF IInv, TypeOK
<1>4. RecOfSnap' /\ AcksBacked' /\ AckedBacked'
  BY <1>1 DEF IInv, RecOfSnap, AcksBacked, AckedBacked, IsQuorum
<1>5. OneHistory'
  BY <1>1, <1>2 DEF IInv, OneHistory
<1>6. SignedBacked' /\ NeverTruncated'
  BY <1>1, <1>2 DEF IInv, SignedBacked, NeverTruncated, CertifiedHeld, PassedHolds, IsQuorum
<1>. QED  BY <1>3, <1>4, <1>5, <1>6 DEF IInv

\* A voter signs.
LEMMA SignVoteStep == ASSUME IInv, NEW n \in Nodes, SignVote(n) PROVE IInv'
<1>1. /\ campaign' = [leader |-> campaign.leader, mark |-> campaign.mark,
                      signed |-> campaign.signed \union {n}]
      /\ UNCHANGED <<journal, appended, restores, rec, snap, push, late, acked, certs,
                     controls, guard, passed>>
      /\ campaign # NoCampaign /\ CanVouch(n, campaign.mark)
  BY DEF SignVote, source, replicas, pushes, takeover
<1>2. campaign \in [leader : Nodes, mark : Chain, signed : SUBSET Nodes]
  BY <1>1 DEF IInv, TypeOK
<1>3. TypeOK'
  BY <1>1, <1>2 DEF IInv, TypeOK
<1>4. RecOfSnap' /\ AcksBacked' /\ AckedBacked' /\ OneHistory'
  BY <1>1, <1>2 DEF IInv, RecOfSnap, AcksBacked, AckedBacked, IsQuorum, OneHistory
<1>5. ASSUME MaxRestores = 0 PROVE IsPrefixOf(campaign.mark, snap[n])
  <2>1. snap[n] \in Chain /\ IsPrefixOf(campaign.mark, journal)
    BY <1>5 DEF IInv, TypeOK, OneHistory
  <2>2. CASE campaign.mark = <<>>
    BY <2>1, <2>2, PrefixOrder
  <2>3. CASE campaign.mark # <<>>
    BY <1>1, <1>2, <1>5, <2>1, <2>3, LongerHolds DEF CanVouch
  <2>. QED  BY <2>2, <2>3
<1>6. SignedBacked' /\ NeverTruncated'
  BY <1>1, <1>2, <1>5 DEF IInv, SignedBacked, NeverTruncated, CertifiedHeld, PassedHolds, IsQuorum
<1>. QED  BY <1>3, <1>4, <1>6 DEF IInv

\* A campaign ends: its signers are the quorum its certificate is backed by.
LEMMA CampaignEndsStep == IInv /\ CampaignEnds => IInv'
<1>. SUFFICES ASSUME IInv, CampaignEnds PROVE IInv'
  OBVIOUS
<1>. DEFINE new == [leader |-> campaign.leader, mark |-> campaign.mark]
<1>1. /\ certs' = IF IsQuorum(campaign.signed) THEN certs \union {new} ELSE certs
      /\ campaign' = NoCampaign /\ campaign # NoCampaign
      /\ UNCHANGED <<journal, appended, restores, rec, snap, push, late, acked, controls,
                     guard, passed>>
  BY DEF CampaignEnds, source, replicas, pushes, takeover
<1>2. campaign \in [leader : Nodes, mark : Chain, signed : SUBSET Nodes]
  BY <1>1 DEF IInv, TypeOK
<1>3. <<>> \in Chain /\ IsPrefixOf(<<>>, journal)
  <2>1. <<>> \in Chain /\ journal \in Chain
    BY DEF IInv, TypeOK, Chain
  <2>. QED  BY <2>1, PrefixOrder
<1>4. TypeOK'
  <2>1. certs' \in SUBSET [leader : Nodes, mark : Chain]
    BY <1>1, <1>2 DEF IInv, TypeOK
  <2>. QED  BY <1>1, <2>1 DEF IInv, TypeOK
<1>5. RecOfSnap' /\ AcksBacked' /\ AckedBacked'
  BY <1>1 DEF IInv, RecOfSnap, AcksBacked, AckedBacked, IsQuorum
<1>6. OneHistory'
  BY <1>1, <1>2, <1>3 DEF IInv, OneHistory, NoCampaign
<1>7. ASSUME MaxRestores = 0, NEW c \in certs'
      PROVE  IsQuorum({n \in Nodes : IsPrefixOf(c.mark, snap[n])})
  <2>1. CASE c \in certs
    BY <1>7, <2>1 DEF IInv, SignedBacked, CertifiedHeld
  <2>2. CASE c \notin certs
    <3>1. c.mark = campaign.mark /\ IsQuorum(campaign.signed) /\ campaign.signed \in SUBSET Nodes
      BY <1>1, <1>2, <1>7, <2>2
    <3>2. campaign.signed \subseteq {n \in Nodes : IsPrefixOf(c.mark, snap[n])}
      BY <1>7, <3>1 DEF IInv, SignedBacked
    <3>. QED  BY <3>1, <3>2, QuorumsGrow
  <2>. QED  BY <2>1, <2>2
<1>8. SignedBacked'
  BY <1>1, <1>7 DEF IInv, SignedBacked, CertifiedHeld, PassedHolds, IsQuorum, NoCampaign
<1>9. NeverTruncated'
  BY <1>1 DEF IInv, NeverTruncated
<1>. QED  BY <1>4, <1>5, <1>6, <1>8, <1>9 DEF IInv

\* Steps of enforce that touch no replica: what a node has passed, it holds.
LEMMA GuardOnlyStep ==
    ASSUME IInv, NEW n \in Nodes,
           \/ \E c \in certs : EnforceNothing(n, c)
           \/ EnforceHeld(n) \/ EnforceDecide(n)
           \/ \E peer \in Nodes : RecoverRequest(n, peer)
    PROVE  IInv'
<1>0. /\ <<>> \in Chain /\ IsPrefixOf(<<>>, journal) /\ IsPrefixOf(<<>>, rec[n])
      /\ guard \in [Nodes -> [phase : {"idle", "held", "recover"}, mark : Chain,
                              todo : SUBSET Nodes, got : Chain]]
      /\ passed \in [Nodes -> Chain]
  <2>1. <<>> \in Chain /\ journal \in Chain /\ rec[n] \in Chain
    BY DEF IInv, TypeOK, Chain
  <2>. QED  BY <2>1, PrefixOrder DEF IInv, TypeOK
<1>1. /\ UNCHANGED <<journal, appended, restores, rec, snap, push, late, acked, campaign,
                     certs>>
      /\ controls' \in 0..MaxControls
      /\ \E g \in [phase : {"idle", "held", "recover"}, mark : Chain,
                   todo : SUBSET Nodes, got : Chain] :
            /\ guard' = [guard EXCEPT ![n] = g]
            /\ MaxRestores = 0 => IsPrefixOf(g.mark, journal) /\ IsPrefixOf(g.got, journal)
      /\ \E m \in Chain :
            /\ passed' = [passed EXCEPT ![n] = m]
            /\ MaxRestores = 0 => IsPrefixOf(m, rec[n])
  <2>. USE DEF source, replicas, pushes, election
  <2>0. /\ guard[n] \in [phase : {"idle", "held", "recover"}, mark : Chain,
                         todo : SUBSET Nodes, got : Chain]
        /\ guard = [guard EXCEPT ![n] = guard[n]] /\ passed = [passed EXCEPT ![n] = passed[n]]
        /\ MaxRestores = 0 => /\ IsPrefixOf(guard[n].mark, journal)
                              /\ IsPrefixOf(guard[n].got, journal)
                              /\ IsPrefixOf(passed[n], rec[n])
        /\ passed[n] \in Chain /\ controls \in 0..MaxControls
    BY <1>0 DEF IInv, TypeOK, OneHistory, SignedBacked, PassedHolds
  <2>1. CASE \E c \in certs : EnforceNothing(n, c)
    <3>1. /\ passed' = [passed EXCEPT ![n] = <<>>] /\ guard' = guard
          /\ UNCHANGED <<journal, appended, restores, rec, snap, push, late, acked, campaign,
                         certs>>
      BY <2>1 DEF EnforceNothing
    <3>2. controls' \in 0..MaxControls
      BY <2>0, <2>1, BoundsAssumption DEF EnforceNothing
    <3>. QED  BY <1>0, <2>0, <3>1, <3>2
  <2>2. CASE EnforceHeld(n)
    <3>. DEFINE g == [phase |-> "recover", mark |-> guard[n].mark, got |-> <<>>,
                      todo |-> IF Verified(n) /\ Len(snap[n]) >= Len(guard[n].mark)
                                 THEN {} ELSE Nodes]
    <3>1. /\ guard' = [guard EXCEPT ![n] = g] /\ passed' = passed
          /\ UNCHANGED <<journal, appended, restores, rec, snap, push, late, acked, campaign,
                         certs, controls>>
      BY <2>2 DEF EnforceHeld
    <3>2. g \in [phase : {"idle", "held", "recover"}, mark : Chain,
                 todo : SUBSET Nodes, got : Chain]
      BY <1>0, <2>0
    <3>. QED  BY <1>0, <2>0, <3>1, <3>2
  <2>3. CASE EnforceDecide(n)
    <3>. DEFINE m == IF HoldsCommitted(n, guard[n].mark) THEN guard[n].mark ELSE <<>>
    <3>1. /\ guard' = [guard EXCEPT ![n] = IdleGuard] /\ passed' = [passed EXCEPT ![n] = m]
          /\ UNCHANGED <<journal, appended, restores, rec, snap, push, late, acked, campaign,
                         certs, controls>>
      BY <2>3 DEF EnforceDecide
    <3>2. /\ IdleGuard \in [phase : {"idle", "held", "recover"}, mark : Chain,
                            todo : SUBSET Nodes, got : Chain]
          /\ IdleGuard.mark = <<>> /\ IdleGuard.got = <<>>
      BY <1>0 DEF IdleGuard
    <3>3. m \in Chain
      BY <1>0, <2>0
    <3>4. MaxRestores = 0 => IsPrefixOf(m, rec[n])
      <4>. SUFFICES ASSUME MaxRestores = 0 PROVE IsPrefixOf(m, rec[n])
        OBVIOUS
      <4>1. CASE HoldsCommitted(n, guard[n].mark)
        <5>1. rec[n] = snap[n] /\ Len(snap[n]) >= Len(guard[n].mark)
          BY <4>1 DEF HoldsCommitted, Verified
        <5>. QED  BY <2>0, <4>1, <5>1, LongerHolds
      <4>2. CASE ~HoldsCommitted(n, guard[n].mark)
        BY <1>0, <4>2
      <4>. QED  BY <4>1, <4>2
    <3>. HIDE DEF m
    <3>. QED  BY <1>0, <2>0, <3>1, <3>2, <3>3, <3>4
  <2>4. CASE \E peer \in Nodes : RecoverRequest(n, peer)
    <3>1. PICK peer \in Nodes : RecoverRequest(n, peer)
      BY <2>4
    <3>2. PICK ck \in {<<>>} \union (IF Verified(peer) THEN {snap[peer]} ELSE {}) :
             guard' = [guard EXCEPT ![n] =
                        [phase |-> "recover", mark |-> guard[n].mark,
                         todo |-> guard[n].todo \ {peer}, got |-> ck]]
      BY <3>1 DEF RecoverRequest
    <3>3. ck \in Chain /\ (MaxRestores = 0 => IsPrefixOf(ck, journal))
      BY <1>0, <3>2 DEF IInv, TypeOK, OneHistory
    <3>4. /\ passed' = passed
          /\ UNCHANGED <<journal, appended, restores, rec, snap, push, late, acked, campaign,
                         certs, controls>>
      BY <3>1 DEF RecoverRequest
    <3>5. [phase |-> "recover", mark |-> guard[n].mark, todo |-> guard[n].todo \ {peer}, got |-> ck]
             \in [phase : {"idle", "held", "recover"}, mark : Chain,
                  todo : SUBSET Nodes, got : Chain]
      BY <2>0, <3>3
    <3>. QED  BY <2>0, <3>2, <3>3, <3>4, <3>5
  <2>. QED  BY <2>1, <2>2, <2>3, <2>4
<1>2. TypeOK'
  BY <1>0, <1>1 DEF IInv, TypeOK
<1>3. RecOfSnap' /\ AcksBacked' /\ AckedBacked' /\ NeverTruncated'
  BY <1>1 DEF IInv, RecOfSnap, AcksBacked, AckedBacked, NeverTruncated, IsQuorum
<1>4. OneHistory'
  BY <1>0, <1>1 DEF IInv, OneHistory
<1>5. SignedBacked'
  BY <1>0, <1>1 DEF IInv, SignedBacked, CertifiedHeld, PassedHolds, IsQuorum
<1>. QED  BY <1>2, <1>3, <1>4, <1>5 DEF IInv

\* enforce drops the events after the declared prefix; the snapshots, and
\* with them every quorum, stay.
LEMMA EnforceTruncateStep ==
    ASSUME IInv, NEW n \in Nodes, NEW c \in certs, EnforceTruncate(n, c) PROVE IInv'
<1>. DEFINE g == [phase |-> "held", mark |-> c.mark, todo |-> {}, got |-> <<>>]
<1>1. /\ passed' = [passed EXCEPT ![n] = <<>>] /\ guard' = [guard EXCEPT ![n] = g]
      /\ UNCHANGED <<journal, appended, restores, push, late, acked, campaign, certs>>
  BY DEF EnforceTruncate, source, pushes
<1>2. /\ c.mark \in Chain /\ (MaxRestores = 0 => IsPrefixOf(c.mark, journal))
      /\ guard \in [Nodes -> [phase : {"idle", "held", "recover"}, mark : Chain,
                              todo : SUBSET Nodes, got : Chain]]
      /\ passed \in [Nodes -> Chain] /\ rec \in [Nodes -> Chain] /\ snap \in [Nodes -> Chain]
  BY DEF IInv, TypeOK, OneHistory
<1>3. <<>> \in Chain /\ IsPrefixOf(<<>>, journal) /\ Len(c.mark) \in Nat /\ Len(rec[n]) \in Nat
  <2>1. <<>> \in Chain /\ journal \in Chain
    BY DEF IInv, TypeOK, Chain
  <2>2. rec[n] \in Seq(1..MaxEvents) /\ c.mark \in Seq(1..MaxEvents)
    BY <1>2 DEF Chain
  <2>. QED  BY <2>1, <2>2, PrefixOrder, LenProperties
<1>4. /\ rec' \in [Nodes -> Chain] /\ snap' = snap /\ RecOfSnap'
      /\ \A m \in Nodes \ {n} : rec'[m] = rec[m]
  <2>1. CASE Len(rec[n]) > Len(c.mark)
    <3>1. truncate_to(n, Len(c.mark))
      BY <2>1 DEF EnforceTruncate
    <3>. QED  BY <1>3, <2>1, <3>1, TruncateStep
  <2>2. CASE ~(Len(rec[n]) > Len(c.mark))
    <3>1. rec' = rec /\ snap' = snap
      BY <2>2 DEF EnforceTruncate, replicas
    <3>. QED  BY <1>2, <3>1 DEF IInv, RecOfSnap
  <2>. QED  BY <2>1, <2>2
<1>5. controls' \in 0..MaxControls /\ MaxControls # 0
  BY BoundsAssumption DEF EnforceTruncate, IInv, TypeOK
<1>6. TypeOK'
  <2>1. g \in [phase : {"idle", "held", "recover"}, mark : Chain,
               todo : SUBSET Nodes, got : Chain]
    BY <1>2, <1>3
  <2>. QED  BY <1>1, <1>2, <1>3, <1>4, <1>5, <2>1 DEF IInv, TypeOK
<1>7. AcksBacked' /\ AckedBacked' /\ NeverTruncated'
  BY <1>1, <1>4, <1>5 DEF IInv, AcksBacked, AckedBacked, NeverTruncated, IsQuorum
<1>8. OneHistory'
  BY <1>1, <1>2, <1>3, <1>4 DEF IInv, OneHistory
<1>9. SignedBacked'
  <2>1. MaxRestores = 0 => PassedHolds'
    <3>. SUFFICES ASSUME MaxRestores = 0, NEW m \in Nodes PROVE IsPrefixOf(passed'[m], rec'[m])
      BY DEF PassedHolds
    <3>1. CASE m = n
      BY <1>1, <1>2, <1>3, <1>4, <3>1, PrefixOrder
    <3>2. CASE m # n
      BY <1>1, <1>2, <1>4, <3>2 DEF IInv, SignedBacked, PassedHolds
    <3>. QED  BY <3>1, <3>2
  <2>. QED  BY <1>1, <1>4, <2>1 DEF IInv, SignedBacked, CertifiedHeld, IsQuorum
<1>. QED  BY <1>4, <1>6, <1>7, <1>8, <1>9 DEF IInv

\* A checkpoint pulled from a peer is applied, or refused.
LEMMA RecoverApplyStep == ASSUME IInv, NEW n \in Nodes, RecoverApply(n) PROVE IInv'
<1>. DEFINE ck == guard[n].got
            g == [phase |-> "recover", mark |-> guard[n].mark, todo |-> guard[n].todo, got |-> <<>>]
<1>1. /\ guard' = [guard EXCEPT ![n] = g]
      /\ UNCHANGED <<source, acked, election, passed>>
      /\ UNCHANGED <<journal, appended, restores, push, late, acked, campaign, certs, controls,
                     passed>>
  BY DEF RecoverApply, source, pushes, election
<1>2. /\ guard \in [Nodes -> [phase : {"idle", "held", "recover"}, mark : Chain,
                              todo : SUBSET Nodes, got : Chain]]
      /\ ck \in Chain /\ (MaxRestores = 0 => IsPrefixOf(ck, journal))
      /\ MaxRestores = 0 => IsPrefixOf(guard[n].mark, journal)
  BY DEF IInv, TypeOK, OneHistory
<1>3. <<>> \in Chain /\ IsPrefixOf(<<>>, journal)
  <2>1. <<>> \in Chain /\ journal \in Chain
    BY DEF IInv, TypeOK, Chain
  <2>. QED  BY <2>1, PrefixOrder
<1>4. g \in [phase : {"idle", "held", "recover"}, mark : Chain, todo : SUBSET Nodes, got : Chain]
  BY <1>2, <1>3
<1>5. CASE CanApply(n, ck)
  <2>1. Apply(n, ck)
    BY <1>5 DEF RecoverApply
  <2>2. /\ rec' \in [Nodes -> Chain] /\ snap' \in [Nodes -> Chain]
        /\ RecOfSnap' /\ AckedBacked' /\ SignedBacked' /\ NeverTruncated'
        /\ MaxRestores = 0 => \A m \in Nodes : IsPrefixOf(snap'[m], journal')
        /\ \A m \in Nodes : IsPrefixOf(snap[m], snap'[m])
    BY <1>1, <1>2, <1>5, <2>1, ApplyCarries
  <2>3. TypeOK'
    BY <1>1, <1>2, <1>4, <2>2 DEF IInv, TypeOK
  <2>4. AcksBacked'
    BY <1>1, <2>2, AcksKept
  <2>5. OneHistory'
    BY <1>1, <1>2, <1>3, <2>2 DEF IInv, OneHistory
  <2>. QED  BY <2>2, <2>3, <2>4, <2>5 DEF IInv
<1>6. CASE ~CanApply(n, ck)
  <2>1. rec' = rec /\ snap' = snap
    BY <1>6 DEF RecoverApply, replicas
  <2>2. TypeOK'
    BY <1>1, <1>2, <1>4, <2>1 DEF IInv, TypeOK
  <2>3. RecOfSnap' /\ AcksBacked' /\ AckedBacked' /\ NeverTruncated' /\ SignedBacked'
    BY <1>1, <2>1 DEF IInv, RecOfSnap, AcksBacked, AckedBacked, NeverTruncated, SignedBacked,
                      CertifiedHeld, PassedHolds, IsQuorum
  <2>4. OneHistory'
    BY <1>1, <1>2, <1>3, <2>1 DEF IInv, OneHistory
  <2>. QED  BY <2>2, <2>3, <2>4 DEF IInv
<1>. QED  BY <1>5, <1>6

\* Every step preserves the invariant.
LEMMA NextIInv == IInv /\ [Next]_vars => IInv'
<1>. SUFFICES ASSUME IInv, [Next]_vars PROVE IInv'
  OBVIOUS
<1>1. CASE Replicate
  BY <1>1, AppendEventStep, RestoreSourceStep, PushOnlyStep, PushAppliedStep, PushEndsStep,
     LateRequestStep DEF Replicate
<1>2. CASE TakeOver
  BY <1>2, CampaignEndsStep, CampaignBeginsStep, SignVoteStep, GuardOnlyStep,
     EnforceTruncateStep, RecoverApplyStep DEF TakeOver
<1>3. CASE UNCHANGED vars
  <2>1. UNCHANGED <<journal, appended, restores, rec, snap, push, late, acked, campaign, certs,
                    controls, guard, passed>>
    BY <1>3 DEF vars, source, replicas, pushes, election, takeover
  <2>. QED  BY <2>1 DEF IInv, TypeOK, RecOfSnap, AcksBacked, AckedBacked, OneHistory,
                        SignedBacked, CertifiedHeld, PassedHolds, NeverTruncated, IsQuorum
<1>. QED  BY <1>1, <1>2, <1>3 DEF Next

\* IInv is an invariant of the replication.
THEOREM Invariance == Spec => []IInv
BY InitIInv, NextIInv, PTL DEF Spec

\* Type correctness.
THEOREM TypeCorrect == Spec => []TypeOK
BY Invariance, PTL DEF IInv

\* Any two pushes reported durable tell one history, restores of the source
\* and truncations of the replicas included.
THEOREM Linear == Spec => []AckedLinear
<1>1. IInv => AckedLinear
  <2>. SUFFICES ASSUME IInv, NEW c \in acked, NEW d \in acked
                PROVE  IsPrefixOf(c, d) \/ IsPrefixOf(d, c)
    BY DEF AckedLinear
  <2>. DEFINE S == {m \in Nodes : IsPrefixOf(c, snap[m])}
              T == {m \in Nodes : IsPrefixOf(d, snap[m])}
  <2>1. IsQuorum(S) /\ IsQuorum(T) /\ S \in SUBSET Nodes /\ T \in SUBSET Nodes
    BY DEF IInv, AckedBacked
  <2>2. PICK n \in Nodes : n \in S /\ n \in T
    <3>. HIDE DEF S, T
    <3>. QED  BY <2>1, QuorumsIntersect
  <2>3. /\ c \in Chain /\ d \in Chain /\ snap[n] \in Chain
        /\ IsPrefixOf(c, snap[n]) /\ IsPrefixOf(d, snap[n])
    BY <2>2 DEF IInv, TypeOK
  <2>4. Len(c) \in Nat /\ Len(d) \in Nat
    BY <2>3, LenProperties DEF Chain
  <2>5. Len(c) <= Len(d) \/ Len(d) <= Len(c)
    BY <2>4
  <2>. QED  BY <2>3, <2>5, PrefixOrder
<1>. QED  BY <1>1, Invariance, PTL

\* Without certificates nothing is truncated, and what was reported durable
\* stays in the events of a quorum.
THEOREM Durable == MaxControls = 0 => (Spec => []AckedHeld)
<1>. SUFFICES ASSUME MaxControls = 0 PROVE Spec => []AckedHeld
  OBVIOUS
<1>1. IInv => AckedHeld
  BY DEF IInv, NeverTruncated, AckedBacked, AckedHeld
<1>. QED  BY <1>1, Invariance, PTL

\* While the source's file is never restored, the committed prefix of every
\* certificate is in the snapshots of a quorum of voters.
THEOREM Certified == MaxRestores = 0 => (Spec => []CertifiedHeld)
<1>. SUFFICES ASSUME MaxRestores = 0 PROVE Spec => []CertifiedHeld
  OBVIOUS
<1>1. IInv => CertifiedHeld
  BY DEF IInv, SignedBacked
<1>. QED  BY <1>1, Invariance, PTL

\* And a node that enforce let in holds the events of its prefix.
THEOREM Passed == MaxRestores = 0 => (Spec => []PassedHolds)
<1>. SUFFICES ASSUME MaxRestores = 0 PROVE Spec => []PassedHolds
  OBVIOUS
<1>1. IInv => PassedHolds
  BY DEF IInv, SignedBacked
<1>. QED  BY <1>1, Invariance, PTL

\* No step takes back a snapshot that a replica has stored.
LEMMA GrowthStep ==
    IInv /\ [Next]_vars => \A n \in Nodes : IsPrefixOf(snap[n], snap'[n])
<1>. SUFFICES ASSUME IInv, [Next]_vars PROVE \A n \in Nodes : IsPrefixOf(snap[n], snap'[n])
  OBVIOUS
<1>1. CASE snap' = snap
  <2>1. \A n \in Nodes : snap[n] \in Chain
    BY DEF IInv, TypeOK
  <2>. QED  BY <1>1, <2>1, PrefixOrder
<1>2. CASE \E n \in Nodes, ck \in Chain : CanApply(n, ck) /\ Apply(n, ck)
  BY <1>2, ApplyStep
<1>3. CASE \E p \in Pushers, n \in Nodes : PushApplied(p, n)
  <2>1. PICK p \in Pushers, n \in Nodes : PushApplied(p, n)
    BY <1>3
  <2>2. push[p].ck \in Chain
    BY DEF IInv, TypeOK
  <2>. QED  BY <1>2, <2>1, <2>2 DEF PushApplied
<1>4. CASE \E n \in Nodes, ck \in {r[2] : r \in late} : LateRequest(n, ck)
  <2>1. PICK n \in Nodes, ck \in {r[2] : r \in late} : LateRequest(n, ck)
    BY <1>4
  <2>2. ck \in Chain
    BY DEF IInv, TypeOK
  <2>. QED  BY <1>1, <1>2, <2>1, <2>2 DEF LateRequest, replicas
<1>5. CASE \E n \in Nodes : RecoverApply(n)
  <2>1. PICK n \in Nodes : RecoverApply(n)
    BY <1>5
  <2>2. guard[n].got \in Chain
    BY DEF IInv, TypeOK
  <2>. QED  BY <1>1, <1>2, <2>1, <2>2 DEF RecoverApply, replicas
<1>6. CASE \E n \in Nodes, c \in certs : EnforceTruncate(n, c)
  BY <1>1, <1>6 DEF EnforceTruncate, truncate_to, replicas
<1>7. CASE \/ AppendEvent \/ \E k \in 0..MaxEvents : RestoreSource(k)
           \/ \E p \in Pushers :
                \/ ReadSnapshot(p) \/ ReadEvents(p) \/ PushEnds(p)
                \/ \E n \in Nodes : PushRefused(p, n) \/ PushFails(p, n)
  BY <1>1, <1>7 DEF AppendEvent, RestoreSource, ReadSnapshot, ReadEvents, PushEnds,
                    PushRefused, PushFails, replicas
<1>8. CASE \/ CampaignEnds
           \/ \E n \in Nodes :
                \/ Acquire(n) \/ SignVote(n) \/ EnforceHeld(n) \/ EnforceDecide(n)
                \/ \E peer \in Nodes : RecoverRequest(n, peer)
                \/ \E c \in certs : Renew(n, c) \/ EnforceNothing(n, c)
  BY <1>1, <1>8 DEF CampaignEnds, Acquire, SignVote, EnforceHeld, EnforceDecide,
                    RecoverRequest, Renew, EnforceNothing, replicas
<1>9. CASE UNCHANGED vars
  BY <1>1, <1>9 DEF vars, replicas
<1>. QED  BY <1>3, <1>4, <1>5, <1>6, <1>7, <1>8, <1>9 DEF Next, Replicate, TakeOver

\* Snapshots only grow, whatever reaches the replica.
THEOREM Growth == Spec => SnapshotsGrow
<1>1. IInv /\ [Next]_vars => [\A n \in Nodes : IsPrefixOf(snap[n], snap'[n])]_vars
  BY GrowthStep
<1>. QED  BY <1>1, Invariance, PTL DEF Spec, SnapshotsGrow
=============================================================================
