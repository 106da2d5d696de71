------------------------- MODULE JournalReplication -------------------------
(***************************************************************************)
(* The replication of one workflow's journal: the source journal           *)
(* (src/src/task_journal.py), the durable replicas                         *)
(* (src/src/journal_replication.py), the quorum push that precedes an OK   *)
(* (src/src/journal_replication_service.py over                            *)
(* src/src/journal_replication_transport.py), and the committed prefix     *)
(* that certificates declare, voters vouch for and a node enforces before  *)
(* it takes over (JournalPrefixAuthority in                                *)
(* src/src/cluster_auto_role_runtime.py).                                  *)
(*                                                                         *)
(* An event is a number, never used twice.  A chain is the sequence of     *)
(* events from the first one; the code's chained digests identify it, so   *)
(* equal digests are equal chains.  A replica has two rows of durable      *)
(* state: the events (rec) and the snapshot, which stands for the chain it *)
(* was taken at (snap, <<>> when there is none).                           *)
(*                                                                         *)
(* Terms, votes and leases are ClusterQuorum's: here a certificate is the  *)
(* prefix it declares and the voters who signed it.                        *)
(***************************************************************************)
EXTENDS Naturals, Sequences, FiniteSets

CONSTANTS
    Nodes,        \* the voters; each keeps a replica and is a push target
    Pushers,      \* the request threads that push the source's journal
    MaxEvents,    \* bound on the events the source ever appends
    MaxRestores,  \* bound on restores of the source's file from a backup
    MaxLate,      \* bound on requests left in a socket after a timeout
    MaxControls   \* bound on acquisitions, renewals and consumptions

ASSUME NodesAssumption == IsFiniteSet(Nodes) /\ 0 \notin Nodes
ASSUME BoundsAssumption ==
    /\ MaxEvents \in Nat /\ MaxRestores \in Nat
    /\ MaxLate \in Nat /\ MaxControls \in Nat

VARIABLES
    journal,      \* the source's events
    appended,     \* events appended so far, restores notwithstanding
    restores,     \* restores of the source so far
    rec,          \* node -> replicated_events
    snap,         \* node -> the chain of its replicated_snapshots row
    push,         \* thread -> its replicate_journal_to_quorum
    late,         \* requests whose sender has given up
    acked,        \* the chains reported durable (accepted = True)
    campaign,     \* the certificate being signed
    certs,        \* the certificates issued
    controls,     \* acquisitions, renewals and consumptions so far
    guard,        \* node -> its JournalPrefixAuthority.enforce in progress
    passed        \* node -> the prefix of the last enforce that let it in

source == <<journal, appended, restores>>
replicas == <<rec, snap>>
pushes == <<push, late, acked>>
election == <<campaign, certs, controls>>
takeover == <<guard, passed>>
vars == <<source, replicas, pushes, election, takeover>>

Chain == Seq(1..MaxEvents)

IsPrefixOf(s, t) == Len(s) <= Len(t) /\ \A i \in 1..Len(s) : s[i] = t[i]

FirstOf(s, k) == [i \in 1..k |-> s[i]]

(* Mutant: half of the targets is taken for a majority.                    *)
QuorumOfHalf == Cardinality(Nodes) \div 2

required_quorum == (Cardinality(Nodes) \div 2) + 1

IsQuorum(Q) == Cardinality(Q) >= required_quorum

IdlePush == [phase |-> "idle", ck |-> <<>>, todo |-> {}, acks |-> {}]
NoCampaign == [leader |-> 0, mark |-> <<>>, signed |-> {}]
IdleGuard == [phase |-> "idle", mark |-> <<>>, todo |-> {}, got |-> <<>>]
-----------------------------------------------------------------------------
(* A replica's recovery_status: its rows tell one story, and hold it.      *)
Verified(n) == snap[n] # <<>> /\ rec[n] = snap[n]

(* Mutant: a checkpoint that moved backwards is not refused.               *)
CanApplyBackwards(n, ck) ==
    /\ IsPrefixOf(rec[n], ck) \/ IsPrefixOf(ck, rec[n])
    /\ snap[n] # <<>> => Len(rec[n]) = Len(snap[n])

(* Mutant: a replica that has events accepts no further ones.              *)
CanApplyOnce(n, ck) == rec[n] \in {<<>>, ck} /\ snap[n] \in {<<>>, ck}

(* What apply_checkpoint accepts.  The events must continue the replica's, *)
(* their number must be the snapshot's, and the snapshot must not fork.    *)
CanApply(n, ck) ==
    /\ IsPrefixOf(rec[n], ck)
    /\ snap[n] # <<>> =>
        /\ Len(rec[n]) = Len(snap[n])
        /\ IsPrefixOf(snap[n], ck)

(* Applying is one transaction over both rows.                             *)
Apply(n, ck) ==
    /\ rec' = [rec EXCEPT ![n] = ck]
    /\ snap' = [snap EXCEPT ![n] = ck]

(* truncate_to drops the events after k and leaves the snapshot row.       *)
truncate_to(n, k) ==
    /\ rec' = [rec EXCEPT ![n] = FirstOf(rec[n], k)]
    /\ UNCHANGED snap
-----------------------------------------------------------------------------
(* The source appends an event and its snapshot in one transaction.        *)
AppendEvent ==
    /\ appended < MaxEvents
    /\ appended' = appended + 1
    /\ journal' = Append(journal, appended + 1)
    /\ UNCHANGED <<restores, replicas, pushes, election, takeover>>

(* The source's file is put back to an earlier copy; its threads are gone, *)
(* their requests may still arrive.                                        *)
RestoreSource(k) ==
    /\ restores < MaxRestores /\ k < Len(journal)
    /\ restores' = restores + 1
    /\ journal' = FirstOf(journal, k)
    /\ push' = [p \in Pushers |-> IdlePush]
    /\ UNCHANGED <<appended, replicas, late, acked, election, takeover>>
-----------------------------------------------------------------------------
(* build_checkpoint reads the snapshot and then, in another transaction,   *)
(* the events; when the two disagree the push is refused.                  *)
ReadSnapshot(p) ==
    /\ push[p].phase = "idle" /\ journal # <<>>
    /\ push' = [push EXCEPT ![p] =
                 [phase |-> "reading", ck |-> journal, todo |-> {}, acks |-> {}]]
    /\ UNCHANGED <<source, replicas, late, acked, election, takeover>>

ReadEvents(p) ==
    /\ push[p].phase = "reading"
    /\ push' = [push EXCEPT ![p] =
                 IF Len(journal) = Len(push[p].ck)
                   THEN [phase |-> "sending", ck |-> journal, todo |-> Nodes, acks |-> {}]
                   ELSE IdlePush]
    /\ UNCHANGED <<source, replicas, late, acked, election, takeover>>

(* One target of the loop answers, with an ACK or with a refusal.          *)
Visited(p, n, acks) ==
    push' = [push EXCEPT ![p] = [phase |-> "sending", ck |-> push[p].ck,
                                 todo |-> push[p].todo \ {n}, acks |-> acks]]

PushApplied(p, n) ==
    /\ push[p].phase = "sending" /\ n \in push[p].todo
    /\ CanApply(n, push[p].ck)
    /\ Apply(n, push[p].ck)
    /\ Visited(p, n, push[p].acks \union {n})
    /\ UNCHANGED <<source, late, acked, election, takeover>>

(* Mutant: a refusal is counted among the durable targets.                 *)
PushRefusedCounted(p, n) ==
    /\ push[p].phase = "sending" /\ n \in push[p].todo
    /\ ~CanApply(n, push[p].ck)
    /\ Visited(p, n, push[p].acks \union {n})
    /\ UNCHANGED <<source, replicas, late, acked, election, takeover>>

PushRefused(p, n) ==
    /\ push[p].phase = "sending" /\ n \in push[p].todo
    /\ ~CanApply(n, push[p].ck)
    /\ Visited(p, n, push[p].acks)
    /\ UNCHANGED <<source, replicas, late, acked, election, takeover>>

(* The exchange fails: the request never arrived, or it still will.        *)
PushFails(p, n) ==
    /\ push[p].phase = "sending" /\ n \in push[p].todo
    /\ Visited(p, n, push[p].acks)
    /\ late' \in {late, late \union {<<n, push[p].ck>>}}
    /\ Cardinality(late') <= MaxLate
    /\ UNCHANGED <<source, replicas, acked, election, takeover>>

(* The replica's server takes a request whose sender has given up.         *)
LateRequest(n, ck) ==
    /\ <<n, ck>> \in late
    /\ late' = late \ {<<n, ck>>}
    /\ IF CanApply(n, ck) THEN Apply(n, ck) ELSE UNCHANGED replicas
    /\ UNCHANGED <<source, push, acked, election, takeover>>

(* Every target is visited; the caller is told whether a quorum has it.    *)
PushEnds(p) ==
    /\ push[p].phase = "sending" /\ push[p].todo = {}
    /\ acked' = IF IsQuorum(push[p].acks) THEN acked \union {push[p].ck} ELSE acked
    /\ push' = [push EXCEPT ![p] = IdlePush]
    /\ UNCHANGED <<source, replicas, late, election, takeover>>
-----------------------------------------------------------------------------
(* The prefix a node declares: its verified chain, or nothing.             *)
propose(n) == IF Verified(n) THEN snap[n] ELSE <<>>

(* A takeover asks for a certificate over what its own replica holds.      *)
Acquire(n) ==
    /\ campaign = NoCampaign /\ controls < MaxControls
    /\ controls' = controls + 1
    /\ campaign' = [leader |-> n, mark |-> propose(n), signed |-> {}]
    /\ UNCHANGED <<source, replicas, pushes, certs, takeover>>

(* A renewal declares it anew, and keeps the old prefix when it has none.  *)
Renew(n, c) ==
    /\ campaign = NoCampaign /\ controls < MaxControls
    /\ c \in certs /\ c.leader = n
    /\ controls' = controls + 1
    /\ campaign' = [leader |-> n, signed |-> {},
                    mark |-> IF Verified(n) THEN snap[n] ELSE c.mark]
    /\ UNCHANGED <<source, replicas, pushes, certs, takeover>>

(* Mutant: a voter that is behind vouches for the prefix.                  *)
VouchBehind(n, mark) == mark # <<>> => Verified(n)

(* _require_held_watermark: at the same length the chains must be equal, a *)
(* longer chain passes as it is.                                           *)
CanVouch(n, mark) ==
    mark # <<>> =>
      /\ Verified(n)
      /\ Len(snap[n]) >= Len(mark)
      /\ Len(snap[n]) = Len(mark) => snap[n] = mark

SignVote(n) ==
    /\ campaign # NoCampaign /\ n \notin campaign.signed
    /\ CanVouch(n, campaign.mark)
    /\ campaign' = [leader |-> campaign.leader, mark |-> campaign.mark,
                    signed |-> campaign.signed \union {n}]
    /\ UNCHANGED <<source, replicas, pushes, certs, controls, takeover>>

(* The loop over the voters ends, with a certificate or without.           *)
CampaignEnds ==
    /\ campaign # NoCampaign
    /\ certs' = IF IsQuorum(campaign.signed)
                  THEN certs \union {[leader |-> campaign.leader, mark |-> campaign.mark]}
                  ELSE certs
    /\ campaign' = NoCampaign
    /\ UNCHANGED <<source, replicas, pushes, controls, takeover>>
-----------------------------------------------------------------------------
(* enforce(certificate) before the certificate is consumed.  A certificate *)
(* that declares nothing is let through.                                   *)
EnforceNothing(n, c) ==
    /\ controls < MaxControls /\ controls' = controls + 1
    /\ guard[n] = IdleGuard /\ c \in certs /\ c.mark = <<>>
    /\ passed' = [passed EXCEPT ![n] = <<>>]
    /\ UNCHANGED <<source, replicas, pushes, campaign, certs, guard>>

(* Otherwise the events after the declared prefix are dropped first.       *)
EnforceTruncate(n, c) ==
    /\ controls < MaxControls /\ controls' = controls + 1
    /\ guard[n] = IdleGuard /\ c \in certs /\ c.mark # <<>>
    /\ passed' = [passed EXCEPT ![n] = <<>>]
    /\ guard' = [guard EXCEPT ![n] = [phase |-> "held", mark |-> c.mark,
                                      todo |-> {}, got |-> <<>>]]
    /\ IF Len(rec[n]) > Len(c.mark) THEN truncate_to(n, Len(c.mark))
                                    ELSE UNCHANGED replicas
    /\ UNCHANGED <<source, pushes, campaign, certs>>

(* A replica that is behind, or not verified, catches up from its peers.   *)
EnforceHeld(n) ==
    /\ guard[n].phase = "held"
    /\ guard' = [guard EXCEPT ![n] =
                  [phase |-> "recover", mark |-> guard[n].mark, got |-> <<>>,
                   todo |-> IF Verified(n) /\ Len(snap[n]) >= Len(guard[n].mark)
                              THEN {} ELSE Nodes]]
    /\ UNCHANGED <<source, replicas, pushes, election, passed>>

(* recover_journal_prefix asks one peer; only a verified replica exports.  *)
RecoverRequest(n, peer) ==
    /\ guard[n].phase = "recover" /\ peer \in guard[n].todo /\ guard[n].got = <<>>
    /\ \E ck \in {<<>>} \union (IF Verified(peer) THEN {snap[peer]} ELSE {}) :
          guard' = [guard EXCEPT ![n] =
                     [phase |-> "recover", mark |-> guard[n].mark,
                      todo |-> guard[n].todo \ {peer}, got |-> ck]]
    /\ UNCHANGED <<source, replicas, pushes, election, passed>>

RecoverApply(n) ==
    /\ guard[n].got # <<>>
    /\ IF CanApply(n, guard[n].got) THEN Apply(n, guard[n].got) ELSE UNCHANGED replicas
    /\ guard' = [guard EXCEPT ![n] = [phase |-> "recover", mark |-> guard[n].mark,
                                      todo |-> guard[n].todo, got |-> <<>>]]
    /\ UNCHANGED <<source, pushes, election, passed>>

(* Mutant: any verified prefix is good enough to take over.                *)
HoldsVerified(n, mark) == Verified(n)

(* What enforce returns normally on; anything else refuses the takeover.   *)
HoldsCommitted(n, mark) ==
    /\ Verified(n)
    /\ Len(snap[n]) >= Len(mark)
    /\ Len(snap[n]) = Len(mark) => snap[n] = mark

EnforceDecide(n) ==
    /\ guard[n].phase = "recover" /\ guard[n].todo = {} /\ guard[n].got = <<>>
    /\ passed' = [passed EXCEPT ![n] =
                   IF HoldsCommitted(n, guard[n].mark) THEN guard[n].mark ELSE <<>>]
    /\ guard' = [guard EXCEPT ![n] = IdleGuard]
    /\ UNCHANGED <<source, replicas, pushes, election>>
-----------------------------------------------------------------------------
Init ==
    /\ journal = <<>> /\ appended = 0 /\ restores = 0
    /\ rec = [n \in Nodes |-> <<>>] /\ snap = [n \in Nodes |-> <<>>]
    /\ push = [p \in Pushers |-> IdlePush] /\ late = {} /\ acked = {}
    /\ campaign = NoCampaign /\ certs = {} /\ controls = 0
    /\ guard = [n \in Nodes |-> IdleGuard] /\ passed = [n \in Nodes |-> <<>>]

Replicate ==
    \/ AppendEvent
    \/ \E k \in 0..MaxEvents : RestoreSource(k)
    \/ \E p \in Pushers :
         \/ ReadSnapshot(p) \/ ReadEvents(p) \/ PushEnds(p)
         \/ \E n \in Nodes : PushApplied(p, n) \/ PushRefused(p, n) \/ PushFails(p, n)
    \/ \E n \in Nodes, ck \in {r[2] : r \in late} : LateRequest(n, ck)

TakeOver ==
    \/ CampaignEnds
    \/ \E n \in Nodes :
         \/ Acquire(n) \/ SignVote(n) \/ EnforceHeld(n)
         \/ RecoverApply(n) \/ EnforceDecide(n)
         \/ \E peer \in Nodes : RecoverRequest(n, peer)
         \/ \E c \in certs : Renew(n, c) \/ EnforceNothing(n, c) \/ EnforceTruncate(n, c)

Next == Replicate \/ TakeOver

Spec == Init /\ [][Next]_vars
-----------------------------------------------------------------------------
(* The source may always be asked to push again, and an exchange that is   *)
(* tried again and again with a replica that would accept succeeds in the  *)
(* end; nothing is assumed of campaigns.                                   *)
FairSpec ==
    /\ Spec
    /\ \A p \in Pushers :
         /\ WF_vars(ReadSnapshot(p)) /\ WF_vars(ReadEvents(p)) /\ WF_vars(PushEnds(p))
         /\ \A n \in Nodes : /\ SF_vars(PushApplied(p, n)) /\ WF_vars(PushRefused(p, n))
                             /\ WF_vars(PushFails(p, n))
    /\ \A n \in Nodes :
         /\ WF_vars(EnforceHeld(n)) /\ WF_vars(RecoverApply(n)) /\ WF_vars(EnforceDecide(n))
         /\ WF_vars(\E peer \in Nodes : RecoverRequest(n, peer))
-----------------------------------------------------------------------------
(* The types of the source, the replicas, the pushes and the takeovers.    *)
TypeOK ==
    /\ journal \in Chain /\ appended \in 0..MaxEvents /\ restores \in 0..MaxRestores
    /\ rec \in [Nodes -> Chain] /\ snap \in [Nodes -> Chain]
    /\ push \in [Pushers -> [phase : {"idle", "reading", "sending"}, ck : Chain,
                             todo : SUBSET Nodes, acks : SUBSET Nodes]]
    /\ late \in SUBSET (Nodes \X Chain)
    /\ acked \in SUBSET Chain
    /\ campaign \in {NoCampaign} \union
                    [leader : Nodes, mark : Chain, signed : SUBSET Nodes]
    /\ certs \in SUBSET [leader : Nodes, mark : Chain]
    /\ controls \in 0..MaxControls
    /\ guard \in [Nodes -> [phase : {"idle", "held", "recover"}, mark : Chain,
                            todo : SUBSET Nodes, got : Chain]]
    /\ passed \in [Nodes -> Chain]

(* Two pushes that were both reported durable, whenever and from whichever *)
(* copy of the source they were taken, tell one history: one continues the *)
(* other (apply_checkpoint's fork checks and the majority of               *)
(* required_quorum).                                                       *)
AckedLinear == \A c, d \in acked : IsPrefixOf(c, d) \/ IsPrefixOf(d, c)

(* What a push reported durable a quorum of replicas holds, event by event *)
(* (one ACK means that the peer durably holds the prefix, as               *)
(* replicate_journal_to_quorum says).                                      *)
AckedHeld ==
    \A c \in acked : IsQuorum({n \in Nodes : IsPrefixOf(c, rec[n])})

(* A replica never goes back on a snapshot it has stored, whatever stale   *)
(* push, late request or takeover reaches it.                              *)
SnapshotsGrow == [][\A n \in Nodes : IsPrefixOf(snap[n], snap'[n])]_vars

(* A certificate's committed prefix is in the snapshots of a quorum of     *)
(* voters (QuorumCollector.acquire takes the signatures to mean that).     *)
CertifiedHeld ==
    \A c \in certs : IsQuorum({n \in Nodes : IsPrefixOf(c.mark, snap[n])})

(* A node that enforce let in holds the events of the prefix its           *)
(* certificate declared, until it enforces another certificate.            *)
PassedHolds == \A n \in Nodes : IsPrefixOf(passed[n], rec[n])

(* Whatever the source has appended, every replica comes to vouch for      *)
(* (pushes repeat the whole chain, so a replica that missed any number of  *)
(* them catches up with the next one that it takes), unless the source is  *)
(* put back to a backup, after which its chain may be another.             *)
CatchesUp ==
    \A n \in Nodes, k \in 1..MaxEvents :
       (Len(journal) >= k /\ restores = 0)
          ~> ((Verified(n) /\ Len(snap[n]) >= k) \/ restores > 0)
-----------------------------------------------------------------------------
(* A replica's events are a prefix of what its snapshot stands for; they   *)
(* differ once events have been truncated.                                 *)
RecOfSnap == \A n \in Nodes : IsPrefixOf(rec[n], snap[n])

(* An ACK of a push in progress is a snapshot that continues its chain.    *)
AcksBacked ==
    \A p \in Pushers : \A n \in push[p].acks : IsPrefixOf(push[p].ck, snap[n])

AckedBacked ==
    \A c \in acked : IsQuorum({n \in Nodes : IsPrefixOf(c, snap[n])})

(* While the source has never been restored there is one history.          *)
OneHistory ==
    MaxRestores = 0 =>
      /\ \A n \in Nodes : /\ IsPrefixOf(snap[n], journal)
                          /\ IsPrefixOf(guard[n].mark, journal)
                          /\ IsPrefixOf(guard[n].got, journal)
      /\ \A p \in Pushers : IsPrefixOf(push[p].ck, journal)
      /\ \A r \in late : IsPrefixOf(r[2], journal)
      /\ IsPrefixOf(campaign.mark, journal)
      /\ \A c \in certs : IsPrefixOf(c.mark, journal)

(* Then a voter who signed has the declared prefix in its snapshot.        *)
SignedBacked ==
    MaxRestores = 0 =>
      /\ \A n \in campaign.signed : IsPrefixOf(campaign.mark, snap[n])
      /\ CertifiedHeld /\ PassedHolds

(* Without certificates nothing is ever truncated.                         *)
NeverTruncated ==
    MaxControls = 0 => campaign = NoCampaign /\ certs = {} /\ rec = snap

(* The inductive invariant of the proofs.                                  *)
IInv ==
    /\ TypeOK /\ RecOfSnap /\ AcksBacked /\ AckedBacked
    /\ OneHistory /\ SignedBacked /\ NeverTruncated
=============================================================================
