------------------------- MODULE PipelineLoadProofs -------------------------
(***************************************************************************)
(* Proofs about PipelineLoad, for every set of workers and any number of   *)
(* transactions, registrations, restarts, faults, retries and deaths.      *)
(***************************************************************************)
EXTENDS PipelineLoad, SequenceTheorems, TLAPS

(***************************************************************************)
(* Types.                                                                  *)
(***************************************************************************)
MaybeIds == Ids \cup {None}
Phases == InProgress \cup Over \cup {"none", "ready"}
Acts == Cleanups \cup {"prepare", "commit"}
Txns == [id : MaybeIds, phase : Phases, workers : SUBSET Workers, conn : [Workers -> Nat],
         prepared : SUBSET Workers, ready : SUBSET Workers, published : BOOLEAN,
         cancel : BOOLEAN]
Plans == [id : MaybeIds, workers : SUBSET Workers]
Debts == [node : Workers \cup {Master}, id : Ids, act : Cleanups]
Records == [id : MaybeIds, phase : Phases \cup {"cleared"}, published : BOOLEAN,
            workers : SUBSET Workers, ledger : SUBSET Debts]
Steps == {"commit", "materialize", "send", "complete", "publish", "abort", "retire"}
Tasks == [do : Steps, id : Ids] \cup [do : {"clear", "retire_recovery"}, id : {None}]
Assignments == [id : MaybeIds, conn : Nat]
Conns == [up : BOOLEAN, gen : Nat]
Commands == [node : Workers, id : Ids, act : Acts]
Acks == [act : Acts, id : Ids, ok : BOOLEAN]
WorkerPhases == {"idle", "prepared", "failed", "committed", "finalized", "aborted", "released"}
WorkerStates == [latest : MaybeIds, cand : MaybeIds, phase : WorkerPhases, act : MaybeIds,
                 prev : MaybeIds, pending : SUBSET Ids, retired : SUBSET Ids,
                 fenced : BOOLEAN, dead : SUBSET Ids]

TypedMaster ==
    /\ txn \in Txns /\ next \in 1..(MaxTxn + 1) /\ plan \in Plans
    /\ assigned \in [Workers -> Assignments] /\ ledger \subseteq Debts
    /\ todo \subseteq Tasks /\ disk \in Records /\ rec \in Records /\ shown \subseteq Ids

TypedNet ==
    /\ conn \in [Workers -> Conns] /\ lost \in [Workers -> {"no", "cut", "lost", "saving"}]
    /\ wire \subseteq Commands /\ acks \in [Workers -> Seq(Acks)]
    /\ wk \in [Workers -> WorkerStates]

(***************************************************************************)
(* What the master's fields say of each other.                             *)
(***************************************************************************)
\* Something of the recorded transaction may be loaded.
Live(r) == r.phase \in InProgress \cup {"ready"} \/ r.published

\* A transaction has an identity and workers of its own; only a published one is ready.
TxnSane ==
    /\ txn.prepared \subseteq txn.workers /\ txn.ready \subseteq txn.workers
    /\ txn.id = None => txn = NoTxn
    /\ txn # NoTxn => txn.phase # "none"
    /\ txn.phase = "ready" => txn.published
    /\ txn.published => txn.phase \in {"ready", "invalidated"} /\ txn.id \in shown
    /\ txn.phase \in InProgress => next = txn.id + 1

\* What is recorded, on disk and of the last process, can be recovered.
Recoverable == \A r \in {disk, rec} : Live(r) => r.id # None

\* Identities are those that were given out.
Dated ==
    /\ txn.id < next /\ disk.id < next /\ rec.id < next
    /\ \A w \in Workers : assigned[w].id < next
    /\ \A d \in ledger \cup disk.ledger : d.id < next
DatedNet ==
    /\ \A m \in wire : m.id < next
    /\ \A w \in Workers : \A n \in DOMAIN acks[w] : acks[w][n].id < next

\* Commands are on their way over links that hold; while the model is changed, no
\* transaction is under way.
Wired == \A m \in wire : Linked(m.node)
Quiet == ModelChanging => txn.phase \notin InProgress

(***************************************************************************)
(* What a worker's fields say of each other.                               *)
(***************************************************************************)
Sane(k) ==
    /\ k.cand <= k.latest
    /\ k.act # None => k.act < k.latest \/ k.cand = k.act
    /\ k.prev # None => k.prev < k.latest /\ k.prev # k.act
    /\ k.cand # None => (k.phase \in {"committed", "finalized"} <=> k.act = k.cand)
    /\ k.phase = "prepared" => k.cand # None
WorkersSane == \A w \in Workers : Sane(wk[w])

(***************************************************************************)
(* What the acknowledgements of a transaction under way rest on.           *)
(***************************************************************************)
\* The worker's connection is the one the transaction began on.
Attached(w) == conn[w].up /\ conn[w].gen = txn.conn[w] /\ lost[w] # "cut"

\* Who has acknowledged its commit, or is about to, serves the transaction.
Serving ==
    txn.phase \in InProgress =>
        /\ \A w \in txn.workers : Attached(w) /\ w \in txn.ready => wk[w].act = txn.id
        /\ \A w \in txn.workers : \A n \in DOMAIN acks[w] :
              Attached(w) /\ acks[w][n].act = "commit" /\ acks[w][n].ok /\ acks[w][n].id = txn.id
                  => wk[w].act = txn.id

\* Nobody is told to give it up, and connections only grow.
Unharmed ==
    txn.phase \in InProgress =>
        /\ \A d \in ledger : d.id # txn.id
        /\ \A m \in wire : m.act \in Cleanups => m.id # txn.id
        /\ \A w \in txn.workers : txn.conn[w] <= conn[w].gen

\* Only what was published is finalized.
OnlyShown == \A d \in ledger \cup disk.ledger \cup wire : d.act = "finalize" => d.id \in shown

IInv == /\ TypedMaster /\ TypedNet /\ TxnSane /\ Recoverable /\ Dated /\ DatedNet /\ Wired /\ Quiet
        /\ OnlyShown /\ WorkersSane /\ Serving /\ Unharmed

(***************************************************************************)
(* Who owes the cleanup of a candidate.                                    *)
(***************************************************************************)
Owed(w, i) == \/ txn.id = i /\ txn.phase \in InProgress /\ w \in txn.workers
              \/ \E d \in ledger : d.node = w /\ d.id = i
OwedOnDisk(w, i) == \/ disk.id = i /\ disk.phase \in InProgress /\ w \in disk.workers
                    \/ \E d \in disk.ledger : d.node = w /\ d.id = i
Secured(w, i) == Owed(w, i) /\ OwedOnDisk(w, i)

\* The worker has given the identity up for good.
Given(w, i) == i \in wk[w].retired \ Held(wk[w])

\* What is loaded, what may be loaded by a command on its way, and what the transaction under
\* way may send, is owed a cleanup; what was acknowledged as cleaned up is gone.
LoadedOwed == \A w \in Workers : \A i \in Held(wk[w]) \ shown : Secured(w, i)
SentOwed == \A m \in wire : m.act = "prepare" /\ m.id \notin shown
                               => Secured(m.node, m.id) \/ Given(m.node, m.id)
TxnOwed == txn.phase \in InProgress /\ txn.id \notin shown
              => \A w \in txn.workers : OwedOnDisk(w, txn.id)
AckedGone == \A w \in Workers : \A n \in DOMAIN acks[w] :
                acks[w][n].ok /\ acks[w][n].act \in Cleanups /\ acks[w][n].id \notin shown
                    => Given(w, acks[w][n].id)

OwedInv == LoadedOwed /\ SentOwed /\ TxnOwed /\ AckedGone

-----------------------------------------------------------------------------
LEMMA IdsNat == Ids \subseteq Nat /\ MaybeIds \subseteq Nat /\ None \in Nat /\ None \notin Ids
BY PipelineLoadAssumption DEF Ids, None, MaybeIds

(***************************************************************************)
(* The worker.                                                             *)
(***************************************************************************)
\* The fields of an answer.
LEMMA AnswerFields ==
    /\ \A k : Answer(TRUE, k).ok = TRUE /\ Answer(TRUE, k).k = k
    /\ \A k : Answer(FALSE, k).ok = FALSE /\ Answer(FALSE, k).k = k
    /\ \A k, i, S : Answer(i \notin S, k).ok \in BOOLEAN /\ Answer(i \notin S, k).k = k
<1>1. \A k : Answer(TRUE, k).ok = TRUE /\ Answer(TRUE, k).k = k
  BY DEF Answer
<1>2. \A k : Answer(FALSE, k).ok = FALSE /\ Answer(FALSE, k).k = k
  BY DEF Answer
<1>3. ASSUME NEW k, NEW i, NEW S
      PROVE  Answer(i \notin S, k).ok \in BOOLEAN /\ Answer(i \notin S, k).k = k
  <2> DEFINE b == i \notin S
  <2>1. b \in BOOLEAN
    OBVIOUS
  <2> HIDE DEF b
  <2>2. Answer(b, k).ok \in BOOLEAN /\ Answer(b, k).k = k
    BY <2>1 DEF Answer
  <2> QED
    BY <2>2 DEF b
<1> QED
  BY <1>1, <1>2, <1>3

\* What every answer to a command leaves true: r is the answer of a worker in state k.
Respects(r, k, i) ==
    /\ r.ok \in BOOLEAN /\ r.k \in WorkerStates /\ Sane(r.k) /\ k.retired \subseteq r.k.retired
    /\ \A x \in Ids : k.act = x /\ i < x => r.k.act = x

\* A prepare loads nothing but its identity, and not what was retired.
LEMMA PrepareAnswers ==
    ASSUME NEW k \in WorkerStates, Sane(k), NEW i \in Ids, NEW r \in Prepare(k, i)
    PROVE  Respects(r, k, i) /\ r.k.act = k.act /\ Held(r.k) \subseteq Held(k) \cup ({i} \ k.retired)
<1> DEFINE seen == IF i > k.latest THEN [k EXCEPT !.latest = i, !.fenced = TRUE] ELSE k
           again == k.cand = i /\ k.phase \in {"prepared", "committed", "finalized"}
           dropped == IF k.phase \in {"prepared", "failed"} THEN Some({k.cand}) ELSE {}
           fresh == [seen EXCEPT !.cand = i, !.retired = seen.retired \cup dropped]
           loaded == [fresh EXCEPT !.phase = "prepared"]
           broken == [fresh EXCEPT !.phase = "failed"]
<1>1. \/ r.k = seen /\ r.ok \in BOOLEAN
      \/ /\ r.k \in {loaded, broken} /\ r.ok \in BOOLEAN
         /\ i \notin k.retired /\ i = seen.latest /\ k.pending = {} /\ ~again /\ k.phase # "committed"
  <2>1. \/ r \in {Answer(FALSE, seen), Answer(i \notin k.dead, seen)}
        \/ /\ r \in {Answer(TRUE, loaded), Answer(FALSE, broken)}
           /\ i \notin k.retired /\ i = seen.latest /\ k.pending = {} /\ ~again
           /\ k.phase # "committed"
    BY DEF Prepare
  <2> HIDE DEF seen, again, dropped, fresh, loaded, broken
  <2>2. r = Answer(FALSE, seen) => r.k = seen /\ r.ok \in BOOLEAN
    BY AnswerFields
  <2>3. r = Answer(i \notin k.dead, seen) => r.k = seen /\ r.ok \in BOOLEAN
    BY AnswerFields
  <2>4. r = Answer(TRUE, loaded) => r.k = loaded /\ r.ok \in BOOLEAN
    BY AnswerFields
  <2>5. r = Answer(FALSE, broken) => r.k = broken /\ r.ok \in BOOLEAN
    BY AnswerFields
  <2> QED
    BY <2>1, <2>2, <2>3, <2>4, <2>5
<1>2. /\ seen \in WorkerStates /\ seen.cand = k.cand /\ seen.act = k.act /\ seen.prev = k.prev
      /\ seen.phase = k.phase /\ seen.pending = k.pending /\ seen.retired = k.retired
      /\ seen.latest \in Nat /\ seen.latest >= k.latest /\ seen.latest >= i
  <2> DEFINE newer == [k EXCEPT !.latest = i, !.fenced = TRUE]
  <2>1. i \in MaybeIds /\ {k.latest, i} \subseteq Nat
    BY IdsNat DEF WorkerStates, MaybeIds
  <2>2. /\ newer \in WorkerStates /\ newer.cand = k.cand /\ newer.act = k.act
        /\ newer.prev = k.prev /\ newer.phase = k.phase /\ newer.pending = k.pending
        /\ newer.retired = k.retired /\ newer.latest = i
    BY <2>1 DEF WorkerStates
  <2>3. seen = IF i > k.latest THEN newer ELSE k
    OBVIOUS
  <2> HIDE DEF seen, newer
  <2> QED
    BY <2>1, <2>2, <2>3
<1>3. dropped \subseteq Ids
  BY DEF WorkerStates, MaybeIds, Some
<1>4. k.latest \in Nat /\ i \in Nat /\ i # None /\ k.cand \in Nat /\ k.act \in Nat /\ k.prev \in Nat
  BY IdsNat DEF WorkerStates
<1>5. Sane(seen) /\ Held(seen) = Held(k)
  BY <1>2, <1>4 DEF Sane, Held
<1> HIDE DEF seen, dropped
<1>6. /\ fresh \in WorkerStates /\ fresh.cand = i /\ fresh.act = k.act /\ fresh.prev = k.prev
      /\ fresh.pending = k.pending /\ fresh.retired = k.retired \cup dropped
      /\ fresh.latest = seen.latest
  BY <1>2, <1>3 DEF WorkerStates, MaybeIds
<1> HIDE DEF fresh
<1>7. ASSUME NEW x \in {loaded, broken}
      PROVE  /\ x \in WorkerStates /\ x.cand = i /\ x.act = k.act /\ x.prev = k.prev
             /\ x.pending = k.pending /\ k.retired \subseteq x.retired /\ x.latest = seen.latest
             /\ x.phase \in {"prepared", "failed"}
  BY <1>6 DEF WorkerStates, WorkerPhases
<1> HIDE DEF loaded, broken
<1>8. CASE r.k = seen /\ r.ok \in BOOLEAN
  BY <1>8, <1>2, <1>5 DEF Respects
<1>9. CASE r.k \in {loaded, broken} /\ r.ok \in BOOLEAN /\ i \notin k.retired
           /\ i = seen.latest /\ k.pending = {} /\ ~again /\ k.phase # "committed"
  <2>1. r.k \in {loaded, broken} /\ r.ok \in BOOLEAN
    BY <1>9
  <2>2. k.act # i
    BY <1>9, <1>2, <1>4 DEF Sane, None
  <2>3. Sane(r.k)
    BY <2>1, <2>2, <1>7, <1>9, <1>2, <1>4 DEF Sane, None
  <2>4. Held(r.k) \subseteq Held(k) \cup ({i} \ k.retired)
    BY <2>1, <1>7, <1>9 DEF Held, Some
  <2> QED
    BY <2>1, <2>3, <2>4, <1>7 DEF Respects
<1> QED
  BY <1>1, <1>8, <1>9

\* A commit makes its identity the active one and loads nothing.
LEMMA CommitAnswers ==
    ASSUME NEW k \in WorkerStates, Sane(k), NEW i \in Ids, NEW r \in Commit(k, i)
    PROVE  /\ Respects(r, k, i) /\ Held(r.k) \subseteq Held(k)
           /\ r.ok => r.k.act = i
           /\ k.act = i => r.k.act = i
<1> DEFINE done == [k EXCEPT !.prev = k.act, !.act = i, !.phase = "committed", !.fenced = FALSE]
<1>1. \/ r.k = k /\ r.ok = FALSE
      \/ r.k = k /\ r.ok \in BOOLEAN /\ k.cand = i /\ k.phase \in {"committed", "finalized"}
      \/ r.k = done /\ r.ok = TRUE /\ i = k.latest /\ k.cand = i /\ k.phase = "prepared"
  <2>1. \/ r = Answer(FALSE, k)
        \/ r = Answer(i \notin k.dead, k) /\ k.cand = i /\ k.phase \in {"committed", "finalized"}
        \/ r = Answer(TRUE, done) /\ i = k.latest /\ k.cand = i /\ k.phase = "prepared"
    BY DEF Commit
  <2> HIDE DEF done
  <2>2. CASE r = Answer(FALSE, k)
    BY <2>2, AnswerFields
  <2>3. CASE r = Answer(i \notin k.dead, k) /\ k.cand = i /\ k.phase \in {"committed", "finalized"}
    BY <2>3, AnswerFields
  <2>4. CASE r = Answer(TRUE, done) /\ i = k.latest /\ k.cand = i /\ k.phase = "prepared"
    BY <2>4, AnswerFields
  <2> QED
    BY <2>1, <2>2, <2>3, <2>4
<1>2. /\ done \in WorkerStates /\ done.cand = k.cand /\ done.act = i /\ done.prev = k.act
      /\ done.phase = "committed" /\ done.pending = k.pending /\ done.retired = k.retired
      /\ done.latest = k.latest
  BY DEF WorkerStates, WorkerPhases, MaybeIds
<1>3. k.latest \in Nat /\ i \in Nat /\ i # None /\ k.cand \in Nat /\ k.act \in Nat /\ k.prev \in Nat
  BY IdsNat DEF WorkerStates
<1> HIDE DEF done
<1>4. CASE r.k = k
  <2>1. r.k = k /\ r.ok \in BOOLEAN
    BY <1>1, <1>4
  <2>2. r.ok => k.act = i
    BY <1>1, <1>2, <1>3, <1>4 DEF Sane
  <2> QED
    BY <2>1, <2>2, <1>4 DEF Respects
<1>5. CASE r.k = done /\ r.ok = TRUE /\ i = k.latest /\ k.cand = i /\ k.phase = "prepared"
  <2>1. r.k = done /\ r.ok = TRUE
    BY <1>5
  <2>2. Sane(done) /\ k.act # i
    BY <1>2, <1>3, <1>5 DEF Sane, None
  <2>3. \A x \in Ids : ~(k.act = x /\ i < x)
    BY <1>3, <1>5, IdsNat DEF Sane, None
  <2>4. Held(done) \subseteq Held(k)
    BY <1>2, <1>5 DEF Held, Some
  <2> QED
    BY <2>1, <2>2, <2>3, <2>4, <1>2 DEF Respects
<1> QED
  BY <1>1, <1>4, <1>5

\* What is left of a worker once an identity is gone.
LEMMA WithoutFields ==
    ASSUME NEW k \in WorkerStates, Sane(k), NEW i \in Ids
    PROVE  LET left == Without(k, i)
           IN  /\ left \in WorkerStates /\ Sane(left) /\ k.retired \subseteq left.retired
               /\ Held(left) \subseteq Held(k) /\ i \in left.retired \ Held(left)
               /\ k.act # i => left.act = k.act
<1> DEFINE act == IF k.act = i THEN None ELSE k.act
           cand == IF k.cand = i THEN None ELSE k.cand
           prev == IF i \in {k.prev, k.act} THEN None ELSE k.prev
           pending == k.pending \ {i}
           retired == k.retired \cup {i} \cup (IF k.act = i THEN Some({k.prev}) ELSE {})
           phase == IF k.cand = i THEN "released" ELSE k.phase
           left == Without(k, i)
<1>1. left = [k EXCEPT !.act = act, !.cand = cand, !.prev = prev, !.pending = pending,
                       !.retired = retired, !.phase = phase]
  BY DEF Without
<1>2. /\ act \in MaybeIds /\ cand \in MaybeIds /\ prev \in MaybeIds /\ pending \subseteq Ids
      /\ retired \subseteq Ids /\ phase \in WorkerPhases
  <2>1. Some({k.prev}) \subseteq Ids
    BY DEF Some, WorkerStates, MaybeIds
  <2> QED
    BY <2>1 DEF WorkerStates, WorkerPhases, MaybeIds
<1>3. /\ act = (IF k.act = i THEN None ELSE k.act) /\ cand = (IF k.cand = i THEN None ELSE k.cand)
      /\ prev = (IF i \in {k.prev, k.act} THEN None ELSE k.prev) /\ pending = k.pending \ {i}
      /\ k.retired \cup {i} \subseteq retired
      /\ phase = (IF k.cand = i THEN "released" ELSE k.phase)
  OBVIOUS
<1> HIDE DEF act, cand, prev, pending, retired, phase
<1>4. /\ left \in WorkerStates /\ left.act = act /\ left.cand = cand /\ left.prev = prev
      /\ left.pending = pending /\ left.retired = retired /\ left.phase = phase
      /\ left.latest = k.latest
  BY <1>1, <1>2 DEF WorkerStates
<1> HIDE DEF left
<1>5. {k.latest, i, k.cand, k.act, k.prev} \subseteq Nat /\ i # None
  BY IdsNat DEF WorkerStates
<1>6. Sane(left)
  BY <1>3, <1>4, <1>5 DEF Sane, None
<1>7. Held(left) \subseteq Held(k) /\ i \notin Held(left)
  BY <1>3, <1>4, <1>5 DEF Held, Some
<1> QED
  BY <1>3, <1>4, <1>6, <1>7 DEF left

\* A cleanup loads nothing; one that succeeds, other than a finalize, leaves nothing.
LEMMA SettleAnswers ==
    ASSUME NEW k \in WorkerStates, Sane(k), NEW i \in Ids, NEW a \in Cleanups,
           NEW r, r = Settle(k, a, i)
    PROVE  /\ Respects(r, k, i) /\ Held(r.k) \subseteq Held(k)
           /\ r.ok /\ a # "finalize" => i \in r.k.retired \ Held(r.k)
           /\ k.act # i => r.k.act = k.act
<1> DEFINE left == Without(k, i)
           fenced == [left EXCEPT !.fenced = TRUE]
           act == IF k.act = i THEN k.prev ELSE k.act
           aborted == [k EXCEPT !.act = act, !.prev = None, !.cand = None, !.phase = "aborted",
                                !.fenced = act = None, !.retired = k.retired \cup {i}]
           final == [k EXCEPT !.prev = None, !.phase = "finalized",
                              !.retired = k.retired \cup Some({k.prev})]
<1>1. \/ r = Answer(TRUE, k) /\ i \in k.retired \ Held(k)
      \/ r = Answer(FALSE, k)
      \/ r = Answer(TRUE, left)
      \/ r = Answer(TRUE, fenced)
      \/ r = Answer(TRUE, aborted) /\ i \notin k.pending /\ k.cand = i /\ k.phase # "finalized"
      \/ r = Answer(TRUE, final) /\ a \notin {"abort", "release"} /\ k.cand = i
         /\ k.phase \in {"committed", "finalized"}
  BY DEF Settle
<1> HIDE DEF left, fenced, aborted, final
<1>2. \A x : Answer(TRUE, x).ok = TRUE /\ Answer(TRUE, x).k = x
  BY AnswerFields
<1>3. {k.latest, i, k.cand, k.act, k.prev} \subseteq Nat /\ i # None
  BY IdsNat DEF WorkerStates
<1>4. CASE r = Answer(TRUE, k) /\ i \in k.retired \ Held(k)
  <2>1. r.ok = TRUE /\ r.k = k
    BY <1>4, <1>2
  <2> QED
    BY <2>1, <1>4 DEF Respects
<1>5. CASE r = Answer(FALSE, k)
  <2>1. r.ok = FALSE /\ r.k = k
    BY <1>5, AnswerFields
  <2> QED
    BY <2>1 DEF Respects
<1>6. /\ left \in WorkerStates /\ Sane(left) /\ k.retired \subseteq left.retired
      /\ Held(left) \subseteq Held(k) /\ i \in left.retired \ Held(left)
      /\ k.act # i => left.act = k.act
  BY WithoutFields DEF left
<1>7. CASE r = Answer(TRUE, left)
  <2>1. r.ok = TRUE /\ r.k = left
    BY <1>7, <1>2
  <2>2. \A x \in Ids : k.act = x /\ i < x => left.act = x
    BY <1>3, <1>6, IdsNat
  <2> QED
    BY <2>1, <2>2, <1>6 DEF Respects
<1>8. CASE r = Answer(TRUE, fenced)
  <2>1. r.ok = TRUE /\ r.k = fenced
    BY <1>8, <1>2
  <2>2. /\ fenced \in WorkerStates /\ fenced.act = left.act /\ fenced.cand = left.cand
        /\ fenced.prev = left.prev /\ fenced.pending = left.pending
        /\ fenced.retired = left.retired /\ fenced.phase = left.phase
        /\ fenced.latest = left.latest
    BY <1>6 DEF fenced, WorkerStates
  <2>3. Sane(fenced) /\ Held(fenced) = Held(left)
    BY <2>2, <1>6 DEF Sane, Held
  <2>4. \A x \in Ids : k.act = x /\ i < x => left.act = x
    BY <1>3, <1>6, IdsNat
  <2> QED
    BY <2>1, <2>2, <2>3, <2>4, <1>6 DEF Respects
<1>9. CASE r = Answer(TRUE, aborted) /\ i \notin k.pending /\ k.cand = i /\ k.phase # "finalized"
  <2>1. r.ok = TRUE /\ r.k = aborted
    BY <1>9, <1>2
  <2>2. /\ act \in MaybeIds /\ act \in Nat /\ k.retired \cup {i} \subseteq Ids
        /\ act = IF k.act = i THEN k.prev ELSE k.act
    BY <1>3 DEF WorkerStates
  <2> HIDE DEF act
  <2>3. /\ aborted \in WorkerStates /\ aborted.act = act /\ aborted.cand = None
        /\ aborted.prev = None /\ aborted.pending = k.pending /\ aborted.phase = "aborted"
        /\ aborted.retired = k.retired \cup {i} /\ aborted.latest = k.latest
    BY <2>2, ZenonT(60) DEF aborted, WorkerStates, WorkerPhases, MaybeIds
  <2>4. Sane(aborted) /\ act # i
    BY <2>2, <2>3, <1>3, <1>9 DEF Sane, None
  <2>5. Held(aborted) \subseteq Held(k) /\ i \notin Held(aborted)
    BY <2>2, <2>3, <2>4, <1>3, <1>9 DEF Held, Some
  <2>6. (k.act # i => act = k.act) /\ \A x \in Ids : k.act = x /\ i < x => act = x
    BY <1>3, <2>2, IdsNat
  <2> QED
    BY <2>1, <2>3, <2>4, <2>5, <2>6 DEF Respects
<1>10. CASE r = Answer(TRUE, final) /\ a \notin {"abort", "release"} /\ k.cand = i
            /\ k.phase \in {"committed", "finalized"}
  <2>1. r.ok = TRUE /\ r.k = final
    BY <1>10, <1>2
  <2>2. k.retired \cup Some({k.prev}) \subseteq Ids
    BY DEF WorkerStates, MaybeIds, Some
  <2>3. /\ final \in WorkerStates /\ final.act = k.act /\ final.cand = k.cand
        /\ final.prev = None /\ final.pending = k.pending /\ final.phase = "finalized"
        /\ k.retired \subseteq final.retired /\ final.latest = k.latest
    BY <2>2 DEF final, WorkerStates, WorkerPhases, MaybeIds
  <2>4. Sane(final)
    BY <2>3, <1>3, <1>10 DEF Sane, None
  <2>5. Held(final) \subseteq Held(k)
    BY <2>3, <1>10 DEF Held, Some
  <2>6. a = "finalize"
    BY <1>10 DEF Cleanups
  <2> QED
    BY <2>1, <2>3, <2>4, <2>5, <2>6 DEF Respects
<1> QED
  BY <1>1, <1>4, <1>5, <1>7, <1>8, <1>9, <1>10

\* The three together: r is an answer to the command m.
LEMMA AnswerKeeps ==
    ASSUME NEW k \in WorkerStates, Sane(k), NEW m \in Commands, NEW r \in Answers(k, m)
    PROVE  /\ Respects(r, k, m.id)
           /\ Held(r.k) \subseteq Held(k) \cup (IF m.act = "prepare" THEN {m.id} \ k.retired ELSE {})
           /\ r.ok /\ m.act \in {"abort", "release"} => m.id \in r.k.retired \ Held(r.k)
           /\ r.ok /\ m.act = "commit" => r.k.act = m.id
           /\ k.act = m.id /\ m.act \notin Cleanups => r.k.act = m.id
<1>1. m.id \in Ids /\ m.act \in Acts
  BY DEF Commands
<1>2. CASE m.act = "prepare"
  <2>1. r \in Prepare(k, m.id)
    BY <1>2 DEF Answers
  <2> QED
    BY <2>1, <1>1, <1>2, PrepareAnswers
<1>3. CASE m.act = "commit"
  <2>1. r \in Commit(k, m.id)
    BY <1>3 DEF Answers
  <2> QED
    BY <2>1, <1>1, <1>3, CommitAnswers
<1>4. CASE m.act \in Cleanups
  <2>1. r = Settle(k, m.act, m.id)
    BY <1>4 DEF Answers, Cleanups
  <2> QED
    BY <2>1, <1>1, <1>4, SettleAnswers DEF Cleanups
<1> QED
  BY <1>1, <1>2, <1>3, <1>4 DEF Acts

\* What a lost connection does to a worker, and the end of its cleanup.
LEMMA LossKeeps ==
    ASSUME NEW k \in WorkerStates, Sane(k)
    PROVE  /\ GivenUp(k) \in WorkerStates /\ Sane(GivenUp(k)) /\ Held(GivenUp(k)) = Held(k)
           /\ GivenUp(k).retired = k.retired
           /\ Retired(k) \in WorkerStates /\ Sane(Retired(k)) /\ Held(Retired(k)) \subseteq Held(k)
           /\ Retired(k).act = k.act /\ k.retired \subseteq Retired(k).retired
<1> DEFINE held == Held(k)
           retired == k.retired \cup k.pending
<1>1. held \subseteq Ids /\ retired \subseteq Ids /\ held = Held(k)
  BY DEF Held, Some, Sane, WorkerStates, MaybeIds
<1>2. k.retired \subseteq retired
  OBVIOUS
<1> HIDE DEF held, retired
<1>3. GivenUp(k) = [k EXCEPT !.pending = held, !.latest = None, !.cand = None, !.act = None,
                             !.prev = None, !.phase = "released", !.fenced = TRUE]
  BY DEF GivenUp, held
<1>4. Retired(k) = [k EXCEPT !.pending = {}, !.retired = retired]
  BY DEF Retired, retired
<1> DEFINE g == GivenUp(k)
           q == Retired(k)
<1>5. /\ g \in WorkerStates /\ g.pending = held /\ g.latest = None /\ g.cand = None
      /\ g.act = None /\ g.prev = None /\ g.phase = "released" /\ g.retired = k.retired
  <2>1. None \in MaybeIds /\ "released" \in WorkerPhases
    BY DEF MaybeIds, WorkerPhases
  <2>2. g = [k EXCEPT !.pending = held, !.latest = None, !.cand = None, !.act = None,
                      !.prev = None, !.phase = "released", !.fenced = TRUE]
    BY <1>3
  <2> HIDE DEF g
  <2> QED
    BY <1>1, <2>1, <2>2 DEF WorkerStates
<1>6. /\ q \in WorkerStates /\ q.pending = {} /\ q.latest = k.latest /\ q.cand = k.cand
      /\ q.act = k.act /\ q.prev = k.prev /\ q.phase = k.phase /\ q.retired = retired
  BY <1>1, <1>4 DEF WorkerStates
<1> HIDE DEF g, q
<1>7. Sane(g) /\ Held(g) = Held(k)
  BY <1>1, <1>5 DEF Sane, Held, Some, None
<1>8. Sane(q) /\ Held(q) \subseteq Held(k)
  BY <1>6 DEF Sane, Held, Some
<1> QED
  BY <1>2, <1>5, <1>6, <1>7, <1>8 DEF g, q

(***************************************************************************)
(* The master's bookkeeping.                                               *)
(***************************************************************************)
\* What a step of the master leaves true of its own fields.
Ordered ==
    /\ TypedMaster' /\ TxnSane' /\ Recoverable' /\ Dated' /\ Quiet' /\ shown \subseteq shown'
    /\ \A d \in ledger' \cup disk'.ledger : d.act = "finalize" => d.id \in shown'

\* The step ends the transaction, or carries it on and adds no debt; who is newly counted as
\* ready does serve it.
Carries ==
    \/ txn'.phase \notin InProgress
    \/ /\ txn.phase \in InProgress /\ txn'.id = txn.id /\ txn'.workers = txn.workers
       /\ txn'.conn = txn.conn /\ ledger' \subseteq ledger
       /\ \A w \in txn'.ready \ txn.ready : Attached(w) => wk[w].act = txn.id

\* No debt of an unpublished candidate is dropped, unless the worker has given it up, and
\* what is owed is owed on disk.
Passes ==
    /\ \A w \in Workers : \A i \in Ids \ shown' : Owed(w, i) => Owed(w, i)' \/ Given(w, i)
    /\ \A w \in Workers : \A i \in Ids \ shown' :
          OwedOnDisk(w, i) /\ Owed(w, i)' => OwedOnDisk(w, i)'

\* The outcome of a transaction is not revised.
Stands ==
    txn'.id = txn.id =>
        /\ txn.phase \in Over => txn'.phase \in Over
        /\ txn.published => txn'.published /\ txn'.phase # "aborted"

\* All of it.
Proper == Ordered /\ Carries /\ Passes /\ Stands

\* The record written for a transaction t and a ledger l names what they owe.
LEMMA Snapshotted ==
    ASSUME IInv, NEW t \in Txns, NEW l \in SUBSET Debts, NEW n \in Nat, next <= n,
           t.id = None => t = NoTxn, t.id < n, \A d \in l : d.id < n,
           NEW r, r = Snapshot(t, l)
    PROVE  /\ r \in Records /\ (Live(r) => r.id # None) /\ r.id < n
           /\ r.ledger \subseteq l \cup disk.ledger /\ \A d \in r.ledger : d.id < n
           /\ \A w \in Workers, i \in Ids :
                 \/ t.id = i /\ t.phase \in InProgress /\ w \in t.workers
                 \/ \E d \in l : d.node = w /\ d.id = i
                 => \/ r.id = i /\ r.phase \in InProgress /\ w \in r.workers
                    \/ \E d \in r.ledger : d.node = w /\ d.id = i
<1>1. /\ disk \in Records /\ rec \in Records /\ next \in Nat
      /\ Live(disk) => disk.id # None
      /\ Live(rec) => rec.id # None
      /\ disk.id < next /\ rec.id < next
      /\ \A d \in disk.ledger : d.id < next
      /\ disk.id \in Nat /\ rec.id \in Nat /\ disk.ledger \subseteq Debts
  <2>1. disk \in Records /\ rec \in Records /\ next \in Nat
    BY PipelineLoadAssumption DEF IInv, TypedMaster
  <2>2. disk.id \in Nat /\ rec.id \in Nat /\ disk.ledger \subseteq Debts
    BY <2>1, IdsNat DEF Records
  <2> QED
    BY <2>1, <2>2 DEF IInv, Recoverable, Dated
<1>2. \A d \in Debts : d.id \in Nat
  BY IdsNat DEF Debts
<1>3. CASE t = NoTxn
  <2>1. t.phase \notin InProgress
    BY <1>3 DEF NoTxn, InProgress
  <2>2. CASE rec # NoDisk
    <3>1. r = [rec EXCEPT !.ledger = l]
      BY <1>3, <2>2 DEF Snapshot
    <3>2. /\ r \in Records /\ r.id = rec.id /\ r.phase = rec.phase
          /\ r.published = rec.published /\ r.ledger = l
      BY <1>1, <3>1 DEF Records
    <3> QED
      BY <1>1, <2>1, <3>2 DEF Live
  <2>3. CASE rec = NoDisk /\ l = {}
    <3>1. r = disk
      BY <1>3, <2>3 DEF Snapshot
    <3>2. \A d \in disk.ledger : d.id < n
      BY <1>1, <1>2
    <3> QED
      BY <1>1, <2>1, <2>3, <3>1, <3>2
  <2>4. CASE rec = NoDisk /\ l # {}
    <3>1. r = [NoDisk EXCEPT !.phase = "cleared", !.ledger = l]
      BY <1>3, <2>4 DEF Snapshot
    <3>2. NoDisk \in Records /\ NoDisk.id = None /\ NoDisk.published = FALSE
      BY DEF NoDisk, Records, MaybeIds, Phases
    <3>3. /\ r \in Records /\ r.id = None /\ r.phase = "cleared"
          /\ r.published = FALSE /\ r.ledger = l
      BY <1>1, <3>1, <3>2 DEF Records
    <3>4. ~Live(r)
      BY <3>3 DEF Live, InProgress
    <3> QED
      BY <1>1, <2>1, <3>3, <3>4, IdsNat DEF None
  <2> QED
    BY <2>2, <2>3, <2>4
<1>4. CASE t # NoTxn
  <2> DEFINE published == t.published \/ t.phase = "ready"
  <2>1. r = [id |-> t.id, phase |-> t.phase, published |-> published,
             workers |-> t.workers, ledger |-> l]
    BY <1>4 DEF Snapshot
  <2>2. published \in BOOLEAN /\ t.id \in Ids
    BY <1>4 DEF Txns, MaybeIds
  <2> HIDE DEF published
  <2>3. /\ r \in Records /\ r.id = t.id /\ r.phase = t.phase
        /\ r.workers = t.workers /\ r.ledger = l
    BY <2>1, <2>2, <1>1 DEF Records, Txns, MaybeIds
  <2> QED
    BY <2>2, <2>3, IdsNat
<1> QED
  BY <1>3, <1>4

\* What a step that writes the record leaves on disk.
LEMMA Persisted ==
    ASSUME IInv, Persist, next' \in Nat, next <= next', shown \subseteq shown',
           txn' \in Txns, ledger' \subseteq Debts, txn'.id = None => txn' = NoTxn,
           txn'.id < next',
           \A d \in ledger' : d.id < next' /\ (d.act = "finalize" => d.id \in shown')
    PROVE  /\ disk' \in Records /\ (Live(disk') => disk'.id # None) /\ disk'.id < next'
           /\ \A d \in disk'.ledger : d.id < next' /\ (d.act = "finalize" => d.id \in shown')
           /\ \A w \in Workers, i \in Ids : Owed(w, i)' => OwedOnDisk(w, i)'
<1>1. disk' = Snapshot(txn', ledger') /\ ledger' \in SUBSET Debts
  BY DEF Persist
<1>2. /\ disk' \in Records /\ (Live(disk') => disk'.id # None) /\ disk'.id < next'
      /\ disk'.ledger \subseteq ledger' \cup disk.ledger /\ \A d \in disk'.ledger : d.id < next'
      /\ \A w \in Workers, i \in Ids :
            \/ txn'.id = i /\ txn'.phase \in InProgress /\ w \in txn'.workers
            \/ \E d \in ledger' : d.node = w /\ d.id = i
            => \/ disk'.id = i /\ disk'.phase \in InProgress /\ w \in disk'.workers
               \/ \E d \in disk'.ledger : d.node = w /\ d.id = i
  BY <1>1, Snapshotted
<1> QED
  BY <1>2 DEF Owed, OwedOnDisk, IInv, OnlyShown

\* What the invariant says of the transaction, unfolded.
LEMMA TxnFacts ==
    ASSUME IInv
    PROVE  /\ txn \in Txns /\ txn.id \in Nat /\ next \in Nat /\ txn.id < next
           /\ txn.phase \in InProgress => txn.id \in Ids /\ txn # NoTxn /\ ~txn.published
           /\ txn # NoTxn => txn.id \in Ids
           /\ disk \in Records /\ rec \in Records /\ ledger \in SUBSET Debts
           /\ assigned \in [Workers -> Assignments] /\ plan \in Plans /\ todo \in SUBSET Tasks
           /\ shown \in SUBSET Ids
<1>1. txn \in Txns /\ txn.id \in Nat /\ next \in Nat /\ txn.id < next
  <2>1. txn \in Txns /\ next \in Nat /\ txn.id < next
    BY PipelineLoadAssumption DEF IInv, TypedMaster, Dated
  <2>2. txn.id \in MaybeIds
    BY <2>1 DEF Txns
  <2> QED
    BY <2>1, <2>2, IdsNat
<1>2. txn # NoTxn => txn.id \in Ids
  BY <1>1 DEF IInv, TxnSane, Txns, MaybeIds
<1>3. txn.phase \in InProgress => txn # NoTxn /\ ~txn.published
  BY DEF IInv, TxnSane, NoTxn, InProgress
<1> QED
  BY <1>1, <1>2, <1>3 DEF IInv, TypedMaster

\* A change of phase.
LEMMA PhaseFields ==
    ASSUME NEW t \in Txns, NEW p \in Phases, NEW u, u = [t EXCEPT !.phase = p]
    PROVE  /\ u \in Txns /\ u.phase = p /\ u.id = t.id /\ u.workers = t.workers
           /\ u.conn = t.conn /\ u.prepared = t.prepared /\ u.ready = t.ready
           /\ u.published = t.published /\ u.cancel = t.cancel
BY DEF Txns

\* The rest of the master's fields, in a step that writes the record.
LEMMA Recorded ==
    ASSUME IInv, Persist, rec' = rec, next' = next, shown \subseteq shown', shown' \subseteq Ids,
           txn' \in Txns, ledger' \subseteq Debts, txn'.id = None => txn' = NoTxn, txn'.id < next,
           \A d \in ledger' : d.id < next /\ (d.act = "finalize" => d.id \in shown'),
           plan' \in Plans, assigned' \in [Workers -> Assignments],
           \A w \in Workers : assigned'[w].id < next, todo' \subseteq Tasks
    PROVE  /\ TypedMaster' /\ Recoverable' /\ Dated' /\ shown \subseteq shown'
           /\ \A w \in Workers, i \in Ids : Owed(w, i)' => OwedOnDisk(w, i)'
           /\ \A d \in ledger' \cup disk'.ledger : d.act = "finalize" => d.id \in shown'
<1>1. next \in Nat /\ next' \in Nat /\ next <= next'
  BY TxnFacts
<1>2. /\ disk' \in Records /\ (Live(disk') => disk'.id # None) /\ disk'.id < next'
      /\ \A d \in disk'.ledger : d.id < next' /\ (d.act = "finalize" => d.id \in shown')
      /\ \A w \in Workers, i \in Ids : Owed(w, i)' => OwedOnDisk(w, i)'
  BY <1>1, Persisted
<1>3. TypedMaster'
  BY <1>2 DEF IInv, TypedMaster
<1>4. Recoverable'
  BY <1>2 DEF IInv, Recoverable, Live
<1>5. Dated'
  BY <1>2 DEF IInv, Dated
<1> QED
  BY <1>2, <1>3, <1>4, <1>5

\* A step that leaves transaction, ledger and record alone.
LEMMA Aside ==
    ASSUME IInv, UNCHANGED <<txn, ledger, disk, rec, next, shown>>,
           plan' \in Plans, assigned' \in [Workers -> Assignments],
           \A w \in Workers : assigned'[w].id < next, todo' \subseteq Tasks, Quiet'
    PROVE  Proper
<1>1. TypedMaster' /\ TxnSane' /\ Recoverable' /\ Dated'
  BY DEF IInv, TypedMaster, TxnSane, Recoverable, Live, Dated
<1>2. Carries
  BY DEF Carries
<1>3. Passes
  BY DEF Passes, Owed, OwedOnDisk
<1>4. Stands
  BY DEF Stands, IInv, TxnSane, Over
<1>5. \A d \in ledger' \cup disk'.ledger : d.act = "finalize" => d.id \in shown'
  BY DEF IInv, OnlyShown
<1> QED
  BY <1>1, <1>2, <1>3, <1>4, <1>5 DEF Proper, Ordered

\* A transaction that goes on to another phase.
LEMMA GoesOn ==
    ASSUME IInv, NEW p \in InProgress, txn.phase \in InProgress, txn' = [txn EXCEPT !.phase = p],
           Persist, UNCHANGED <<ledger, rec, next, shown, plan, assigned>>,
           todo' \subseteq Tasks, ModelChanging' => ModelChanging
    PROVE  Proper
<1>1. p \in Phases
  BY DEF Phases
<1>2. /\ txn' \in Txns /\ txn'.phase = p /\ txn'.id = txn.id /\ txn'.workers = txn.workers
      /\ txn'.conn = txn.conn /\ txn'.prepared = txn.prepared /\ txn'.ready = txn.ready
      /\ txn'.published = txn.published
  BY <1>1, TxnFacts, PhaseFields
<1>3. txn.id \in Ids /\ ~txn.published /\ txn # NoTxn /\ txn.id # None
  BY TxnFacts, IdsNat
<1>4. \A d \in ledger' : d.id < next /\ (d.act = "finalize" => d.id \in shown')
  BY DEF IInv, Dated, OnlyShown
<1>5. /\ TypedMaster' /\ Recoverable' /\ Dated' /\ shown \subseteq shown'
      /\ \A w \in Workers, i \in Ids : Owed(w, i)' => OwedOnDisk(w, i)'
      /\ \A d \in ledger' \cup disk'.ledger : d.act = "finalize" => d.id \in shown'
  <2>1. \A w \in Workers : assigned'[w].id < next
    BY DEF IInv, Dated
  <2> QED
    BY <1>2, <1>3, <1>4, <2>1, TxnFacts, Recorded
<1>6. TxnSane'
  <2>1. p \notin {"ready", "none"}
    BY DEF InProgress
  <2> QED
    BY <1>2, <1>3, <2>1 DEF IInv, TxnSane
<1>7. Quiet'
  BY DEF IInv, Quiet
<1>8. Carries
  BY <1>2 DEF Carries
<1>9. Passes
  BY <1>2, <1>5 DEF Passes, Owed
<1>10. Stands
  BY <1>3, <1>2 DEF Stands, InProgress, Over
<1> QED
  BY <1>5, <1>6, <1>7, <1>8, <1>9, <1>10 DEF Proper, Ordered

\* What replaces the debts of a transaction that ends: each of its workers owes one.
LEMMA DebtsOf ==
    ASSUME NEW t \in Txns, t.id \in Ids
    PROVE  /\ AbortDebts(t) \cup ReleaseDebts(t) \subseteq Debts
           /\ \A d \in AbortDebts(t) \cup ReleaseDebts(t) : d.id = t.id /\ d.act # "finalize"
           /\ \A w \in t.workers : /\ \E d \in AbortDebts(t) : d.node = w /\ d.id = t.id
                                   /\ \E d \in ReleaseDebts(t) : d.node = w /\ d.id = t.id
<1>1. \A n, i, a : Debt(n, i, a).node = n /\ Debt(n, i, a).id = i /\ Debt(n, i, a).act = a
  BY DEF Debt
<1>2. ASSUME NEW n \in t.workers \cup {Master}, NEW a \in {"abort", "release"}
      PROVE  Debt(n, t.id, a) \in Debts
  BY DEF Debt, Debts, Txns, Cleanups
<1>3. AbortDebts(t) \cup ReleaseDebts(t) \subseteq Debts
  BY <1>2 DEF AbortDebts, ReleaseDebts
<1>4. \A d \in AbortDebts(t) \cup ReleaseDebts(t) : d.id = t.id /\ d.act # "finalize"
  BY <1>1 DEF AbortDebts, ReleaseDebts
<1>5. ASSUME NEW w \in t.workers
      PROVE  /\ \E d \in AbortDebts(t) : d.node = w /\ d.id = t.id
             /\ \E d \in ReleaseDebts(t) : d.node = w /\ d.id = t.id
  <2>1. Debt(w, t.id, "abort") \in AbortDebts(t) /\ Debt(w, t.id, "release") \in ReleaseDebts(t)
    BY DEF AbortDebts, ReleaseDebts
  <2> QED
    BY <2>1, <1>1
<1> QED
  BY <1>3, <1>4, <1>5

\* A transaction that ends, with a debt for each of its workers.
LEMMA Closes ==
    ASSUME IInv, NEW p \in Over, txn # NoTxn, txn' = [txn EXCEPT !.phase = p],
           txn.phase \notin Over \/ txn.published, txn.published => p = "invalidated",
           txn.phase = "ready" => p = "invalidated",
           NEW S, S = AbortDebts(txn) \/ S = ReleaseDebts(txn), ledger' = ledger \cup S,
           Persist, UNCHANGED <<rec, next, shown>>, todo' \subseteq Tasks,
           plan' \in Plans, assigned' \in [Workers -> Assignments],
           \A w \in Workers : assigned'[w].id < next
    PROVE  Proper /\ txn'.phase \notin InProgress
<1>1. p \in Phases /\ p \notin InProgress \cup {"ready", "none"}
  BY DEF Phases, Over, InProgress
<1>2. /\ txn' \in Txns /\ txn'.phase = p /\ txn'.id = txn.id /\ txn'.workers = txn.workers
      /\ txn'.prepared = txn.prepared /\ txn'.ready = txn.ready
      /\ txn'.published = txn.published
  BY <1>1, TxnFacts, PhaseFields
<1>3. txn.id \in Ids /\ txn.id # None /\ txn.id < next /\ ledger \in SUBSET Debts
  BY TxnFacts, IdsNat
<1>4. /\ S \subseteq Debts /\ \A d \in S : d.id = txn.id /\ d.act # "finalize"
      /\ \A w \in txn.workers : \E d \in S : d.node = w /\ d.id = txn.id
  <2>1. txn \in Txns
    BY TxnFacts
  <2>2. AbortDebts(txn) \subseteq Debts /\ ReleaseDebts(txn) \subseteq Debts
    BY <1>3, <2>1, DebtsOf
  <2>3. \A d \in AbortDebts(txn) \cup ReleaseDebts(txn) : d.id = txn.id /\ d.act # "finalize"
    BY <1>3, <2>1, DebtsOf
  <2>4. \A w \in txn.workers : /\ \E d \in AbortDebts(txn) : d.node = w /\ d.id = txn.id
                               /\ \E d \in ReleaseDebts(txn) : d.node = w /\ d.id = txn.id
    BY <1>3, <2>1, DebtsOf
  <2> QED
    BY <2>2, <2>3, <2>4
<1>5. \A d \in ledger' : d.id < next /\ (d.act = "finalize" => d.id \in shown')
  BY <1>3, <1>4 DEF IInv, Dated, OnlyShown
<1>6. /\ TypedMaster' /\ Recoverable' /\ Dated' /\ shown \subseteq shown'
      /\ \A w \in Workers, i \in Ids : Owed(w, i)' => OwedOnDisk(w, i)'
      /\ \A d \in ledger' \cup disk'.ledger : d.act = "finalize" => d.id \in shown'
  <2>1. ledger' \subseteq Debts /\ (txn'.id = None => txn' = NoTxn) /\ txn'.id < next
        /\ shown' \subseteq Ids
    BY <1>2, <1>3, <1>4, TxnFacts
  <2> QED
    BY <1>2, <1>5, <2>1, Recorded
<1>7. TxnSane'
  BY <1>1, <1>2, <1>3 DEF IInv, TxnSane
<1>8. Quiet' /\ Carries
  BY <1>1, <1>2 DEF Quiet, Carries
<1>9. Passes
  BY <1>2, <1>4, <1>6 DEF Passes, Owed
<1>10. Stands
  BY <1>2 DEF Stands, Over
<1> QED
  BY <1>1, <1>2, <1>6, <1>7, <1>8, <1>9, <1>10 DEF Proper, Ordered

LEMMA NothingAssigned ==
    ASSUME IInv
    PROVE  /\ NoPlan \in Plans /\ [w \in Workers |-> NoAssignment] \in [Workers -> Assignments]
           /\ \A w \in Workers : [v \in Workers |-> NoAssignment][w].id < next
<1>1. NoPlan \in Plans /\ NoAssignment \in Assignments
  BY DEF NoPlan, Plans, NoAssignment, Assignments, MaybeIds
<1>2. NoAssignment.id < next
  BY PipelineLoadAssumption DEF NoAssignment, None, IInv, TypedMaster
<1> QED
  BY <1>1, <1>2

LEMMA InvalidatedStep ==
    ASSUME IInv, Invalidated, UNCHANGED <<rec, next, shown>>, todo' \subseteq Tasks
    PROVE  Proper /\ txn'.phase \notin InProgress
<1>1. /\ plan' = NoPlan /\ assigned' = [w \in Workers |-> NoAssignment]
  BY DEF Invalidated
<1>2. /\ plan' \in Plans /\ assigned' \in [Workers -> Assignments]
      /\ \A w \in Workers : assigned'[w].id < next
  BY <1>1, NothingAssigned
<1>3. CASE txn # NoTxn /\ (txn.phase \notin Over \/ txn.published)
  <2> DEFINE S == IF txn.published \/ txn.phase = "ready" THEN ReleaseDebts(txn) ELSE AbortDebts(txn)
             p == "invalidated"
  <2>1. txn' = [txn EXCEPT !.phase = p] /\ ledger' = ledger \cup S /\ Persist
    BY <1>3 DEF Invalidated
  <2>2. S = AbortDebts(txn) \/ S = ReleaseDebts(txn)
    OBVIOUS
  <2>3. p \in Over /\ p = "invalidated"
    BY DEF Over
  <2> HIDE DEF S, p
  <2> QED
    BY <1>2, <1>3, <2>1, <2>2, <2>3, Closes
<1>4. CASE ~(txn # NoTxn /\ (txn.phase \notin Over \/ txn.published))
  <2>1. UNCHANGED <<txn, ledger, disk>>
    BY <1>4 DEF Invalidated
  <2>2. txn.phase \notin InProgress
    BY <1>4 DEF NoTxn, InProgress, Over
  <2>3. Quiet'
    BY <2>1, <2>2 DEF Quiet
  <2> QED
    BY <1>2, <2>1, <2>2, <2>3, Aside
<1> QED
  BY <1>3, <1>4

LEMMA AbortedStep ==
    ASSUME IInv, NEW i \in Ids, Aborted(i), UNCHANGED <<rec, next, shown>>, todo' \subseteq Tasks,
           ModelChanging' => ModelChanging
    PROVE  Proper
<1>0. /\ plan \in Plans /\ assigned \in [Workers -> Assignments]
      /\ \A w \in Workers : assigned[w].id < next
  BY TxnFacts DEF IInv, Dated
<1>1. CASE txn.id # i \/ (txn.phase \in Over /\ ~txn.published)
  <2>1. UNCHANGED <<txn, ledger, disk, plan, assigned>>
    BY <1>1 DEF Aborted
  <2>2. Quiet'
    BY <2>1 DEF IInv, Quiet
  <2> QED
    BY <1>0, <2>1, <2>2, Aside
<1>2. CASE ~(txn.id # i \/ (txn.phase \in Over /\ ~txn.published))
           /\ (txn.published \/ txn.phase = "ready")
  <2>1. Invalidated
    BY <1>2 DEF Aborted
  <2> QED
    BY <2>1, InvalidatedStep
<1>3. CASE ~(txn.id # i \/ (txn.phase \in Over /\ ~txn.published))
           /\ ~(txn.published \/ txn.phase = "ready")
  <2> DEFINE p == "aborted"
             S == AbortDebts(txn)
  <2>1. /\ txn' = [txn EXCEPT !.phase = p] /\ ledger' = ledger \cup S
        /\ Persist /\ UNCHANGED <<plan, assigned>>
    BY <1>3 DEF Aborted
  <2>2. p \in Over
    BY DEF Over
  <2>3. txn # NoTxn
    BY <1>3, IdsNat DEF NoTxn
  <2> HIDE DEF p
  <2>4. /\ S = AbortDebts(txn)
    OBVIOUS
  <2> HIDE DEF S
  <2> QED
    BY <1>0, <1>3, <2>1, <2>2, <2>3, <2>4, Closes
<1> QED
  BY <1>1, <1>2, <1>3

(***************************************************************************)
(* The master's steps.                                                     *)
(***************************************************************************)
LEMMA TaskFields ==
    ASSUME NEW d \in Steps, NEW i \in Ids
    PROVE  /\ Task(d, i) \in Tasks /\ Task(d, i).do = d /\ Task(d, i).id = i
           /\ d \notin {"clear", "retire_recovery"}
BY DEF Task, Tasks, Steps

LEMMA TaskId ==
    ASSUME NEW t \in Tasks, t.do \notin {"clear", "retire_recovery"}
    PROVE  t.id \in Ids
BY DEF Tasks

\* A step that replaces one task by others does not begin a model change.
LEMMA InsteadKeeps ==
    ASSUME IInv, NEW t, NEW S \in SUBSET Tasks, Instead(t, S),
           \A u \in S : u.do \notin {"clear", "retire_recovery"}
    PROVE  todo' \subseteq Tasks /\ (ModelChanging' => ModelChanging)
<1>1. todo' = (todo \ {t}) \cup S /\ todo \in SUBSET Tasks
  BY TxnFacts DEF Instead
<1> QED
  BY <1>1 DEF ModelChanging

\* The tasks of a transaction, one more or one in another's place.
LEMMA OneTask ==
    ASSUME IInv, NEW d \in Steps, NEW i \in Ids
    PROVE  /\ {Task(d, i)} \in SUBSET Tasks /\ {} \in SUBSET Tasks
           /\ \A u \in {Task(d, i)} : u.do \notin {"clear", "retire_recovery"}
           /\ todo' = todo \cup {Task(d, i)} \/ todo' = todo
                 => todo' \subseteq Tasks /\ (ModelChanging' => ModelChanging)
<1>1. /\ Task(d, i) \in Tasks /\ Task(d, i).do = d /\ d \notin {"clear", "retire_recovery"}
  BY TaskFields
<1>2. todo \in SUBSET Tasks
  BY TxnFacts
<1> QED
  BY <1>1, <1>2 DEF ModelChanging

\* The plan and the assignments, in a step that keeps them.
LEMMA PlanSame ==
    ASSUME IInv, UNCHANGED <<plan, assigned, next>>
    PROVE  /\ plan' \in Plans /\ assigned' \in [Workers -> Assignments]
           /\ \A w \in Workers : assigned'[w].id < next
BY TxnFacts DEF IInv, Dated

LEMMA AsideWith ==
    ASSUME IInv, UNCHANGED <<txn, ledger, disk, rec, next, shown, plan, assigned>>,
           NEW t, NEW S \in SUBSET Tasks, Instead(t, S),
           \A u \in S : u.do \notin {"clear", "retire_recovery"}
    PROVE  Proper
<1>1. todo' \subseteq Tasks /\ (ModelChanging' => ModelChanging)
  BY InsteadKeeps
<1>2. Quiet'
  BY <1>1 DEF IInv, Quiet
<1> QED
  BY <1>1, <1>2, PlanSame, Aside

LEMMA NoTask == {} \in SUBSET Tasks /\ \A u \in {} : u.do \notin {"clear", "retire_recovery"}
OBVIOUS

LEMMA CommitLocalStep ==
    ASSUME IInv, NEW t \in todo, CommitLocal(t)
    PROVE  Proper
<1>1. t \in Tasks /\ t.id \in Ids
  BY TxnFacts, TaskId DEF CommitLocal
<1>2. UNCHANGED <<rec, next, shown, plan, assigned>>
  BY DEF CommitLocal, Network
<1>3. CASE txn.id = t.id /\ txn.phase = "preparing"
  <2> DEFINE p == "committing_local"
             d == "materialize"
             S == {Task(d, t.id)}
  <2>1. p \in InProgress /\ d \in Steps /\ txn.phase \in InProgress
    BY <1>3 DEF InProgress, Steps
  <2>2. txn' = [txn EXCEPT !.phase = p] /\ Instead(t, S) /\ Persist /\ UNCHANGED ledger
    BY <1>3 DEF CommitLocal
  <2> HIDE DEF p, d
  <2>3. S \in SUBSET Tasks /\ \A u \in S : u.do \notin {"clear", "retire_recovery"}
    BY <1>1, <2>1, OneTask
  <2> HIDE DEF S
  <2>4. todo' \subseteq Tasks /\ (ModelChanging' => ModelChanging)
    BY <2>2, <2>3, InsteadKeeps
  <2> QED
    BY <1>2, <2>1, <2>2, <2>4, GoesOn
<1>4. CASE ~(txn.id = t.id /\ txn.phase = "preparing")
  <2>1. Instead(t, {}) /\ UNCHANGED <<txn, ledger, disk>>
    BY <1>4 DEF CommitLocal
  <2> QED
    BY <1>2, <2>1, NoTask, AsideWith
<1> QED
  BY <1>3, <1>4

LEMMA CommitWorkersStep ==
    ASSUME IInv, NEW t \in todo, CommitWorkers(t)
    PROVE  Proper
<1>1. UNCHANGED <<rec, next, shown, plan, assigned>> /\ Instead(t, {})
  BY DEF CommitWorkers, Network
<1>2. CASE txn.id = t.id /\ txn.phase = "committing_local"
  <2> DEFINE p == "committing"
  <2>1. p \in InProgress /\ txn.phase \in InProgress
    BY <1>2 DEF InProgress
  <2>2. txn' = [txn EXCEPT !.phase = p] /\ Persist /\ UNCHANGED ledger
    BY <1>2 DEF CommitWorkers
  <2> HIDE DEF p
  <2>4. todo' \subseteq Tasks /\ (ModelChanging' => ModelChanging)
    BY <1>1, NoTask, InsteadKeeps
  <2> QED
    BY <1>1, <2>1, <2>2, <2>4, GoesOn
<1>3. CASE ~(txn.id = t.id /\ txn.phase = "committing_local")
  <2>1. UNCHANGED <<txn, ledger, disk>>
    BY <1>3 DEF CommitWorkers
  <2> QED
    BY <1>1, <2>1, NoTask, AsideWith
<1> QED
  BY <1>2, <1>3

\* The native load, and the swap of the runtime, leave only tasks.
LEMMA NativeStep ==
    ASSUME IInv, NEW t \in todo, Materialize(t) \/ SwapLocal(t)
    PROVE  Proper
<1>1. t \in Tasks /\ t.id \in Ids
  BY TxnFacts, TaskId DEF Materialize, SwapLocal
<1>2. UNCHANGED <<txn, ledger, disk, rec, next, shown, plan, assigned>>
  BY DEF Materialize, SwapLocal, Network
<1>3. PICK S : /\ Instead(t, S)
               /\ S = {} \/ \E d \in Steps : S = {Task(d, t.id)}
  BY DEF Materialize, SwapLocal, Steps
<1>4. S \in SUBSET Tasks /\ Instead(t, S)
      /\ \A u \in S : u.do \notin {"clear", "retire_recovery"}
  <2>1. CASE S = {}
    BY <1>3, <2>1
  <2>2. ASSUME NEW d \in Steps, S = {Task(d, t.id)}
        PROVE  /\ S \in SUBSET Tasks /\ Instead(t, S)
               /\ \A u \in S : u.do \notin {"clear", "retire_recovery"}
    BY <1>1, <1>3, <2>2, OneTask
  <2> QED
    BY <1>3, <2>1, <2>2
<1> QED
  BY <1>2, <1>4, AsideWith

LEMMA GiveUpStep ==
    ASSUME IInv, NEW t \in todo, GiveUp(t)
    PROVE  Proper
<1>1. t \in Tasks /\ t.id \in Ids
  BY TxnFacts, TaskId DEF GiveUp
<1>2. UNCHANGED <<rec, next, shown>> /\ Instead(t, {}) /\ (Aborted(t.id) \/ Invalidated)
  BY DEF GiveUp, Network
<1>3. todo' \subseteq Tasks /\ (ModelChanging' => ModelChanging)
  BY <1>2, NoTask, InsteadKeeps
<1> QED
  BY <1>1, <1>2, <1>3, AbortedStep, InvalidatedStep

LEMMA DeadlineStep ==
    ASSUME IInv, Deadline
    PROVE  Proper
<1>1. txn.id \in Ids
  BY TxnFacts DEF Deadline
<1>2. UNCHANGED <<rec, next, shown, todo>> /\ Aborted(txn.id)
  BY DEF Deadline, Network
<1>3. todo' \subseteq Tasks /\ (ModelChanging' => ModelChanging)
  BY <1>2, TxnFacts DEF ModelChanging
<1> QED
  BY <1>1, <1>2, <1>3, AbortedStep

LEMMA DispatchLocalStep ==
    ASSUME IInv, NEW d \in ledger, DispatchLocal(d)
    PROVE  Proper
<1>1. d.node = Master /\ ledger' = ledger \ {d} /\ Persist
      /\ UNCHANGED <<txn, next, plan, assigned, todo, rec, shown>>
  BY DEF DispatchLocal, Network
<1>2. /\ TypedMaster' /\ Recoverable' /\ Dated' /\ shown \subseteq shown'
      /\ \A w \in Workers, i \in Ids : Owed(w, i)' => OwedOnDisk(w, i)'
      /\ \A b \in ledger' \cup disk'.ledger : b.act = "finalize" => b.id \in shown'
  <2>1. /\ ledger' \subseteq Debts /\ (txn'.id = None => txn' = NoTxn) /\ txn' \in Txns
        /\ txn'.id < next /\ todo' \subseteq Tasks /\ shown' \subseteq Ids
    BY <1>1, TxnFacts DEF IInv, TxnSane
  <2>2. \A b \in ledger' : b.id < next /\ (b.act = "finalize" => b.id \in shown')
    BY <1>1 DEF IInv, Dated, OnlyShown
  <2> QED
    BY <1>1, <2>1, <2>2, PlanSame, Recorded
<1>3. TxnSane' /\ Quiet' /\ Carries
  BY <1>1 DEF IInv, TxnSane, Quiet, ModelChanging, Carries
<1>4. Passes
  BY <1>1, <1>2, PipelineLoadAssumption DEF Passes, Owed
<1>5. Stands
  BY <1>1 DEF Stands, IInv, TxnSane, Over
<1> QED
  BY <1>2, <1>3, <1>4, <1>5 DEF Proper, Ordered

LEMMA PublishStep ==
    ASSUME IInv, NEW t \in todo, Publish(t)
    PROVE  Proper
<1>1. t \in Tasks /\ t.id \in Ids
  BY TxnFacts, TaskId DEF Publish
<1>2. UNCHANGED <<next, rec>>
  BY DEF Publish
<1> DEFINE d == "abort"
           S == {Task(d, t.id)}
           releases == {Debt(w, assigned[w].id, "release") :
                          w \in {v \in Workers \ txn.workers : assigned[v].id # None}}
           finalizes == {Debt(n, txn.id, "finalize") : n \in txn.workers \cup {Master}}
           given == [w \in Workers |-> IF w \in txn.workers
                                       THEN [id |-> txn.id, conn |-> txn.conn[w]]
                                       ELSE assigned[w]]
           shows == [txn EXCEPT !.phase = "ready", !.published = TRUE]
<1>3. \/ /\ Publishable(t.id) /\ txn' = shows /\ plan' = [id |-> txn.id, workers |-> txn.workers]
         /\ assigned' = given /\ ledger' = ledger \cup releases \cup finalizes /\ Persist
         /\ Instead(t, {}) /\ shown' = shown \cup {t.id}
      \/ Instead(t, S) /\ UNCHANGED <<txn, plan, assigned, ledger, disk, shown>>
  BY DEF Publish
<1>4. CASE Instead(t, S) /\ UNCHANGED <<txn, plan, assigned, ledger, disk, shown>>
  <2>1. d \in Steps
    BY DEF Steps
  <2> HIDE DEF d
  <2>2. S \in SUBSET Tasks /\ \A u \in S : u.do \notin {"clear", "retire_recovery"}
    BY <1>1, <2>1, OneTask
  <2> HIDE DEF S
  <2> QED
    BY <1>2, <1>4, <2>2, AsideWith
<1>5. CASE /\ Publishable(t.id) /\ txn' = shows /\ plan' = [id |-> txn.id, workers |-> txn.workers]
           /\ assigned' = given /\ ledger' = ledger \cup releases \cup finalizes /\ Persist
           /\ Instead(t, {}) /\ shown' = shown \cup {t.id}
  <2>1. /\ txn \in Txns /\ txn.id = t.id /\ txn.phase \in InProgress /\ txn.id \in Ids
        /\ txn.id # None /\ txn.id < next /\ ledger \in SUBSET Debts /\ shown \in SUBSET Ids
    BY <1>1, <1>5, TxnFacts, IdsNat DEF Publishable, InProgress
  <2>2. /\ shows \in Txns /\ shows.phase = "ready" /\ shows.published = TRUE
        /\ shows.id = txn.id /\ shows.workers = txn.workers /\ shows.prepared = txn.prepared
        /\ shows.ready = txn.ready
    BY <2>1 DEF Txns, Phases
  <2>3. \A n, i, a : Debt(n, i, a).node = n /\ Debt(n, i, a).id = i /\ Debt(n, i, a).act = a
    BY DEF Debt
  <2>4. \A w \in Workers : assigned[w].id \in MaybeIds /\ assigned[w].id < next
    BY TxnFacts DEF Assignments, IInv, Dated
  <2>5. /\ releases \subseteq Debts
        /\ \A b \in releases : b.id < next /\ b.act # "finalize"
    <3>1. ASSUME NEW w \in Workers, assigned[w].id # None
          PROVE  Debt(w, assigned[w].id, "release") \in Debts
      BY <2>4, <3>1 DEF Debt, Debts, Cleanups, MaybeIds
    <3> QED
      BY <2>3, <2>4, <3>1
  <2>6. /\ finalizes \subseteq Debts /\ \A b \in finalizes : b.id = txn.id
    <3>1. ASSUME NEW n \in txn.workers \cup {Master}
          PROVE  Debt(n, txn.id, "finalize") \in Debts
      BY <2>1 DEF Debt, Debts, Cleanups, Txns
    <3> QED
      BY <2>3, <3>1
  <2>7. given \in [Workers -> Assignments] /\ \A w \in Workers : given[w].id < next
    <3>1. ASSUME NEW w \in Workers
          PROVE  /\ (IF w \in txn.workers THEN [id |-> txn.id, conn |-> txn.conn[w]]
                     ELSE assigned[w]) \in Assignments
                 /\ given[w].id < next
      BY <2>1, <2>4, TxnFacts DEF Assignments, Txns, MaybeIds
    <3> QED
      BY <3>1
  <2>8. plan' \in Plans
    BY <1>5, <2>1 DEF Plans, Txns
  <2> HIDE DEF releases, finalizes, given, shows
  <2>9. \A b \in ledger' : b.id < next /\ (b.act = "finalize" => b.id \in shown')
    BY <1>5, <2>1, <2>5, <2>6 DEF IInv, Dated, OnlyShown
  <2>10. todo' \subseteq Tasks
    BY <1>5, NoTask, InsteadKeeps
  <2>11. /\ TypedMaster' /\ Recoverable' /\ Dated' /\ shown \subseteq shown'
         /\ \A w \in Workers, i \in Ids : Owed(w, i)' => OwedOnDisk(w, i)'
         /\ \A b \in ledger' \cup disk'.ledger : b.act = "finalize" => b.id \in shown'
    <3>1. /\ ledger' \subseteq Debts /\ shown \subseteq shown' /\ shown' \subseteq Ids
          /\ txn' \in Txns /\ txn'.id < next /\ (txn'.id = None => txn' = NoTxn)
          /\ assigned' \in [Workers -> Assignments] /\ \A w \in Workers : assigned'[w].id < next
      BY <1>5, <1>1, <2>1, <2>2, <2>5, <2>6, <2>7
    <3> QED
      BY <1>2, <1>5, <2>8, <2>9, <2>10, <3>1, Recorded
  <2>12. TxnSane'
    BY <1>5, <2>1, <2>2 DEF IInv, TxnSane, InProgress
  <2>13. Quiet' /\ Carries
    BY <1>5, <2>2 DEF Quiet, Carries, InProgress
  <2>14. Passes
    BY <1>5, <2>1, <2>11 DEF Passes, Owed
  <2>15. Stands
    BY <1>5, <2>1, <2>2 DEF Stands, InProgress, Over
  <2> QED
    BY <2>11, <2>12, <2>13, <2>14, <2>15 DEF Proper, Ordered
<1> QED
  BY <1>3, <1>4, <1>5

LEMMA CancelStep ==
    ASSUME IInv, Cancel
    PROVE  Proper
<1> DEFINE d == "abort"
<1>1. /\ txn' = [txn EXCEPT !.cancel = TRUE] /\ todo' = todo \cup {Task(d, txn.id)}
      /\ UNCHANGED <<next, plan, assigned, ledger, disk, rec, shown>> /\ txn.phase \in InProgress
  BY DEF Cancel, Network
<1>2. d \in Steps /\ txn.id \in Ids /\ txn \in Txns /\ txn # NoTxn
  BY <1>1, TxnFacts DEF Steps
<1> HIDE DEF d
<1>3. /\ txn' \in Txns /\ txn'.phase = txn.phase /\ txn'.id = txn.id /\ txn'.workers = txn.workers
      /\ txn'.conn = txn.conn /\ txn'.prepared = txn.prepared /\ txn'.ready = txn.ready
      /\ txn'.published = txn.published
  BY <1>1, <1>2 DEF Txns
<1>4. todo' \subseteq Tasks /\ (ModelChanging' => ModelChanging)
  BY <1>1, <1>2, OneTask
<1>5. TypedMaster' /\ Recoverable' /\ Dated'
  BY <1>1, <1>3, <1>4 DEF IInv, TypedMaster, Recoverable, Live, Dated
<1>6. TxnSane' /\ Quiet'
  BY <1>1, <1>2, <1>3, <1>4, IdsNat DEF IInv, TxnSane, Quiet, NoTxn, InProgress
<1>7. Carries /\ Passes /\ Stands
  BY <1>1, <1>3 DEF Carries, Passes, Owed, OwedOnDisk, Stands, IInv, TxnSane, Over
<1>8. \A b \in ledger' \cup disk'.ledger : b.act = "finalize" => b.id \in shown'
  BY <1>1 DEF IInv, OnlyShown
<1> QED
  BY <1>1, <1>5, <1>6, <1>7, <1>8 DEF Proper, Ordered

LEMMA ModelChangeStep ==
    ASSUME IInv, ModelChange
    PROVE  Proper
<1>1. Invalidated /\ UNCHANGED <<next, rec, shown>> /\ todo' = todo \cup {Task("clear", None)}
  BY DEF ModelChange
<1>2. Task("clear", None) \in Tasks
  BY DEF Task, Tasks
<1>3. todo' \subseteq Tasks
  BY <1>1, <1>2, TxnFacts
<1> QED
  BY <1>1, <1>3, InvalidatedStep

LEMMA ClearStep ==
    ASSUME IInv, NEW t \in todo, Clear(t)
    PROVE  Proper
<1>1. /\ txn' = NoTxn /\ plan' = NoPlan /\ assigned' = [w \in Workers |-> NoAssignment]
      /\ UNCHANGED <<next, ledger, disk, rec, shown>>
  BY DEF Clear, Network
<1>2. /\ plan' \in Plans /\ assigned' \in [Workers -> Assignments]
      /\ \A w \in Workers : assigned'[w].id < next
  BY <1>1, NothingAssigned
<1>3. Task("retire_recovery", None) \in Tasks
  BY DEF Task, Tasks
<1>4. todo' \subseteq Tasks
  BY <1>3, TxnFacts DEF Clear, Instead
<1>5. txn.phase \notin InProgress
  BY DEF Clear, IInv, Quiet, ModelChanging
<1>6. /\ txn' \in Txns /\ txn'.id = None /\ txn'.phase = "none" /\ txn'.prepared = {}
      /\ txn'.ready = {} /\ txn'.published = FALSE /\ None < next
  BY <1>1, PipelineLoadAssumption DEF NoTxn, Txns, MaybeIds, Phases, None, IInv, TypedMaster
<1>7. TypedMaster' /\ Recoverable' /\ Dated'
  BY <1>1, <1>2, <1>4, <1>6 DEF IInv, TypedMaster, Recoverable, Live, Dated
<1>8. TxnSane' /\ Quiet' /\ Carries
  BY <1>1, <1>6 DEF TxnSane, Quiet, Carries, InProgress
<1>9. Passes
  BY <1>1, <1>5 DEF Passes, Owed, OwedOnDisk
<1>10. Stands
  BY <1>1, <1>6 DEF Stands, IInv, TxnSane, NoTxn, Over
<1>11. \A b \in ledger' \cup disk'.ledger : b.act = "finalize" => b.id \in shown'
  BY <1>1 DEF IInv, OnlyShown
<1> QED
  BY <1>1, <1>7, <1>8, <1>9, <1>10, <1>11 DEF Proper, Ordered

LEMMA RetireRecoveryStep ==
    ASSUME IInv, NEW t \in todo, RetireRecovery(t)
    PROVE  Proper
<1> DEFINE retired == [rec EXCEPT !.phase = "invalidated", !.published = FALSE]
<1>1. /\ rec' = retired /\ disk' = [rec' EXCEPT !.ledger = ledger] /\ Instead(t, {})
      /\ UNCHANGED <<txn, next, plan, assigned, ledger, shown>>
  BY DEF RetireRecovery
<1>2. rec \in Records /\ ledger \in SUBSET Debts
  BY TxnFacts
<1>3. /\ retired \in Records /\ retired.id = rec.id /\ retired.phase = "invalidated"
      /\ retired.published = FALSE
  <2>1. "invalidated" \in Phases \cup {"cleared"}
    BY DEF Phases, Over
  <2> QED
    BY <1>2, <2>1 DEF Records
<1> HIDE DEF retired
<1>4. /\ disk' \in Records /\ disk'.id = rec.id /\ disk'.phase = "invalidated"
      /\ disk'.published = FALSE /\ disk'.ledger = ledger
  BY <1>1, <1>2, <1>3 DEF Records
<1>5. todo' \subseteq Tasks /\ (ModelChanging' => ModelChanging)
  BY <1>1, NoTask, InsteadKeeps
<1>6. txn.phase \notin InProgress
  BY DEF RetireRecovery, IInv, Quiet, ModelChanging
<1>7. TypedMaster'
  BY <1>1, <1>3, <1>4, <1>5 DEF IInv, TypedMaster
<1>8. Recoverable' /\ Dated'
  BY <1>1, <1>3, <1>4 DEF IInv, Recoverable, Live, InProgress, Dated
<1>9. TxnSane' /\ Quiet' /\ Carries
  BY <1>1, <1>6 DEF IInv, TxnSane, Quiet, Carries
<1>10. Passes
  BY <1>1, <1>4, <1>6 DEF Passes, Owed, OwedOnDisk
<1>11. Stands
  BY <1>1 DEF Stands, IInv, TxnSane, Over
<1>12. \A b \in ledger' \cup disk'.ledger : b.act = "finalize" => b.id \in shown'
  BY <1>1, <1>4 DEF IInv, OnlyShown
<1> QED
  BY <1>1, <1>7, <1>8, <1>9, <1>10, <1>11, <1>12 DEF Proper, Ordered

\* A worker of the published plan goes while a transaction without it is under way.
Overlooked(w) ==
    Disconnected(w) /\ txn.phase \in InProgress /\ w \in plan.workers \ txn.workers

LEMMA DisconnectedStep ==
    ASSUME IInv, NEW w \in Workers, Disconnected(w)
    PROVE  Ordered /\ Carries /\ Stands /\ (~Overlooked(w) => Passes)
<1> DEFINE aborts == txn.phase \in InProgress /\ w \in txn.workers
           hit == w \in plan.workers \/ (txn.phase = "ready" /\ w \in txn.workers)
           published == txn.published \/ txn.phase = "ready"
           ends == hit /\ txn # NoTxn /\ ~aborts
           over == [txn EXCEPT !.phase = "invalidated", !.published = published]
           d == "abort"
<1>1. /\ todo' = IF aborts THEN todo \cup {Task(d, txn.id)} ELSE todo
      /\ plan' = IF hit THEN NoPlan ELSE plan
      /\ ledger' = IF ends /\ published THEN ledger \cup ReleaseDebts(txn) ELSE ledger
      /\ txn' = IF ends THEN over ELSE txn
      /\ disk' = Snapshot(txn, ledger) \/ disk' = disk
      /\ UNCHANGED <<next, assigned, rec, shown>>
  BY DEF Disconnected
<1>2. /\ txn \in Txns /\ txn.id < next /\ next \in Nat /\ (txn # NoTxn => txn.id \in Ids)
      /\ ledger \in SUBSET Debts /\ disk \in Records /\ shown \in SUBSET Ids
      /\ txn.id = None => txn = NoTxn
  BY TxnFacts DEF IInv, TxnSane
<1>3. published \in BOOLEAN /\ (published => txn.id \in shown) /\ (txn.published => published)
      /\ (ends => txn # NoTxn)
  BY <1>2 DEF IInv, TxnSane, Txns
<1>4. aborts => txn.id \in Ids
  BY TxnFacts
<1>5. d \in Steps
  BY DEF Steps
<1> HIDE DEF published, d
<1>6. /\ over \in Txns /\ over.phase = "invalidated" /\ over.published = published
      /\ over.id = txn.id /\ over.workers = txn.workers /\ over.prepared = txn.prepared
      /\ over.ready = txn.ready
  BY <1>2, <1>3 DEF Txns, Phases, Over
<1> HIDE DEF over
<1>7. ends => /\ ReleaseDebts(txn) \subseteq Debts
              /\ \A b \in ReleaseDebts(txn) : b.id = txn.id /\ b.act # "finalize"
  BY <1>2, DebtsOf
<1>8. todo' \subseteq Tasks /\ (ModelChanging' => ModelChanging)
  <2>1. CASE aborts
    BY <2>1, <1>1, <1>4, <1>5, OneTask
  <2>2. CASE ~aborts
    BY <2>2, <1>1, TxnFacts DEF ModelChanging
  <2> QED
    BY <2>1, <2>2
<1> HIDE DEF aborts, hit
<1>9. /\ ledger \subseteq ledger' /\ ledger' \subseteq Debts
      /\ \A b \in ledger' \ ledger : b.id = txn.id /\ txn.id \in shown /\ b.act # "finalize"
  BY <1>1, <1>2, <1>3, <1>7
<1>10. \A b \in ledger' : b.id < next /\ (b.act = "finalize" => b.id \in shown)
  BY <1>2, <1>9 DEF IInv, Dated, OnlyShown
<1>11. /\ disk' \in Records /\ (Live(disk') => disk'.id # None) /\ disk'.id < next
       /\ \A b \in disk'.ledger : b.id < next /\ (b.act = "finalize" => b.id \in shown)
       /\ \A v \in Workers, i \in Ids : Owed(v, i) /\ OwedOnDisk(v, i) => OwedOnDisk(v, i)'
  <2>1. CASE disk' = disk
    BY <2>1 DEF IInv, TypedMaster, Recoverable, Live, Dated, OnlyShown, OwedOnDisk
  <2>2. CASE disk' = Snapshot(txn, ledger)
    <3>1. next <= next /\ \A b \in ledger : b.id < next
      BY <1>2 DEF IInv, Dated
    <3>2. /\ disk' \in Records /\ (Live(disk') => disk'.id # None) /\ disk'.id < next
          /\ disk'.ledger \subseteq ledger \cup disk.ledger /\ \A b \in disk'.ledger : b.id < next
          /\ \A v \in Workers, i \in Ids :
                \/ txn.id = i /\ txn.phase \in InProgress /\ v \in txn.workers
                \/ \E b \in ledger : b.node = v /\ b.id = i
                => \/ disk'.id = i /\ disk'.phase \in InProgress /\ v \in disk'.workers
                   \/ \E b \in disk'.ledger : b.node = v /\ b.id = i
      BY <1>2, <2>2, <3>1, Snapshotted
    <3> QED
      BY <3>2 DEF Owed, OwedOnDisk, IInv, OnlyShown
  <2> QED
    BY <1>1, <2>1, <2>2
<1>12. plan' \in Plans
  BY <1>1, NothingAssigned, TxnFacts
<1>13. txn' \in Txns /\ txn'.id = txn.id /\ txn'.workers = txn.workers
       /\ txn'.ready = txn.ready /\ txn'.prepared = txn.prepared
       /\ (txn.published => txn'.published)
  BY <1>1, <1>2, <1>3, <1>6
<1>14. TypedMaster'
  BY <1>1, <1>8, <1>9, <1>11, <1>12, <1>13 DEF IInv, TypedMaster
<1>15. TxnSane'
  <2>1. CASE ends
    BY <2>1, <1>1, <1>2, <1>3, <1>6, IdsNat DEF IInv, TxnSane, InProgress
  <2>2. CASE ~ends
    BY <2>2, <1>1 DEF IInv, TxnSane
  <2> QED
    BY <2>1, <2>2
<1>16. Recoverable' /\ Dated'
  BY <1>1, <1>10, <1>11, <1>13 DEF IInv, Recoverable, Live, Dated
<1>18. Quiet'
  BY <1>1, <1>6, <1>8 DEF IInv, Quiet, InProgress
<1>19. Carries
  <2>1. CASE ends
    BY <2>1, <1>1, <1>6 DEF Carries, InProgress
  <2>2. CASE ~ends
    BY <2>2, <1>1 DEF Carries
  <2> QED
    BY <2>1, <2>2
<1>20. Stands
  BY <1>1, <1>6, <1>13 DEF Stands, Over, IInv, TxnSane
<1>21. ~Overlooked(w) => Passes
  <2> SUFFICES ASSUME ~Overlooked(w)
               PROVE  Passes
    OBVIOUS
  <2>1. ends => txn.phase \notin InProgress
    BY TxnFacts DEF Overlooked, aborts, hit, InProgress
  <2>2. \A v \in Workers : \A i \in Ids : Owed(v, i) => Owed(v, i)'
    BY <2>1, <1>1, <1>9 DEF Owed
  <2>3. \A v \in Workers : \A i \in Ids \ shown' : Owed(v, i)' => Owed(v, i)
    BY <2>1, <1>1, <1>6, <1>9 DEF Owed, InProgress
  <2> QED
    BY <2>2, <2>3, <1>11 DEF Passes
<1> QED
  BY <1>1, <1>10, <1>11, <1>14, <1>15, <1>16, <1>18, <1>19, <1>20, <1>21 DEF Ordered

LEMMA DisconnectSavedStep ==
    ASSUME IInv, NEW w \in Workers, DisconnectSaved(w)
    PROVE  Proper
<1>1. /\ disk' = Snapshot(txn, ledger) \/ disk' = disk
      /\ assigned' = [assigned EXCEPT ![w] = NoAssignment]
      /\ UNCHANGED <<txn, next, plan, ledger, todo, rec, shown>>
  BY DEF DisconnectSaved
<1>2. /\ txn \in Txns /\ txn.id < next /\ next \in Nat /\ (txn # NoTxn => txn.id \in Ids)
      /\ ledger \in SUBSET Debts /\ disk \in Records /\ shown \in SUBSET Ids
      /\ txn.id = None => txn = NoTxn
  BY TxnFacts DEF IInv, TxnSane
<1>3. /\ disk' \in Records /\ (Live(disk') => disk'.id # None) /\ disk'.id < next
      /\ \A b \in disk'.ledger : b.id < next /\ (b.act = "finalize" => b.id \in shown)
      /\ \A v \in Workers, i \in Ids : Owed(v, i) /\ OwedOnDisk(v, i) => OwedOnDisk(v, i)'
  <2>1. CASE disk' = disk
    BY <2>1 DEF IInv, TypedMaster, Recoverable, Live, Dated, OnlyShown, OwedOnDisk
  <2>2. CASE disk' = Snapshot(txn, ledger)
    <3>1. next <= next /\ \A b \in ledger : b.id < next
      BY <1>2 DEF IInv, Dated
    <3>2. /\ disk' \in Records /\ (Live(disk') => disk'.id # None) /\ disk'.id < next
          /\ disk'.ledger \subseteq ledger \cup disk.ledger /\ \A b \in disk'.ledger : b.id < next
          /\ \A v \in Workers, i \in Ids :
                \/ txn.id = i /\ txn.phase \in InProgress /\ v \in txn.workers
                \/ \E b \in ledger : b.node = v /\ b.id = i
                => \/ disk'.id = i /\ disk'.phase \in InProgress /\ v \in disk'.workers
                   \/ \E b \in disk'.ledger : b.node = v /\ b.id = i
      BY <1>2, <2>2, <3>1, Snapshotted
    <3> QED
      BY <3>2 DEF Owed, OwedOnDisk, IInv, OnlyShown
  <2> QED
    BY <1>1, <2>1, <2>2
<1>4. /\ NoAssignment \in Assignments /\ NoAssignment.id < next
      /\ assigned \in [Workers -> Assignments] /\ \A v \in Workers : assigned[v].id < next
  BY PipelineLoadAssumption, TxnFacts
     DEF NoAssignment, Assignments, MaybeIds, None, IInv, TypedMaster, Dated
<1>5. assigned' \in [Workers -> Assignments] /\ \A v \in Workers : assigned'[v].id < next
  BY <1>1, <1>4
<1>6. TypedMaster' /\ TxnSane' /\ Quiet'
  BY <1>1, <1>3, <1>5 DEF IInv, TypedMaster, TxnSane, Quiet, ModelChanging
<1>7. Recoverable' /\ Dated'
  BY <1>1, <1>3, <1>5 DEF IInv, Recoverable, Live, Dated
<1>8. Carries /\ Passes
  BY <1>1, <1>3 DEF Carries, Passes, Owed
<1>9. Stands
  BY <1>1 DEF Stands, IInv, TxnSane, Over
<1>10. \A b \in ledger' \cup disk'.ledger : b.act = "finalize" => b.id \in shown'
  BY <1>1, <1>3 DEF IInv, OnlyShown
<1> QED
  BY <1>1, <1>6, <1>7, <1>8, <1>9, <1>10 DEF Proper, Ordered

\* A transaction under way that takes note of a worker.
LEMMA Noted ==
    ASSUME IInv, txn.phase \in InProgress, txn' \in Txns, txn'.phase \in InProgress,
           txn'.id = txn.id, txn'.workers = txn.workers, txn'.conn = txn.conn,
           txn'.published = txn.published, txn'.prepared \subseteq txn.workers,
           txn'.ready \subseteq txn.workers,
           \A w \in txn'.ready \ txn.ready : Attached(w) => wk[w].act = txn.id,
           Persist, UNCHANGED <<ledger, rec, next, shown, plan, assigned>>,
           todo' \subseteq Tasks, ModelChanging' => ModelChanging
    PROVE  Proper
<1>1. txn.id \in Ids /\ ~txn.published /\ txn # NoTxn /\ txn.id # None
  BY TxnFacts, IdsNat
<1>2. \A d \in ledger' : d.id < next /\ (d.act = "finalize" => d.id \in shown')
  BY DEF IInv, Dated, OnlyShown
<1>3. /\ TypedMaster' /\ Recoverable' /\ Dated' /\ shown \subseteq shown'
      /\ \A w \in Workers, i \in Ids : Owed(w, i)' => OwedOnDisk(w, i)'
      /\ \A d \in ledger' \cup disk'.ledger : d.act = "finalize" => d.id \in shown'
  <2>1. \A w \in Workers : assigned'[w].id < next
    BY DEF IInv, Dated
  <2> QED
    BY <1>1, <1>2, <2>1, TxnFacts, Recorded
<1>4. TxnSane'
  BY <1>1 DEF IInv, TxnSane, InProgress
<1>5. Quiet' /\ Carries
  BY DEF IInv, Quiet, Carries
<1>6. Passes
  BY <1>3 DEF Passes, Owed
<1>7. Stands
  BY <1>1 DEF Stands, InProgress, Over
<1> QED
  BY <1>3, <1>4, <1>5, <1>6, <1>7 DEF Proper, Ordered

LEMMA CleanupAckedStep ==
    ASSUME IInv, NEW w \in Workers, NEW a \in Acks, a.act \in Cleanups, CleanupAcked(w, a),
           UNCHANGED <<plan, next, rec, shown>>
    PROVE  /\ Ordered /\ Carries /\ Stands
           /\ (a.ok /\ a.id \notin shown => Given(w, a.id)) => Passes
<1> DEFINE gone == Debt(w, a.id, a.act)
<1>1. CASE a.ok /\ gone \in ledger
  <2>1. /\ ledger' = ledger \ {gone} /\ Persist /\ UNCHANGED <<txn, todo>>
        /\ assigned' \in {assigned, [assigned EXCEPT ![w] = NoAssignment]}
    BY <1>1 DEF CleanupAcked
  <2>2. /\ NoAssignment \in Assignments /\ NoAssignment.id < next
        /\ assigned \in [Workers -> Assignments] /\ \A v \in Workers : assigned[v].id < next
    BY PipelineLoadAssumption, TxnFacts
       DEF NoAssignment, Assignments, MaybeIds, None, IInv, TypedMaster, Dated
  <2>3. assigned' \in [Workers -> Assignments] /\ \A v \in Workers : assigned'[v].id < next
    BY <2>1, <2>2
  <2>4. gone.node = w /\ gone.id = a.id
    BY DEF Debt
  <2> HIDE DEF gone
  <2>5. /\ TypedMaster' /\ Recoverable' /\ Dated' /\ shown \subseteq shown'
        /\ \A v \in Workers, i \in Ids : Owed(v, i)' => OwedOnDisk(v, i)'
        /\ \A b \in ledger' \cup disk'.ledger : b.act = "finalize" => b.id \in shown'
    <3>1. /\ ledger' \subseteq Debts /\ (txn'.id = None => txn' = NoTxn) /\ txn' \in Txns
          /\ txn'.id < next /\ todo' \subseteq Tasks /\ shown' \subseteq Ids /\ plan' \in Plans
      BY <2>1, TxnFacts DEF IInv, TxnSane
    <3>2. \A b \in ledger' : b.id < next /\ (b.act = "finalize" => b.id \in shown')
      BY <2>1 DEF IInv, Dated, OnlyShown
    <3> QED
      BY <2>1, <2>3, <3>1, <3>2, Recorded
  <2>6. TxnSane' /\ Quiet' /\ Carries
    BY <2>1 DEF IInv, TxnSane, Quiet, ModelChanging, Carries
  <2>7. (a.ok /\ a.id \notin shown => Given(w, a.id)) => Passes
    BY <1>1, <2>1, <2>4, <2>5 DEF Passes, Owed
  <2>8. Stands
    BY <2>1 DEF Stands, IInv, TxnSane, Over
  <2> QED
    BY <2>5, <2>6, <2>7, <2>8 DEF Ordered
<1>2. CASE ~(a.ok /\ gone \in ledger)
  <2>1. UNCHANGED <<ledger, assigned, txn, disk, todo>>
    BY <1>2 DEF CleanupAcked
  <2>2. Quiet' /\ todo' \subseteq Tasks
    BY <2>1, TxnFacts DEF IInv, Quiet, ModelChanging
  <2> QED
    BY <2>1, <2>2, PlanSame, Aside DEF Proper
<1> QED
  BY <1>1, <1>2

LEMMA ConfigRefusedStep ==
    ASSUME IInv, NEW w \in Workers, NEW a \in Acks, ConfigRefused(w, a),
           UNCHANGED <<plan, next, rec, shown>>
    PROVE  Proper
<1>1. UNCHANGED <<ledger, assigned, disk>>
  BY DEF ConfigRefused
<1> DEFINE due == a.act = Expected /\ txn.phase \in {"preparing", "committing", "committing_global", "ready"}
           d == IF txn.phase = "ready" THEN "retire" ELSE "abort"
<1>2. CASE ~due
  <2>1. UNCHANGED <<txn, todo>>
    BY <1>2 DEF ConfigRefused
  <2>2. Quiet' /\ todo' \subseteq Tasks
    BY <2>1, TxnFacts DEF IInv, Quiet, ModelChanging
  <2> QED
    BY <1>1, <2>1, <2>2, PlanSame, Aside
<1>3. CASE due
  <2>1. txn' = [txn EXCEPT !.ready = txn.ready \ {w}] /\ todo' = todo \cup {Task(d, a.id)}
    BY <1>3 DEF ConfigRefused
  <2>2. d \in Steps /\ a.id \in Ids
    BY DEF Steps, Acks
  <2> HIDE DEF d
  <2>3. /\ txn' \in Txns /\ txn'.phase = txn.phase /\ txn'.id = txn.id
        /\ txn'.workers = txn.workers /\ txn'.conn = txn.conn /\ txn'.prepared = txn.prepared
        /\ txn'.ready = txn.ready \ {w} /\ txn'.published = txn.published
    BY <2>1, TxnFacts DEF Txns
  <2>4. todo' \subseteq Tasks /\ (ModelChanging' => ModelChanging)
    BY <2>1, <2>2, OneTask
  <2>5. txn # NoTxn /\ txn.id \in Ids /\ txn.id # None
    <3>1. txn # NoTxn
      BY <1>3 DEF NoTxn
    <3> QED
      BY <3>1, TxnFacts, IdsNat
  <2>6. TypedMaster'
    BY <1>1, <2>3, <2>4 DEF IInv, TypedMaster
  <2>7. TxnSane'
    BY <2>3, <2>5 DEF IInv, TxnSane
  <2>8. Recoverable' /\ Dated' /\ Quiet'
    BY <1>1, <2>3, <2>4 DEF IInv, Recoverable, Live, Dated, Quiet
  <2>9. Carries /\ Passes
    BY <1>1, <2>3 DEF Carries, Passes, Owed, OwedOnDisk
  <2>10. Stands
    BY <2>3 DEF Stands, IInv, TxnSane, Over
  <2>11. \A b \in ledger' \cup disk'.ledger : b.act = "finalize" => b.id \in shown'
    BY <1>1 DEF IInv, OnlyShown
  <2> QED
    BY <2>6, <2>7, <2>8, <2>9, <2>10, <2>11 DEF Proper, Ordered
<1> QED
  BY <1>2, <1>3

LEMMA ConfigAckedStep ==
    ASSUME IInv, NEW w \in Workers, NEW a \in Acks, ConfigAcked(w, a), w \in txn.workers,
           a.id = txn.id, a.act = "commit" /\ txn.phase \in InProgress /\ Attached(w)
                              => wk[w].act = txn.id,
           UNCHANGED <<plan, next, rec, shown>>
    PROVE  Proper
<1> DEFINE d == IF txn.phase = "preparing" THEN "commit" ELSE "complete"
           prepared == txn.prepared \cup {w}
           ready == txn.ready \cup {w}
           phase == IF ready = txn.workers THEN "committing_global" ELSE txn.phase
<1>0. d \in Steps /\ a.id \in Ids /\ txn \in Txns
  BY TxnFacts DEF Steps, Acks
<1>1. CASE a.act = "prepare" /\ txn.phase = "preparing"
  <2>1. /\ txn' = [txn EXCEPT !.prepared = prepared]
        /\ todo' = todo \cup {Task(d, a.id)} \/ todo' = todo
        /\ UNCHANGED <<ledger, assigned>> /\ Persist
    BY <1>1 DEF ConfigAcked
  <2>2. /\ txn' \in Txns /\ txn'.phase = txn.phase /\ txn'.id = txn.id
        /\ txn'.workers = txn.workers /\ txn'.conn = txn.conn /\ txn'.prepared = prepared
        /\ txn'.ready = txn.ready /\ txn'.published = txn.published
    BY <1>0, <2>1 DEF Txns
  <2>3. txn'.prepared \subseteq txn.workers /\ txn.ready \subseteq txn.workers
    BY <2>2 DEF IInv, TxnSane
  <2>4. txn.phase \in InProgress
    BY <1>1 DEF InProgress
  <2> HIDE DEF d, prepared
  <2>5. todo' \subseteq Tasks /\ (ModelChanging' => ModelChanging)
    BY <1>0, <2>1, OneTask
  <2> QED
    BY <2>1, <2>2, <2>3, <2>4, <2>5, Noted
<1>2. CASE a.act = "commit" /\ txn.phase = "committing"
  <2>1. /\ txn' = [txn EXCEPT !.ready = ready, !.phase = phase]
        /\ todo' = todo \cup {Task(d, a.id)} \/ todo' = todo
        /\ UNCHANGED <<ledger, assigned>> /\ Persist
    BY <1>2 DEF ConfigAcked
  <2>2. phase \in InProgress /\ phase \in Phases /\ txn.phase \in InProgress
    BY <1>2 DEF InProgress, Phases
  <2>3. ready \subseteq txn.workers /\ ready \subseteq Workers
    BY <1>0 DEF IInv, TxnSane, Txns
  <2>4. ready \ txn.ready \subseteq {w}
    OBVIOUS
  <2> HIDE DEF d, phase, ready
  <2>5. /\ txn' \in Txns /\ txn'.phase = phase /\ txn'.id = txn.id
        /\ txn'.workers = txn.workers /\ txn'.conn = txn.conn /\ txn'.prepared = txn.prepared
        /\ txn'.ready = ready /\ txn'.published = txn.published
    BY <1>0, <2>1, <2>2, <2>3 DEF Txns
  <2>6. txn'.prepared \subseteq txn.workers
    BY <2>5 DEF IInv, TxnSane
  <2>7. todo' \subseteq Tasks /\ (ModelChanging' => ModelChanging)
    BY <1>0, <2>1, OneTask
  <2>8. \A v \in txn'.ready \ txn.ready : Attached(v) => wk[v].act = txn.id
    BY <1>2, <2>2, <2>4, <2>5
  <2> QED
    BY <2>1, <2>2, <2>3, <2>5, <2>6, <2>7, <2>8, Noted
<1>3. CASE ~(a.act = "prepare" /\ txn.phase = "preparing") /\ ~(a.act = "commit" /\ txn.phase = "committing")
  <2>1. UNCHANGED <<txn, todo, ledger, assigned, disk>>
    BY <1>3 DEF ConfigAcked
  <2>2. Quiet' /\ todo' \subseteq Tasks
    BY <2>1, TxnFacts DEF IInv, Quiet, ModelChanging
  <2> QED
    BY <2>1, <2>2, PlanSame, Aside
<1> QED
  BY <1>1, <1>2, <1>3

LEMMA HandleAckStep ==
    ASSUME IInv, NEW w \in Workers, HandleAck(w)
    PROVE  Ordered /\ Carries /\ Stands /\ (OwedInv => Passes)
<1> DEFINE a == Head(acks[w])
<1>1. /\ acks[w] \in Seq(Acks) /\ acks[w] # <<>> /\ UNCHANGED <<plan, next, rec, shown>>
  BY DEF HandleAck, IInv, TypedNet
<1>2. a \in Acks /\ 1 \in DOMAIN acks[w] /\ a = acks[w][1]
  BY <1>1
<1>3. IF a.act \in Cleanups THEN CleanupAcked(w, a)
      ELSE IF ~Current(w, a) THEN UNCHANGED <<txn, todo, ledger, assigned, disk>>
      ELSE IF a.ok THEN ConfigAcked(w, a) ELSE ConfigRefused(w, a)
  BY DEF HandleAck
<1> HIDE DEF a
<1>4. CASE a.act \in Cleanups
  <2>1. OwedInv => (a.ok /\ a.id \notin shown => Given(w, a.id))
    BY <1>2, <1>4 DEF OwedInv, AckedGone
  <2> QED
    BY <1>1, <1>2, <1>3, <1>4, <2>1, CleanupAckedStep
<1>5. CASE a.act \notin Cleanups /\ ~Current(w, a)
  <2>1. UNCHANGED <<txn, todo, ledger, assigned, disk>>
    BY <1>3, <1>5
  <2>2. Quiet' /\ todo' \subseteq Tasks
    BY <2>1, TxnFacts DEF IInv, Quiet, ModelChanging
  <2> QED
    BY <1>1, <2>1, <2>2, PlanSame, Aside DEF Proper
<1>6. CASE a.act \notin Cleanups /\ Current(w, a) /\ a.ok
  <2>1. w \in txn.workers /\ a.id = txn.id
    BY <1>6 DEF Current
  <2>2. a.act = "commit" /\ txn.phase \in InProgress /\ Attached(w) => wk[w].act = txn.id
    BY <1>2, <1>6, <2>1 DEF IInv, Serving
  <2> QED
    BY <1>1, <1>2, <1>3, <1>6, <2>1, <2>2, ConfigAckedStep DEF Proper
<1>7. CASE a.act \notin Cleanups /\ Current(w, a) /\ ~a.ok
  BY <1>1, <1>2, <1>3, <1>7, ConfigRefusedStep DEF Proper
<1> QED
  BY <1>4, <1>5, <1>6, <1>7

(***************************************************************************)
(* From a step of the master to the invariants.                            *)
(***************************************************************************)
LEMMA HeldIds ==
    ASSUME NEW k \in WorkerStates, Sane(k)
    PROVE  Held(k) \subseteq Ids
BY DEF Held, Some, Sane, WorkerStates, MaybeIds

\* The acknowledgements after a step are some of those before it.
FewerAcks ==
    \A w \in Workers : \A n \in DOMAIN acks'[w] : \E k \in DOMAIN acks[w] : acks'[w][n] = acks[w][k]

\* What a step of the master leaves alone.
Still == /\ UNCHANGED <<conn, wire, wk>> /\ TypedNet' /\ FewerAcks
         /\ \A w \in Workers : lost'[w] = "cut" <=> lost[w] = "cut"

LEMMA StillKeeps ==
    ASSUME IInv, Ordered, Carries, Still, next' = next
    PROVE  IInv'
<1>1. DatedNet'
  BY DEF IInv, DatedNet, Still, FewerAcks
<1>2. Wired'
  BY DEF IInv, Wired, Still, Linked, TypedNet, Commands
<1>3. OnlyShown'
  BY DEF IInv, OnlyShown, Still, Ordered
<1>4. WorkersSane'
  BY DEF IInv, WorkersSane, Still
<1>5. CASE txn'.phase \notin InProgress
  BY <1>1, <1>2, <1>3, <1>4, <1>5 DEF IInv, Ordered, Still, Serving, Unharmed
<1>6. CASE txn'.phase \in InProgress
  <2>1. /\ txn.phase \in InProgress /\ txn'.id = txn.id /\ txn'.workers = txn.workers
        /\ txn'.conn = txn.conn /\ ledger' \subseteq ledger
        /\ \A w \in txn'.ready \ txn.ready : Attached(w) => wk[w].act = txn.id
        /\ txn.workers \subseteq Workers
    BY <1>6, TxnFacts DEF Carries, Txns
  <2>2. \A w \in Workers : Attached(w)' => Attached(w)
    BY <2>1 DEF Attached, Still
  <2>3. Serving'
    <3>1. ASSUME NEW w \in txn.workers, Attached(w)', w \in txn'.ready
          PROVE  wk'[w].act = txn'.id
      BY <2>1, <2>2, <3>1 DEF IInv, Serving, Still
    <3>2. ASSUME NEW w \in txn.workers, NEW n \in DOMAIN acks'[w], Attached(w)',
                 acks'[w][n].act = "commit", acks'[w][n].ok, acks'[w][n].id = txn'.id
          PROVE  wk'[w].act = txn'.id
      <4>1. PICK k \in DOMAIN acks[w] : acks'[w][n] = acks[w][k]
        BY <2>1 DEF Still, FewerAcks
      <4> QED
        BY <2>1, <2>2, <3>2, <4>1 DEF IInv, Serving, Still
    <3> QED
      BY <2>1, <3>1, <3>2 DEF Serving
  <2>4. Unharmed'
    BY <2>1 DEF IInv, Unharmed, Still
  <2> QED
    BY <1>1, <1>2, <1>3, <1>4, <2>3, <2>4 DEF IInv, Ordered, Still
<1> QED
  BY <1>5, <1>6

LEMMA StillOwed ==
    ASSUME IInv, OwedInv, Ordered, Passes, Still,
           txn'.phase \in InProgress
             => \/ txn.phase \in InProgress /\ txn'.id = txn.id /\ txn'.workers = txn.workers
                \/ TxnOwed'
    PROVE  OwedInv'
<1>1. \A w \in Workers : Held(wk[w]) \subseteq Ids
  BY HeldIds DEF IInv, TypedNet, WorkersSane
<1>2. shown \subseteq shown' /\ wk' = wk /\ wire' = wire /\ txn \in Txns /\ txn' \in Txns
  BY TxnFacts DEF Ordered, Still, TypedMaster
<1>3. ASSUME NEW w \in Workers, NEW i \in Ids \ shown', Secured(w, i)
      PROVE  Secured(w, i)' \/ Given(w, i)
  BY <1>3 DEF Secured, Passes
<1>4. LoadedOwed'
  BY <1>1, <1>2, <1>3 DEF OwedInv, LoadedOwed, Given
<1>5. SentOwed'
  <2>1. ASSUME NEW m \in wire', m.act = "prepare", m.id \notin shown'
        PROVE  Secured(m.node, m.id)' \/ Given(m.node, m.id)'
    <3>1. m.node \in Workers /\ m.id \in Ids \ shown'
      BY <1>2, <2>1 DEF IInv, TypedNet, Commands
    <3>2. Secured(m.node, m.id) \/ Given(m.node, m.id)
      BY <1>2, <2>1 DEF OwedInv, SentOwed
    <3>3. Given(m.node, m.id) => Given(m.node, m.id)'
      BY <1>2 DEF Given
    <3> QED
      BY <1>3, <3>1, <3>2, <3>3
  <2> QED
    BY <2>1 DEF SentOwed
<1>6. AckedGone'
  <2>1. ASSUME NEW w \in Workers, NEW n \in DOMAIN acks'[w], NEW i, i = acks'[w][n].id,
               acks'[w][n].ok, acks'[w][n].act \in Cleanups, i \notin shown'
        PROVE  i \in wk'[w].retired \ Held(wk'[w])
    <3>1. PICK k \in DOMAIN acks[w] : acks'[w][n] = acks[w][k]
      BY DEF Still, FewerAcks
    <3>2. Given(w, i)
      BY <1>2, <2>1, <3>1 DEF OwedInv, AckedGone
    <3> QED
      BY <1>2, <3>2 DEF Given
  <2> QED
    BY <2>1 DEF AckedGone, Given
<1>7. TxnOwed'
  <2>1. ASSUME txn'.phase \in InProgress, txn'.id \notin shown', txn.phase \in InProgress,
               txn'.id = txn.id, txn'.workers = txn.workers, NEW w \in txn.workers
        PROVE  OwedOnDisk(w, txn.id)'
    <3>1. OwedOnDisk(w, txn.id) /\ w \in Workers /\ txn.id \in Ids \ shown'
      BY <1>2, <2>1, TxnFacts DEF OwedInv, TxnOwed, Txns
    <3>2. PICK i \in Ids \ shown' : i = txn.id
      BY <3>1
    <3>3. OwedOnDisk(w, i) /\ i = txn'.id
      BY <2>1, <3>1, <3>2
    <3>4. Owed(w, i)'
      BY <2>1, <3>3 DEF Owed
    <3>5. OwedOnDisk(w, i)'
      BY <3>1, <3>3, <3>4 DEF Passes
    <3> QED
      BY <3>3, <3>5 DEF OwedOnDisk
  <2> QED
    BY <2>1 DEF TxnOwed, OwedOnDisk
<1> QED
  BY <1>4, <1>5, <1>6, <1>7 DEF OwedInv

(***************************************************************************)
(* From a step of the network or of a worker to the invariants.            *)
(***************************************************************************)
\* A step that adds no command and no acknowledgement, and changes no worker that serves the
\* transaction over a connection that holds.
Fewer ==
    /\ UNCHANGED <<master, shown>> /\ wire' \subseteq wire /\ FewerAcks
    /\ \A w \in Workers : Held(wk'[w]) \subseteq Held(wk[w]) /\ wk[w].retired \subseteq wk'[w].retired

LEMMA FewerKeeps ==
    ASSUME IInv, Fewer, TypedNet', WorkersSane', Wired',
           \A w \in Workers : conn[w].gen <= conn'[w].gen,
           \A w \in Workers : txn.phase \in InProgress /\ w \in txn.workers /\ Attached(w)'
                                 => Attached(w) /\ wk'[w].act = wk[w].act
    PROVE  IInv'
<1>1. UNCHANGED <<txn, next, plan, assigned, ledger, todo, disk, rec, shown>>
  BY DEF Fewer, master
<1>2. TypedMaster' /\ TxnSane' /\ Recoverable' /\ Dated' /\ Quiet'
  BY <1>1 DEF IInv, TypedMaster, TxnSane, Recoverable, Live, Dated, Quiet, ModelChanging
<1>3. DatedNet' /\ OnlyShown'
  BY <1>1 DEF IInv, DatedNet, OnlyShown, Fewer, FewerAcks
<1>4. txn \in Txns /\ txn.workers \subseteq Workers
  BY TxnFacts DEF Txns
<1>5. Serving'
  <2>1. ASSUME txn.phase \in InProgress, NEW w \in txn.workers, Attached(w)', w \in txn.ready
        PROVE  wk'[w].act = txn.id
    BY <1>4, <2>1 DEF IInv, Serving
  <2>2. ASSUME txn.phase \in InProgress, NEW w \in txn.workers, NEW n \in DOMAIN acks'[w],
               Attached(w)', acks'[w][n].act = "commit", acks'[w][n].ok, acks'[w][n].id = txn.id
        PROVE  wk'[w].act = txn.id
    <3>1. PICK k \in DOMAIN acks[w] : acks'[w][n] = acks[w][k]
      BY <1>4 DEF Fewer, FewerAcks
    <3> QED
      BY <1>4, <2>2, <3>1 DEF IInv, Serving
  <2> QED
    BY <1>1, <2>1, <2>2 DEF Serving
<1>6. Unharmed'
  <2>1. ASSUME txn.phase \in InProgress, NEW w \in txn.workers
        PROVE  txn.conn[w] <= conn'[w].gen
    <3>1. txn.conn[w] <= conn[w].gen /\ conn[w].gen <= conn'[w].gen /\ w \in Workers
      BY <1>4, <2>1 DEF IInv, Unharmed
    <3>2. txn.conn[w] \in Nat /\ conn[w].gen \in Nat /\ conn'[w].gen \in Nat
      BY <1>4, <3>1 DEF Txns, IInv, TypedNet, Conns
    <3> QED
      BY <3>1, <3>2
  <2> QED
    BY <1>1, <2>1 DEF IInv, Unharmed, Fewer
<1> QED
  BY <1>2, <1>3, <1>5, <1>6 DEF IInv

LEMMA FewerOwed ==
    ASSUME OwedInv, IInv, Fewer
    PROVE  OwedInv'
<1>1. UNCHANGED <<txn, ledger, disk, shown>>
  BY DEF Fewer, master
<1>2. \A w \in Workers, i \in Ids : (Secured(w, i)' <=> Secured(w, i)) /\ (Given(w, i) => Given(w, i)')
  BY <1>1 DEF Secured, Owed, OwedOnDisk, Given, Fewer
<1>3. \A w \in Workers : Held(wk[w]) \subseteq Ids
  BY HeldIds DEF IInv, TypedNet, WorkersSane
<1>4. \A m \in wire : m.node \in Workers /\ m.id \in Ids
  BY DEF IInv, TypedNet, Commands
<1>5. \A w \in Workers : \A n \in DOMAIN acks[w] : acks[w][n].id \in Ids
  <2>1. \A w \in Workers : acks[w] \in Seq(Acks)
    BY DEF IInv, TypedNet
  <2>2. \A w \in Workers : \A n \in DOMAIN acks[w] : acks[w][n] \in Acks
    BY <2>1
  <2> QED
    BY <2>2 DEF Acks
<1>6. LoadedOwed'
  BY <1>1, <1>2, <1>3 DEF OwedInv, LoadedOwed, Fewer
<1>7. SentOwed'
  <2>1. ASSUME NEW m \in wire', m.act = "prepare", m.id \notin shown'
        PROVE  Secured(m.node, m.id)' \/ Given(m.node, m.id)'
    <3>1. m.node \in Workers /\ m.id \in Ids
      BY <1>4, <2>1 DEF Fewer
    <3>2. Secured(m.node, m.id) \/ Given(m.node, m.id)
      BY <1>1, <2>1 DEF OwedInv, SentOwed, Fewer
    <3> QED
      BY <1>2, <3>1, <3>2
  <2> QED
    BY <2>1 DEF SentOwed
<1>8. AckedGone'
  <2>1. ASSUME NEW w \in Workers, NEW n \in DOMAIN acks'[w], NEW i, i = acks'[w][n].id,
               acks'[w][n].ok, acks'[w][n].act \in Cleanups, i \notin shown'
        PROVE  i \in wk'[w].retired \ Held(wk'[w])
    <3>1. PICK k \in DOMAIN acks[w] : acks'[w][n] = acks[w][k]
      BY DEF Fewer, FewerAcks
    <3>2. Given(w, i)
      BY <1>1, <2>1, <3>1 DEF OwedInv, AckedGone
    <3> QED
      BY <3>2 DEF Given, Fewer
  <2> QED
    BY <2>1 DEF AckedGone, Given
<1>9. TxnOwed'
  BY <1>1 DEF OwedInv, TxnOwed, OwedOnDisk
<1> QED
  BY <1>6, <1>7, <1>8, <1>9 DEF OwedInv

LEMMA BeginStep ==
    ASSUME IInv, NEW W \in SUBSET Workers, Begin(W)
    PROVE  IInv' /\ Stands /\ (OwedInv => OwedInv')
<1> DEFINE conns == [w \in Workers |-> conn[w].gen]
           first == [NoTxn EXCEPT !.id = next, !.phase = "preparing", !.workers = W, !.conn = conns]
<1>1. /\ next \in Ids /\ ~ModelChanging /\ txn.phase \notin InProgress
      /\ txn' = first /\ next' = next + 1 /\ Persist
      /\ UNCHANGED <<plan, assigned, ledger, todo, rec, conn, lost, wire, acks, wk, shown>>
  BY DEF Begin, Network
<1>2. /\ txn \in Txns /\ txn.id < next /\ ledger \in SUBSET Debts /\ disk \in Records
      /\ rec \in Records /\ plan \in Plans /\ shown \in SUBSET Ids /\ next \in Nat
      /\ assigned \in [Workers -> Assignments] /\ todo \in SUBSET Tasks
  BY TxnFacts
<1>3. conns \in [Workers -> Nat]
  BY DEF IInv, TypedNet, Conns
<1>4. next # None /\ next \in MaybeIds
  BY <1>1, IdsNat DEF MaybeIds
<1> HIDE DEF conns
<1>5. /\ first \in Txns /\ first.id = next /\ first.phase = "preparing" /\ first.workers = W
      /\ first.conn = conns /\ first.prepared = {} /\ first.ready = {} /\ first.published = FALSE
  BY <1>3, <1>4 DEF NoTxn, Txns, Phases, InProgress
<1> HIDE DEF first
<1>6. \A x \in MaybeIds : x \in Nat /\ (x < next => x < next' /\ x # next)
  BY <1>1, <1>2, IdsNat
<1>7. /\ \A w \in Workers : assigned[w].id \in MaybeIds /\ assigned[w].id < next
      /\ \A d \in ledger \cup disk.ledger : d.id \in MaybeIds /\ d.id < next
      /\ rec.id \in MaybeIds /\ rec.id < next
  <2>1. \A d \in Debts : d.id \in MaybeIds
    BY DEF Debts, MaybeIds
  <2>2. disk.ledger \subseteq Debts /\ rec.id \in MaybeIds
    BY <1>2 DEF Records
  <2> QED
    BY <1>2, <2>1, <2>2 DEF IInv, Dated, Assignments
<1>8. /\ disk' \in Records /\ (Live(disk') => disk'.id # None) /\ disk'.id < next'
      /\ \A d \in disk'.ledger : d.id < next' /\ (d.act = "finalize" => d.id \in shown')
      /\ \A w \in Workers, i \in Ids : Owed(w, i)' => OwedOnDisk(w, i)'
  <2>1. next' \in Nat /\ next <= next' /\ next < next'
    BY <1>1, <1>2
  <2>2. \A d \in ledger' : d.id < next' /\ (d.act = "finalize" => d.id \in shown')
    BY <1>1, <1>6, <1>7 DEF IInv, OnlyShown
  <2>3. ledger' \subseteq Debts /\ txn' \in Txns /\ (txn'.id = None => txn' = NoTxn)
        /\ txn'.id < next' /\ shown \subseteq shown'
    BY <1>1, <1>2, <1>4, <1>5, <2>1
  <2> QED
    BY <1>1, <2>1, <2>2, <2>3, Persisted
<1>9. TypedMaster'
  <2>1. next' \in 1..(MaxTxn + 1)
    BY <1>1, PipelineLoadAssumption DEF Ids
  <2> QED
    BY <1>1, <1>2, <1>5, <1>8, <2>1 DEF TypedMaster
<1>10. TxnSane'
  BY <1>1, <1>4, <1>5 DEF TxnSane, NoTxn, InProgress
<1>11. Recoverable' /\ Dated'
  <2>1. Recoverable'
    BY <1>1, <1>8 DEF IInv, Recoverable, Live
  <2>2. txn'.id < next'
    BY <1>1, <1>2, <1>5
  <2> QED
    BY <1>1, <1>6, <1>7, <1>8, <2>1, <2>2 DEF Dated
<1>12. Quiet' /\ OnlyShown' /\ Wired' /\ WorkersSane' /\ TypedNet'
  BY <1>1, <1>8 DEF IInv, Quiet, ModelChanging, OnlyShown, Wired, Linked, WorkersSane, TypedNet
<1>13. /\ \A m \in wire : m.id \in MaybeIds /\ m.id < next
       /\ \A w \in Workers : \A n \in DOMAIN acks[w] : acks[w][n].id \in MaybeIds /\ acks[w][n].id < next
  <2>1. \A w \in Workers : acks[w] \in Seq(Acks)
    BY DEF IInv, TypedNet
  <2>2. \A w \in Workers : \A n \in DOMAIN acks[w] : acks[w][n] \in Acks
    BY <2>1
  <2> QED
    BY <2>2 DEF IInv, TypedNet, DatedNet, Commands, Acks, MaybeIds
<1>14. DatedNet'
  BY <1>1, <1>6, <1>13 DEF DatedNet
<1>15. Serving'
  BY <1>1, <1>5, <1>6, <1>13 DEF Serving
<1>16. Unharmed'
  <2>1. \A w \in Workers : conn[w].gen \in Nat /\ conns[w] = conn[w].gen
    BY DEF conns, IInv, TypedNet, Conns
  <2> QED
    BY <1>1, <1>5, <1>6, <1>7, <1>13, <2>1 DEF Unharmed
<1>17. IInv'
  BY <1>9, <1>10, <1>11, <1>12, <1>14, <1>15, <1>16 DEF IInv
<1>18. Stands
  BY <1>1, <1>2, <1>5, <1>6 DEF Stands, Txns
<1>19. ASSUME OwedInv
       PROVE  OwedInv'
  <2>1. Passes
    BY <1>1, <1>8 DEF Passes, Owed
  <2>2. Ordered
    BY <1>1, <1>9, <1>10, <1>11, <1>12 DEF Ordered, OnlyShown
  <2>3. Still
    BY <1>1, <1>12 DEF Still, FewerAcks
  <2>4. TxnOwed'
    BY <1>1, <1>4, <1>5, <1>8 DEF TxnOwed, Owed, OwedOnDisk
  <2> QED
    BY <1>19, <2>1, <2>2, <2>3, <2>4, StillOwed
<1> QED
  BY <1>17, <1>18, <1>19

\* A restart owes what the record says: its debts, and one for each worker of a transaction
\* that may be loaded.
LEMMA CrashStep ==
    ASSUME IInv, Crash
    PROVE  IInv' /\ Stands /\ (OwedInv => OwedInv')
<1> DEFINE act == IF disk.phase = "ready" \/ disk.published THEN "release" ELSE "abort"
           kept == {d \in disk.ledger : d.node # Master}
           live == disk.phase \in InProgress \cup {"ready"} \/ disk.published
           due == IF live THEN {Debt(w, disk.id, act) : w \in disk.workers} ELSE {}
           left == IF Recovered = {} THEN disk.ledger ELSE Recovered
<1>1. /\ txn' = NoTxn /\ plan' = NoPlan /\ assigned' = [w \in Workers |-> NoAssignment]
      /\ ledger' = Recovered /\ todo' = {} /\ disk' = [disk EXCEPT !.ledger = left] /\ rec' = disk
      /\ conn' = [w \in Workers |-> [up |-> FALSE, gen |-> conn[w].gen]]
      /\ lost' = [w \in Workers |-> "no"]
      /\ wire' = {} /\ acks' = [w \in Workers |-> <<>>]
      /\ wk' = [w \in Workers |-> GivenUp(wk[w])]
      /\ UNCHANGED <<next, shown>>
  BY DEF Crash
<1>2. Recovered = kept \cup due
  BY DEF Recovered
<1>3. /\ txn \in Txns /\ disk \in Records /\ disk.ledger \subseteq Debts /\ disk.workers \subseteq Workers
      /\ disk.id \in MaybeIds /\ shown \in SUBSET Ids /\ (live => disk.id \in Ids)
      /\ disk.id < next /\ next \in Nat
  <2>1. live <=> Live(disk)
    BY DEF Live
  <2>2. disk \in Records
    BY TxnFacts
  <2> QED
    BY <2>1, <2>2, TxnFacts DEF IInv, Recoverable, Dated, Records, MaybeIds
<1>4. \A n, i, a : Debt(n, i, a).node = n /\ Debt(n, i, a).id = i /\ Debt(n, i, a).act = a
  BY DEF Debt
<1>5. act \in {"release", "abort"}
  OBVIOUS
<1> HIDE DEF act, live
<1>6. /\ due \subseteq Debts /\ \A d \in due : d.id = disk.id /\ d.act # "finalize"
      /\ live => \A w \in disk.workers : Debt(w, disk.id, act) \in due
  <2>1. ASSUME live, NEW w \in disk.workers
        PROVE  Debt(w, disk.id, act) \in Debts
    BY <1>3, <1>5, <2>1 DEF Debt, Debts, Cleanups
  <2> QED
    BY <1>4, <1>5, <2>1
<1>7. /\ Recovered \subseteq Debts /\ left \subseteq Debts
      /\ \A d \in Recovered \cup left : d.id < next /\ (d.act = "finalize" => d.id \in shown)
  <2>1. \A d \in disk.ledger : d.id < next /\ (d.act = "finalize" => d.id \in shown)
    BY DEF IInv, Dated, OnlyShown
  <2> QED
    BY <1>2, <1>3, <1>6, <2>1
<1>8. \A d \in Recovered : d \in left
  OBVIOUS
<1> HIDE DEF left
<1>9. /\ disk' \in Records /\ disk'.id = disk.id /\ disk'.phase = disk.phase
      /\ disk'.published = disk.published /\ disk'.workers = disk.workers /\ disk'.ledger = left
  BY <1>1, <1>3, <1>7 DEF Records
<1>10. /\ NoTxn \in Txns /\ NoTxn.id = None /\ NoTxn.phase = "none" /\ NoTxn.published = FALSE
       /\ NoTxn.workers = {} /\ NoTxn.prepared = {} /\ NoTxn.ready = {}
  BY IdsNat DEF NoTxn, Txns, MaybeIds, Phases
<1>11. /\ plan' \in Plans /\ assigned' \in [Workers -> Assignments]
       /\ \A w \in Workers : assigned'[w].id < next
  BY <1>1, NothingAssigned
<1>12. TypedMaster'
  BY <1>1, <1>3, <1>7, <1>9, <1>10, <1>11 DEF IInv, TypedMaster
<1>13. TxnSane' /\ Quiet'
  BY <1>1, <1>10 DEF TxnSane, Quiet, InProgress
<1>14. Recoverable' /\ Dated'
  <2>1. None < next
    BY <1>3, PipelineLoadAssumption DEF IInv, TypedMaster, None
  <2>2. Recoverable'
    BY <1>1, <1>9 DEF IInv, Recoverable, Live
  <2> QED
    BY <1>1, <1>3, <1>7, <1>9, <1>10, <1>11, <2>1, <2>2 DEF Dated
<1>15. \A w \in Workers : wk[w] \in WorkerStates /\ Sane(wk[w]) /\ conn[w].gen \in Nat
  BY DEF IInv, TypedNet, WorkersSane, Conns
<1>16. \A w \in Workers : /\ wk'[w] \in WorkerStates /\ Sane(wk'[w])
                          /\ Held(wk'[w]) = Held(wk[w])
  BY <1>1, <1>15, LossKeeps
<1>17. TypedNet'
  <2>1. conn' \in [Workers -> Conns]
    BY <1>1, <1>15 DEF Conns
  <2>2. wk' \in [Workers -> WorkerStates]
    BY <1>1, <1>16
  <2>3. acks' \in [Workers -> Seq(Acks)]
    BY <1>1
  <2> QED
    BY <1>1, <2>1, <2>2, <2>3 DEF TypedNet
<1>18. \A w \in Workers : acks'[w] = << >> /\ DOMAIN << >> = {}
  BY <1>1
<1>19. DatedNet' /\ Wired' /\ WorkersSane' /\ Serving' /\ Unharmed'
  <2>1. txn'.phase \notin InProgress
    BY <1>1, <1>10 DEF InProgress
  <2>2. DatedNet' /\ Wired' /\ WorkersSane'
    BY <1>1, <1>16, <1>18 DEF DatedNet, Wired, WorkersSane
  <2> QED
    BY <2>1, <2>2 DEF Serving, Unharmed
<1>20. OnlyShown'
  BY <1>1, <1>7, <1>9 DEF OnlyShown
<1>21. IInv'
  BY <1>12, <1>13, <1>14, <1>17, <1>19, <1>20 DEF IInv
<1>22. Stands
  BY <1>1, <1>10 DEF IInv, TxnSane, Stands, Over
<1>23. ASSUME OwedInv
       PROVE  OwedInv'
  <2>1. ASSUME NEW w \in Workers, NEW i \in Held(wk[w]) \ shown
        PROVE  \E d \in Recovered : d.node = w /\ d.id = i
    <3>1. OwedOnDisk(w, i) /\ w # Master
      BY <1>23, <2>1, PipelineLoadAssumption DEF OwedInv, LoadedOwed, Secured
    <3>2. CASE disk.id = i /\ disk.phase \in InProgress /\ w \in disk.workers
      <4>1. Debt(w, disk.id, act) \in due
        BY <3>2, <1>6 DEF live
      <4> QED
        BY <3>2, <4>1, <1>2, <1>4
    <3>3. CASE \E d \in disk.ledger : d.node = w /\ d.id = i
      BY <3>1, <3>3, <1>2
    <3> QED
      BY <3>1, <3>2, <3>3 DEF OwedOnDisk
  <2>2. LoadedOwed'
    BY <2>1, <1>1, <1>8, <1>9, <1>16 DEF LoadedOwed, Secured, Owed, OwedOnDisk
  <2>3. SentOwed' /\ TxnOwed'
    BY <1>1, <1>10 DEF SentOwed, TxnOwed, InProgress
  <2>4. AckedGone'
    BY <1>18 DEF AckedGone
  <2> QED
    BY <2>2, <2>3, <2>4 DEF OwedInv
<1> QED
  BY <1>21, <1>22, <1>23

LEMMA WorkerFacts ==
    ASSUME IInv, NEW w \in Workers
    PROVE  /\ wk[w] \in WorkerStates /\ Sane(wk[w]) /\ acks[w] \in Seq(Acks)
           /\ conn[w] \in Conns /\ conn[w].gen \in Nat /\ conn[w].up \in BOOLEAN
           /\ wk \in [Workers -> WorkerStates] /\ acks \in [Workers -> Seq(Acks)]
           /\ conn \in [Workers -> Conns]
           /\ lost \in [Workers -> {"no", "cut", "lost", "saving"}]
BY DEF IInv, TypedNet, WorkersSane, Conns

\* A command goes out.
LEMMA SendKeeps ==
    ASSUME IInv, NEW m \in Commands, Send(m), m.id < next,
           m.act \in Cleanups => (txn.phase \in InProgress => m.id # txn.id),
           m.act = "finalize" => m.id \in shown
    PROVE  /\ IInv'
           /\ OwedInv /\ (m.act = "prepare" /\ m.id \notin shown => Secured(m.node, m.id)) => OwedInv'
<1>1. /\ UNCHANGED <<txn, next, plan, assigned, ledger, todo, disk, rec, shown, conn, lost, acks, wk>>
      /\ wire' = wire \cup {m} /\ Linked(m.node)
  BY DEF Send, master
<1>2. TypedMaster' /\ TxnSane' /\ Recoverable' /\ Dated' /\ Quiet' /\ WorkersSane' /\ Serving'
  BY <1>1 DEF IInv, TypedMaster, TxnSane, Recoverable, Live, Dated, Quiet, ModelChanging,
              WorkersSane, Serving, Attached
<1>3. TypedNet' /\ DatedNet' /\ Wired' /\ OnlyShown' /\ Unharmed'
  BY <1>1 DEF IInv, TypedNet, DatedNet, Wired, Linked, OnlyShown, Unharmed
<1>4. ASSUME OwedInv, m.act = "prepare" /\ m.id \notin shown => Secured(m.node, m.id)
      PROVE  OwedInv'
  <2>1. \A w, i : (Secured(w, i)' <=> Secured(w, i)) /\ (Given(w, i)' <=> Given(w, i))
    BY <1>1 DEF Secured, Owed, OwedOnDisk, Given
  <2>2. LoadedOwed'
    BY <1>1, <1>4, <2>1 DEF OwedInv, LoadedOwed
  <2>3. SentOwed'
    BY <1>1, <1>4, <2>1 DEF OwedInv, SentOwed
  <2>4. TxnOwed' /\ AckedGone'
    BY <1>1, <1>4 DEF OwedInv, TxnOwed, OwedOnDisk, AckedGone, Given
  <2> QED
    BY <2>2, <2>3, <2>4 DEF OwedInv
<1> QED
  BY <1>2, <1>3, <1>4 DEF IInv

LEMMA SendConfigStep ==
    ASSUME IInv, NEW w \in Workers, SendConfig(w)
    PROVE  IInv' /\ (OwedInv => OwedInv')
<1>1. PICK m : m = Debt(w, txn.id, Expected)
  OBVIOUS
<1>2. Send(m) /\ txn.phase \in InProgress /\ w \in txn.workers
  BY <1>1 DEF SendConfig, InProgress
<1>3. m.node = w /\ m.id = txn.id /\ m.act \in {"prepare", "commit"}
  BY <1>1 DEF Debt, Expected
<1>4. m \in Commands /\ m.id < next
  BY <1>1, <1>2, TxnFacts DEF Debt, Commands, Acts, Expected
<1>5. m.act \notin Cleanups
  BY <1>3 DEF Cleanups
<1>6. ASSUME OwedInv, m.id \notin shown
      PROVE  Secured(m.node, m.id)
  BY <1>2, <1>3, <1>6 DEF OwedInv, TxnOwed, Secured, Owed
<1> QED
  BY <1>2, <1>4, <1>5, <1>6, SendKeeps DEF Cleanups

LEMMA DispatchStep ==
    ASSUME IInv, NEW d \in ledger, Dispatch(d)
    PROVE  IInv' /\ (OwedInv => OwedInv')
<1>1. d \in Debts /\ d.node # Master /\ Send(d)
  BY TxnFacts DEF Dispatch
<1>2. d \in Commands /\ d.act \in Cleanups /\ d.act # "prepare"
  BY <1>1 DEF Debts, Commands, Acts, Cleanups
<1>3. d.id < next /\ (d.act = "finalize" => d.id \in shown)
      /\ (txn.phase \in InProgress => d.id # txn.id)
  BY DEF IInv, Dated, OnlyShown, Unharmed
<1> QED
  BY <1>1, <1>2, <1>3, SendKeeps

\* A worker applies a command.
LEMMA WorkerAppliesStep ==
    ASSUME IInv, NEW m \in wire, WorkerApplies(m)
    PROVE  IInv' /\ (OwedInv => OwedInv')
<1>1. m \in Commands /\ m.node \in Workers /\ m.id \in Ids /\ m.act \in Acts /\ m.id < next
  BY DEF IInv, TypedNet, DatedNet, Commands
<1>2. PICK v \in Workers : v = m.node
  BY <1>1
<1>3. PICK r \in Answers(wk[v], m) :
         /\ wk' = [wk EXCEPT ![v] = r.k]
         /\ acks' = [acks EXCEPT ![v] = Append(acks[v], [act |-> m.act, id |-> m.id, ok |-> r.ok])]
  BY <1>2 DEF WorkerApplies
<1>4. /\ wire' = wire \ {m}
      /\ UNCHANGED <<txn, next, plan, assigned, ledger, todo, disk, rec, shown, conn, lost>>
  BY DEF WorkerApplies, master
<1>5. /\ wk[v] \in WorkerStates /\ Sane(wk[v]) /\ acks[v] \in Seq(Acks)
      /\ wk \in [Workers -> WorkerStates] /\ acks \in [Workers -> Seq(Acks)]
  BY WorkerFacts
<1>6. /\ Respects(r, wk[v], m.id)
      /\ Held(r.k) \subseteq Held(wk[v]) \cup (IF m.act = "prepare" THEN {m.id} \ wk[v].retired ELSE {})
      /\ r.ok /\ m.act \in {"abort", "release"} => m.id \in r.k.retired \ Held(r.k)
      /\ r.ok /\ m.act = "commit" => r.k.act = m.id
      /\ wk[v].act = m.id /\ m.act \notin Cleanups => r.k.act = m.id
  BY <1>1, <1>3, <1>5, AnswerKeeps
<1>7. PICK a : a = [act |-> m.act, id |-> m.id, ok |-> r.ok]
  OBVIOUS
<1>8. a \in Acks /\ a.act = m.act /\ a.id = m.id /\ a.ok = r.ok
  BY <1>1, <1>6, <1>7 DEF Acks, Respects
<1>9. /\ acks' \in [Workers -> Seq(Acks)]
      /\ \A w \in Workers : \A n \in DOMAIN acks'[w] :
            (n \in DOMAIN acks[w] /\ acks'[w][n] = acks[w][n]) \/ (w = v /\ acks'[w][n] = a)
  <2>1. acks' = [acks EXCEPT ![v] = Append(acks[v], a)]
    BY <1>3, <1>7
  <2>2. Append(acks[v], a) \in Seq(Acks)
    BY <1>5, <1>8
  <2>3. \A n \in DOMAIN Append(acks[v], a) :
           (n \in DOMAIN acks[v] /\ Append(acks[v], a)[n] = acks[v][n]) \/ Append(acks[v], a)[n] = a
    BY <1>5, <1>8
  <2> QED
    BY <1>5, <2>1, <2>2, <2>3
<1>10. /\ wk' \in [Workers -> WorkerStates] /\ wk'[v] = r.k
       /\ \A w \in Workers : w # v => wk'[w] = wk[w]
  BY <1>3, <1>5, <1>6 DEF Respects
<1>11. TypedMaster' /\ TxnSane' /\ Recoverable' /\ Dated' /\ Quiet'
  BY <1>4 DEF IInv, TypedMaster, TxnSane, Recoverable, Live, Dated, Quiet, ModelChanging
<1>12. TypedNet'
  BY <1>4, <1>9, <1>10 DEF IInv, TypedNet
<1>13. DatedNet' /\ Wired' /\ OnlyShown' /\ WorkersSane' /\ Unharmed'
  <2>1. \A w \in Workers : \A n \in DOMAIN acks'[w] : acks'[w][n].id < next
    BY <1>1, <1>8, <1>9 DEF IInv, DatedNet
  <2>2. \A w \in Workers : Sane(wk'[w])
    BY <1>6, <1>10 DEF Respects, IInv, WorkersSane
  <2> QED
    BY <1>4, <2>1, <2>2 DEF IInv, DatedNet, Wired, Linked, OnlyShown, WorkersSane, Unharmed
<1>14. txn.phase \in InProgress /\ wk[v].act = txn.id => r.k.act = txn.id
  <2>1. CASE txn.phase \in InProgress /\ wk[v].act = txn.id /\ m.id = txn.id
    <3>1. m.act \notin Cleanups
      BY <2>1 DEF IInv, Unharmed
    <3> QED
      BY <2>1, <3>1, <1>6
  <2>2. CASE txn.phase \in InProgress /\ wk[v].act = txn.id /\ m.id # txn.id
    <3>1. next = txn.id + 1 /\ txn.id \in Ids /\ m.id \in Nat /\ txn.id \in Nat
      BY <1>1, <2>2, TxnFacts, IdsNat DEF IInv, TxnSane
    <3>2. m.id < txn.id
      BY <1>1, <2>2, <3>1
    <3> QED
      BY <1>6, <2>2, <3>1, <3>2 DEF Respects
  <2> QED
    BY <2>1, <2>2
<1>15. Serving'
  <2>1. ASSUME txn.phase \in InProgress, NEW w \in txn.workers, Attached(w), w \in txn.ready
        PROVE  wk'[w].act = txn.id
    <3>1. wk[w].act = txn.id /\ w \in Workers
      BY <2>1, TxnFacts DEF IInv, Serving, Txns
    <3> QED
      BY <2>1, <3>1, <1>10, <1>14
  <2>2. ASSUME txn.phase \in InProgress, NEW w \in txn.workers, NEW n \in DOMAIN acks'[w],
               Attached(w), acks'[w][n].act = "commit", acks'[w][n].ok, acks'[w][n].id = txn.id
        PROVE  wk'[w].act = txn.id
    <3>1. w \in Workers
      BY TxnFacts DEF Txns
    <3>2. CASE w = v /\ acks'[w][n] = a
      BY <2>2, <3>2, <1>6, <1>8, <1>10
    <3>3. CASE n \in DOMAIN acks[w] /\ acks'[w][n] = acks[w][n]
      <4>1. wk[w].act = txn.id
        BY <2>2, <3>3 DEF IInv, Serving
      <4> QED
        BY <2>2, <3>1, <4>1, <1>10, <1>14
    <3> QED
      BY <3>1, <3>2, <3>3, <1>9
  <2>3. \A w \in Workers : Attached(w)' <=> Attached(w)
    BY <1>4 DEF Attached
  <2>4. txn.workers \subseteq Workers
    BY TxnFacts DEF Txns
  <2> QED
    BY <1>4, <2>1, <2>2, <2>3, <2>4 DEF Serving
<1>16. IInv'
  BY <1>11, <1>12, <1>13, <1>15 DEF IInv
<1>17. ASSUME OwedInv
       PROVE  OwedInv'
  <2>1. \A w, i : Secured(w, i)' <=> Secured(w, i)
    BY <1>4 DEF Secured, Owed, OwedOnDisk
  <2>2. \A w \in Workers : \A i : Given(w, i) => i \in wk'[w].retired \ Held(wk'[w])
    <3>1. ASSUME NEW i, Given(v, i)
          PROVE  i \in r.k.retired \ Held(r.k)
      BY <1>6, <3>1 DEF Given, Respects
    <3> QED
      BY <3>1, <1>10 DEF Given
  <2>3. LoadedOwed'
    <3>1. ASSUME NEW i \in Held(r.k) \ shown
          PROVE  Secured(v, i)
      <4>1. CASE i \in Held(wk[v])
        BY <1>17, <4>1 DEF OwedInv, LoadedOwed
      <4>2. CASE m.act = "prepare" /\ i = m.id /\ i \notin wk[v].retired
        BY <1>2, <1>17, <4>2 DEF OwedInv, SentOwed, Given
      <4> QED
        BY <4>1, <4>2, <1>6
    <3> QED
      BY <3>1, <2>1, <1>4, <1>10, <1>17 DEF OwedInv, LoadedOwed
  <2>4. SentOwed'
    <3>1. ASSUME NEW c \in wire', c.act = "prepare", c.id \notin shown'
          PROVE  Secured(c.node, c.id)' \/ Given(c.node, c.id)'
      <4>1. c \in wire /\ c.node \in Workers
        BY <3>1, <1>4 DEF IInv, TypedNet, Commands
      <4>2. Secured(c.node, c.id) \/ Given(c.node, c.id)
        BY <1>4, <1>17, <3>1, <4>1 DEF OwedInv, SentOwed
      <4>3. Given(c.node, c.id) => Given(c.node, c.id)'
        BY <2>2, <4>1 DEF Given
      <4> QED
        BY <2>1, <4>2, <4>3
    <3> QED
      BY <3>1 DEF SentOwed
  <2>5. AckedGone'
    <3>1. ASSUME NEW w \in Workers, NEW n \in DOMAIN acks'[w], NEW i, i = acks'[w][n].id,
                 acks'[w][n].ok, acks'[w][n].act \in Cleanups, i \notin shown
          PROVE  i \in wk'[w].retired \ Held(wk'[w])
      <4>1. CASE n \in DOMAIN acks[w] /\ acks'[w][n] = acks[w][n]
        BY <1>17, <3>1, <4>1, <2>2 DEF OwedInv, AckedGone
      <4>2. CASE w = v /\ acks'[w][n] = a
        <5>1. m.act \in Cleanups /\ i = m.id /\ r.ok /\ m.act # "finalize"
          BY <1>8, <3>1, <4>2 DEF IInv, OnlyShown
        <5> QED
          BY <1>6, <1>10, <4>2, <5>1 DEF Cleanups
      <4> QED
        BY <4>1, <4>2, <1>9
    <3> QED
      BY <3>1, <1>4 DEF AckedGone, Given
  <2>6. TxnOwed'
    BY <1>4, <1>17 DEF OwedInv, TxnOwed, OwedOnDisk
  <2> QED
    BY <2>3, <2>4, <2>5, <2>6 DEF OwedInv
<1> QED
  BY <1>16, <1>17

\* A worker retires what a lost connection left, or one of its runtimes dies.
LEMMA WorkerStep ==
    ASSUME IInv, NEW w \in Workers, WorkerRetires(w) \/ Dies(w)
    PROVE  IInv' /\ (OwedInv => OwedInv')
<1>1. UNCHANGED <<master, conn, lost, wire, acks, shown>>
  BY DEF WorkerRetires, Dies
<1>2. /\ wk[w] \in WorkerStates /\ Sane(wk[w]) /\ wk \in [Workers -> WorkerStates]
  BY WorkerFacts
<1>3. PICK k : /\ k = Retired(wk[w]) \/ (wk[w].act # None /\ k = [wk[w] EXCEPT !.dead = wk[w].dead \cup {wk[w].act}])
               /\ wk' = [wk EXCEPT ![w] = k]
  BY DEF WorkerRetires, Dies
<1>4. /\ k \in WorkerStates /\ Sane(k) /\ Held(k) \subseteq Held(wk[w]) /\ k.act = wk[w].act
      /\ wk[w].retired \subseteq k.retired
  <2>1. CASE k = Retired(wk[w])
    BY <1>2, <2>1, LossKeeps
  <2>2. CASE wk[w].act # None /\ k = [wk[w] EXCEPT !.dead = wk[w].dead \cup {wk[w].act}]
    <3>1. wk[w].dead \cup {wk[w].act} \subseteq Ids
      BY <1>2, <2>2 DEF WorkerStates, MaybeIds
    <3> DEFINE dead == wk[w].dead \cup {wk[w].act}
    <3>2. k = [wk[w] EXCEPT !.dead = dead] /\ dead \subseteq Ids
      BY <2>2, <3>1
    <3> HIDE DEF dead
    <3>3. /\ k \in WorkerStates /\ k.latest = wk[w].latest /\ k.cand = wk[w].cand
          /\ k.phase = wk[w].phase /\ k.act = wk[w].act /\ k.prev = wk[w].prev
          /\ k.pending = wk[w].pending /\ k.retired = wk[w].retired
      BY <1>2, <3>2 DEF WorkerStates
    <3> QED
      BY <1>2, <3>3 DEF Sane, Held
  <2> QED
    BY <1>3, <2>1, <2>2
<1>5. /\ wk' \in [Workers -> WorkerStates] /\ wk'[w] = k
      /\ \A v \in Workers : v # w => wk'[v] = wk[v]
  BY <1>2, <1>3, <1>4
<1>6. Fewer
  BY <1>1, <1>4, <1>5 DEF Fewer, FewerAcks
<1>7. TypedNet' /\ WorkersSane' /\ Wired'
  BY <1>1, <1>4, <1>5 DEF IInv, TypedNet, WorkersSane, Wired, Linked
<1>8. \A v \in Workers : conn[v].gen <= conn'[v].gen
  BY <1>1, WorkerFacts
<1>9. \A v \in Workers : (Attached(v)' <=> Attached(v)) /\ wk'[v].act = wk[v].act
  BY <1>1, <1>4, <1>5 DEF Attached, master
<1> QED
  BY <1>6, <1>7, <1>8, <1>9, FewerKeeps, FewerOwed

LEMMA CutStep ==
    ASSUME IInv, NEW w \in Workers, Cut(w)
    PROVE  IInv' /\ (OwedInv => OwedInv')
<1>1. /\ UNCHANGED <<master, conn, acks, shown>> /\ lost' = [lost EXCEPT ![w] = "cut"]
      /\ wk' = [wk EXCEPT ![w] = GivenUp(wk[w])] /\ wire' = {m \in wire : m.node # w}
  BY DEF Cut
<1>2. /\ wk \in [Workers -> WorkerStates] /\ lost \in [Workers -> {"no", "cut", "lost", "saving"}]
      /\ GivenUp(wk[w]) \in WorkerStates /\ Sane(GivenUp(wk[w]))
      /\ Held(GivenUp(wk[w])) = Held(wk[w]) /\ GivenUp(wk[w]).retired = wk[w].retired
  BY WorkerFacts, LossKeeps
<1>3. /\ wk' \in [Workers -> WorkerStates] /\ wk'[w] = GivenUp(wk[w])
      /\ \A v \in Workers : v # w => wk'[v] = wk[v]
  BY <1>1, <1>2
<1>4. /\ lost' \in [Workers -> {"no", "cut", "lost", "saving"}] /\ lost'[w] = "cut"
      /\ \A v \in Workers : v # w => lost'[v] = lost[v]
  BY <1>1, <1>2
<1>5. Fewer
  BY <1>1, <1>2, <1>3 DEF Fewer, FewerAcks
<1>6. TypedNet' /\ WorkersSane' /\ Wired'
  <2>1. \A m \in wire : m.node \in Workers
    BY DEF IInv, TypedNet, Commands
  <2>2. TypedNet' /\ WorkersSane'
    BY <1>1, <1>2, <1>3, <1>4 DEF IInv, TypedNet, WorkersSane
  <2> QED
    BY <1>1, <1>4, <2>1, <2>2 DEF IInv, Wired, Linked
<1>7. \A v \in Workers : conn[v].gen <= conn'[v].gen
  BY <1>1, WorkerFacts
<1>8. \A v \in Workers : Attached(v)' => Attached(v) /\ wk'[v].act = wk[v].act
  BY <1>1, <1>3, <1>4 DEF Attached, master
<1> QED
  BY <1>5, <1>6, <1>7, <1>8, FewerKeeps, FewerOwed

\* The last word of a closed connection is one it had to say.
LEMMA LastWordKeeps ==
    ASSUME IInv, NEW w \in Workers, LastWord(w)
    PROVE  acks' \in [Workers -> Seq(Acks)] /\ FewerAcks
<1>1. PICK n \in {0, 1} : acks' = [acks EXCEPT ![w] = IF n < Len(acks[w]) THEN SubSeq(acks[w], 1, n) ELSE acks[w]]
  BY DEF LastWord
<1> DEFINE s == IF n < Len(acks[w]) THEN SubSeq(acks[w], 1, n) ELSE acks[w]
<1>2. acks[w] \in Seq(Acks) /\ acks \in [Workers -> Seq(Acks)]
  BY WorkerFacts
<1>3. s \in Seq(Acks) /\ \A k \in DOMAIN s : k \in DOMAIN acks[w] /\ s[k] = acks[w][k]
  <2>1. CASE n < Len(acks[w])
    <3>1. Len(acks[w]) \in Nat /\ DOMAIN acks[w] = 1..Len(acks[w])
      BY <1>2
    <3>2. s = SubSeq(acks[w], 1, n) /\ n \in Nat /\ n <= Len(acks[w])
      BY <2>1
    <3>3. /\ s \in Seq(Acks) /\ Len(s) = n
          /\ \A k \in 1..n : s[k] = acks[w][k]
      <4>1. \A k \in 1..n : acks[w][k] \in Acks
        BY <1>2, <3>1, <3>2
      <4>2. s = [k \in 1..n |-> acks[w][k]]
        BY <1>2, <3>1, <3>2
      <4> QED
        BY <4>1, <4>2, <3>2
    <3>4. DOMAIN s = 1..n /\ \A k \in 1..n : k \in DOMAIN acks[w]
      BY <3>1, <3>2, <3>3
    <3> QED
      BY <3>3, <3>4
  <2>2. CASE ~(n < Len(acks[w]))
    BY <1>2, <2>2
  <2> QED
    BY <2>1, <2>2
<1>4. acks' = [acks EXCEPT ![w] = s]
  BY <1>1
<1> HIDE DEF s
<1> QED
  BY <1>2, <1>3, <1>4 DEF FewerAcks

\* A connection is closed, opened or replaced.
LEMMA ConnectionStep ==
    ASSUME IInv, NEW w \in Workers, Lose(w) \/ Register(w) \/ Replace(w)
    PROVE  IInv' /\ (OwedInv => OwedInv')
<1>1. UNCHANGED <<master, wire, wk, shown>>
  BY DEF Lose, Register, Replace
<1>2. acks' \in [Workers -> Seq(Acks)] /\ FewerAcks
  <2>1. CASE Register(w)
    BY <2>1, WorkerFacts DEF Register, FewerAcks
  <2>2. CASE Lose(w) \/ Replace(w)
    BY <2>2, LastWordKeeps DEF Lose, Replace
  <2> QED
    BY <2>1, <2>2
<1>3. PICK up \in BOOLEAN, gen \in {conn[w].gen, conn[w].gen + 1} :
         /\ conn' = [conn EXCEPT ![w] = [up |-> up, gen |-> gen]]
         /\ up => gen = conn[w].gen + 1
  BY DEF Lose, Register, Replace
<1>4. PICK l \in {"no", "lost", lost[w]} : lost' = [lost EXCEPT ![w] = l]
  <2>1. lost = [lost EXCEPT ![w] = lost[w]]
    BY WorkerFacts
  <2> QED
    BY <2>1 DEF Lose, Register, Replace
<1>5. /\ conn \in [Workers -> Conns] /\ lost \in [Workers -> {"no", "cut", "lost", "saving"}]
      /\ conn[w].gen \in Nat
  BY WorkerFacts
<1>6. /\ conn' \in [Workers -> Conns] /\ conn'[w].up = up /\ conn'[w].gen = gen
      /\ \A v \in Workers : v # w => conn'[v] = conn[v]
  BY <1>3, <1>5 DEF Conns
<1>7. /\ lost' \in [Workers -> {"no", "cut", "lost", "saving"}]
      /\ \A v \in Workers : v # w => lost'[v] = lost[v]
  BY <1>4, <1>5
<1>8. Fewer
  BY <1>1, <1>2 DEF Fewer
<1>9. TypedNet' /\ WorkersSane'
  BY <1>1, <1>2, <1>6, <1>7 DEF IInv, TypedNet, WorkersSane
<1>10. ~Linked(w)
  BY DEF Lose, Register, Replace, Linked
<1>11. Wired'
  <2>1. \A m \in wire : m.node \in Workers /\ m.node # w /\ Linked(m.node)
    BY <1>10 DEF IInv, TypedNet, Commands, Wired
  <2> QED
    BY <1>1, <1>6, <1>7, <2>1 DEF Wired, Linked
<1>12. \A v \in Workers : conn[v].gen <= conn'[v].gen
  <2>1. conn[w].gen <= conn'[w].gen
    BY <1>5, <1>6, <1>3
  <2>2. \A v \in Workers : conn[v].gen \in Nat
    BY WorkerFacts
  <2> QED
    BY <1>6, <2>1, <2>2
<1>13. ASSUME NEW v \in Workers, txn.phase \in InProgress, v \in txn.workers, Attached(v)'
       PROVE  Attached(v) /\ wk'[v].act = wk[v].act
  <2>1. txn' = txn /\ conn'[v].up /\ conn'[v].gen = txn.conn[v] /\ lost'[v] # "cut"
    BY <1>1, <1>13 DEF Attached, master
  <2>2. v # w
    <3>1. txn.conn[v] <= conn[v].gen /\ txn.conn[v] \in Nat /\ conn[v].gen \in Nat
      BY <1>13, TxnFacts, WorkerFacts DEF IInv, Unharmed, Txns
    <3> QED
      BY <1>3, <1>6, <2>1, <3>1
  <2> QED
    BY <1>1, <1>6, <1>7, <2>1, <2>2 DEF Attached
<1> QED
  BY <1>8, <1>9, <1>11, <1>12, <1>13, FewerKeeps, FewerOwed

(***************************************************************************)
(* Every step.                                                             *)
(***************************************************************************)
Net == <<conn, lost, wire, acks, wk>>

LEMMA NetSame ==
    ASSUME IInv, UNCHANGED Net
    PROVE  Still
BY WorkerFacts DEF Net, Still, FewerAcks, IInv, TypedNet

\* A step of the master keeps the invariants.
LEMMA MasterKeeps ==
    ASSUME IInv, Ordered, Carries, Still, next' = next
    PROVE  IInv' /\ (OwedInv /\ Passes => OwedInv')
<1>1. IInv'
  BY StillKeeps
<1>2. txn'.phase \in InProgress
         => \/ txn.phase \in InProgress /\ txn'.id = txn.id /\ txn'.workers = txn.workers
            \/ TxnOwed'
  BY DEF Carries
<1> QED
  BY <1>1, <1>2, StillOwed

Overlooks == \E w \in Workers : Overlooked(w)

LEMMA TodoStep ==
    ASSUME IInv, NEW t \in todo,
           \/ CommitLocal(t) \/ Materialize(t) \/ CommitWorkers(t) \/ SwapLocal(t)
           \/ Publish(t) \/ GiveUp(t) \/ Clear(t) \/ RetireRecovery(t)
    PROVE  Proper /\ Still /\ next' = next
<1>1. UNCHANGED Net /\ next' = next
  BY DEF CommitLocal, Materialize, CommitWorkers, SwapLocal, Publish, GiveUp, Clear,
         RetireRecovery, Network, Net
<1>2. Proper
  BY CommitLocalStep, NativeStep, CommitWorkersStep, PublishStep, GiveUpStep, ClearStep,
     RetireRecoveryStep
<1> QED
  BY <1>1, <1>2, NetSame

LEMMA OwnStep ==
    ASSUME IInv,
           \/ Deadline \/ Cancel \/ ModelChange
           \/ \E d \in ledger : DispatchLocal(d)
    PROVE  Proper /\ Still /\ next' = next
<1>1. UNCHANGED Net /\ next' = next
  BY DEF Deadline, Cancel, ModelChange, DispatchLocal, Network, Net
<1>2. Proper
  BY DeadlineStep, CancelStep, ModelChangeStep, DispatchLocalStep
<1> QED
  BY <1>1, <1>2, NetSame

LEMMA CallbackStep ==
    ASSUME IInv, NEW w \in Workers, HandleAck(w) \/ Disconnected(w) \/ DisconnectSaved(w)
    PROVE  /\ Ordered /\ Carries /\ Stands /\ Still /\ next' = next
           /\ OwedInv /\ ~Overlooks => Passes
<1>1. CASE HandleAck(w)
  <2>1. /\ UNCHANGED <<conn, lost, wire, wk, next>>
        /\ acks' = [acks EXCEPT ![w] = Tail(acks[w])] /\ acks[w] # <<>>
    BY <1>1 DEF HandleAck
  <2>2. acks[w] \in Seq(Acks) /\ acks \in [Workers -> Seq(Acks)]
    BY WorkerFacts
  <2>3. /\ Tail(acks[w]) \in Seq(Acks)
        /\ \A n \in DOMAIN Tail(acks[w]) : \E k \in DOMAIN acks[w] : Tail(acks[w])[n] = acks[w][k]
    <3>1. Tail(acks[w]) \in Seq(Acks) /\ Len(Tail(acks[w])) = Len(acks[w]) - 1
      BY <2>1, <2>2
    <3>2. ASSUME NEW n \in DOMAIN Tail(acks[w])
          PROVE  n + 1 \in DOMAIN acks[w] /\ Tail(acks[w])[n] = acks[w][n + 1]
      BY <2>1, <2>2, <3>1
    <3> QED
      BY <3>1, <3>2
  <2>4. Still
    BY <2>1, <2>2, <2>3 DEF Still, FewerAcks, IInv, TypedNet
  <2> QED
    BY <1>1, <2>1, <2>4, HandleAckStep
<1>2. CASE Disconnected(w) \/ DisconnectSaved(w)
  <2>1. /\ UNCHANGED <<conn, wire, acks, wk, next>>
        /\ \/ lost[w] = "lost" /\ lost' = [lost EXCEPT ![w] = "saving"]
           \/ lost[w] = "saving" /\ lost' = [lost EXCEPT ![w] = "no"]
    BY <1>2 DEF Disconnected, DisconnectSaved
  <2>2. lost \in [Workers -> {"no", "cut", "lost", "saving"}]
    BY WorkerFacts
  <2>3. /\ lost' \in [Workers -> {"no", "cut", "lost", "saving"}]
        /\ \A v \in Workers : lost'[v] = "cut" <=> lost[v] = "cut"
    BY <2>1, <2>2
  <2>4. Still
    BY <2>1, <2>3 DEF Still, FewerAcks, IInv, TypedNet
  <2> QED
    BY <1>2, <2>1, <2>4, DisconnectedStep, DisconnectSavedStep DEF Proper, Overlooks
<1> QED
  BY <1>1, <1>2

LEMMA NetStep ==
    ASSUME IInv,
           \/ \E w \in Workers : \/ SendConfig(w) \/ WorkerRetires(w) \/ Dies(w)
                                 \/ Cut(w) \/ Lose(w) \/ Register(w) \/ Replace(w)
           \/ \E d \in ledger : Dispatch(d)
           \/ \E m \in wire : WorkerApplies(m)
    PROVE  IInv' /\ (OwedInv => OwedInv') /\ UNCHANGED <<txn, shown>>
<1>1. UNCHANGED <<master, shown>>
  BY DEF SendConfig, WorkerRetires, Dies, Cut, Lose, Register, Replace, Dispatch,
         WorkerApplies, Send
<1>2. UNCHANGED <<txn, shown>>
  BY <1>1 DEF master
<1>3. IInv' /\ (OwedInv => OwedInv')
  BY SendConfigStep, WorkerStep, CutStep, ConnectionStep, DispatchStep, WorkerAppliesStep
<1> QED
  BY <1>2, <1>3

LEMMA NextStep ==
    ASSUME IInv, [Next]_vars
    PROVE  IInv' /\ Stands /\ (OwedInv /\ ~Overlooks => OwedInv')
<1>1. CASE UNCHANGED vars
  <2>1. IInv'
    BY <1>1 DEF vars, IInv, TypedMaster, TypedNet, TxnSane, Recoverable, Live, Dated, DatedNet,
                Wired, Linked, Quiet, ModelChanging, OnlyShown, WorkersSane, Serving, Attached,
                Unharmed
  <2>2. OwedInv => OwedInv'
    BY <1>1 DEF vars, OwedInv, LoadedOwed, SentOwed, TxnOwed, AckedGone, Secured, Owed,
                OwedOnDisk, Given
  <2>3. Stands
    BY <1>1 DEF vars, Stands, IInv, TxnSane, Over
  <2> QED
    BY <2>1, <2>2, <2>3
<1>2. CASE \/ \E w \in Workers : \/ SendConfig(w) \/ WorkerRetires(w) \/ Dies(w)
                                 \/ Cut(w) \/ Lose(w) \/ Register(w) \/ Replace(w)
           \/ \E d \in ledger : Dispatch(d)
           \/ \E m \in wire : WorkerApplies(m)
  BY <1>2, NetStep DEF Stands, IInv, TxnSane, Over
<1>3. ASSUME NEW w \in Workers, HandleAck(w) \/ Disconnected(w) \/ DisconnectSaved(w)
      PROVE  IInv' /\ Stands /\ (OwedInv /\ ~Overlooks => OwedInv')
  BY <1>3, CallbackStep, MasterKeeps
<1>4. ASSUME NEW t \in todo,
             \/ CommitLocal(t) \/ Materialize(t) \/ CommitWorkers(t) \/ SwapLocal(t)
             \/ Publish(t) \/ GiveUp(t) \/ Clear(t) \/ RetireRecovery(t)
      PROVE  IInv' /\ Stands /\ (OwedInv /\ ~Overlooks => OwedInv')
  BY <1>4, TodoStep, MasterKeeps DEF Proper
<1>5. CASE \/ Deadline \/ Cancel \/ ModelChange
           \/ \E d \in ledger : DispatchLocal(d)
  BY <1>5, OwnStep, MasterKeeps DEF Proper
<1>6. CASE Crash
  BY <1>6, CrashStep
<1>7. ASSUME NEW W \in SUBSET Workers, Begin(W)
      PROVE  IInv' /\ Stands /\ (OwedInv /\ ~Overlooks => OwedInv')
  BY <1>7, BeginStep
<1> QED
  BY <1>1, <1>2, <1>3, <1>4, <1>5, <1>6, <1>7 DEF Next

LEMMA Start ==
    ASSUME Init
    PROVE  IInv /\ OwedInv
<1>1. /\ NoTxn \in Txns /\ NoTxn.id = None /\ NoTxn.phase = "none" /\ NoTxn.published = FALSE
      /\ NoTxn.workers = {} /\ NoTxn.prepared = {} /\ NoTxn.ready = {}
  BY IdsNat DEF NoTxn, Txns, MaybeIds, Phases
<1>2. /\ NoDisk \in Records /\ NoDisk.id = None /\ NoDisk.phase = "none"
      /\ NoDisk.published = FALSE /\ NoDisk.ledger = {}
  BY DEF NoDisk, Records, MaybeIds, Phases
<1>3. NoAssignment \in Assignments /\ NoAssignment.id = None /\ NoPlan \in Plans
  BY DEF NoAssignment, Assignments, NoPlan, Plans, MaybeIds
<1>4. /\ NewWorker \in WorkerStates /\ Sane(NewWorker) /\ Held(NewWorker) = {}
  BY DEF NewWorker, WorkerStates, WorkerPhases, MaybeIds, Sane, Held, Some, None
<1>5. \A w \in Workers : acks[w] = << >> /\ DOMAIN << >> = {} /\ << >> \in Seq(Acks)
  BY DEF Init
<1>6. 1 \in 1..(MaxTxn + 1) /\ None < 1
  BY PipelineLoadAssumption DEF None
<1>7. TypedMaster
  BY <1>1, <1>2, <1>3, <1>6 DEF Init, TypedMaster
<1>8. TypedNet
  BY <1>4, <1>5 DEF Init, TypedNet, Conns
<1>9. TxnSane /\ Recoverable /\ Dated
  BY <1>1, <1>2, <1>3, <1>6 DEF Init, TxnSane, Recoverable, Live, Dated, InProgress
<1>10. DatedNet /\ Wired /\ Quiet /\ OnlyShown /\ WorkersSane
  BY <1>1, <1>2, <1>4, <1>5
     DEF Init, DatedNet, Wired, Quiet, ModelChanging, OnlyShown, WorkersSane
<1>11. Serving /\ Unharmed
  BY <1>1 DEF Init, Serving, Unharmed, InProgress
<1>12. OwedInv
  BY <1>1, <1>4, <1>5
     DEF Init, OwedInv, LoadedOwed, SentOwed, TxnOwed, AckedGone, InProgress
<1> QED
  BY <1>7, <1>8, <1>9, <1>10, <1>11, <1>12 DEF IInv

(***************************************************************************)
(* Theorems.                                                               *)
(***************************************************************************)
\* The master's fields, the network and the workers agree as IInv says.
THEOREM Invariance == Spec => []IInv
<1>1. Init => IInv
  BY Start
<1>2. IInv /\ [Next]_vars => IInv'
  BY NextStep
<1> QED
  BY <1>1, <1>2, PTL DEF Spec

\* The state has its type; no command is on its way over a broken link or from the future.
THEOREM TypeCorrect == Spec => []TypeOK
<1>1. IInv => TypeOK
  <2> SUFFICES ASSUME IInv
               PROVE  TypeOK
    OBVIOUS
  <2>1. /\ txn.id \in Ids \cup {None} /\ txn.phase \in InProgress \cup Over \cup {"none", "ready"}
        /\ {txn.prepared, txn.ready} \subseteq SUBSET txn.workers
        /\ plan.id \in Ids \cup {None} /\ next \in 1..(MaxTxn + 1)
    BY TxnFacts DEF IInv, TypedMaster, TxnSane, Txns, Phases, MaybeIds, Plans
  <2>2. \A d \in ledger \cup disk.ledger : /\ d.node \in Workers \cup {Master}
                                           /\ d.id \in Ids /\ d.act \in Cleanups
    <3>1. disk.ledger \subseteq Debts /\ ledger \subseteq Debts
      BY TxnFacts DEF Records
    <3> QED
      BY <3>1 DEF Debts
  <2>3. \A m \in wire : Linked(m.node) /\ m.id < next
    BY DEF IInv, Wired, DatedNet
  <2> QED
    BY <2>1, <2>2, <2>3 DEF TypeOK
<1> QED
  BY <1>1, Invariance, PTL

\* A transaction that was given up is never published, and one that was published is never
\* aborted, whatever thread comes too late.
THEOREM OneOutcome == Spec => Settled
<1>1. IInv /\ [Next]_vars =>
        [txn'.id = txn.id =>
           /\ txn.phase \in Over => txn'.phase \in Over
           /\ txn.published => txn'.published /\ txn'.phase # "aborted"]_vars
  BY NextStep DEF Stands
<1> QED
  BY <1>1, Invariance, PTL DEF Spec, Settled

\* Only the publication of a transaction adds to the published ones.
LEMMA ShownBy ==
    ASSUME IInv, [Next]_vars
    PROVE  shown' = shown \/ \E t \in todo : Publish(t)
<1>1. UNCHANGED vars => shown' = shown
  BY DEF vars
<1>2. Deadline \/ Cancel \/ ModelChange \/ Crash => shown' = shown
  BY DEF Deadline, Cancel, ModelChange, Crash, Network
<1>3. \A W \in SUBSET Workers : Begin(W) => shown' = shown
  BY DEF Begin, Network
<1>4. \A w \in Workers : HandleAck(w) \/ Disconnected(w) \/ DisconnectSaved(w) => shown' = shown
  BY DEF HandleAck, Disconnected, DisconnectSaved
<1>5. \A d \in ledger : DispatchLocal(d) => shown' = shown
  BY DEF DispatchLocal, Network
<1>6. \A t \in todo : \/ CommitLocal(t) \/ Materialize(t) \/ CommitWorkers(t) \/ SwapLocal(t)
                      \/ GiveUp(t) \/ Clear(t) \/ RetireRecovery(t)
         => shown' = shown
  BY DEF CommitLocal, Materialize, CommitWorkers, SwapLocal, GiveUp, Clear, RetireRecovery, Network
<1>7. (\/ \E w \in Workers : \/ SendConfig(w) \/ WorkerRetires(w) \/ Dies(w)
                             \/ Cut(w) \/ Lose(w) \/ Register(w) \/ Replace(w)
       \/ \E d \in ledger : Dispatch(d)
       \/ \E m \in wire : WorkerApplies(m)) => shown' = shown
  BY NetStep
<1> QED
  BY <1>1, <1>2, <1>3, <1>4, <1>5, <1>6, <1>7 DEF Next

\* What is published is whole: every worker whose link holds serves it at that moment.
THEOREM Whole == Spec => PublishedWhole
<1>1. ASSUME IInv, [Next]_vars
      PROVE  \A i \in shown' \ shown : \A w \in plan'.workers : wk[w].act = i \/ lost[w] = "cut"
  <2> SUFFICES ASSUME NEW i \in shown' \ shown, NEW w \in plan'.workers, lost[w] # "cut"
               PROVE  wk[w].act = i
    OBVIOUS
  <2>1. PICK t \in todo : Publish(t)
    BY <1>1, ShownBy
  <2>2. /\ Publishable(t.id) /\ plan' = [id |-> txn.id, workers |-> txn.workers] /\ i = t.id
    BY <2>1 DEF Publish
  <2>3. /\ txn.id = i /\ txn.phase \in InProgress /\ w \in txn.workers
        /\ conn[w].up /\ conn[w].gen = txn.conn[w] /\ w \in txn.ready
    BY <2>2 DEF Publishable, InProgress
  <2> QED
    BY <1>1, <2>3 DEF IInv, Serving, Attached
<1> QED
  BY <1>1, Invariance, PTL DEF Spec, PublishedWhole

\* What a connected worker has loaded and was not published is owed a cleanup, in memory and
\* on disk, as long as no disconnect callback overlooks the transaction under way.
THEOREM CandidatesOwed == Spec /\ [][~Overlooks]_vars => []CandidateOwed
<1>1. Init => IInv /\ OwedInv
  BY Start
<1>2. IInv /\ OwedInv /\ [Next]_vars /\ [~Overlooks]_vars => OwedInv'
  <2>1. CASE ~Overlooks
    BY <2>1, NextStep
  <2>2. CASE UNCHANGED vars
    BY <2>2
       DEF vars, OwedInv, LoadedOwed, SentOwed, TxnOwed, AckedGone, Secured, Owed, OwedOnDisk, Given
  <2> QED
    BY <2>1, <2>2
<1>3. OwedInv => CandidateOwed
  BY DEF OwedInv, LoadedOwed, Secured, Owed, OwedOnDisk, CandidateOwed, Connected
<1> QED
  BY <1>1, <1>2, <1>3, Invariance, PTL DEF Spec

-----------------------------------------------------------------------------
(***************************************************************************)
(* What a step does to the published plan.                                 *)
(***************************************************************************)
\* A worker keeps its assignment or loses it.
Loosened == \A w \in Workers : assigned'[w] \in {assigned[w], NoAssignment}

\* The transaction under way after the step, if there is one, was under way before.
GoingOn ==
    txn'.phase \in InProgress =>
        /\ txn.phase \in InProgress /\ txn'.id = txn.id /\ txn'.workers = txn.workers
        /\ ledger' \subseteq ledger

\* A debt is settled by the master's own cleanup, or by a worker's acknowledgement.
Settles(d) ==
    IF d.node = Master THEN DispatchLocal(d)
    ELSE /\ d.node \in Workers /\ HandleAck(d.node)
         /\ LET a == Head(acks[d.node]) IN a.ok /\ d = Debt(d.node, a.id, a.act)

\* The plan stands.  New debts are those of a transaction under way that is given up, which
\* leaves them all.
Upholds ==
    /\ UNCHANGED <<plan, shown, next>> /\ Loosened /\ GoingOn /\ txn'.id = txn.id
    /\ \A d \in ledger' \ ledger : txn.phase \in InProgress /\ d \in AbortDebts(txn)
    /\ txn.phase \in InProgress /\ txn'.phase \notin InProgress
          => AbortDebts(txn) \subseteq ledger'
    /\ \A d \in ledger \ ledger' : Settles(d)

\* The plan is given up, and no debt with it, unless the commands are lost as well.
Drops == /\ plan' = NoPlan /\ UNCHANGED <<shown, next>> /\ Loosened /\ GoingOn
         /\ ledger \subseteq ledger' \/ wire' = {}

\* Another takes its place.
Replaces(t) ==
    /\ Publish(t) /\ Publishable(t.id)
    /\ txn' = [txn EXCEPT !.phase = "ready", !.published = TRUE]
    /\ plan' = [id |-> txn.id, workers |-> txn.workers]
    /\ assigned' = [w \in Workers |-> IF w \in txn.workers THEN [id |-> txn.id, conn |-> txn.conn[w]]
                                                         ELSE assigned[w]]
    /\ ledger' = ledger
         \cup {Debt(w, assigned[w].id, "release") :
                  w \in {v \in Workers \ txn.workers : assigned[v].id # None}}
         \cup {Debt(n, txn.id, "finalize") : n \in txn.workers \cup {Master}}
    /\ shown' = shown \cup {t.id} /\ Instead(t, {})

Turns == \/ Upholds \/ Drops
         \/ \E W \in SUBSET Workers : Begin(W)
         \/ \E t \in todo : Replaces(t)

(***************************************************************************)
(* The published plan and the master's own segment.                        *)
(***************************************************************************)
\* The plan is the latest of the published ones; assignments are of published ones, and no
\* connection is of the future.
PlanLatest ==
    /\ \A i \in shown : i < next
    /\ txn.phase \in InProgress => txn.id \notin shown
    /\ plan.id # None => plan.id \in shown /\ \A i \in shown : i <= plan.id
    /\ plan.id = None => plan.workers = {}
    /\ \A w \in Workers : assigned[w].id \in shown \cup {None} /\ assigned[w].conn <= conn[w].gen

\* Nobody is told to give the plan up, and what is to be released is older.
PlanSpared ==
    plan.id # None =>
        \A d \in ledger \cup wire : /\ d.act = "abort" => d.id # plan.id
                                    /\ d.act = "release" => d.id < plan.id

Hosts == [id : MaybeIds, phase : {"idle", "prepared", "materialized", "committed", "finalized", "aborted"},
          act : MaybeIds, prev : MaybeIds]

\* What is about to be published was swapped in.
Swapped == \A t \in todo : t.do = "publish" =>
    host.id = t.id /\ host.phase = "committed" /\ host.act = t.id /\ t.id \notin shown

\* The master's candidate was swapped in over the plan's segment, and it is not settled yet
\* whether it stays.
OnTrial ==
    /\ host.phase = "committed" /\ host.prev = plan.id /\ host.id = txn.id /\ host.id \notin shown
    /\ txn.phase \in InProgress \/ Debt(Master, txn.id, "abort") \in ledger

HostRuns ==
    plan.id # None => /\ host.phase = "committed" => host.act = host.id
                      /\ host.act = plan.id \/ OnTrial

PlanInv == PlanLatest /\ PlanSpared /\ host \in Hosts /\ Swapped /\ HostRuns

(***************************************************************************)
(* The published plan on the workers.                                      *)
(***************************************************************************)
Final(w, i) == Debt(w, i, "finalize")

\* The plan was published to the worker on its present connection.
Assigned(w) == Linked(w) /\ assigned[w] = [id |-> plan.id, conn |-> conn[w].gen]

\* A worker is told again to make a segment final while the command or its answer is under way.
Resends == \E d \in ledger : d.act = "finalize" /\ Dispatch(d) /\ InFlight(d)

\* A worker that has retirements to do runs nothing; what it has seen was given out.
Cleared(k) == k.pending # {} => k.act = None /\ k.cand = None
WorkersClear == \A w \in Workers : Cleared(wk[w]) /\ wk[w].latest < next

\* A finalize is under way once, as a command or as its answer, and while it is owed.
Finalized(a, i) == a.act = "finalize" /\ a.id = i
FinalOnce ==
    /\ \A m \in wire : m.act = "finalize" =>
          m \in ledger /\ \A n \in DOMAIN acks[m.node] : ~Finalized(acks[m.node][n], m.id)
    /\ \A w \in Workers : \A n, k \in DOMAIN acks[w] :
          Finalized(acks[w][n], acks[w][n].id) /\ Finalized(acks[w][k], acks[w][n].id) => n = k

\* Only what was published was made final.
FinalShown == \A w \in Workers :
    wk[w].phase = "finalized" /\ wk[w].cand # None => wk[w].cand \in shown

\* The worker runs the identity as its latest candidate, committed and not final yet.
OnTop(k, i) == k.act = i /\ k.cand = i /\ k.phase = "committed"

\* Until the master hears that the plan's segment is final, the worker runs it on top of the
\* previous one, or the good news is on its way.
FinalHeld ==
    \A w \in Workers : plan.id # None /\ Assigned(w) /\ Final(w, plan.id) \in ledger =>
        \/ OnTop(wk[w], plan.id)
        \/ \E n \in DOMAIN acks[w] : Finalized(acks[w][n], plan.id) /\ acks[w][n].ok

\* What is to be committed over the plan is owed a cleanup, unless it is gone already.
CommitOwed ==
    \A m \in wire : m.act = "commit" /\ plan.id # None /\ m.id > plan.id
        => Owed(m.node, m.id) \/ Given(m.node, m.id)

\* The worker runs the plan's segment, or keeps it as the previous one of a later candidate
\* that is owed a cleanup.
Keeps(w) ==
    \/ wk[w].act = plan.id
    \/ /\ wk[w].prev = plan.id /\ wk[w].act > plan.id
       /\ wk[w].cand = wk[w].act /\ wk[w].phase = "committed"
       /\ Owed(w, wk[w].act)
PlanKept == \A w \in plan.workers : Assigned(w) => Keeps(w)

KeptInv == WorkersClear /\ FinalOnce /\ FinalShown /\ FinalHeld /\ AckedGone /\ CommitOwed /\ PlanKept

(***************************************************************************)
(* Every step is one of these.                                             *)
(***************************************************************************)
\* Nothing of it changes but what the transaction has been told.
LEMMA UpholdsSame ==
    ASSUME UNCHANGED <<plan, shown, next, ledger>>, Loosened, txn'.id = txn.id,
           txn'.workers = txn.workers, txn'.phase \in InProgress <=> txn.phase \in InProgress
    PROVE  Upholds
BY DEF Upholds, GoingOn

LEMMA LoosenedSame ==
    /\ UNCHANGED assigned => Loosened
    /\ assigned' = [w \in Workers |-> NoAssignment] => Loosened
    /\ \A w \in Workers : assigned' = [assigned EXCEPT ![w] = NoAssignment]
                            /\ assigned \in [Workers -> Assignments] => Loosened
BY DEF Loosened

\* A transaction that is retired, and one that is aborted.
LEMMA InvalidatedTurns ==
    ASSUME IInv, Invalidated, UNCHANGED <<next, shown>>
    PROVE  Drops
<1>1. plan' = NoPlan /\ assigned' = [w \in Workers |-> NoAssignment]
  BY DEF Invalidated
<1>2. CASE txn # NoTxn /\ (txn.phase \notin Over \/ txn.published)
  <2> DEFINE p == "invalidated"
  <2>1. txn' = [txn EXCEPT !.phase = p] /\ ledger \subseteq ledger'
    BY <1>2 DEF Invalidated
  <2>2. p \in Phases /\ p \notin InProgress
    BY DEF Phases, Over, InProgress
  <2> HIDE DEF p
  <2>3. txn'.phase = p
    BY <2>1, <2>2, TxnFacts, PhaseFields
  <2> QED
    BY <1>1, <2>1, <2>2, <2>3, LoosenedSame DEF Drops, GoingOn
<1>3. CASE ~(txn # NoTxn /\ (txn.phase \notin Over \/ txn.published))
  <2>1. UNCHANGED <<txn, ledger>>
    BY <1>3 DEF Invalidated
  <2> QED
    BY <1>1, <2>1, LoosenedSame DEF Drops, GoingOn
<1> QED
  BY <1>2, <1>3

LEMMA AbortedTurns ==
    ASSUME IInv, NEW i \in Ids, Aborted(i), UNCHANGED <<next, shown>>
    PROVE  Upholds \/ Drops
<1>1. CASE txn.id # i \/ (txn.phase \in Over /\ ~txn.published)
  <2>1. UNCHANGED <<txn, ledger, plan, assigned>>
    BY <1>1 DEF Aborted
  <2> QED
    BY <2>1, UpholdsSame, LoosenedSame
<1>2. CASE ~(txn.id # i \/ (txn.phase \in Over /\ ~txn.published))
           /\ (txn.published \/ txn.phase = "ready")
  <2>1. Invalidated
    BY <1>2 DEF Aborted
  <2> QED
    BY <2>1, InvalidatedTurns
<1>3. CASE ~(txn.id # i \/ (txn.phase \in Over /\ ~txn.published))
           /\ ~(txn.published \/ txn.phase = "ready")
  <2> DEFINE p == "aborted"
  <2>1. /\ txn' = [txn EXCEPT !.phase = p] /\ ledger' = ledger \cup AbortDebts(txn)
        /\ UNCHANGED <<plan, assigned>>
    BY <1>3 DEF Aborted
  <2>2. txn.phase \in InProgress
    <3>1. txn.id # None
      BY <1>3, IdsNat
    <3>2. txn # NoTxn
      BY <3>1 DEF NoTxn
    <3>3. txn.phase \in Phases /\ txn.phase # "none"
      BY <3>2, TxnFacts DEF Txns, IInv, TxnSane
    <3> QED
      BY <1>3, <3>3 DEF Phases
  <2>3. p \in Phases /\ p \notin InProgress
    BY DEF Phases, Over, InProgress
  <2> HIDE DEF p
  <2>4. txn'.phase = p /\ txn'.id = txn.id
    BY <2>1, <2>3, TxnFacts, PhaseFields
  <2>5. Debt(Master, txn.id, "abort") \in AbortDebts(txn)
    BY DEF AbortDebts
  <2> QED
    BY <2>1, <2>2, <2>3, <2>4, <2>5, LoosenedSame DEF Upholds, GoingOn
<1> QED
  BY <1>1, <1>2, <1>3

\* A thread's next stretch.
LEMMA TodoTurns ==
    ASSUME IInv, NEW t \in todo,
           \/ CommitLocal(t) \/ Materialize(t) \/ CommitWorkers(t) \/ SwapLocal(t)
           \/ Publish(t) \/ GiveUp(t) \/ Clear(t) \/ RetireRecovery(t)
    PROVE  Upholds \/ Drops \/ Replaces(t)
<1>1. CASE CommitLocal(t) \/ CommitWorkers(t)
  <2>1. UNCHANGED <<plan, shown, next, ledger, assigned>>
    BY <1>1 DEF CommitLocal, CommitWorkers, Network
  <2>2. \/ txn' = txn
        \/ /\ txn.phase \in InProgress
           /\ \E p \in InProgress : txn' = [txn EXCEPT !.phase = p]
    BY <1>1 DEF CommitLocal, CommitWorkers, InProgress
  <2>3. ASSUME NEW p \in InProgress, txn' = [txn EXCEPT !.phase = p], txn.phase \in InProgress
        PROVE  Upholds
    <3>1. p \in Phases
      BY DEF Phases
    <3>2. txn'.phase = p /\ txn'.id = txn.id /\ txn'.workers = txn.workers
      BY <2>3, <3>1, TxnFacts, PhaseFields
    <3> QED
      BY <2>1, <2>3, <3>2, UpholdsSame, LoosenedSame
  <2> QED
    BY <2>1, <2>2, <2>3, UpholdsSame, LoosenedSame
<1>2. CASE Materialize(t) \/ SwapLocal(t) \/ RetireRecovery(t)
  <2>1. UNCHANGED <<txn, plan, shown, next, ledger, assigned>>
    BY <1>2 DEF Materialize, SwapLocal, RetireRecovery, Network
  <2> QED
    BY <2>1, UpholdsSame, LoosenedSame
<1>3. CASE Publish(t)
  <2>1. Replaces(t) \/ UNCHANGED <<txn, plan, shown, next, ledger, assigned>>
    BY <1>3 DEF Publish, Replaces
  <2> QED
    BY <2>1, UpholdsSame, LoosenedSame
<1>4. CASE GiveUp(t)
  <2>1. t \in Tasks /\ t.id \in Ids
    BY <1>4, TxnFacts, TaskId DEF GiveUp
  <2>2. UNCHANGED <<next, shown>> /\ (Aborted(t.id) \/ Invalidated)
    BY <1>4 DEF GiveUp, Network
  <2> QED
    BY <2>1, <2>2, AbortedTurns, InvalidatedTurns
<1>5. CASE Clear(t)
  <2>1. /\ txn' = NoTxn /\ plan' = NoPlan /\ assigned' = [w \in Workers |-> NoAssignment]
        /\ UNCHANGED <<next, ledger, shown>>
    BY <1>5 DEF Clear, Network
  <2>2. txn'.phase \notin InProgress
    BY <2>1 DEF NoTxn, InProgress
  <2> QED
    BY <2>1, <2>2, LoosenedSame DEF Drops, GoingOn
<1> QED
  BY <1>1, <1>2, <1>3, <1>4, <1>5

\* The answer to a prepare or a commit.
LEMMA ConfigTurns ==
    ASSUME IInv, NEW w \in Workers, NEW a, ConfigAcked(w, a) \/ ConfigRefused(w, a),
           UNCHANGED <<plan, next, shown>>
    PROVE  Upholds
<1> DEFINE fewer == txn.ready \ {w}
           prepared == txn.prepared \cup {w}
           ready == txn.ready \cup {w}
           phase == IF ready = txn.workers THEN "committing_global" ELSE txn.phase
<1>1. UNCHANGED <<ledger, assigned>>
  BY DEF ConfigAcked, ConfigRefused
<1>2. \/ txn' = txn \/ txn' = [txn EXCEPT !.ready = fewer]
      \/ txn' = [txn EXCEPT !.prepared = prepared]
      \/ txn' = [txn EXCEPT !.ready = ready, !.phase = phase] /\ txn.phase = "committing"
  BY DEF ConfigAcked, ConfigRefused
<1>3. txn.phase = "committing" => phase \in InProgress /\ txn.phase \in InProgress
  BY DEF InProgress
<1> HIDE DEF fewer, prepared, ready, phase
<1>4. txn'.id = txn.id /\ txn'.workers = txn.workers
      /\ (txn'.phase \in InProgress <=> txn.phase \in InProgress)
  BY <1>2, <1>3, TxnFacts DEF Txns
<1> QED
  BY <1>1, <1>4, UpholdsSame, LoosenedSame

\* An acknowledgement, and the disconnect callback.
LEMMA CallbackTurns ==
    ASSUME IInv, NEW w \in Workers, HandleAck(w) \/ Disconnected(w) \/ DisconnectSaved(w)
    PROVE  Upholds \/ Drops
<1>0. assigned \in [Workers -> Assignments]
  BY TxnFacts
<1>1. CASE HandleAck(w)
  <2> DEFINE a == Head(acks[w])
  <2>1. /\ UNCHANGED <<plan, next, shown>>
        /\ \/ CleanupAcked(w, a) \/ ConfigAcked(w, a) \/ ConfigRefused(w, a)
           \/ UNCHANGED <<txn, todo, ledger, assigned, disk>>
    BY <1>1 DEF HandleAck
  <2>2. a = Head(acks[w])
    OBVIOUS
  <2> HIDE DEF a
  <2>3. CASE CleanupAcked(w, a)
    <3> DEFINE gone == Debt(w, a.id, a.act)
    <3>1. \/ UNCHANGED <<ledger, assigned, txn>>
          \/ /\ a.ok /\ ledger' = ledger \ {gone} /\ UNCHANGED txn
             /\ assigned' \in {assigned, [assigned EXCEPT ![w] = NoAssignment]}
      BY <2>3 DEF CleanupAcked
    <3>2. Loosened
      BY <1>0, <3>1, LoosenedSame
    <3>3. gone.node = w /\ w # Master
      BY PipelineLoadAssumption DEF Debt
    <3>4. a.ok => Settles(gone)
      BY <1>1, <2>2, <3>3 DEF Settles
    <3> HIDE DEF gone
    <3> QED
      BY <2>1, <3>1, <3>2, <3>4 DEF Upholds, GoingOn
  <2> QED
    BY <2>1, <2>3, ConfigTurns, UpholdsSame, LoosenedSame
<1>2. CASE Disconnected(w)
  <2> DEFINE hit == w \in plan.workers \/ (txn.phase = "ready" /\ w \in txn.workers)
             published == txn.published \/ txn.phase = "ready"
             over == [txn EXCEPT !.phase = "invalidated", !.published = published]
  <2>1. /\ plan' = IF hit THEN NoPlan ELSE plan
        /\ ledger \subseteq ledger'
        /\ UNCHANGED <<txn, ledger>> \/ (hit /\ txn' = over)
        /\ UNCHANGED <<next, assigned, shown>>
    BY <1>2 DEF Disconnected
  <2>2. published \in BOOLEAN
    BY TxnFacts DEF Txns
  <2> HIDE DEF published
  <2>3. over.phase = "invalidated"
    BY <2>2, TxnFacts DEF Txns, Phases, Over
  <2> HIDE DEF hit, over
  <2>4. CASE hit
    <3>1. GoingOn
      BY <2>1, <2>3 DEF GoingOn, InProgress
    <3> QED
      BY <2>1, <2>4, <3>1, LoosenedSame DEF Drops
  <2>5. CASE ~hit
    BY <2>1, <2>5, UpholdsSame, LoosenedSame
  <2> QED
    BY <2>4, <2>5
<1>3. CASE DisconnectSaved(w)
  <2>1. /\ assigned' = [assigned EXCEPT ![w] = NoAssignment]
        /\ UNCHANGED <<txn, next, plan, ledger, shown>>
    BY <1>3 DEF DisconnectSaved
  <2> QED
    BY <1>0, <2>1, UpholdsSame, LoosenedSame
<1> QED
  BY <1>1, <1>2, <1>3

\* What the master does by itself.
LEMMA OwnTurns ==
    ASSUME IInv,
           \/ Deadline \/ Cancel \/ ModelChange
           \/ \E d \in ledger : DispatchLocal(d)
    PROVE  Upholds \/ Drops
<1>1. CASE Deadline
  <2>1. txn.id \in Ids /\ UNCHANGED <<next, shown>> /\ Aborted(txn.id)
    BY <1>1, TxnFacts DEF Deadline, Network
  <2> QED
    BY <2>1, AbortedTurns
<1>2. CASE Cancel
  <2>1. txn' = [txn EXCEPT !.cancel = TRUE] /\ UNCHANGED <<next, plan, assigned, ledger, shown>>
    BY <1>2 DEF Cancel, Network
  <2>2. txn'.id = txn.id /\ txn'.workers = txn.workers /\ txn'.phase = txn.phase
    BY <2>1, TxnFacts DEF Txns
  <2> QED
    BY <2>1, <2>2, UpholdsSame, LoosenedSame
<1>3. CASE ModelChange
  BY <1>3, InvalidatedTurns DEF ModelChange
<1>4. ASSUME NEW d \in ledger, DispatchLocal(d)
      PROVE  Upholds
  <2>1. /\ d.node = Master /\ ledger' = ledger \ {d}
        /\ UNCHANGED <<txn, next, plan, assigned, shown>>
    BY <1>4 DEF DispatchLocal, Network
  <2>2. Settles(d)
    BY <1>4, <2>1 DEF Settles
  <2> QED
    BY <2>1, <2>2, LoosenedSame DEF Upholds, GoingOn
<1> QED
  BY <1>1, <1>2, <1>3, <1>4

\* All together.
LEMMA EveryTurn ==
    ASSUME IInv, [Next]_vars
    PROVE  Turns
<1>1. CASE \/ UNCHANGED vars
           \/ \E w \in Workers : \/ SendConfig(w) \/ WorkerRetires(w) \/ Dies(w)
                                 \/ Cut(w) \/ Lose(w) \/ Register(w) \/ Replace(w)
           \/ \E d \in ledger : Dispatch(d)
           \/ \E m \in wire : WorkerApplies(m)
  <2>1. UNCHANGED <<txn, plan, shown, next, ledger, assigned>>
    BY <1>1 DEF vars, SendConfig, WorkerRetires, Dies, Cut, Lose, Register, Replace, Dispatch,
                WorkerApplies, Send, master
  <2> QED
    BY <2>1, UpholdsSame, LoosenedSame DEF Turns
<1>2. CASE Crash
  <2>1. /\ txn' = NoTxn /\ plan' = NoPlan /\ assigned' = [w \in Workers |-> NoAssignment]
        /\ wire' = {} /\ UNCHANGED <<next, shown>>
    BY <1>2 DEF Crash
  <2>2. txn'.phase \notin InProgress
    BY <2>1 DEF NoTxn, InProgress
  <2> QED
    BY <2>1, <2>2, LoosenedSame DEF Turns, Drops, GoingOn
<1> QED
  BY <1>1, <1>2, TodoTurns, CallbackTurns, OwnTurns DEF Next, Turns

\* A step moves the master's own runtime in one of these ways.
LEMMA HostBy ==
    ASSUME [Next]_vars
    PROVE  \/ host' = host
           \/ \E W \in SUBSET Workers : Begin(W)
           \/ \E d \in ledger : DispatchLocal(d)
           \/ \E t \in todo : Materialize(t) \/ SwapLocal(t)
           \/ ModelChange \/ Crash
<1>1. UNCHANGED vars => host' = host
  BY DEF vars
<1>2. Deadline \/ Cancel => host' = host
  BY DEF Deadline, Cancel
<1>3. \A w \in Workers : \/ HandleAck(w) \/ Disconnected(w) \/ DisconnectSaved(w)
                         \/ SendConfig(w) \/ WorkerRetires(w) \/ Dies(w)
                         \/ Cut(w) \/ Lose(w) \/ Register(w) \/ Replace(w)
         => host' = host
  BY DEF HandleAck, Disconnected, DisconnectSaved, SendConfig, WorkerRetires, Dies, Cut, Lose,
         Register, Replace, Send, master
<1>4. (\E d \in ledger : Dispatch(d)) \/ (\E m \in wire : WorkerApplies(m)) => host' = host
  BY DEF Dispatch, WorkerApplies, Send, master
<1>5. \A t \in todo : \/ CommitLocal(t) \/ CommitWorkers(t) \/ Publish(t) \/ GiveUp(t)
                      \/ Clear(t) \/ RetireRecovery(t)
         => host' = host
  BY DEF CommitLocal, CommitWorkers, Publish, GiveUp, Clear, RetireRecovery
<1> QED
  BY <1>1, <1>2, <1>3, <1>4, <1>5 DEF Next

\* Only the swap of the runtime leaves a publication to do.
LEMMA PublishBy ==
    ASSUME [Next]_vars, NEW t \in todo', t.do = "publish", t \notin todo
    PROVE  \E u \in todo : /\ SwapLocal(u) /\ txn.id = u.id /\ txn.phase = "committing_global"
                           /\ host.id = u.id /\ host.phase = "materialized" /\ t.id = u.id
                           /\ host' = [host EXCEPT !.phase = "committed", !.act = u.id,
                                                   !.prev = host.act]
<1>1. \A s, i : Task(s, i).do = s /\ Task(s, i).id = i
  BY DEF Task
<1>2. ~UNCHANGED vars
  BY DEF vars
<1>3. ~(Deadline \/ Cancel \/ ModelChange \/ Crash)
  BY <1>1 DEF Deadline, Cancel, ModelChange, Crash
<1>4. \A W \in SUBSET Workers : ~Begin(W)
  BY DEF Begin
<1>5. \A w \in Workers : ~(\/ SendConfig(w) \/ WorkerRetires(w) \/ Dies(w)
                           \/ Cut(w) \/ Lose(w) \/ Register(w) \/ Replace(w))
  BY DEF SendConfig, WorkerRetires, Dies, Cut, Lose, Register, Replace, Send, master
<1>6. ~((\E d \in ledger : Dispatch(d) \/ DispatchLocal(d)) \/ \E m \in wire : WorkerApplies(m))
  BY DEF Dispatch, DispatchLocal, WorkerApplies, Send, master
<1>7. \A w \in Workers : ~(HandleAck(w) \/ Disconnected(w) \/ DisconnectSaved(w))
  <2> SUFFICES ASSUME NEW w \in Workers, HandleAck(w) \/ Disconnected(w) \/ DisconnectSaved(w)
               PROVE  FALSE
    OBVIOUS
  <2>1. CASE HandleAck(w)
    <3>1. \/ todo' = todo \/ \E i : todo' = todo \cup {Task("retire", i)}
          \/ \E i : todo' = todo \cup {Task("abort", i)}
          \/ \E i : todo' = todo \cup {Task("commit", i)} \/ todo' = todo \cup {Task("complete", i)}
      BY <2>1 DEF HandleAck, CleanupAcked, ConfigAcked, ConfigRefused
    <3> QED
      BY <3>1, <1>1
  <2>2. CASE Disconnected(w)
    BY <2>2, <1>1 DEF Disconnected
  <2>3. CASE DisconnectSaved(w)
    BY <2>3 DEF DisconnectSaved
  <2> QED
    BY <2>1, <2>2, <2>3
<1>8. \A u \in todo : ~(\/ CommitLocal(u) \/ Materialize(u) \/ CommitWorkers(u)
                        \/ Publish(u) \/ GiveUp(u) \/ Clear(u) \/ RetireRecovery(u))
  BY <1>1 DEF CommitLocal, Materialize, CommitWorkers, Publish, GiveUp, Clear, RetireRecovery,
              Instead
<1>9. \A u \in todo : SwapLocal(u) =>
         /\ txn.id = u.id /\ txn.phase = "committing_global"
         /\ host.id = u.id /\ host.phase = "materialized" /\ t.id = u.id
         /\ host' = [host EXCEPT !.phase = "committed", !.act = u.id, !.prev = host.act]
  BY <1>1 DEF SwapLocal, Instead
<1> QED
  BY <1>2, <1>3, <1>4, <1>5, <1>6, <1>7, <1>8, <1>9 DEF Next

\* A command that goes out is owed, or belongs to the transaction under way.
LEMMA WireBy ==
    ASSUME IInv, [Next]_vars, NEW m \in wire' \ wire
    PROVE  \/ \E d \in ledger : Dispatch(d) /\ m = d
           \/ /\ txn.phase \in InProgress /\ m.node \in txn.workers /\ m.id = txn.id
              /\ m.act \in {"prepare", "commit"} /\ SendConfig(m.node)
<1>1. /\ ~UNCHANGED vars /\ ~(Deadline \/ Cancel \/ ModelChange \/ Crash)
      /\ \A W \in SUBSET Workers : ~Begin(W)
      /\ \A d \in ledger : ~DispatchLocal(d)
  BY DEF vars, Deadline, Cancel, ModelChange, Crash, Begin, DispatchLocal, Network
<1>2. \A w \in Workers : ~(\/ HandleAck(w) \/ Disconnected(w) \/ DisconnectSaved(w)
                           \/ WorkerRetires(w) \/ Dies(w)
                           \/ Cut(w) \/ Lose(w) \/ Register(w) \/ Replace(w))
  BY DEF HandleAck, Disconnected, DisconnectSaved, WorkerRetires, Dies, Cut, Lose, Register, Replace
<1>3. ~\E n \in wire : WorkerApplies(n)
  BY DEF WorkerApplies
<1>4. \A t \in todo : ~(\/ CommitLocal(t) \/ Materialize(t) \/ CommitWorkers(t) \/ SwapLocal(t)
                        \/ Publish(t) \/ GiveUp(t) \/ Clear(t) \/ RetireRecovery(t))
  BY DEF CommitLocal, Materialize, CommitWorkers, SwapLocal, Publish, GiveUp, Clear,
         RetireRecovery, Network
<1>5. \A d \in ledger : Dispatch(d) => m = d
  BY DEF Dispatch, Send
<1>6. \A w \in Workers : SendConfig(w) =>
         /\ txn.phase \in InProgress /\ m.node \in txn.workers /\ m.id = txn.id
         /\ m.act \in {"prepare", "commit"} /\ SendConfig(m.node)
  <2> SUFFICES ASSUME NEW w \in Workers, SendConfig(w)
               PROVE  /\ txn.phase \in InProgress /\ m.node \in txn.workers /\ m.id = txn.id
                      /\ m.act \in {"prepare", "commit"} /\ SendConfig(m.node)
    OBVIOUS
  <2>1. /\ txn.phase \in {"preparing", "committing"} /\ w \in txn.workers
        /\ m = Debt(w, txn.id, Expected)
    BY DEF SendConfig, Send
  <2>2. m.node = w /\ m.id = txn.id /\ m.act = Expected
    BY <2>1 DEF Debt
  <2>3. Expected \in {"prepare", "commit"}
    BY DEF Expected
  <2> QED
    BY <2>1, <2>2, <2>3 DEF InProgress
<1> QED
  BY <1>1, <1>2, <1>3, <1>4, <1>5, <1>6 DEF Next

\* A worker's connection stays, is closed, or is replaced by a newer one.
LEMMA ConnBy ==
    ASSUME IInv, [Next]_vars, NEW w \in Workers
    PROVE  \/ conn'[w] = conn[w] /\ (lost[w] = "cut" => lost'[w] = "cut")
           \/ ~conn'[w].up /\ conn'[w].gen = conn[w].gen
           \/ conn'[w].gen = conn[w].gen + 1
<1>0. /\ conn \in [Workers -> Conns] /\ lost \in [Workers -> {"no", "cut", "lost", "saving"}]
      /\ conn[w].gen \in Nat
  BY WorkerFacts
<1>1. CASE UNCHANGED <<conn, lost>>
  BY <1>1
<1>2. CASE Still
  BY <1>2 DEF Still
<1>3. UNCHANGED vars \/ (\E W \in SUBSET Workers : Begin(W)) => UNCHANGED <<conn, lost>>
  BY DEF vars, Begin, Network
<1>4. \A v \in Workers : SendConfig(v) \/ WorkerRetires(v) \/ Dies(v) => UNCHANGED <<conn, lost>>
  BY DEF SendConfig, WorkerRetires, Dies, Send
<1>5. (\E d \in ledger : Dispatch(d)) \/ (\E m \in wire : WorkerApplies(m)) => UNCHANGED <<conn, lost>>
  BY DEF Dispatch, WorkerApplies, Send
<1>6. ASSUME NEW v \in Workers, Cut(v)
      PROVE  conn'[w] = conn[w] /\ (lost[w] = "cut" => lost'[w] = "cut")
  BY <1>0, <1>6 DEF Cut
<1>7. ASSUME NEW v \in Workers, Lose(v) \/ Register(v) \/ Replace(v)
      PROVE  \/ conn'[w] = conn[w] /\ (lost[w] = "cut" => lost'[w] = "cut")
             \/ ~conn'[w].up /\ conn'[w].gen = conn[w].gen
             \/ conn'[w].gen = conn[w].gen + 1
  <2>1. CASE v # w
    BY <1>0, <1>7, <2>1 DEF Lose, Register, Replace
  <2>2. CASE v = w /\ Lose(v)
    BY <1>0, <2>2 DEF Lose
  <2>3. CASE v = w /\ (Register(v) \/ Replace(v))
    BY <1>0, <2>3 DEF Register, Replace
  <2> QED
    BY <1>7, <2>1, <2>2, <2>3
<1>8. Crash => ~conn'[w].up /\ conn'[w].gen = conn[w].gen
  BY DEF Crash
<1> QED
  BY <1>1, <1>2, <1>3, <1>4, <1>5, <1>6, <1>7, <1>8, TodoStep, OwnStep, CallbackStep DEF Next

LEMMA GenGrows ==
    ASSUME IInv, [Next]_vars, NEW w \in Workers
    PROVE  conn[w].gen <= conn'[w].gen
BY ConnBy, WorkerFacts

\* What a publication finds.
LEMMA ReplacesFacts ==
    ASSUME IInv, NEW t \in todo, Replaces(t)
    PROVE  /\ txn.id = t.id /\ txn.phase \in InProgress /\ txn.id \in Ids /\ txn.id \in Nat
           /\ next = txn.id + 1 /\ next' = next /\ shown' = shown \cup {txn.id}
           /\ UNCHANGED <<host, conn, lost, wire, acks, wk>> /\ todo' = todo \ {t}
           /\ plan'.id = txn.id /\ plan'.workers = txn.workers /\ txn'.phase \notin InProgress
           /\ \A w \in Workers : assigned'[w] =
                 IF w \in txn.workers THEN [id |-> txn.id, conn |-> txn.conn[w]] ELSE assigned[w]
           /\ \A d \in ledger' \ ledger :
                 \/ d.act = "finalize" /\ d.id = txn.id
                 \/ /\ d.act = "release" /\ d.node \in Workers \ txn.workers
                    /\ d.id = assigned[d.node].id /\ d.id # None
           /\ ledger \subseteq ledger'
<1>1. txn.id = t.id /\ txn.phase \in InProgress
  BY DEF Replaces, Publishable, InProgress
<1>2. txn.id \in Ids /\ txn.id \in Nat /\ next = txn.id + 1
  BY <1>1, TxnFacts DEF IInv, TxnSane
<1>3. next' = next /\ shown' = shown \cup {txn.id} /\ UNCHANGED <<host, conn, lost, wire, acks, wk>>
  BY <1>1 DEF Replaces, Publish
<1>4. plan'.id = txn.id /\ plan'.workers = txn.workers
  BY DEF Replaces
<1>5. txn'.phase \notin InProgress
  <2>1. txn'.phase = "ready"
    BY TxnFacts DEF Replaces, Txns, Phases
  <2> QED
    BY <2>1 DEF InProgress
<1>6. \A w \in Workers : assigned'[w] =
         IF w \in txn.workers THEN [id |-> txn.id, conn |-> txn.conn[w]] ELSE assigned[w]
  BY DEF Replaces
<1>7. \A n, i, a : Debt(n, i, a).node = n /\ Debt(n, i, a).id = i /\ Debt(n, i, a).act = a
  BY DEF Debt
<1>8. \A d \in ledger' \ ledger :
         \/ d.act = "finalize" /\ d.id = txn.id
         \/ /\ d.act = "release" /\ d.node \in Workers \ txn.workers
            /\ d.id = assigned[d.node].id /\ d.id # None
  BY <1>7 DEF Replaces
<1>9. todo' = todo \ {t}
  BY DEF Replaces, Instead
<1> QED
  BY <1>1, <1>2, <1>3, <1>4, <1>5, <1>6, <1>8, <1>9 DEF Replaces

\* The plan's place among the published ones, and the assignments.
LEMMA PlanLatestStep ==
    ASSUME IInv, PlanLatest, [Next]_vars
    PROVE  PlanLatest'
<1>0. Turns
  BY EveryTurn
<1>1. /\ next \in Nat /\ shown \in SUBSET Ids /\ Ids \subseteq Nat /\ None \notin Ids
      /\ assigned \in [Workers -> Assignments] /\ txn.id < next /\ txn.id \in Nat
  BY TxnFacts, IdsNat
<1>2. ASSUME NEW w \in Workers
      PROVE  /\ conn[w].gen <= conn'[w].gen /\ assigned[w].conn <= conn[w].gen
             /\ 0 <= conn'[w].gen /\ assigned[w].conn \in Nat
             /\ conn[w].gen \in Nat /\ conn'[w].gen \in Nat
  <2>1. IInv'
    BY NextStep
  <2>2. conn \in [Workers -> Conns] /\ conn' \in [Workers -> Conns]
    BY <2>1 DEF IInv, TypedNet
  <2> QED
    BY <2>2, <1>1, GenGrows DEF PlanLatest, Conns, Assignments
<1>3. Loosened => \A w \in Workers : /\ assigned'[w].id \in shown \cup {None}
                                     /\ assigned'[w].conn <= conn'[w].gen
  <2> SUFFICES ASSUME Loosened, NEW w \in Workers
               PROVE  /\ assigned'[w].id \in shown \cup {None}
                      /\ assigned'[w].conn <= conn'[w].gen
    OBVIOUS
  <2>1. CASE assigned'[w] = assigned[w]
    BY <2>1, <1>2 DEF PlanLatest
  <2>2. CASE assigned'[w] = NoAssignment
    BY <2>2, <1>2 DEF NoAssignment
  <2> QED
    BY <2>1, <2>2 DEF Loosened
<1>4. CASE Upholds
  BY <1>1, <1>3, <1>4 DEF Upholds, GoingOn, PlanLatest
<1>5. CASE Drops
  <2>1. plan'.id = None /\ plan'.workers = {}
    BY <1>5 DEF Drops, NoPlan
  <2> QED
    BY <1>1, <1>3, <1>5, <2>1 DEF Drops, GoingOn, PlanLatest
<1>6. ASSUME NEW W \in SUBSET Workers, Begin(W)
      PROVE  PlanLatest'
  <2>1. UNCHANGED <<plan, assigned, shown, conn>> /\ next' = next + 1
    BY <1>6 DEF Begin, Network
  <2>2. txn'.id = next
    BY <1>6 DEF Begin, NoTxn
  <2> QED
    BY <1>1, <1>3, <2>1, <2>2 DEF PlanLatest
<1>7. ASSUME NEW t \in todo, Replaces(t)
      PROVE  PlanLatest'
  <2>1. /\ txn.phase \in InProgress /\ txn.id \in Ids /\ next = txn.id + 1 /\ next' = next
        /\ shown' = shown \cup {txn.id} /\ conn' = conn
        /\ plan'.id = txn.id /\ txn'.phase \notin InProgress
        /\ \A w \in Workers : assigned'[w] =
              IF w \in txn.workers THEN [id |-> txn.id, conn |-> txn.conn[w]] ELSE assigned[w]
    BY <1>7, ReplacesFacts
  <2>2. \A i \in shown' : i <= txn.id /\ i < next
    <3>1. \A i \in shown : i \in Nat /\ i < next
      BY <1>1 DEF PlanLatest
    <3> QED
      BY <1>1, <2>1, <3>1
  <2>3. ASSUME NEW w \in Workers
        PROVE  assigned'[w].id \in shown' \cup {None} /\ assigned'[w].conn <= conn'[w].gen
    <3>1. conn'[w] = conn[w] /\ assigned[w].conn <= conn[w].gen /\ assigned[w].id \in shown \cup {None}
      BY <1>2, <2>1 DEF PlanLatest
    <3>2. w \in txn.workers => txn.conn[w] <= conn[w].gen
      BY <2>1 DEF IInv, Unharmed
    <3>3. CASE w \in txn.workers
      <4>1. assigned'[w] = [id |-> txn.id, conn |-> txn.conn[w]]
        BY <2>1, <3>3
      <4> QED
        BY <2>1, <3>1, <3>2, <3>3, <4>1
    <3>4. CASE w \notin txn.workers
      <4>1. assigned'[w] = assigned[w]
        BY <2>1, <3>4
      <4> QED
        BY <2>1, <3>1, <4>1
    <3> QED
      BY <3>3, <3>4
  <2> QED
    BY <1>1, <2>1, <2>2, <2>3 DEF PlanLatest
<1> QED
  BY <1>0, <1>4, <1>5, <1>6, <1>7 DEF Turns

\* Nobody is told to give up the plan.
LEMMA PlanSparedStep ==
    ASSUME IInv, PlanLatest, PlanSpared, [Next]_vars
    PROVE  PlanSpared'
<1>0. Turns
  BY EveryTurn
<1>1. /\ ledger \in SUBSET Debts /\ wire \subseteq Commands /\ Ids \subseteq Nat
      /\ \A d \in ledger \cup wire : d.id \in Nat
  BY TxnFacts, IdsNat DEF IInv, TypedNet, Debts, Commands
<1>2. \A m \in wire' \ wire : m \in ledger \/ m.act \notin {"abort", "release"}
  BY WireBy
<1>3. CASE Upholds
  <2>1. plan' = plan /\ \A d \in ledger' \ ledger : txn.phase \in InProgress /\ d \in AbortDebts(txn)
    BY <1>3 DEF Upholds
  <2>2. \A d \in AbortDebts(txn) : d.act = "abort" /\ d.id = txn.id
    BY DEF AbortDebts, Debt
  <2> QED
    BY <1>2, <2>1, <2>2 DEF PlanLatest, PlanSpared
<1>4. CASE Drops
  BY <1>4 DEF Drops, NoPlan, PlanSpared
<1>5. ASSUME NEW W \in SUBSET Workers, Begin(W)
      PROVE  PlanSpared'
  <2>1. UNCHANGED <<plan, ledger, wire>>
    BY <1>5 DEF Begin, Network
  <2> QED
    BY <2>1 DEF PlanSpared
<1>6. ASSUME NEW t \in todo, Replaces(t)
      PROVE  PlanSpared'
  <2>1. /\ txn.phase \in InProgress /\ txn.id \in Nat /\ next = txn.id + 1 /\ wire' = wire
        /\ plan'.id = txn.id
        /\ \A d \in ledger' \ ledger :
              \/ d.act = "finalize" /\ d.id = txn.id
              \/ /\ d.act = "release" /\ d.node \in Workers
                 /\ d.id = assigned[d.node].id /\ d.id # None
    BY <1>6, ReplacesFacts
  <2>2. \A d \in ledger : d.id # txn.id /\ d.id < txn.id
    BY <1>1, <2>1 DEF IInv, Unharmed, Dated
  <2>3. \A m \in wire : m.act \in {"abort", "release"} => m.id # txn.id /\ m.id < txn.id
    BY <1>1, <2>1 DEF IInv, Unharmed, DatedNet, Cleanups
  <2>4. \A w \in Workers : assigned[w].id # None => assigned[w].id < txn.id
    <3> SUFFICES ASSUME NEW w \in Workers, assigned[w].id # None
                 PROVE  assigned[w].id < txn.id
      OBVIOUS
    <3>1. assigned[w].id \in shown /\ txn.id \notin shown
      BY <2>1 DEF PlanLatest
    <3>2. assigned[w].id \in Nat /\ assigned[w].id < next
      BY <3>1, TxnFacts, <1>1 DEF PlanLatest
    <3> QED
      BY <2>1, <3>1, <3>2
  <2> QED
    BY <2>1, <2>2, <2>3, <2>4 DEF PlanSpared
<1> QED
  BY <1>0, <1>3, <1>4, <1>5, <1>6 DEF Turns

(***************************************************************************)
(* The master's own runtime.                                               *)
(***************************************************************************)
\* What each step that moves it leaves.
LEMMA BeginHost ==
    ASSUME host \in Hosts, IInv, NEW W \in SUBSET Workers, Begin(W)
    PROVE  /\ host' \in Hosts /\ host'.phase = "prepared" /\ host'.act = host.act
           /\ host.phase # "committed" /\ UNCHANGED <<plan, todo, shown>>
<1>1. next \in Ids
  BY DEF Begin
<1>2. host' = [host EXCEPT !.id = next, !.phase = "prepared", !.prev = None]
  BY DEF Begin
<1> QED
  BY <1>1, <1>2 DEF Begin, Network, Hosts, MaybeIds

LEMMA LocalHost ==
    ASSUME host \in Hosts, IInv, NEW d \in ledger, DispatchLocal(d)
    PROVE  /\ host' \in Hosts /\ host'.phase \in {"finalized", "aborted"}
           /\ d.act = "finalize" => host'.act = host.act
           /\ d.act # "finalize" =>
                 /\ ~Publishing
                 /\ host'.act = IF host.phase = "committed" THEN host.prev ELSE host.act
           /\ host.id = d.id /\ UNCHANGED <<plan, todo, shown, txn>>
<1> DEFINE act == IF host.phase = "committed" THEN host.prev ELSE host.act
<1>1. act \in MaybeIds
  BY DEF Hosts
<1>2. host.id = d.id /\ UNCHANGED <<plan, todo, shown, txn>>
  BY DEF DispatchLocal, Network
<1>3. CASE d.act = "finalize"
  <2>1. host' = [host EXCEPT !.phase = "finalized", !.prev = None]
    BY <1>3 DEF DispatchLocal
  <2> QED
    BY <1>2, <1>3, <2>1 DEF Hosts, MaybeIds
<1>4. CASE d.act # "finalize"
  <2>1. ~Publishing /\ host' = [host EXCEPT !.phase = "aborted", !.prev = None, !.act = act]
    BY <1>4 DEF DispatchLocal
  <2> HIDE DEF act
  <2>2. host' \in Hosts /\ host'.phase = "aborted" /\ host'.act = act
    BY <1>1, <2>1 DEF Hosts, MaybeIds
  <2> QED
    BY <1>2, <1>4, <2>1, <2>2 DEF act
<1> QED
  BY <1>3, <1>4

LEMMA NativeHost ==
    ASSUME host \in Hosts, IInv, NEW t \in todo, Materialize(t) \/ SwapLocal(t), host' # host
    PROVE  /\ host' \in Hosts /\ host.phase \in {"prepared", "materialized"}
           /\ UNCHANGED <<plan, shown, txn>>
           /\ \/ host'.phase \in {"materialized", "aborted"} /\ host'.act = host.act
              \/ /\ SwapLocal(t) /\ txn.id = t.id /\ txn.phase \in InProgress /\ ~Publishing
                 /\ host'.phase = "committed" /\ host'.id = t.id /\ host'.act = t.id
                 /\ host'.prev = host.act
<1>1. UNCHANGED <<plan, shown, txn>>
  BY DEF Materialize, SwapLocal, Network
<1>2. CASE Materialize(t)
  <2>1. /\ host.phase = "prepared"
        /\ host' \in {[host EXCEPT !.phase = "materialized"], [host EXCEPT !.phase = "aborted"]}
    BY <1>2 DEF Materialize
  <2> QED
    BY <1>1, <2>1 DEF Hosts
<1>3. CASE SwapLocal(t)
  <2>1. /\ host.id = t.id /\ host.phase = "materialized" /\ ~Publishing
        /\ txn.id = t.id /\ txn.phase = "committing_global"
        /\ host' = [host EXCEPT !.phase = "committed", !.act = t.id, !.prev = host.act]
    BY <1>3 DEF SwapLocal
  <2>2. host' \in Hosts /\ host'.phase = "committed" /\ host'.id = t.id /\ host'.act = t.id
        /\ host'.prev = host.act
    BY <2>1 DEF Hosts
  <2> QED
    BY <1>1, <1>3, <2>1, <2>2 DEF InProgress
<1> QED
  BY <1>2, <1>3

LEMMA LostHost ==
    ASSUME host \in Hosts, ModelChange \/ Crash
    PROVE  /\ host' \in Hosts /\ plan'.id = None
           /\ ~Publishing \/ todo' = {}
<1>1. CASE ModelChange
  BY <1>1 DEF ModelChange, Hosts, MaybeIds, Invalidated, NoPlan
<1>2. CASE Crash
  BY <1>2 DEF Crash, Hosts, MaybeIds, NoHost, NoPlan
<1> QED
  BY <1>1, <1>2

LEMMA HostTyped ==
    ASSUME IInv, host \in Hosts, [Next]_vars
    PROVE  host' \in Hosts
BY HostBy, BeginHost, LocalHost, NativeHost, LostHost

\* What is about to be published stays swapped in.
LEMMA SwappedStep ==
    ASSUME IInv, PlanLatest, host \in Hosts, Swapped, [Next]_vars
    PROVE  Swapped'
<1> SUFFICES ASSUME NEW t \in todo', t.do = "publish"
             PROVE  host'.id = t.id /\ host'.phase = "committed" /\ host'.act = t.id /\ t.id \notin shown'
  BY DEF Swapped
<1>1. CASE t \in todo
  <2>1. /\ host.id = t.id /\ host.phase = "committed" /\ host.act = t.id /\ t.id \notin shown
        /\ Publishing
    BY <1>1 DEF Swapped, Publishing
  <2>2. host' = host
    <3>1. \A W \in SUBSET Workers : ~Begin(W)
      BY <2>1, BeginHost
    <3>2. \A d \in ledger : ~DispatchLocal(d)
      BY <2>1, LocalHost DEF IInv, OnlyShown
    <3>3. \A u \in todo : Materialize(u) \/ SwapLocal(u) => host' = host
      BY <2>1, NativeHost
    <3>4. ~(ModelChange \/ Crash)
      BY <2>1, LostHost
    <3> QED
      BY <3>1, <3>2, <3>3, <3>4, HostBy
  <2>3. t.id \notin shown'
    <3>1. ASSUME NEW u \in todo, Publish(u)
          PROVE  t.id \notin shown'
      <4>1. \/ shown' = shown
            \/ shown' = shown \cup {u.id} /\ Instead(u, {}) /\ u.do = "publish"
        BY <3>1 DEF Publish
      <4>2. CASE shown' = shown \cup {u.id} /\ Instead(u, {}) /\ u.do = "publish"
        <5>1. t # u
          BY <4>2 DEF Instead
        <5>2. t \in Tasks /\ u \in Tasks
          BY <1>1, TxnFacts
        <5>3. t.id # u.id
          BY <4>2, <5>1, <5>2 DEF Tasks
        <5> QED
          BY <2>1, <4>2, <5>3
      <4> QED
        BY <2>1, <4>1, <4>2
    <3> QED
      BY <2>1, <3>1, ShownBy
  <2> QED
    BY <2>1, <2>2, <2>3
<1>2. CASE t \notin todo
  <2>1. PICK u \in todo : /\ SwapLocal(u) /\ txn.id = u.id /\ txn.phase = "committing_global"
                          /\ t.id = u.id
                          /\ host' = [host EXCEPT !.phase = "committed", !.act = u.id,
                                                  !.prev = host.act]
                          /\ host.id = u.id
    BY <1>2, PublishBy
  <2>2. shown' = shown /\ txn.id \notin shown
    BY <2>1 DEF SwapLocal, Network, PlanLatest, InProgress
  <2>3. host'.id = u.id /\ host'.phase = "committed" /\ host'.act = u.id
    BY <2>1 DEF Hosts
  <2> QED
    BY <2>1, <2>2, <2>3
<1> QED
  BY <1>1, <1>2

\* A candidate stays on trial as long as the runtime is left alone.
LEMMA TrialStands ==
    ASSUME IInv, OnTrial, Upholds, host' = host
    PROVE  OnTrial'
<1>1. /\ UNCHANGED <<plan, shown>> /\ txn'.id = txn.id
      /\ txn.phase \in InProgress /\ txn'.phase \notin InProgress => AbortDebts(txn) \subseteq ledger'
      /\ \A d \in ledger \ ledger' : Settles(d)
  BY DEF Upholds
<1> DEFINE d == Debt(Master, txn.id, "abort")
<1>2. d.node = Master /\ d.act = "abort" /\ d \in AbortDebts(txn)
  BY DEF Debt, AbortDebts
<1>3. d \in ledger => d \in ledger'
  <2> HIDE DEF d
  <2> SUFFICES ASSUME d \in ledger, DispatchLocal(d)
               PROVE  FALSE
    BY <1>1, <1>2 DEF Settles
  <2>1. host' = [host EXCEPT !.phase = "aborted", !.prev = None,
                             !.act = IF host.phase = "committed" THEN host.prev ELSE host.act]
    BY <1>2 DEF DispatchLocal
  <2> QED
    BY <2>1 DEF OnTrial
<1> QED
  BY <1>1, <1>2, <1>3 DEF OnTrial

\* The master runs the plan's segment, but for a candidate on trial.
LEMMA HostRunsStep ==
    ASSUME IInv, PlanInv, [Next]_vars
    PROVE  HostRuns'
<1> SUFFICES ASSUME plan'.id # None
             PROVE  /\ host'.phase = "committed" => host'.act = host'.id
                    /\ host'.act = plan'.id \/ OnTrial'
  BY DEF HostRuns
<1>0. PlanLatest /\ PlanSpared /\ host \in Hosts /\ Swapped /\ HostRuns
  BY DEF PlanInv
<1>1. ASSUME NEW W \in SUBSET Workers, Begin(W)
      PROVE  /\ host'.phase = "committed" => host'.act = host'.id
             /\ host'.act = plan'.id \/ OnTrial'
  <2>1. /\ host'.phase = "prepared" /\ host'.act = host.act /\ host.phase # "committed" /\ plan' = plan
    BY <1>0, <1>1, BeginHost
  <2> QED
    BY <1>0, <2>1 DEF HostRuns, OnTrial
<1>2. ASSUME NEW d \in ledger, DispatchLocal(d)
      PROVE  /\ host'.phase = "committed" => host'.act = host'.id
             /\ host'.act = plan'.id \/ OnTrial'
  <2>1. /\ host'.phase \in {"finalized", "aborted"} /\ plan' = plan /\ host.id = d.id
        /\ d.act = "finalize" => host'.act = host.act
        /\ d.act # "finalize" =>
              host'.act = IF host.phase = "committed" THEN host.prev ELSE host.act
    BY <1>0, <1>2, LocalHost
  <2>2. d.act \in Cleanups /\ d.id \in Nat
    BY TxnFacts, IdsNat DEF Debts
  <2>3. CASE d.act = "finalize"
    <3>1. d.id \in shown
      BY <2>3 DEF IInv, OnlyShown
    <3> QED
      BY <1>0, <2>1, <2>3, <3>1 DEF HostRuns, OnTrial
  <2>4. CASE d.act # "finalize"
    <3>1. d.id # plan.id
      BY <1>0, <2>1, <2>2, <2>4 DEF PlanSpared, Cleanups
    <3> QED
      BY <1>0, <2>1, <2>4, <3>1 DEF HostRuns, OnTrial
  <2> QED
    BY <2>3, <2>4
<1>3. ASSUME NEW t \in todo, Materialize(t) \/ SwapLocal(t), host' # host
      PROVE  /\ host'.phase = "committed" => host'.act = host'.id
             /\ host'.act = plan'.id \/ OnTrial'
  <2>1. /\ host.phase \in {"prepared", "materialized"} /\ UNCHANGED <<plan, shown, txn>>
        /\ \/ host'.phase \in {"materialized", "aborted"} /\ host'.act = host.act
           \/ /\ txn.id = t.id /\ txn.phase \in InProgress
              /\ host'.phase = "committed" /\ host'.id = t.id /\ host'.act = t.id
              /\ host'.prev = host.act
    BY <1>0, <1>3, NativeHost
  <2>2. host.act = plan.id
    BY <1>0, <2>1 DEF HostRuns, OnTrial
  <2> QED
    BY <1>0, <2>1, <2>2 DEF OnTrial, PlanLatest
<1>4. ~(ModelChange \/ Crash)
  BY <1>0, LostHost
<1>5. CASE host' = host
  <2>1. CASE Upholds
    <3>1. plan' = plan
      BY <2>1 DEF Upholds
    <3> QED
      BY <1>0, <1>5, <2>1, <3>1, TrialStands DEF HostRuns
  <2>2. ~Drops
    BY DEF Drops, NoPlan
  <2>3. ASSUME NEW t \in todo, Replaces(t)
        PROVE  /\ host'.phase = "committed" => host'.act = host'.id
               /\ host'.act = plan'.id \/ OnTrial'
    <3>1. txn.id = t.id /\ plan'.id = txn.id /\ t.do = "publish"
      BY <2>3, ReplacesFacts DEF Replaces, Publish
    <3> QED
      BY <1>0, <1>5, <3>1 DEF Swapped
  <2> QED
    BY <1>1, <2>1, <2>2, <2>3, EveryTurn DEF Turns
<1> QED
  BY <1>1, <1>2, <1>3, <1>4, <1>5, HostBy

LEMMA PlanInvStep ==
    ASSUME IInv, PlanInv, [Next]_vars
    PROVE  PlanInv'
BY PlanLatestStep, PlanSparedStep, HostTyped, SwappedStep, HostRunsStep DEF PlanInv

LEMMA PlanInvStart ==
    ASSUME Init
    PROVE  PlanInv
<1>1. NoHost \in Hosts /\ NoPlan.id = None /\ NoPlan.workers = {}
  BY DEF NoHost, Hosts, MaybeIds, NoPlan
<1>2. NoAssignment.id = None /\ NoAssignment.conn = 0
  BY DEF NoAssignment
<1>3. NoTxn.phase \notin InProgress
  BY DEF NoTxn, InProgress
<1>4. PlanLatest
  BY <1>1, <1>2, <1>3 DEF Init, PlanLatest
<1> QED
  BY <1>1, <1>4 DEF Init, PlanInv, PlanSpared, Swapped, HostRuns

\* The published plan, the assignments, and the master's own runtime agree as PlanInv says.
THEOREM PlanSound == Spec => []PlanInv
<1>1. Init => PlanInv
  BY PlanInvStart
<1>2. IInv /\ PlanInv /\ [Next]_vars => PlanInv'
  BY PlanInvStep
<1> QED
  BY <1>1, <1>2, Invariance, PTL DEF Spec

\* The master runs the segment of the plan it has published, whatever candidate was swapped
\* in meanwhile and given up, once it has no cleanup of its own to do.
THEOREM LocalRuns == Spec => []LocalServes
<1>1. PlanInv => LocalServes
  <2> SUFFICES ASSUME PlanInv, plan.id # None, \A d \in ledger : d.node # Master
               PROVE  host.act = plan.id \/ (txn.phase \in InProgress /\ host.id = txn.id)
    BY DEF LocalServes
  <2>1. Debt(Master, txn.id, "abort") \notin ledger
    BY DEF Debt
  <2> QED
    BY <2>1 DEF PlanInv, HostRuns, OnTrial
<1> QED
  BY <1>1, PlanSound, PTL

(***************************************************************************)
(* What a command does to the segments of a worker, outcome by outcome.    *)
(***************************************************************************)
\* A prepare replaces a candidate that is not in service, if anything.
LEMMA PrepareTo ==
    ASSUME NEW k \in WorkerStates, NEW i \in Ids, NEW r \in Prepare(k, i)
    PROVE  /\ r.k.act = k.act /\ r.k.prev = k.prev /\ r.k.pending = k.pending
           /\ r.k.latest \in {k.latest, i}
           /\ \/ r.k.cand = k.cand /\ r.k.phase = k.phase
              \/ /\ r.k.cand = i /\ k.pending = {} /\ k.phase # "committed"
                 /\ r.k.phase \in {"prepared", "failed"}
<1> DEFINE newer == [k EXCEPT !.latest = i, !.fenced = TRUE]
           seen == IF i > k.latest THEN newer ELSE k
           dropped == IF k.phase \in {"prepared", "failed"} THEN Some({k.cand}) ELSE {}
           retired == seen.retired \cup dropped
           fresh == [seen EXCEPT !.cand = i, !.retired = retired]
           loaded == [fresh EXCEPT !.phase = "prepared"]
           broken == [fresh EXCEPT !.phase = "failed"]
<1>1. \/ r \in {Answer(FALSE, seen), Answer(i \notin k.dead, seen)}
      \/ r \in {Answer(TRUE, loaded), Answer(FALSE, broken)} /\ k.pending = {} /\ k.phase # "committed"
  BY DEF Prepare
<1>2. /\ newer.act = k.act /\ newer.prev = k.prev /\ newer.pending = k.pending
      /\ newer.latest = i /\ newer.cand = k.cand /\ newer.phase = k.phase
      /\ newer \in WorkerStates
  BY DEF WorkerStates, MaybeIds
<1> HIDE DEF newer
<1>3. /\ seen.act = k.act /\ seen.prev = k.prev /\ seen.pending = k.pending
      /\ seen.latest \in {k.latest, i} /\ seen.cand = k.cand /\ seen.phase = k.phase
      /\ seen \in WorkerStates
  BY <1>2
<1> HIDE DEF seen, retired
<1>4. ASSUME NEW x \in {loaded, broken}
      PROVE  /\ x.act = k.act /\ x.prev = k.prev /\ x.pending = k.pending
             /\ x.latest \in {k.latest, i} /\ x.cand = i /\ x.phase \in {"prepared", "failed"}
  BY <1>3 DEF WorkerStates
<1> HIDE DEF loaded, broken
<1>5. CASE r \in {Answer(FALSE, seen), Answer(i \notin k.dead, seen)}
  <2>1. r = Answer(FALSE, seen) => r.k = seen
    BY AnswerFields
  <2>2. r = Answer(i \notin k.dead, seen) => r.k = seen
    BY AnswerFields
  <2> QED
    BY <1>3, <1>5, <2>1, <2>2
<1>6. CASE r \in {Answer(TRUE, loaded), Answer(FALSE, broken)} /\ k.pending = {} /\ k.phase # "committed"
  <2>1. r = Answer(TRUE, loaded) => r.k = loaded
    BY AnswerFields
  <2>2. r = Answer(FALSE, broken) => r.k = broken
    BY AnswerFields
  <2> QED
    BY <1>4, <1>6, <2>1, <2>2
<1> QED
  BY <1>1, <1>5, <1>6

\* A commit puts the latest candidate over the segment in service, if anything.
LEMMA CommitTo ==
    ASSUME NEW k \in WorkerStates, NEW i \in Ids, NEW r \in Commit(k, i)
    PROVE  \/ r.k = k
           \/ /\ k.cand = i /\ k.latest = i /\ k.phase = "prepared"
              /\ r.k.act = i /\ r.k.prev = k.act /\ r.k.cand = i /\ r.k.phase = "committed"
              /\ r.k.pending = k.pending /\ r.k.latest = k.latest
<1> DEFINE done == [k EXCEPT !.prev = k.act, !.act = i, !.phase = "committed", !.fenced = FALSE]
<1>1. \/ r \in {Answer(FALSE, k), Answer(i \notin k.dead, k)}
      \/ r = Answer(TRUE, done) /\ i = k.latest /\ k.cand = i /\ k.phase = "prepared"
  BY DEF Commit
<1>2. /\ done.cand = k.cand /\ done.act = i /\ done.prev = k.act /\ done.phase = "committed"
      /\ done.pending = k.pending /\ done.latest = k.latest
  BY DEF WorkerStates
<1> HIDE DEF done
<1>3. r = Answer(FALSE, k) => r.k = k
  BY AnswerFields
<1>4. r = Answer(i \notin k.dead, k) => r.k = k
  BY AnswerFields
<1>5. r = Answer(TRUE, done) => r.k = done
  BY AnswerFields
<1> QED
  BY <1>1, <1>2, <1>3, <1>4, <1>5

\* A cleanup does nothing, drops the identity, or settles the candidate: an abort goes back to
\* the previous segment, a finalize forgets it.
Forgets(k, i, k2) ==
    /\ k2.act = (IF k.act = i THEN None ELSE k.act) /\ k2.cand = (IF k.cand = i THEN None ELSE k.cand)
    /\ k2.phase = (IF k.cand = i THEN "released" ELSE k.phase)
    /\ k2.pending = k.pending \ {i} /\ k2.latest = k.latest
Reverts(k, i, k2) ==
    /\ k.cand = i /\ k2.act = (IF k.act = i THEN k.prev ELSE k.act) /\ k2.cand = None
    /\ k2.pending = k.pending /\ k2.latest = k.latest

LEMMA SettleTo ==
    ASSUME NEW k \in WorkerStates, NEW i \in Ids, NEW a \in Cleanups, NEW r, r = Settle(k, a, i)
    PROVE  \/ r.k = k
           \/ /\ Forgets(k, i, r.k)
              /\ \/ i \in k.pending \/ Held(k) = {} \/ (i = k.prev /\ i # k.cand)
                 \/ a = "release" /\ i \in {k.act, k.cand}
           \/ a = "abort" /\ Reverts(k, i, r.k)
           \/ /\ a = "finalize" /\ k.cand = i
              /\ r.k.act = k.act /\ r.k.cand = k.cand /\ r.k.pending = k.pending
              /\ r.k.latest = k.latest /\ r.k.phase = "finalized" /\ r.ok
<1> DEFINE left == Without(k, i)
           fenced == [left EXCEPT !.fenced = TRUE]
           act == IF k.act = i THEN k.prev ELSE k.act
           aborted == [k EXCEPT !.act = act, !.prev = None, !.cand = None, !.phase = "aborted",
                                !.fenced = act = None, !.retired = k.retired \cup {i}]
           final == [k EXCEPT !.prev = None, !.phase = "finalized",
                              !.retired = k.retired \cup Some({k.prev})]
<1>1. \/ r \in {Answer(TRUE, k), Answer(FALSE, k)}
      \/ /\ r = Answer(TRUE, left)
         /\ i \in k.pending \/ Held(k) = {} \/ (i = k.prev /\ i # k.cand)
      \/ r = Answer(TRUE, fenced) /\ a = "release" /\ i \in {k.act, k.cand}
      \/ r = Answer(TRUE, aborted) /\ a = "abort" /\ k.cand = i
      \/ r = Answer(TRUE, final) /\ a \notin {"release", "abort"} /\ k.cand = i
  BY DEF Settle
<1>2. \A x : Answer(TRUE, x).k = x /\ Answer(FALSE, x).k = x /\ Answer(TRUE, x).ok
  BY AnswerFields
<1>3. Forgets(k, i, left) /\ left.act \in MaybeIds
  <2> DEFINE cand == IF k.cand = i THEN None ELSE k.cand
             gone == IF k.act = i THEN None ELSE k.act
             prev == IF i \in {k.prev, k.act} THEN None ELSE k.prev
             pending == k.pending \ {i}
             retired == k.retired \cup {i} \cup (IF k.act = i THEN Some({k.prev}) ELSE {})
             phase == IF k.cand = i THEN "released" ELSE k.phase
  <2>1. left = [k EXCEPT !.act = gone, !.cand = cand, !.prev = prev, !.pending = pending,
                         !.retired = retired, !.phase = phase]
    BY DEF Without
  <2>2. /\ gone = (IF k.act = i THEN None ELSE k.act) /\ cand = (IF k.cand = i THEN None ELSE k.cand)
        /\ phase = (IF k.cand = i THEN "released" ELSE k.phase)
        /\ pending = k.pending \ {i} /\ gone \in MaybeIds
    BY DEF WorkerStates, MaybeIds
  <2> HIDE DEF gone, cand, prev, pending, retired, phase, left
  <2>3. left.act = gone /\ left.cand = cand /\ left.pending = pending /\ left.latest = k.latest
        /\ left.phase = phase
    BY <2>1 DEF WorkerStates
  <2> QED
    BY <2>2, <2>3 DEF Forgets
<1>4. Forgets(k, i, fenced)
  <2>1. /\ fenced.act = left.act /\ fenced.cand = left.cand /\ fenced.pending = left.pending
        /\ fenced.latest = left.latest /\ fenced.phase = left.phase
    BY DEF Without, WorkerStates
  <2> HIDE DEF left, fenced
  <2> QED
    BY <1>3, <2>1 DEF Forgets
<1>5. k.cand = i => Reverts(k, i, aborted)
  <2>1. act = (IF k.act = i THEN k.prev ELSE k.act)
    OBVIOUS
  <2> HIDE DEF act
  <2>2. /\ aborted.act = act /\ aborted.cand = None /\ aborted.pending = k.pending
        /\ aborted.latest = k.latest
    BY DEF WorkerStates
  <2> HIDE DEF aborted
  <2> QED
    BY <2>1, <2>2 DEF Reverts
<1>6. /\ final.act = k.act /\ final.cand = k.cand /\ final.pending = k.pending
      /\ final.latest = k.latest /\ final.phase = "finalized"
  BY DEF WorkerStates
<1> HIDE DEF left, fenced, aborted, final
<1>7. /\ r \in {Answer(TRUE, k), Answer(FALSE, k)} => r.k = k
      /\ r = Answer(TRUE, left) => r.k = left
      /\ r = Answer(TRUE, fenced) => r.k = fenced
      /\ r = Answer(TRUE, aborted) => r.k = aborted
      /\ r = Answer(TRUE, final) => r.k = final /\ r.ok
  BY <1>2
<1> QED
  BY <1>1, <1>3, <1>4, <1>5, <1>6, <1>7 DEF Cleanups

\* A worker that has retirements to do goes on running nothing, and sees nothing but commands.
LEMMA ClearedAnswer ==
    ASSUME NEW k \in WorkerStates, Sane(k), Cleared(k), NEW m \in Commands, NEW r \in Answers(k, m)
    PROVE  /\ Cleared(r.k) /\ r.k.latest \in {k.latest, m.id}
           /\ r.k.cand \in {k.cand, m.id, None}
<1>1. m.id \in Ids /\ m.id # None /\ m.act \in Acts
  BY IdsNat DEF Commands
<1>2. CASE m.act = "prepare"
  <2>1. r \in Prepare(k, m.id)
    BY <1>2 DEF Answers
  <2> QED
    BY <1>1, <2>1, PrepareTo DEF Cleared
<1>3. CASE m.act = "commit"
  <2>1. r \in Commit(k, m.id)
    BY <1>3 DEF Answers
  <2> QED
    BY <1>1, <2>1, CommitTo DEF Cleared
<1>4. CASE m.act \in Cleanups
  <2>1. r = Settle(k, m.act, m.id)
    BY <1>4 DEF Answers, Cleanups
  <2>2. \/ r.k = k \/ Forgets(k, m.id, r.k) \/ Reverts(k, m.id, r.k)
        \/ /\ k.cand = m.id /\ r.k.act = k.act /\ r.k.cand = k.cand /\ r.k.pending = k.pending
           /\ r.k.latest = k.latest
    BY <1>1, <1>4, <2>1, SettleTo
  <2> QED
    BY <1>1, <2>2 DEF Cleared, Forgets, Reverts
<1> QED
  BY <1>1, <1>2, <1>3, <1>4 DEF Acts

\* The segment p stays in service, or is kept as the previous one, whatever the worker is told
\* but to give up p itself, or to make final what is not its candidate.
Under(k, p) == k.prev = p /\ k.act > p /\ k.cand = k.act /\ k.phase = "committed"

LEMMA KeepsAnswer ==
    ASSUME NEW k \in WorkerStates, Sane(k), Cleared(k), NEW m \in Commands, NEW r \in Answers(k, m),
           NEW p \in Ids, k.act = p \/ Under(k, p),
           m.act = "abort" => m.id # p,
           m.act = "release" => m.id < p,
           m.act = "finalize" => m.id <= p,
           m.act = "finalize" /\ m.id = p => k.cand <= p
    PROVE  \/ r.k.act = p
           \/ Under(r.k, p) /\ r.k.act = k.act
           \/ /\ Under(r.k, p) /\ k.act = p /\ m.act = "commit" /\ r.k.act = m.id
              /\ m.id \in Held(k)
<1>1. /\ m.id \in Ids /\ m.id \in Nat /\ m.id # None /\ m.act \in Acts /\ p \in Nat /\ p # None
      /\ {k.latest, k.cand, k.act, k.prev} \subseteq Nat
  BY IdsNat DEF Commands, WorkerStates
<1>2. k.act # None /\ k.pending = {} /\ p \in Held(k)
  <2>1. k.act # None /\ p \in {k.act, k.prev}
    BY <1>1 DEF Under, None
  <2> QED
    BY <1>1, <2>1 DEF Cleared, Held, Some
<1>3. CASE m.act = "prepare"
  <2>1. r \in Prepare(k, m.id)
    BY <1>3 DEF Answers
  <2>2. /\ r.k.act = k.act /\ r.k.prev = k.prev
        /\ \/ r.k.cand = k.cand /\ r.k.phase = k.phase
           \/ r.k.cand = m.id /\ k.pending = {} /\ k.phase # "committed"
    BY <1>1, <2>1, PrepareTo
  <2> QED
    BY <2>2 DEF Under
<1>4. CASE m.act = "commit"
  <2>1. r \in Commit(k, m.id)
    BY <1>4 DEF Answers
  <2>2. \/ r.k = k
        \/ /\ k.cand = m.id /\ k.latest = m.id /\ k.phase = "prepared"
           /\ r.k.act = m.id /\ r.k.prev = k.act /\ r.k.cand = m.id /\ r.k.phase = "committed"
    BY <1>1, <2>1, CommitTo
  <2>3. k.cand = m.id /\ k.phase = "prepared" => m.id \in Held(k)
    BY <1>1 DEF Held, Some
  <2>4. k.cand = m.id /\ k.latest = m.id /\ k.phase = "prepared" => k.act = p /\ m.id > p
    BY <1>1, <1>2 DEF Sane, Under
  <2> QED
    BY <1>4, <2>2, <2>3, <2>4 DEF Under
<1>5. CASE m.act \in Cleanups
  <2>1. r = Settle(k, m.act, m.id)
    BY <1>5 DEF Answers, Cleanups
  <2>2. \/ r.k = k
        \/ /\ Forgets(k, m.id, r.k)
           /\ \/ m.id \in k.pending \/ Held(k) = {} \/ (m.id = k.prev /\ m.id # k.cand)
              \/ m.act = "release" /\ m.id \in {k.act, k.cand}
        \/ m.act = "abort" /\ Reverts(k, m.id, r.k)
        \/ m.act = "finalize" /\ k.cand = m.id /\ r.k.act = k.act
    BY <1>1, <1>5, <2>1, SettleTo
  <2>3. CASE k.act = p
    <3>1. Forgets(k, m.id, r.k) /\ m.id # p => r.k.act = p
      BY <2>3 DEF Forgets
    <3>2. m.id = p => m.act \notin {"abort", "release"} /\ m.id # k.prev
      BY <1>1, <2>3 DEF Sane
    <3>3. Reverts(k, m.id, r.k) /\ m.id # p => r.k.act = p
      BY <2>3 DEF Reverts
    <3> QED
      BY <1>2, <2>2, <2>3, <3>1, <3>2, <3>3
  <2>4. CASE Under(k, p)
    <3>1. m.act = "release" => m.id \notin {k.act, k.cand}
      BY <1>1, <2>4 DEF Under
    <3>2. m.act \in {"abort", "release"} => m.id # p
      BY <1>1
    <3>3. m.act = "finalize" => m.id < p /\ k.cand # m.id
      BY <1>1, <2>4 DEF Under
    <3>4. m.act = "abort" /\ Reverts(k, m.id, r.k) => r.k.act = p
      BY <2>4 DEF Under, Reverts
    <3> QED
      BY <1>1, <1>2, <1>5, <2>2, <2>4, <3>1, <3>2, <3>3, <3>4 DEF Under, Cleanups
  <2> QED
    BY <2>3, <2>4
<1> QED
  BY <1>1, <1>3, <1>4, <1>5 DEF Acts

\* The other things that happen to a worker.
LEMMA LossTo ==
    ASSUME NEW k \in WorkerStates
    PROVE  /\ Cleared(GivenUp(k)) /\ GivenUp(k).latest = None /\ GivenUp(k).cand = None
           /\ Cleared(Retired(k)) /\ Retired(k).latest = k.latest
           /\ Retired(k).act = k.act /\ Retired(k).prev = k.prev
           /\ Retired(k).cand = k.cand /\ Retired(k).phase = k.phase
<1> DEFINE held == Held(k)
           retired == k.retired \cup k.pending
<1>1. GivenUp(k) = [k EXCEPT !.pending = held, !.latest = None, !.cand = None, !.act = None,
                             !.prev = None, !.phase = "released", !.fenced = TRUE]
  BY DEF GivenUp
<1>2. Retired(k) = [k EXCEPT !.pending = {}, !.retired = retired]
  BY DEF Retired
<1> HIDE DEF held, retired
<1> DEFINE g == GivenUp(k)
           q == Retired(k)
<1>3. g.act = None /\ g.cand = None /\ g.latest = None
  BY <1>1 DEF WorkerStates
<1>4. /\ q.pending = {} /\ q.latest = k.latest /\ q.act = k.act /\ q.prev = k.prev
      /\ q.cand = k.cand /\ q.phase = k.phase
  BY <1>2 DEF WorkerStates
<1> HIDE DEF g, q
<1>5. Cleared(g) /\ Cleared(q)
  BY <1>3, <1>4 DEF Cleared
<1> QED
  BY <1>3, <1>4, <1>5 DEF g, q

LEMMA DeadTo ==
    ASSUME NEW k \in WorkerStates, NEW S \in SUBSET Ids, NEW k2, k2 = [k EXCEPT !.dead = S]
    PROVE  /\ k2.latest = k.latest /\ k2.act = k.act /\ k2.prev = k.prev /\ k2.cand = k.cand
           /\ k2.phase = k.phase /\ k2.pending = k.pending /\ k2.retired = k.retired
BY DEF WorkerStates

(***************************************************************************)
(* What a step does to one worker.                                         *)
(***************************************************************************)
LEMMA WorkBy ==
    ASSUME IInv, [Next]_vars, NEW w \in Workers
    PROVE  \/ wk'[w] = wk[w]
           \/ \E m \in wire : WorkerApplies(m) /\ m.node = w
           \/ wk'[w] = Retired(wk[w])
           \/ \E S \in SUBSET Ids : wk'[w] = [wk[w] EXCEPT !.dead = S]
           \/ wk'[w] = GivenUp(wk[w]) /\ (Cut(w) \/ Crash)
<1>0. wk \in [Workers -> WorkerStates]
  BY WorkerFacts
<1>1. UNCHANGED vars \/ (\E W \in SUBSET Workers : Begin(W)) => wk' = wk
  BY DEF vars, Begin, Network
<1>2. \A v \in Workers : \/ SendConfig(v) \/ Lose(v) \/ Register(v) \/ Replace(v)
         => wk' = wk
  BY DEF SendConfig, Lose, Register, Replace, Send
<1>3. (\E d \in ledger : Dispatch(d)) => wk' = wk
  BY DEF Dispatch, Send
<1>4. ASSUME NEW m \in wire, WorkerApplies(m)
      PROVE  wk'[w] = wk[w] \/ m.node = w
  BY <1>0, <1>4 DEF WorkerApplies
<1>5. ASSUME NEW v \in Workers, WorkerRetires(v)
      PROVE  wk'[w] = wk[w] \/ wk'[w] = Retired(wk[w])
  BY <1>0, <1>5 DEF WorkerRetires
<1>6. ASSUME NEW v \in Workers, Dies(v)
      PROVE  wk'[w] = wk[w] \/ \E S \in SUBSET Ids : wk'[w] = [wk[w] EXCEPT !.dead = S]
  <2> DEFINE S == wk[v].dead \cup {wk[v].act}
  <2>1. S \in SUBSET Ids
    BY <1>0, <1>6 DEF Dies, WorkerStates, MaybeIds
  <2>2. wk' = [wk EXCEPT ![v] = [wk[v] EXCEPT !.dead = S]]
    BY <1>6 DEF Dies
  <2> HIDE DEF S
  <2> QED
    BY <1>0, <2>1, <2>2
<1>7. ASSUME NEW v \in Workers, Cut(v)
      PROVE  wk'[w] = wk[w] \/ (wk'[w] = GivenUp(wk[w]) /\ Cut(w))
  BY <1>0, <1>7 DEF Cut
<1>8. Crash => wk'[w] = GivenUp(wk[w])
  BY DEF Crash
<1> QED
  BY <1>1, <1>2, <1>3, <1>4, <1>5, <1>6, <1>7, <1>8, TodoStep, OwnStep, CallbackStep DEF Next, Still

\* A command that is applied: what the worker answers, and what it leaves alone.
LEMMA Applied ==
    ASSUME IInv, NEW m \in wire, WorkerApplies(m)
    PROVE  /\ m \in Commands /\ m.node \in Workers /\ wire' = wire \ {m}
           /\ UNCHANGED <<txn, next, plan, assigned, ledger, conn, lost, shown>>
           /\ \A w \in Workers \ {m.node} : acks'[w] = acks[w]
           /\ \E r \in Answers(wk[m.node], m) :
                 /\ wk'[m.node] = r.k
                 /\ \A n \in DOMAIN acks'[m.node] :
                       \/ n \in DOMAIN acks[m.node] /\ acks'[m.node][n] = acks[m.node][n]
                       \/ /\ n = Len(acks[m.node]) + 1
                          /\ acks'[m.node][n] = [act |-> m.act, id |-> m.id, ok |-> r.ok]
<1>1. m \in Commands /\ m.node \in Workers
  BY DEF IInv, TypedNet, Commands
<1>2. /\ wk \in [Workers -> WorkerStates] /\ acks \in [Workers -> Seq(Acks)]
      /\ wk[m.node] \in WorkerStates /\ Sane(wk[m.node]) /\ acks[m.node] \in Seq(Acks)
  BY <1>1, WorkerFacts
<1>3. PICK r \in Answers(wk[m.node], m) :
         /\ wk' = [wk EXCEPT ![m.node] = r.k]
         /\ acks' = [acks EXCEPT ![m.node] =
                        Append(acks[m.node], [act |-> m.act, id |-> m.id, ok |-> r.ok])]
  BY DEF WorkerApplies
<1> DEFINE a == [act |-> m.act, id |-> m.id, ok |-> r.ok]
<1>4. a \in Acks
  BY <1>1, <1>2, AnswerKeeps DEF Commands, Acks, Respects
<1>5. /\ DOMAIN Append(acks[m.node], a) = 1..(Len(acks[m.node]) + 1)
      /\ DOMAIN acks[m.node] = 1..Len(acks[m.node]) /\ Len(acks[m.node]) \in Nat
      /\ Append(acks[m.node], a)[Len(acks[m.node]) + 1] = a
      /\ \A n \in 1..Len(acks[m.node]) : Append(acks[m.node], a)[n] = acks[m.node][n]
  <2> HIDE DEF a
  <2> QED
    BY <1>2, <1>4
<1>6. acks' = [acks EXCEPT ![m.node] = Append(acks[m.node], a)]
  BY <1>3
<1>7. /\ acks'[m.node] = Append(acks[m.node], a) /\ wk'[m.node] = r.k
      /\ \A w \in Workers \ {m.node} : acks'[w] = acks[w]
  BY <1>1, <1>2, <1>3, <1>6
<1>8. \A n \in DOMAIN acks'[m.node] :
         \/ n \in DOMAIN acks[m.node] /\ acks'[m.node][n] = acks[m.node][n]
         \/ n = Len(acks[m.node]) + 1 /\ acks'[m.node][n] = a
  <2> HIDE DEF a
  <2> QED
    BY <1>5, <1>7
<1>9. UNCHANGED <<txn, next, plan, assigned, ledger, conn, lost, shown>> /\ wire' = wire \ {m}
  BY DEF WorkerApplies, master
<1> QED
  BY <1>1, <1>7, <1>8, <1>9

\* The acknowledgements of a worker are read from the front, or cut off at the end.
Part(s, t) == \E o \in {0, 1} : \A n \in DOMAIN t : n + o \in DOMAIN s /\ t[n] = s[n + o]

\* What moves the acknowledgements of a worker.
LEMMA AcksMove ==
    ASSUME IInv, [Next]_vars, NEW w \in Workers
    PROVE  \/ acks'[w] = acks[w] \/ HandleAck(w) \/ Lose(w) \/ Replace(w) \/ Crash
           \/ \E m \in wire : WorkerApplies(m) /\ m.node = w
<1>1. acks \in [Workers -> Seq(Acks)]
  BY WorkerFacts
<1>2. \/ UNCHANGED vars
      \/ \E W \in SUBSET Workers : Begin(W)
      \/ \E v \in Workers : \/ SendConfig(v) \/ WorkerRetires(v) \/ Dies(v) \/ Cut(v) \/ Register(v)
                            \/ Disconnected(v) \/ DisconnectSaved(v)
      \/ \E d \in ledger : Dispatch(d)
      => acks' = acks
  BY DEF vars, Begin, Network, SendConfig, WorkerRetires, Dies, Cut, Register, Disconnected,
         DisconnectSaved, Dispatch, Send
<1>3. \/ Deadline \/ Cancel \/ ModelChange
      \/ \E d \in ledger : DispatchLocal(d)
      => acks' = acks
  BY DEF Deadline, Cancel, ModelChange, DispatchLocal, Network
<1>4. \A t \in todo : \/ CommitLocal(t) \/ Materialize(t) \/ CommitWorkers(t) \/ SwapLocal(t)
                      \/ Publish(t) \/ GiveUp(t) \/ Clear(t) \/ RetireRecovery(t)
         => acks' = acks
  BY DEF CommitLocal, Materialize, CommitWorkers, SwapLocal, Publish, GiveUp, Clear,
         RetireRecovery, Network
<1>5. ASSUME NEW m \in wire, WorkerApplies(m)
      PROVE  acks'[w] = acks[w] \/ m.node = w
  BY <1>5, Applied
<1>6. ASSUME NEW v \in Workers, HandleAck(v) \/ Lose(v) \/ Replace(v), v # w
      PROVE  acks'[w] = acks[w]
  BY <1>1, <1>6 DEF HandleAck, Lose, Replace, LastWord
<1> QED
  BY <1>2, <1>3, <1>4, <1>5, <1>6 DEF Next

LEMMA AcksBy ==
    ASSUME IInv, [Next]_vars, NEW w \in Workers
    PROVE  Part(acks[w], acks'[w]) \/ \E m \in wire : WorkerApplies(m) /\ m.node = w
<1>0. acks \in [Workers -> Seq(Acks)] /\ acks[w] \in Seq(Acks)
  BY WorkerFacts
<1>1. acks'[w] = acks[w] => Part(acks[w], acks'[w])
  <2> SUFFICES ASSUME acks'[w] = acks[w]
               PROVE  \A n \in DOMAIN acks'[w] : n + 0 \in DOMAIN acks[w] /\ acks'[w][n] = acks[w][n + 0]
    BY DEF Part
  <2>1. DOMAIN acks[w] \subseteq Nat
    BY <1>0
  <2> QED
    BY <2>1
<1>2. CASE HandleAck(w)
  <2>1. acks'[w] = Tail(acks[w]) /\ acks[w] # <<>>
    BY <1>0, <1>2 DEF HandleAck
  <2>2. Len(Tail(acks[w])) = Len(acks[w]) - 1 /\ Tail(acks[w]) \in Seq(Acks)
    BY <1>0, <2>1
  <2>3. \A n \in DOMAIN acks'[w] : n + 1 \in DOMAIN acks[w] /\ acks'[w][n] = acks[w][n + 1]
    BY <1>0, <2>1, <2>2
  <2> QED
    BY <2>3 DEF Part
<1>3. CASE Lose(w) \/ Replace(w)
  <2>1. PICK n \in {0, 1} :
           acks' = [acks EXCEPT ![w] = IF n < Len(acks[w]) THEN SubSeq(acks[w], 1, n) ELSE acks[w]]
    BY <1>3 DEF Lose, Replace, LastWord
  <2>2. CASE acks'[w] = acks[w]
    BY <1>1, <2>2
  <2>3. CASE acks'[w] # acks[w]
    <3>1. acks'[w] = SubSeq(acks[w], 1, n) /\ n < Len(acks[w]) /\ Len(acks[w]) \in Nat
          /\ DOMAIN acks[w] = 1..Len(acks[w])
      BY <1>0, <2>1, <2>3
    <3>2. acks'[w] = [k \in 1..n |-> acks[w][k]]
      BY <1>0, <3>1
    <3>3. \A k \in DOMAIN acks'[w] : k + 0 \in DOMAIN acks[w] /\ acks'[w][k] = acks[w][k + 0]
      BY <3>1, <3>2
    <3> QED
      BY <3>3 DEF Part
  <2> QED
    BY <2>2, <2>3
<1>4. Crash => Part(acks[w], acks'[w])
  BY DEF Crash, Part
<1> QED
  BY <1>1, <1>2, <1>3, <1>4, AcksMove

(***************************************************************************)
(* The published plan stays with the workers: one step for each part of    *)
(* KeptInv.                                                                *)
(***************************************************************************)
\* What a worker has given up stays given up.
LEMMA GivenStands ==
    ASSUME IInv, [Next]_vars, NEW w \in Workers, NEW i, Given(w, i)
    PROVE  Given(w, i)'
<1>1. wk[w] \in WorkerStates /\ Sane(wk[w])
  BY WorkerFacts
<1>2. i \in wk[w].retired /\ i \notin Held(wk[w])
  BY DEF Given
<1>3. SUFFICES i \in wk'[w].retired /\ i \notin Held(wk'[w])
  BY DEF Given
<1>4. CASE wk'[w] = wk[w]
  BY <1>2, <1>4
<1>5. ASSUME NEW m \in wire, WorkerApplies(m), m.node = w
      PROVE  i \in wk'[w].retired /\ i \notin Held(wk'[w])
  <2>1. PICK r \in Answers(wk[w], m) : wk'[w] = r.k
    BY <1>5, Applied
  <2>2. m \in Commands
    BY <1>5, Applied
  <2>3. /\ wk[w].retired \subseteq r.k.retired
        /\ Held(r.k) \subseteq Held(wk[w]) \cup (IF m.act = "prepare" THEN {m.id} \ wk[w].retired ELSE {})
    BY <1>1, <2>1, <2>2, AnswerKeeps DEF Respects
  <2> QED
    BY <1>2, <2>1, <2>3
<1>6. CASE wk'[w] = Retired(wk[w])
  BY <1>1, <1>2, <1>6, LossKeeps
<1>7. ASSUME NEW S \in SUBSET Ids, wk'[w] = [wk[w] EXCEPT !.dead = S]
      PROVE  i \in wk'[w].retired /\ i \notin Held(wk'[w])
  BY <1>1, <1>2, <1>7, DeadTo DEF Held
<1>8. CASE wk'[w] = GivenUp(wk[w])
  BY <1>1, <1>2, <1>8, LossKeeps
<1> QED
  BY <1>4, <1>5, <1>6, <1>7, <1>8, WorkBy

\* What was published stays so, and identities grow.
LEMMA ShownGrows ==
    ASSUME IInv, [Next]_vars
    PROVE  shown \subseteq shown' /\ next <= next' /\ next \in Nat
<1>1. next \in Nat
  BY TxnFacts
<1>2. CASE Upholds \/ Drops
  BY <1>1, <1>2 DEF Upholds, Drops
<1>3. CASE \E W \in SUBSET Workers : Begin(W)
  BY <1>1, <1>3 DEF Begin, Network
<1>4. CASE \E t \in todo : Replaces(t)
  BY <1>1, <1>4, ReplacesFacts
<1> QED
  BY <1>1, <1>2, <1>3, <1>4, EveryTurn DEF Turns

\* What a worker has answered for as cleaned up is gone for good.
LEMMA AckedGoneStep ==
    ASSUME IInv, AckedGone, [Next]_vars
    PROVE  AckedGone'
<1>1. SUFFICES ASSUME NEW w \in Workers, NEW n \in DOMAIN acks'[w], acks'[w][n].ok,
                      acks'[w][n].act \in Cleanups, NEW i, i = acks'[w][n].id, i \notin shown'
               PROVE  Given(w, i)'
  BY DEF AckedGone, Given
<1>2. i \notin shown
  BY <1>1, ShownGrows
<1>3. ASSUME NEW k \in DOMAIN acks[w], acks'[w][n] = acks[w][k]
      PROVE  Given(w, i)'
  <2>1. Given(w, i)
    BY <1>1, <1>2, <1>3 DEF AckedGone
  <2> QED
    BY <2>1, GivenStands
<1>4. CASE Part(acks[w], acks'[w])
  BY <1>3, <1>4 DEF Part
<1>5. ASSUME NEW m \in wire, WorkerApplies(m), m.node = w
      PROVE  Given(w, i)'
  <2>1. PICK r \in Answers(wk[w], m) :
              /\ wk'[w] = r.k
              /\ \A j \in DOMAIN acks'[w] :
                    \/ j \in DOMAIN acks[w] /\ acks'[w][j] = acks[w][j]
                    \/ /\ j = Len(acks[w]) + 1
                       /\ acks'[w][j] = [act |-> m.act, id |-> m.id, ok |-> r.ok]
    BY <1>5, Applied
  <2>2. CASE acks'[w][n] = [act |-> m.act, id |-> m.id, ok |-> r.ok]
    <3>1. r.ok /\ m.act \in Cleanups /\ m.id \notin shown /\ i = m.id
      BY <1>1, <1>2, <2>2
    <3>2. m.act # "finalize"
      BY <3>1 DEF IInv, OnlyShown
    <3>3. m.id \in r.k.retired \ Held(r.k)
      BY <1>5, <2>1, <3>1, <3>2, Applied, WorkerFacts, AnswerKeeps DEF Cleanups
    <3> QED
      BY <2>1, <3>1, <3>3 DEF Given
  <2> QED
    BY <1>3, <2>1, <2>2
<1> QED
  BY <1>4, <1>5, AcksBy

\* What is owed stays owed, unless the worker has given it up.
LEMMA OwedStands ==
    ASSUME IInv, AckedGone, Upholds \/ \E W \in SUBSET Workers : Begin(W),
           NEW w \in Workers, NEW i \in Ids \ shown, Owed(w, i)
    PROVE  Owed(w, i)' \/ Given(w, i)
<1>1. CASE \E W \in SUBSET Workers : Begin(W)
  BY <1>1 DEF Owed, Begin
<1>2. CASE Upholds
  <2>1. CASE txn.id = i /\ txn.phase \in InProgress /\ w \in txn.workers
    <3>1. CASE txn'.phase \in InProgress
      BY <1>2, <2>1, <3>1 DEF Upholds, GoingOn, Owed
    <3>2. CASE txn'.phase \notin InProgress
      <4>1. Debt(w, i, "abort") \in ledger'
        BY <1>2, <2>1, <3>2 DEF Upholds, AbortDebts
      <4>2. Debt(w, i, "abort").node = w /\ Debt(w, i, "abort").id = i
        BY DEF Debt
      <4> QED
        BY <4>1, <4>2 DEF Owed
    <3> QED
      BY <3>1, <3>2
  <2>2. ASSUME NEW d \in ledger, d.node = w, d.id = i
        PROVE  Owed(w, i)' \/ Given(w, i)
    <3>1. CASE d \in ledger'
      BY <2>2, <3>1 DEF Owed
    <3>2. CASE d \notin ledger'
      <4>1. Settles(d) /\ d.node # Master
        BY <1>2, <2>2, <3>2, PipelineLoadAssumption DEF Upholds
      <4>2. HandleAck(w) /\ Head(acks[w]).ok /\ d = Debt(w, Head(acks[w]).id, Head(acks[w]).act)
        BY <2>2, <4>1 DEF Settles
      <4>3. acks[w] \in Seq(Acks) /\ acks[w] # <<>>
        BY <4>2, WorkerFacts DEF HandleAck
      <4>4. 1 \in DOMAIN acks[w] /\ Head(acks[w]) = acks[w][1]
        BY <4>3
      <4>5. d.id = Head(acks[w]).id /\ d.act = Head(acks[w]).act
        BY <4>2 DEF Debt
      <4>6. d.act \in Cleanups
        BY <2>2, TxnFacts DEF Debts
      <4> QED
        BY <2>2, <4>2, <4>4, <4>5, <4>6 DEF AckedGone
    <3> QED
      BY <3>1, <3>2
  <2> QED
    BY <2>1, <2>2 DEF Owed
<1> QED
  BY <1>1, <1>2

\* While the plan stands, a worker is assigned to it on its connection if it was before.
LEMMA AssignedStands ==
    ASSUME IInv, PlanLatest, [Next]_vars, Loosened, plan' = plan, plan.id # None,
           NEW w \in Workers, Assigned(w)'
    PROVE  Assigned(w) /\ ~Cut(w) /\ ~Crash /\ conn'[w] = conn[w] /\ conn[w].up
<1>1. /\ conn'[w].up /\ lost'[w] # "cut"
      /\ assigned'[w] = [id |-> plan.id, conn |-> conn'[w].gen]
  BY DEF Assigned, Linked
<1>2. assigned'[w] = assigned[w]
  <2>1. assigned'[w].id # None /\ NoAssignment.id = None
    BY <1>1 DEF NoAssignment
  <2> QED
    BY <2>1 DEF Loosened
<1>3. assigned[w].conn = conn'[w].gen
  BY <1>1, <1>2
<1>4. conn'[w].gen <= conn[w].gen /\ conn[w].gen \in Nat
  BY <1>3, WorkerFacts DEF PlanLatest
<1>5. conn'[w] = conn[w] /\ lost[w] # "cut"
  BY <1>1, <1>4, ConnBy
<1>6. Assigned(w)
  BY <1>1, <1>2, <1>5 DEF Assigned, Linked
<1>7. ~Cut(w)
  <2>1. Cut(w) => lost'[w] = "cut"
    BY WorkerFacts DEF Cut
  <2> QED
    BY <1>1, <2>1
<1>8. ~Crash
  <2>1. Crash => ~conn'[w].up
    BY DEF Crash
  <2> QED
    BY <1>1, <2>1
<1> QED
  BY <1>1, <1>5, <1>6, <1>7, <1>8

\* Workers that have retirements to do run nothing.
LEMMA WorkersClearStep ==
    ASSUME IInv, WorkersClear, [Next]_vars
    PROVE  WorkersClear'
<1>1. SUFFICES ASSUME NEW w \in Workers
               PROVE  Cleared(wk'[w]) /\ wk'[w].latest < next'
  BY DEF WorkersClear, Cleared
<1>2. /\ wk[w] \in WorkerStates /\ Sane(wk[w]) /\ Cleared(wk[w]) /\ wk[w].latest < next
      /\ wk[w].latest \in Nat /\ next \in Nat /\ next' \in Nat /\ next <= next' /\ 0 < next
  <2>1. wk[w].latest \in MaybeIds
    BY WorkerFacts DEF WorkerStates
  <2>2. next \in 1..(MaxTxn + 1) /\ next' \in 1..(MaxTxn + 1)
    BY NextStep DEF IInv, TypedMaster
  <2> QED
    <3>1. wk[w] \in WorkerStates /\ Sane(wk[w]) /\ Cleared(wk[w]) /\ wk[w].latest < next
      BY WorkerFacts DEF WorkersClear
    <3>2. wk[w].latest \in Nat
      BY <2>1, IdsNat
    <3>3. next \in Nat /\ next' \in Nat /\ 0 < next
      BY <2>2, PipelineLoadAssumption
    <3> QED
      BY <3>1, <3>2, <3>3, ShownGrows
<1>3. CASE wk'[w] = wk[w]
  BY <1>2, <1>3
<1>4. ASSUME NEW m \in wire, WorkerApplies(m), m.node = w
      PROVE  Cleared(wk'[w]) /\ wk'[w].latest < next'
  <2>1. PICK r \in Answers(wk[w], m) : wk'[w] = r.k
    BY <1>4, Applied
  <2>2. m \in Commands /\ m.id < next /\ m.id \in Nat
    BY <1>4, Applied, IdsNat DEF IInv, DatedNet, Commands
  <2>3. Cleared(r.k) /\ r.k.latest \in {wk[w].latest, m.id}
    BY <1>2, <2>1, <2>2, ClearedAnswer
  <2> QED
    BY <1>2, <2>1, <2>2, <2>3
<1>5. CASE wk'[w] = Retired(wk[w])
  BY <1>2, <1>5, LossTo
<1>6. ASSUME NEW S \in SUBSET Ids, wk'[w] = [wk[w] EXCEPT !.dead = S]
      PROVE  Cleared(wk'[w]) /\ wk'[w].latest < next'
  BY <1>2, <1>6, DeadTo DEF Cleared
<1>7. CASE wk'[w] = GivenUp(wk[w])
  BY <1>2, <1>7, LossTo DEF None
<1> QED
  BY <1>3, <1>4, <1>5, <1>6, <1>7, WorkBy

\* A finalize is under way once, since it is not sent again meanwhile.
LEMMA FinalOnceStep ==
    ASSUME IInv, FinalOnce, [Next]_vars, ~Resends
    PROVE  FinalOnce'
<1>1. ASSUME NEW m \in wire', m.act = "finalize"
      PROVE  m \in ledger' /\ \A n \in DOMAIN acks'[m.node] : ~Finalized(acks'[m.node][n], m.id)
  <2>1. m \in Commands /\ m.node \in Workers
    BY NextStep DEF IInv, TypedNet, Commands
  <2>2. CASE m \notin wire
    <3>1. PICK d \in ledger : Dispatch(d) /\ m = d
      BY <1>1, <2>2, WireBy
    <3>2. ~InFlight(m) /\ UNCHANGED <<ledger, acks>>
      BY <1>1, <3>1 DEF Resends, Dispatch, Send, master
    <3> QED
      BY <1>1, <3>1, <3>2 DEF InFlight, Finalized
  <2>3. CASE m \in wire
    <3>1. m \in ledger /\ \A n \in DOMAIN acks[m.node] : ~Finalized(acks[m.node][n], m.id)
      BY <1>1, <2>3 DEF FinalOnce
    <3>2. m \in ledger'
      <4>1. ~Settles(m)
        <5> SUFFICES ASSUME Settles(m)
                     PROVE  FALSE
          OBVIOUS
        <5>1. HandleAck(m.node) /\ m = Debt(m.node, Head(acks[m.node]).id, Head(acks[m.node]).act)
          BY <2>1, PipelineLoadAssumption DEF Settles
        <5>2. acks[m.node] \in Seq(Acks) /\ acks[m.node] # <<>>
          BY <2>1, <5>1, WorkerFacts DEF HandleAck
        <5>3. 1 \in DOMAIN acks[m.node] /\ Head(acks[m.node]) = acks[m.node][1]
          BY <5>2
        <5>4. m.id = Head(acks[m.node]).id /\ m.act = Head(acks[m.node]).act
          BY <5>1 DEF Debt
        <5> QED
          BY <1>1, <3>1, <5>3, <5>4 DEF Finalized
      <4>2. CASE Upholds
        BY <3>1, <4>1, <4>2 DEF Upholds
      <4>3. CASE Drops
        BY <1>1, <3>1, <4>3 DEF Drops
      <4>4. CASE \E W \in SUBSET Workers : Begin(W)
        BY <3>1, <4>4 DEF Begin
      <4>5. CASE \E t \in todo : Replaces(t)
        BY <3>1, <4>5, ReplacesFacts
      <4> QED
        BY <4>2, <4>3, <4>4, <4>5, EveryTurn DEF Turns
    <3>3. ASSUME NEW n \in DOMAIN acks'[m.node]
          PROVE  ~Finalized(acks'[m.node][n], m.id)
      <4>1. CASE Part(acks[m.node], acks'[m.node])
        BY <3>1, <4>1 DEF Part
      <4>2. ASSUME NEW c \in wire, WorkerApplies(c), c.node = m.node
            PROVE  ~Finalized(acks'[m.node][n], m.id)
        <5>1. c \in Commands /\ c # m
          BY <1>1, <4>2, Applied
        <5>2. ~(c.act = m.act /\ c.id = m.id)
          BY <2>1, <4>2, <5>1 DEF Commands
        <5>3. PICK r \in Answers(wk[m.node], c) : \A j \in DOMAIN acks'[m.node] :
                 \/ j \in DOMAIN acks[m.node] /\ acks'[m.node][j] = acks[m.node][j]
                 \/ /\ j = Len(acks[m.node]) + 1
                    /\ acks'[m.node][j] = [act |-> c.act, id |-> c.id, ok |-> r.ok]
          BY <4>2, Applied
        <5> QED
          BY <1>1, <3>1, <5>2, <5>3 DEF Finalized
      <4> QED
        BY <2>1, <4>1, <4>2, AcksBy
    <3> QED
      BY <3>2, <3>3
  <2> QED
    BY <2>2, <2>3
<1>2. ASSUME NEW w \in Workers, NEW n \in DOMAIN acks'[w], NEW k \in DOMAIN acks'[w],
             Finalized(acks'[w][n], acks'[w][n].id), Finalized(acks'[w][k], acks'[w][n].id)
      PROVE  n = k
  <2>1. \A i, j \in DOMAIN acks[w] :
           Finalized(acks[w][i], acks[w][i].id) /\ Finalized(acks[w][j], acks[w][i].id) => i = j
    BY DEF FinalOnce
  <2>2. CASE Part(acks[w], acks'[w])
    <3>1. PICK o \in {0, 1} : \A i \in DOMAIN acks'[w] :
                                 i + o \in DOMAIN acks[w] /\ acks'[w][i] = acks[w][i + o]
      BY <2>2 DEF Part
    <3>2. n + o = k + o
      BY <1>2, <2>1, <3>1
    <3>3. n \in Nat /\ k \in Nat
      BY NextStep, WorkerFacts DEF IInv, TypedNet
    <3> QED
      BY <3>2, <3>3
  <2>3. ASSUME NEW m \in wire, WorkerApplies(m), m.node = w
        PROVE  n = k
    <3>1. PICK r \in Answers(wk[w], m) : \A i \in DOMAIN acks'[w] :
             \/ i \in DOMAIN acks[w] /\ acks'[w][i] = acks[w][i]
             \/ /\ i = Len(acks[w]) + 1
                /\ acks'[w][i] = [act |-> m.act, id |-> m.id, ok |-> r.ok]
      BY <2>3, Applied
    <3>2. m.act = "finalize" => \A i \in DOMAIN acks[w] : ~Finalized(acks[w][i], m.id)
      BY <2>3 DEF FinalOnce
    <3>3. CASE n \in DOMAIN acks[w] /\ acks'[w][n] = acks[w][n]
      <4>1. CASE k \in DOMAIN acks[w] /\ acks'[w][k] = acks[w][k]
        BY <1>2, <2>1, <3>3, <4>1
      <4>2. CASE acks'[w][k] = [act |-> m.act, id |-> m.id, ok |-> r.ok]
        BY <1>2, <3>2, <3>3, <4>2 DEF Finalized
      <4> QED
        BY <3>1, <4>1, <4>2
    <3>4. CASE n = Len(acks[w]) + 1 /\ acks'[w][n] = [act |-> m.act, id |-> m.id, ok |-> r.ok]
      <4>1. CASE k \in DOMAIN acks[w] /\ acks'[w][k] = acks[w][k]
        BY <1>2, <3>2, <3>4, <4>1 DEF Finalized
      <4>2. CASE k = Len(acks[w]) + 1
        BY <3>4, <4>2
      <4> QED
        BY <3>1, <4>1, <4>2
    <3> QED
      BY <3>1, <3>3, <3>4
  <2> QED
    BY <2>2, <2>3, AcksBy
<1> QED
  BY <1>1, <1>2 DEF FinalOnce, Finalized

\* Only a finalize makes a segment final.
LEMMA FinalShownAnswer ==
    ASSUME NEW k \in WorkerStates, NEW m \in Commands, NEW r \in Answers(k, m),
           r.k.phase = "finalized", r.k.cand # None
    PROVE  \/ k.phase = "finalized" /\ r.k.cand = k.cand
           \/ m.act = "finalize" /\ r.k.cand = m.id
<1>0. m.id \in Ids /\ m.act \in Acts
  BY DEF Commands
<1>1. CASE m.act = "prepare"
  <2>1. r \in Prepare(k, m.id)
    BY <1>1 DEF Answers
  <2> QED
    BY <1>0, <2>1, PrepareTo
<1>2. CASE m.act = "commit"
  <2>1. r \in Commit(k, m.id)
    BY <1>2 DEF Answers
  <2> QED
    BY <1>0, <2>1, CommitTo
<1>3. CASE m.act \in Cleanups
  <2>1. r = Settle(k, m.act, m.id)
    BY <1>3 DEF Answers, Cleanups
  <2> QED
    BY <1>0, <1>3, <2>1, SettleTo DEF Forgets, Reverts
<1> QED
  BY <1>0, <1>1, <1>2, <1>3 DEF Acts

\* Until then the segment stays on top, whatever later candidate is announced.
LEMMA OnTopAnswer ==
    ASSUME NEW k \in WorkerStates, Sane(k), Cleared(k), NEW m \in Commands, NEW r \in Answers(k, m),
           NEW p \in Ids, OnTop(k, p),
           m.act = "abort" => m.id # p,
           m.act = "release" => m.id < p
    PROVE  OnTop(r.k, p) \/ (m.act = "finalize" /\ m.id = p /\ r.ok)
<1>0. m.id \in Ids /\ m.act \in Acts /\ m.id \in Nat /\ p \in Nat /\ p # None
  BY IdsNat DEF Commands
<1>1. CASE m.act = "prepare"
  <2>1. r \in Prepare(k, m.id)
    BY <1>1 DEF Answers
  <2> QED
    BY <1>0, <2>1, PrepareTo DEF OnTop
<1>2. CASE m.act = "commit"
  <2>1. r \in Commit(k, m.id)
    BY <1>2 DEF Answers
  <2> QED
    BY <1>0, <2>1, CommitTo DEF OnTop
<1>3. CASE m.act \in Cleanups
  <2>1. r = Settle(k, m.act, m.id)
    BY <1>3 DEF Answers, Cleanups
  <2>2. k.pending = {} /\ p \in Held(k)
    BY <1>0 DEF Cleared, OnTop, Held, Some
  <2>3. \/ r.k = k
        \/ /\ Forgets(k, m.id, r.k)
           /\ (m.id = k.prev /\ m.id # k.cand) \/ m.act = "release"
        \/ m.act = "abort" /\ Reverts(k, m.id, r.k)
        \/ m.act = "finalize" /\ k.cand = m.id /\ r.ok
    BY <1>0, <1>3, <2>1, <2>2, SettleTo
  <2>4. Forgets(k, m.id, r.k) /\ m.id # p => OnTop(r.k, p)
    BY DEF Forgets, OnTop
  <2>5. ~(m.act = "abort" /\ Reverts(k, m.id, r.k))
    BY DEF Reverts, OnTop
  <2> QED
    BY <1>0, <2>3, <2>4, <2>5 DEF OnTop
<1> QED
  BY <1>0, <1>1, <1>2, <1>3 DEF Acts

LEMMA FinalShownStep ==
    ASSUME IInv, FinalShown, [Next]_vars
    PROVE  FinalShown'
<1>1. SUFFICES ASSUME NEW w \in Workers, wk'[w].phase = "finalized", wk'[w].cand # None
               PROVE  wk'[w].cand \in shown
  BY ShownGrows DEF FinalShown
<1>2. wk[w] \in WorkerStates /\ Sane(wk[w])
  BY WorkerFacts
<1>3. CASE wk'[w] = wk[w]
  BY <1>1, <1>3 DEF FinalShown
<1>4. ASSUME NEW m \in wire, WorkerApplies(m), m.node = w
      PROVE  wk'[w].cand \in shown
  <2>1. PICK r \in Answers(wk[w], m) : wk'[w] = r.k
    BY <1>4, Applied
  <2>2. m \in Commands
    BY <1>4, Applied
  <2>3. \/ wk[w].phase = "finalized" /\ r.k.cand = wk[w].cand
        \/ m.act = "finalize" /\ r.k.cand = m.id
    BY <1>1, <1>2, <2>1, <2>2, FinalShownAnswer
  <2> QED
    BY <1>1, <2>1, <2>3 DEF FinalShown, IInv, OnlyShown
<1>5. CASE wk'[w] = Retired(wk[w])
  BY <1>1, <1>2, <1>5, LossTo DEF FinalShown
<1>6. ASSUME NEW S \in SUBSET Ids, wk'[w] = [wk[w] EXCEPT !.dead = S]
      PROVE  wk'[w].cand \in shown
  BY <1>1, <1>2, <1>6, DeadTo DEF FinalShown
<1>7. CASE wk'[w] = GivenUp(wk[w])
  BY <1>1, <1>2, <1>7, LossTo
<1> QED
  BY <1>3, <1>4, <1>5, <1>6, <1>7, WorkBy

\* The answer to a command that is applied comes last.
LEMMA Answered ==
    ASSUME IInv, NEW m \in wire, WorkerApplies(m)
    PROVE  \E r \in Answers(wk[m.node], m) :
              /\ wk'[m.node] = r.k
              /\ acks'[m.node] = Append(acks[m.node], [act |-> m.act, id |-> m.id, ok |-> r.ok])
<1>1. m.node \in Workers
  BY Applied
<1> QED
  BY <1>1, WorkerFacts DEF WorkerApplies

\* What is published was put on top of every worker that serves it, and is not final yet.
LEMMA PublishedOnTop ==
    ASSUME IInv, PlanLatest, WorkersClear, FinalShown, NEW t \in todo, Replaces(t),
           NEW w \in txn.workers, Assigned(w)'
    PROVE  OnTop(wk[w], txn.id) /\ wk' = wk /\ plan'.id = txn.id
<1>1. /\ txn.phase \in InProgress /\ plan'.id = txn.id /\ w \in Workers
      /\ UNCHANGED <<conn, lost, wk>> /\ txn.id \in Ids /\ txn.id \in Nat /\ next = txn.id + 1
  BY ReplacesFacts, TxnFacts DEF Txns
<1>2. assigned'[w] = [id |-> txn.id, conn |-> txn.conn[w]]
  BY <1>1, ReplacesFacts
<1>3. conn'[w].up /\ lost'[w] # "cut" /\ txn.conn[w] = conn'[w].gen
  BY <1>2 DEF Assigned, Linked
<1>4. Attached(w)
  BY <1>1, <1>3 DEF Attached
<1>5. w \in txn.ready
  BY DEF Replaces, Publishable
<1>6. wk[w].act = txn.id
  BY <1>1, <1>4, <1>5 DEF IInv, Serving
<1>7. /\ wk[w] \in WorkerStates /\ Sane(wk[w]) /\ wk[w].latest \in Nat /\ wk[w].latest < next
  BY <1>1, WorkerFacts, IdsNat DEF WorkersClear, WorkerStates
<1>8. wk[w].cand = txn.id
  BY <1>1, <1>6, <1>7, IdsNat DEF Sane
<1>9. wk[w].phase = "committed"
  BY <1>1, <1>6, <1>7, <1>8, IdsNat DEF Sane, FinalShown, PlanLatest
<1> QED
  BY <1>1, <1>6, <1>8, <1>9 DEF OnTop

\* Good news of a segment made final reaches the master, which settles the debt, as long as the
\* connection lasts.
LEMMA NewsKept ==
    ASSUME IInv, [Next]_vars, NEW w \in Workers, ~Crash, conn'[w] = conn[w], conn[w].up,
           NEW i, Final(w, i) \in ledger', NEW n \in DOMAIN acks[w],
           Finalized(acks[w][n], i), acks[w][n].ok
    PROVE  \E k \in DOMAIN acks'[w] : Finalized(acks'[w][k], i) /\ acks'[w][k].ok
<1>0. acks \in [Workers -> Seq(Acks)] /\ acks[w] \in Seq(Acks) /\ conn \in [Workers -> Conns]
  BY WorkerFacts
<1>1. CASE acks'[w] = acks[w]
  BY <1>1
<1>2. CASE HandleAck(w)
  <2>1. acks'[w] = Tail(acks[w]) /\ acks[w] # <<>>
    BY <1>0, <1>2 DEF HandleAck
  <2>2. CASE n = 1
    <3>1. Head(acks[w]) = acks[w][1] /\ acks[w][1].act = "finalize" /\ acks[w][1].id = i
      BY <1>0, <2>1, <2>2 DEF Finalized
    <3>2. CleanupAcked(w, acks[w][1])
      BY <1>2, <3>1 DEF HandleAck, Cleanups
    <3>3. Final(w, i) \notin ledger'
      BY <2>2, <3>1, <3>2 DEF CleanupAcked, Final
    <3> QED
      BY <3>3
  <2>3. CASE n # 1
    <3>1. n - 1 \in DOMAIN acks'[w] /\ acks'[w][n - 1] = acks[w][n]
      BY <1>0, <2>1, <2>3
    <3> QED
      BY <3>1
  <2> QED
    BY <2>2, <2>3
<1>3. ~Lose(w) /\ ~Replace(w)
  <2>1. Lose(w) => ~conn'[w].up
    BY <1>0 DEF Lose
  <2>2. Replace(w) => conn'[w].gen = conn[w].gen + 1
    BY <1>0 DEF Replace
  <2> QED
    BY <2>1, <2>2, WorkerFacts
<1>4. ASSUME NEW m \in wire, WorkerApplies(m), m.node = w
      PROVE  \E k \in DOMAIN acks'[w] : Finalized(acks'[w][k], i) /\ acks'[w][k].ok
  <2>1. \E a : acks'[w] = Append(acks[w], a)
    BY <1>4, Answered
  <2>2. n \in DOMAIN acks'[w] /\ acks'[w][n] = acks[w][n]
    BY <1>0, <2>1
  <2> QED
    BY <2>2
<1> QED
  BY <1>1, <1>2, <1>3, <1>4, AcksMove

\* The plan's segment stays on top until the master hears that it is final.
LEMMA FinalHeldStep ==
    ASSUME IInv, PlanLatest, PlanSpared, WorkersClear, FinalShown, FinalHeld, [Next]_vars
    PROVE  FinalHeld'
<1>1. SUFFICES ASSUME NEW w \in Workers, plan'.id # None, Assigned(w)',
                      Final(w, plan'.id) \in ledger'
               PROVE  \/ OnTop(wk'[w], plan'.id)
                      \/ \E n \in DOMAIN acks'[w] :
                            Finalized(acks'[w][n], plan'.id) /\ acks'[w][n].ok
  BY DEF FinalHeld, Final, OnTop, Finalized
<1>2. CASE Drops
  BY <1>1, <1>2 DEF Drops, NoPlan
<1>3. ASSUME NEW t \in todo, Replaces(t)
      PROVE  OnTop(wk'[w], plan'.id)
  <2>1. w \in txn.workers
    <3>1. plan'.id = txn.id /\ txn.phase \in InProgress
      BY <1>3, ReplacesFacts
    <3>2. assigned'[w].id = txn.id
      BY <1>1, <3>1 DEF Assigned
    <3>3. assigned[w].id # txn.id
      BY <1>1, <3>1 DEF PlanLatest
    <3> QED
      BY <1>3, <3>2, <3>3, ReplacesFacts
  <2> QED
    BY <1>1, <1>3, <2>1, PublishedOnTop
<1>4. CASE Upholds \/ \E W \in SUBSET Workers : Begin(W)
  <2>1. plan' = plan /\ Loosened /\ plan.id # None
    BY <1>1, <1>4, LoosenedSame DEF Upholds, Begin
  <2>2. Assigned(w) /\ ~Cut(w) /\ ~Crash /\ conn'[w] = conn[w] /\ conn[w].up
    BY <1>1, <2>1, AssignedStands
  <2>3. Final(w, plan.id) \in ledger
    <3>1. \A d \in AbortDebts(txn) : d.act = "abort"
      BY DEF AbortDebts, Debt
    <3>2. Final(w, plan.id).act = "finalize"
      BY DEF Final, Debt
    <3> QED
      BY <1>1, <1>4, <2>1, <3>1, <3>2 DEF Upholds, Begin
  <2>4. CASE \E n \in DOMAIN acks[w] : Finalized(acks[w][n], plan.id) /\ acks[w][n].ok
    BY <1>1, <2>1, <2>2, <2>4, NewsKept
  <2>5. CASE OnTop(wk[w], plan.id)
    <3>1. wk[w] \in WorkerStates /\ Sane(wk[w]) /\ Cleared(wk[w]) /\ plan.id \in Ids
      BY <2>1, WorkerFacts, TxnFacts DEF WorkersClear, Plans, MaybeIds
    <3>2. CASE wk'[w] = wk[w]
      BY <2>1, <2>5, <3>2
    <3>3. ASSUME NEW m \in wire, WorkerApplies(m), m.node = w
          PROVE  \/ OnTop(wk'[w], plan'.id)
                 \/ \E n \in DOMAIN acks'[w] :
                       Finalized(acks'[w][n], plan'.id) /\ acks'[w][n].ok
      <4>1. PICK r \in Answers(wk[w], m) :
               /\ wk'[w] = r.k
               /\ acks'[w] = Append(acks[w], [act |-> m.act, id |-> m.id, ok |-> r.ok])
        BY <3>3, Answered
      <4>2. m \in Commands
        BY <3>3, Applied
      <4>3. (m.act = "abort" => m.id # plan.id) /\ (m.act = "release" => m.id < plan.id)
        BY <2>1 DEF PlanSpared
      <4>4. OnTop(r.k, plan.id) \/ (m.act = "finalize" /\ m.id = plan.id /\ r.ok)
        BY <2>5, <3>1, <4>1, <4>2, <4>3, OnTopAnswer
      <4>5. /\ Len(acks[w]) + 1 \in DOMAIN acks'[w]
            /\ acks'[w][Len(acks[w]) + 1] = [act |-> m.act, id |-> m.id, ok |-> r.ok]
        BY <4>1, WorkerFacts
      <4> QED
        BY <2>1, <4>1, <4>4, <4>5 DEF Finalized
    <3>4. CASE wk'[w] = Retired(wk[w])
      BY <2>1, <2>5, <3>1, <3>4, LossTo DEF OnTop
    <3>5. ASSUME NEW S \in SUBSET Ids, wk'[w] = [wk[w] EXCEPT !.dead = S]
          PROVE  OnTop(wk'[w], plan'.id)
      BY <2>1, <2>5, <3>1, <3>5, DeadTo DEF OnTop
    <3> QED
      BY <2>2, <3>2, <3>3, <3>4, <3>5, WorkBy
  <2> QED
    BY <2>1, <2>2, <2>3, <2>4, <2>5 DEF FinalHeld
<1> QED
  BY <1>2, <1>3, <1>4, EveryTurn DEF Turns

\* A commit over the plan belongs to a transaction that is owed its cleanup.
LEMMA CommitOwedStep ==
    ASSUME IInv, PlanLatest, AckedGone, CommitOwed, [Next]_vars
    PROVE  CommitOwed'
<1>1. SUFFICES ASSUME NEW m \in wire', m.act = "commit", plan'.id # None, m.id > plan'.id,
                      NEW w, w = m.node, NEW i, i = m.id
               PROVE  Owed(w, i)' \/ Given(w, i)'
  BY DEF CommitOwed, Owed, Given
<1>2. m.node \in Workers /\ m.id \in Ids /\ m.id \in Nat
  BY NextStep, IdsNat DEF IInv, TypedNet, Commands
<1>3. CASE Drops
  BY <1>1, <1>3 DEF Drops, NoPlan
<1>4. CASE \E t \in todo : Replaces(t)
  <2>1. plan'.id = txn.id /\ txn.id \in Nat /\ next' = txn.id + 1
    BY <1>4, ReplacesFacts
  <2>2. m.id < next'
    BY NextStep DEF IInv, DatedNet
  <2> QED
    BY <1>1, <1>2, <2>1, <2>2
<1>5. CASE Upholds \/ \E W \in SUBSET Workers : Begin(W)
  <2>1. plan' = plan
    BY <1>5 DEF Upholds, Begin
  <2>2. m.id \notin shown
    <3>1. plan.id \in Nat
      BY TxnFacts, IdsNat DEF Plans
    <3> QED
      BY <1>1, <1>2, <2>1, <3>1 DEF PlanLatest
  <2>3. Owed(w, i) \/ Given(w, i)
    <3>1. CASE m \in wire
      BY <1>1, <2>1, <3>1 DEF CommitOwed
    <3>2. CASE m \notin wire
      <4>1. \A d \in ledger : d.act # "commit"
        BY TxnFacts DEF Debts, Cleanups
      <4>2. txn.phase \in InProgress /\ m.node \in txn.workers /\ m.id = txn.id
        BY <1>1, <3>2, <4>1, WireBy
      <4> QED
        BY <1>1, <4>2 DEF Owed
    <3> QED
      BY <3>1, <3>2
  <2> QED
    BY <1>1, <1>2, <1>5, <2>2, <2>3, OwedStands, GivenStands
<1> QED
  BY <1>3, <1>4, <1>5, EveryTurn DEF Turns

\* The answer to a command leaves the plan's segment in place.
LEMMA KeepsApplied ==
    ASSUME IInv, PlanLatest, PlanSpared, WorkersClear, FinalOnce, FinalHeld, CommitOwed,
           NEW w \in Workers, plan.id # None, Assigned(w), Keeps(w),
           NEW m \in wire, WorkerApplies(m), m.node = w
    PROVE  Keeps(w)'
<1>1. /\ wk[w] \in WorkerStates /\ Sane(wk[w]) /\ Cleared(wk[w])
      /\ m \in Commands /\ m.id \in Ids /\ m.id \in Nat /\ plan.id \in Ids /\ plan.id \in Nat
      /\ plan' = plan
  BY WorkerFacts, Applied, TxnFacts, IdsNat DEF WorkersClear, Commands, Plans, MaybeIds
<1>2. PICK r \in Answers(wk[w], m) : wk'[w] = r.k
  BY Applied
<1>3. wk[w].act = plan.id \/ (Under(wk[w], plan.id) /\ Owed(w, wk[w].act))
  BY DEF Keeps, Under
<1>4. /\ m.act = "abort" => m.id # plan.id
      /\ m.act = "release" => m.id < plan.id
  BY DEF PlanSpared
<1>5. m.act = "finalize" => m.id <= plan.id
  BY <1>1 DEF PlanLatest, IInv, OnlyShown
<1>6. m.act = "finalize" /\ m.id = plan.id => wk[w].cand <= plan.id
  <2> SUFFICES ASSUME m.act = "finalize", m.id = plan.id
               PROVE  wk[w].cand <= plan.id
    OBVIOUS
  <2>1. m \in ledger /\ \A n \in DOMAIN acks[w] : ~Finalized(acks[w][n], plan.id)
    BY DEF FinalOnce
  <2>2. m = Final(w, plan.id)
    BY <1>1 DEF Commands, Final, Debt
  <2>3. OnTop(wk[w], plan.id)
    BY <2>1, <2>2 DEF FinalHeld
  <2> QED
    BY <1>1, <2>3 DEF OnTop
<1>7. \/ r.k.act = plan.id
      \/ Under(r.k, plan.id) /\ r.k.act = wk[w].act
      \/ /\ Under(r.k, plan.id) /\ wk[w].act = plan.id /\ m.act = "commit" /\ r.k.act = m.id
         /\ m.id \in Held(wk[w])
  BY <1>1, <1>2, <1>3, <1>4, <1>5, <1>6, KeepsAnswer
<1>8. \A i : Owed(w, i) => Owed(w, i)'
  BY Applied DEF Owed
<1>9. CASE r.k.act = plan.id
  BY <1>1, <1>2, <1>9 DEF Keeps
<1>10. CASE Under(r.k, plan.id) /\ r.k.act = wk[w].act
  <2>1. Owed(w, r.k.act)
    BY <1>1, <1>3, <1>10 DEF Under
  <2>2. \A i : i = wk'[w].act => (Owed(w, i)' <=> Owed(w, wk[w].act)')
    BY DEF Owed
  <2> QED
    BY <1>1, <1>2, <1>8, <1>10, <2>1, <2>2 DEF Keeps, Under
<1>11. CASE /\ Under(r.k, plan.id) /\ m.act = "commit" /\ r.k.act = m.id
            /\ m.id \in Held(wk[w])
  <2>1. Owed(w, m.id)
    BY <1>1, <1>11 DEF CommitOwed, Given, Under
  <2>2. \A i : i = wk'[w].act => (Owed(w, i)' <=> Owed(w, wk[w].act)')
    BY DEF Owed
  <2> QED
    BY <1>1, <1>2, <1>8, <1>11, <2>1, <2>2 DEF Keeps, Under
<1> QED
  BY <1>7, <1>9, <1>10, <1>11

\* A step that leaves the worker's segments alone leaves the candidate owed, too.
LEMMA KeepsStands ==
    ASSUME IInv, PlanLatest, AckedGone, [Next]_vars,
           Upholds \/ \E W \in SUBSET Workers : Begin(W), plan' = plan,
           NEW w \in Workers, plan.id # None, Keeps(w),
           wk'[w].act = wk[w].act, wk'[w].prev = wk[w].prev, wk'[w].cand = wk[w].cand,
           wk'[w].phase = wk[w].phase
    PROVE  Keeps(w)'
<1>1. CASE wk[w].act = plan.id
  BY <1>1 DEF Keeps
<1>2. CASE /\ wk[w].prev = plan.id /\ wk[w].act > plan.id
           /\ wk[w].cand = wk[w].act /\ wk[w].phase = "committed"
           /\ Owed(w, wk[w].act)
  <2>1. PICK i : i = wk[w].act
    OBVIOUS
  <2>2. i \in Ids \ shown /\ i # None
    <3>1. i \in MaybeIds /\ i \in Nat /\ i > plan.id
      BY <1>2, <2>1, WorkerFacts, IdsNat DEF WorkerStates
    <3>2. plan.id \in Nat /\ \A j \in shown : j <= plan.id
      BY TxnFacts, IdsNat DEF PlanLatest, Plans
    <3>3. i \notin shown
      BY <3>1, <3>2
    <3>4. i # None
      BY <3>1, <3>2 DEF None
    <3> QED
      BY <3>1, <3>3, <3>4 DEF MaybeIds
  <2>3. i \in Held(wk[w])
    BY <2>1, <2>2 DEF Held, Some
  <2>4. Owed(w, i)'
    BY <1>2, <2>1, <2>2, <2>3, OwedStands DEF Given
  <2> QED
    BY <1>2, <2>1, <2>4 DEF Keeps, Owed
<1> QED
  BY <1>1, <1>2 DEF Keeps

\* Every worker of the plan keeps its segment.
LEMMA PlanKeptStep ==
    ASSUME IInv, PlanInv, KeptInv, [Next]_vars
    PROVE  PlanKept'
<1>0. /\ PlanLatest /\ PlanSpared /\ WorkersClear /\ FinalOnce /\ FinalShown /\ FinalHeld /\ AckedGone
      /\ CommitOwed /\ PlanKept
  BY DEF PlanInv, KeptInv
<1>1. SUFFICES ASSUME NEW w \in plan'.workers, Assigned(w)'
               PROVE  Keeps(w)'
  BY DEF PlanKept
<1>2. w \in Workers
  BY NextStep DEF IInv, TypedMaster, Plans
<1>3. CASE Drops
  BY <1>3 DEF Drops, NoPlan
<1>4. ASSUME NEW t \in todo, Replaces(t)
      PROVE  Keeps(w)'
  <2>1. w \in txn.workers
    BY <1>1, <1>4, ReplacesFacts
  <2>2. OnTop(wk[w], txn.id) /\ wk' = wk /\ plan'.id = txn.id
    BY <1>0, <1>1, <1>4, <2>1, PublishedOnTop
  <2> QED
    BY <2>2 DEF OnTop, Keeps
<1>5. CASE Upholds \/ \E W \in SUBSET Workers : Begin(W)
  <2>1. plan' = plan /\ Loosened
    BY <1>5, LoosenedSame DEF Upholds, Begin
  <2>2. plan.id # None /\ w \in plan.workers
    BY <1>0, <1>1, <2>1 DEF PlanLatest
  <2>3. Assigned(w) /\ ~Cut(w) /\ ~Crash
    BY <1>0, <1>1, <1>2, <2>1, <2>2, AssignedStands
  <2>4. Keeps(w)
    BY <1>0, <2>2, <2>3 DEF PlanKept
  <2>5. ASSUME wk'[w].act = wk[w].act, wk'[w].prev = wk[w].prev, wk'[w].cand = wk[w].cand,
               wk'[w].phase = wk[w].phase
        PROVE  Keeps(w)'
    BY <1>0, <1>2, <1>5, <2>1, <2>2, <2>4, <2>5, KeepsStands
  <2>6. wk[w] \in WorkerStates
    BY <1>2, WorkerFacts
  <2>7. CASE wk'[w] = wk[w]
    BY <2>5, <2>7
  <2>8. ASSUME NEW m \in wire, WorkerApplies(m), m.node = w
        PROVE  Keeps(w)'
    BY <1>0, <1>2, <2>2, <2>3, <2>4, <2>8, KeepsApplied
  <2>9. CASE wk'[w] = Retired(wk[w])
    BY <2>5, <2>6, <2>9, LossTo
  <2>10. ASSUME NEW S \in SUBSET Ids, wk'[w] = [wk[w] EXCEPT !.dead = S]
         PROVE  Keeps(w)'
    BY <2>5, <2>6, <2>10, DeadTo
  <2> QED
    BY <1>2, <2>3, <2>7, <2>8, <2>9, <2>10, WorkBy
<1> QED
  BY <1>3, <1>4, <1>5, EveryTurn DEF Turns

LEMMA KeptInvStep ==
    ASSUME IInv, PlanInv, KeptInv, [Next]_vars, ~Resends
    PROVE  KeptInv'
<1>1. PlanLatest /\ PlanSpared
  BY DEF PlanInv
<1> QED
  BY <1>1, WorkersClearStep, FinalOnceStep, FinalShownStep, FinalHeldStep, AckedGoneStep,
     CommitOwedStep, PlanKeptStep DEF KeptInv

LEMMA KeptInvStart ==
    ASSUME Init
    PROVE  KeptInv
<1>1. /\ \A w \in Workers : wk[w] = NewWorker /\ acks[w] = <<>>
      /\ txn = NoTxn /\ plan = NoPlan /\ ledger = {} /\ wire = {} /\ next = 1
  BY DEF Init
<1>2. WorkersClear /\ FinalShown
  BY <1>1 DEF WorkersClear, Cleared, FinalShown, NewWorker, None
<1>3. FinalOnce /\ AckedGone
  BY <1>1 DEF FinalOnce, AckedGone
<1>4. FinalHeld /\ CommitOwed /\ PlanKept
  BY <1>1 DEF FinalHeld, CommitOwed, PlanKept, NoPlan
<1> QED
  BY <1>2, <1>3, <1>4 DEF KeptInv

\* The workers keep the published plan as KeptInv says, as long as no finalize is sent again
\* while the first one, or the answer to it, is under way (_retry_pending_layer_configs waits
\* for neither).
THEOREM KeptSound == Spec /\ [][~Resends]_vars => []KeptInv
<1>1. Init => KeptInv
  BY KeptInvStart
<1>2. IInv /\ PlanInv /\ KeptInv /\ [Next]_vars /\ [~Resends]_vars => KeptInv'
  <2>1. CASE UNCHANGED vars
    <3>1. WorkersClear' = WorkersClear
      BY <2>1 DEF vars, WorkersClear, Cleared
    <3>2. FinalOnce' = FinalOnce
      BY <2>1 DEF vars, FinalOnce, Finalized
    <3>3. FinalShown' = FinalShown
      BY <2>1 DEF vars, FinalShown
    <3>4. FinalHeld' = FinalHeld
      BY <2>1 DEF vars, FinalHeld, OnTop, Finalized, Assigned, Linked, Final
    <3>5. AckedGone' = AckedGone
      BY <2>1 DEF vars, AckedGone, Given, Held
    <3>6. CommitOwed' = CommitOwed
      BY <2>1 DEF vars, CommitOwed, Owed, Given, Held
    <3>7. PlanKept' = PlanKept
      BY <2>1 DEF vars, PlanKept, Keeps, Assigned, Linked, Owed
    <3> QED
      BY <3>1, <3>2, <3>3, <3>4, <3>5, <3>6, <3>7 DEF KeptInv
  <2>2. CASE ~Resends
    BY <2>2, KeptInvStep
  <2> QED
    BY <2>1, <2>2
<1> QED
  BY <1>1, <1>2, Invariance, PlanSound, PTL DEF Spec

\* On every worker that still has the connection its plan was published on, the plan's segment
\* is in memory, whatever transaction is tried over it and given up.
THEOREM PlanStaysHeld == Spec /\ [][~Resends]_vars => []PlanHeld
<1>1. PlanInv /\ KeptInv => PlanHeld
  <2> SUFFICES ASSUME PlanInv, KeptInv, NEW w \in plan.workers, Assigned(w)
               PROVE  plan.id \in Held(wk[w])
    BY DEF PlanHeld, Assigned
  <2>1. plan.id # None
    BY DEF PlanInv, PlanLatest
  <2>2. Keeps(w)
    BY DEF KeptInv, PlanKept
  <2> QED
    BY <2>1, <2>2 DEF Keeps, Held, Some
<1> QED
  BY <1>1, KeptSound, PlanSound, PTL

\* And it is the one in service again once the worker's debts are settled and no transaction
\* is under way: the abort of a committed candidate falls back to the plan.
THEOREM PlanComesBack == Spec /\ [][~Resends]_vars => []PlanRestored
<1>1. KeptInv => PlanRestored
  <2> SUFFICES ASSUME KeptInv, NEW w \in plan.workers, Rested(w)
               PROVE  wk[w].act = plan.id
    BY DEF PlanRestored
  <2>1. Keeps(w)
    BY DEF KeptInv, PlanKept, Rested, Assigned
  <2>2. ~Owed(w, wk[w].act)
    BY DEF Rested, Owed
  <2> QED
    BY <2>1, <2>2 DEF Keeps
<1> QED
  BY <1>1, KeptSound, PTL

(***************************************************************************)
(* Without retries that overlap an answer, nothing is sent twice.          *)
(***************************************************************************)
Counts == [crash : Nat, fault : Nat, retry : Nat, death : Nat]

LEMMA CountsStep ==
    ASSUME used \in Counts, [Next]_vars
    PROVE  used' \in Counts
<1>1. ASSUME NEW m, Send(m)
      PROVE  used' \in Counts
  BY <1>1 DEF Send, Counts
<1>2. CASE \E w \in Workers : SendConfig(w) \/ HandleAck(w) \/ WorkerRetires(w) \/ Lose(w)
                              \/ Register(w) \/ Replace(w) \/ Disconnected(w) \/ DisconnectSaved(w)
  BY <1>1, <1>2 DEF SendConfig, HandleAck, WorkerRetires, Lose, Register, Replace, Disconnected,
                    DisconnectSaved
<1>3. CASE \E w \in Workers : Dies(w) \/ Cut(w)
  BY <1>3 DEF Dies, Cut, Counts
<1>4. CASE \E d \in ledger : Dispatch(d) \/ DispatchLocal(d)
  BY <1>1, <1>4 DEF Dispatch, DispatchLocal, Network
<1>5. CASE \E m \in wire : WorkerApplies(m)
  BY <1>5 DEF WorkerApplies
<1>6. CASE \E t \in todo : \/ CommitLocal(t) \/ Materialize(t) \/ CommitWorkers(t) \/ SwapLocal(t)
                           \/ Publish(t) \/ GiveUp(t) \/ Clear(t) \/ RetireRecovery(t)
  BY <1>6 DEF CommitLocal, Materialize, CommitWorkers, SwapLocal, Publish, GiveUp, Clear,
              RetireRecovery, Network
<1>7. CASE Deadline \/ Cancel \/ \E W \in SUBSET Workers : Begin(W)
  BY <1>7 DEF Deadline, Cancel, Begin, Network
<1>8. CASE ModelChange \/ Crash
  BY <1>8 DEF ModelChange, Crash, Counts
<1>9. CASE UNCHANGED vars
  BY <1>9 DEF vars
<1> QED
  BY <1>2, <1>3, <1>4, <1>5, <1>6, <1>7, <1>8, <1>9 DEF Next

\* The two hold without any other assumption when commands are sent again only after they, or
\* their answers, were lost.
THEOREM PatientPlan ==
    ASSUME MaxRetry = 0
    PROVE  Spec => [](PlanHeld /\ PlanRestored)
<1>1. Init => used \in Counts
  BY DEF Init, Counts
<1>2. used \in Counts /\ [Next]_vars => (used \in Counts)'
  BY CountsStep
<1>3. used \in Counts => ~Resends
  BY DEF Resends, Dispatch, Send, Counts
<1>4. used \in Counts => [~Resends]_vars
  BY <1>3
<1>5. Spec => [](used \in Counts)
  BY <1>1, <1>2, PTL DEF Spec
<1>6. Spec => [][~Resends]_vars
  BY <1>4, <1>5, PTL
<1> QED
  BY <1>6, PlanStaysHeld, PlanComesBack, PTL
=============================================================================
