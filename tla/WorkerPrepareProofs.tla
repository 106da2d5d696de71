------------------------- MODULE WorkerPrepareProofs -------------------------
(***************************************************************************)
(* Proofs about WorkerPrepare, for every value of its constants: what each *)
(* runtime method of the engine host does to any runtime it can be given,  *)
(* the inductive invariant that the controller and the host keep together, *)
(* and the properties that follow from it alone.                           *)
(***************************************************************************)
EXTENDS WorkerPrepare, SequenceTheorems, TLAPS

(***************************************************************************)
(* The methods of the host.                                                *)
(***************************************************************************)
MaybeIds == Ids \cup {None}
Phases == {"idle", "preparing", "prepared", "committed", "finalized", "failed", "released",
           "aborted"}
Runtimes == [ident : MaybeIds, phase : Phases, cand : MaybeIds, act : MaybeIds, prev : MaybeIds,
             orphans : SUBSET Ids, dead : SUBSET Ids, open : SUBSET Ids, fenced : BOOLEAN]

\* What relates the references of the host to its phase and to the open runtimes: the previous
\* runtime exists between a commit and what ends it, the candidate between a load and its commit.
Sound(r) ==
    /\ r.prev # None => r.phase = "committed"
    /\ r.phase = "committed" => r.act = r.ident /\ r.act # None /\ r.cand = None
    /\ r.cand # None => r.cand = r.ident /\ r.phase \in {"prepared", "preparing"}
    /\ r.act # None => r.act # r.cand /\ r.act # r.prev
    /\ Some({r.act, r.cand, r.prev}) \subseteq r.open \cup r.dead
    /\ r.open \subseteq {r.act, r.cand, r.prev} \cup r.orphans

\* Nothing native is left and nothing is being loaded.
Empty(r) == r.act = None /\ r.open = {} /\ r.phase # "preparing"

\* What every method keeps that opens nothing: q has the references of r, some of them dropped
\* or, when a commit is undone, the previous runtime active again.
Shrinks(r, q) ==
    /\ q \in Runtimes /\ Sound(q)
    /\ q.open \subseteq r.open /\ r.dead \subseteq q.dead
    /\ q.ident = r.ident
    /\ q.act \in {r.act, r.prev, None} /\ q.prev \in {r.prev, None} /\ q.cand \in {r.cand, None}
    /\ q.phase = "committed" => r.phase = "committed"
    /\ Empty(r) => Empty(q)

LEMMA NoneNoId == None \notin Ids
BY WorkerPrepareAssumption DEF None, Ids

WithClosed(r, S) == [r EXCEPT !.open = @ \ S]
PartClosed(r, C) == [r EXCEPT !.open = @ \ C, !.dead = @ \cup C]

LEMMA ClosingCases ==
    ASSUME NEW r, NEW S, NEW done, NEW o \in Closing(r, S, done)
    PROVE  /\ o.ok \in BOOLEAN
           /\ o.ok => o.rt = WithClosed(done, S)
           /\ ~o.ok => \E C \in SUBSET S : o.rt = PartClosed(r, C)
<1>1. PICK C \in Closed(r, S) :
        o = IF C = S THEN Outcome(TRUE, WithClosed(done, S))
            ELSE Outcome(FALSE, PartClosed(r, C))
  BY DEF Closing, WithClosed, PartClosed
<1>2. C \subseteq S
  BY DEF Closed
<1>3. CASE C = S
  BY <1>1, <1>3 DEF Outcome
<1>4. CASE C # S
  BY <1>1, <1>2, <1>4 DEF Outcome
<1> QED
  BY <1>3, <1>4

LEMMA FencedShrinks ==
    ASSUME NEW r \in Runtimes, Sound(r)
    PROVE  Shrinks(r, Fenced(r)) /\ Fenced(r) = [r EXCEPT !.fenced = TRUE]
<1>1. Fenced(r) \in Runtimes
  BY DEF Fenced, Runtimes
<1> QED
  BY <1>1 DEF Fenced, Runtimes, Shrinks, Sound, Empty

LEMMA ShrinksNot ==
    ASSUME NEW r \in Runtimes, Sound(r)
    PROVE  Shrinks(r, r)
BY DEF Shrinks

\* A method that raises has closed a part of what it had to close.
LEMMA PartlyClosed ==
    ASSUME NEW r \in Runtimes, Sound(r), NEW C \in SUBSET Ids,
           NEW q, q = PartClosed(r, C)
    PROVE  Shrinks(r, q) /\ q.act = r.act /\ q.cand = r.cand /\ q.prev = r.prev
           /\ q.phase = r.phase /\ q.fenced = r.fenced
<1>1. r.open \ C \in SUBSET Ids /\ r.dead \cup C \in SUBSET Ids
  BY DEF Runtimes
<1>2. q \in Runtimes
  BY <1>1 DEF Runtimes, PartClosed
<1>3. /\ q.act = r.act /\ q.cand = r.cand /\ q.prev = r.prev /\ q.ident = r.ident
      /\ q.phase = r.phase /\ q.fenced = r.fenced /\ q.orphans = r.orphans
      /\ q.open = r.open \ C /\ q.dead = r.dead \cup C
  BY DEF Runtimes, PartClosed
<1>4. Sound(q)
  BY <1>3 DEF Sound
<1> QED
  BY <1>2, <1>3, <1>4 DEF Shrinks, Empty

LEMMA ShrinksFenced ==
    ASSUME NEW r \in Runtimes, NEW q, Shrinks(Fenced(r), q)
    PROVE  Shrinks(r, q)
BY DEF Fenced, Runtimes, Shrinks, Empty

\* A method that closes S and then makes the change done keeps everything when it raises.
LEMMA ClosingMoves ==
    ASSUME NEW r \in Runtimes, Sound(r), NEW S \in SUBSET Ids, NEW done,
           NEW o \in Closing(r, S, done)
    PROVE  /\ o.ok \in BOOLEAN
           /\ o.ok => o.rt = WithClosed(done, S)
           /\ ~o.ok => /\ Shrinks(r, o.rt) /\ o.rt.act = r.act /\ o.rt.cand = r.cand
                       /\ o.rt.prev = r.prev /\ o.rt.phase = r.phase /\ o.rt.fenced = r.fenced
<1>1. /\ o.ok \in BOOLEAN
      /\ o.ok => o.rt = WithClosed(done, S)
      /\ ~o.ok => \E C \in SUBSET S : o.rt = PartClosed(r, C)
  BY ClosingCases
<1>2. ASSUME ~o.ok
      PROVE  /\ Shrinks(r, o.rt) /\ o.rt.act = r.act /\ o.rt.cand = r.cand
             /\ o.rt.prev = r.prev /\ o.rt.phase = r.phase /\ o.rt.fenced = r.fenced
  <2>1. PICK C \in SUBSET S : o.rt = PartClosed(r, C)
    BY <1>1, <1>2
  <2>2. C \in SUBSET Ids
    OBVIOUS
  <2> QED
    BY <2>1, <2>2, PartlyClosed
<1> QED
  BY <1>1, <1>2

AbortRefused(r, i) ==
    IF r.ident # i THEN r.cand # None \/ i \in Owned(r) \/ r.phase = "preparing"
    ELSE r.phase = "finalized" /\ r.act = i
AbortCloses(r, i, restore) ==
    (Owned(r) \cap {i}) \cup (IF r.act = i /\ ~restore THEN Some({r.prev}) ELSE {})

\* What an abort makes of every field.
LEMMA AbortFields ==
    ASSUME NEW r \in Runtimes, Sound(r), NEW i \in Ids, NEW restore \in BOOLEAN,
           NEW o \in AbortRuntime(r, i, restore), NEW q, q = o.rt,
           NEW closing, closing = AbortCloses(r, i, restore)
    PROVE  /\ o.ok \in BOOLEAN
           /\ ~o.ok => /\ Shrinks(r, q) /\ q.act = r.act /\ q.prev = r.prev
                       /\ q.phase = r.phase /\ (q = r \/ q.fenced)
           /\ o.ok => /\ ~AbortRefused(r, i) /\ q \in Runtimes
                      /\ q.act = (IF r.act = i THEN (IF restore THEN r.prev ELSE None) ELSE r.act)
                      /\ q.prev = (IF r.act = i THEN None ELSE r.prev)
                      /\ q.cand = (IF r.cand = i THEN None ELSE r.cand) /\ q.ident = r.ident
                      /\ q.orphans = (r.orphans \cap r.open) \ closing /\ q.phase = "aborted"
                      /\ q.open = r.open \ closing /\ q.dead = r.dead
<1> DEFINE act == IF r.act = i THEN (IF restore THEN r.prev ELSE None) ELSE r.act
           fenced == ~(restore /\ act # None /\ act \notin r.dead)
           done == [r EXCEPT !.act = act,
                             !.prev = IF r.act = i THEN None ELSE @,
                             !.cand = IF @ = i THEN None ELSE @,
                             !.orphans = (@ \cap r.open) \ closing,
                             !.phase = "aborted",
                             !.fenced = fenced]
<1>1. o \in IF AbortRefused(r, i) THEN {Outcome(FALSE, r)} ELSE Closing(Fenced(r), closing, done)
  BY DEF AbortRuntime, AbortRefused, AbortCloses
<1>2. CASE AbortRefused(r, i)
  <2>1. o = Outcome(FALSE, r)
    BY <1>1, <1>2
  <2> QED
    BY <2>1, ShrinksNot DEF Outcome
<1>3. CASE ~AbortRefused(r, i)
  <2>1. closing \in SUBSET Ids
    BY NoneNoId DEF Some, Runtimes, MaybeIds, AbortCloses
  <2>2. act \in MaybeIds /\ fenced \in BOOLEAN
    BY DEF Runtimes, MaybeIds
  <2>3. act = (IF r.act = i THEN (IF restore THEN r.prev ELSE None) ELSE r.act)
    OBVIOUS
  <2>4. o \in Closing(Fenced(r), closing, done)
    BY <1>1, <1>3
  <2> HIDE DEF act, fenced
  <2>5. (r.orphans \cap r.open) \ closing \in SUBSET Ids /\ r.open \ closing \in SUBSET Ids
    BY DEF Runtimes
  <2>6. done \in Runtimes
    BY ZenonT(60), <2>2, <2>5 DEF Runtimes, MaybeIds, Phases
  <2>7. /\ done.act = act /\ done.prev = (IF r.act = i THEN None ELSE r.prev)
        /\ done.cand = (IF r.cand = i THEN None ELSE r.cand) /\ done.ident = r.ident
        /\ done.orphans = (r.orphans \cap r.open) \ closing /\ done.phase = "aborted"
        /\ done.open = r.open /\ done.dead = r.dead
    BY <2>2, <2>5 DEF Runtimes
  <2> HIDE DEF done
  <2> DEFINE w == WithClosed(done, closing)
  <2>8. w \in Runtimes
    BY <2>5, <2>6, <2>7 DEF Runtimes, WithClosed
  <2>9. /\ w.act = act /\ w.prev = (IF r.act = i THEN None ELSE r.prev)
        /\ w.cand = (IF r.cand = i THEN None ELSE r.cand) /\ w.ident = r.ident
        /\ w.orphans = (r.orphans \cap r.open) \ closing /\ w.phase = "aborted"
        /\ w.open = r.open \ closing /\ w.dead = r.dead
    BY <2>6, <2>7 DEF Runtimes, WithClosed
  <2>10. /\ Fenced(r) \in Runtimes /\ Sound(Fenced(r)) /\ Fenced(r).fenced
         /\ Fenced(r).act = r.act /\ Fenced(r).prev = r.prev /\ Fenced(r).phase = r.phase
    BY FencedShrinks DEF Shrinks, Runtimes
  <2>11. /\ o.ok \in BOOLEAN
         /\ o.ok => q = w
         /\ ~o.ok => Shrinks(Fenced(r), q) /\ q.act = r.act /\ q.prev = r.prev
                     /\ q.phase = r.phase /\ q.fenced
    BY <2>1, <2>4, <2>10, ClosingMoves
  <2> HIDE DEF w
  <2> QED
    BY <1>3, <2>3, <2>8, <2>9, <2>11, ShrinksFenced
<1> QED
  BY <1>2, <1>3

\* An abort drops the candidate, or undoes the commit, of the identity it names.
LEMMA AbortMoves ==
    ASSUME NEW r \in Runtimes, Sound(r), NEW i \in Ids, NEW restore \in BOOLEAN,
           r.phase = "committed" => r.ident = i,
           NEW o \in AbortRuntime(r, i, restore)
    PROVE  /\ o.ok \in BOOLEAN /\ Shrinks(r, o.rt)
           /\ ~restore => o.rt.act \in {r.act, None}
           /\ ~o.ok => o.rt.phase = r.phase
           /\ o.ok => /\ i \notin o.rt.open /\ o.rt.act # i /\ o.rt.phase = "aborted"
                      /\ o.rt.cand = None /\ o.rt.prev = None
<1> DEFINE q == o.rt
           closing == AbortCloses(r, i, restore)
<1>1. /\ o.ok \in BOOLEAN
      /\ ~o.ok => Shrinks(r, q) /\ q.act = r.act /\ q.phase = r.phase
      /\ o.ok => /\ ~AbortRefused(r, i) /\ q \in Runtimes
                 /\ q.act = (IF r.act = i THEN (IF restore THEN r.prev ELSE None) ELSE r.act)
                 /\ q.prev = (IF r.act = i THEN None ELSE r.prev)
                 /\ q.cand = (IF r.cand = i THEN None ELSE r.cand) /\ q.ident = r.ident
                 /\ q.orphans = (r.orphans \cap r.open) \ closing /\ q.phase = "aborted"
                 /\ q.open = r.open \ closing /\ q.dead = r.dead
  BY AbortFields
<1>2. closing = (Owned(r) \cap {i}) \cup (IF r.act = i /\ ~restore THEN Some({r.prev}) ELSE {})
  BY DEF AbortCloses
<1> HIDE DEF q, closing
<1>3. CASE o.ok
  <2>1. q.prev = None /\ q.cand = None
    BY <1>1, <1>3, NoneNoId DEF AbortRefused, Sound, Owned, Some
  <2>2. Some({q.act}) \subseteq q.open \cup q.dead
    BY <1>1, <1>2, <1>3, NoneNoId DEF AbortRefused, Sound, Owned, Some
  <2>3. q.open \subseteq {q.act} \cup q.orphans
    BY <1>1, <1>2, <1>3, NoneNoId DEF AbortRefused, Sound, Owned, Some, Runtimes
  <2>4. Sound(q)
    BY <1>1, <1>3, <2>1, <2>2, <2>3 DEF Sound, Some
  <2>5. i \notin q.open /\ q.act # i
    BY <1>1, <1>2, <1>3, NoneNoId DEF AbortRefused, Sound, Owned, Some, Runtimes
  <2>6. q.act \in {r.act, r.prev, None} /\ (~restore => q.act \in {r.act, None})
    BY <1>1, <1>3
  <2>7. Shrinks(r, q)
    BY <1>1, <1>2, <1>3, <2>1, <2>4, <2>6, NoneNoId DEF Shrinks, Empty
  <2> QED
    BY <1>1, <1>3, <2>1, <2>5, <2>6, <2>7 DEF q
<1>4. CASE ~o.ok
  BY <1>1, <1>4 DEF q
<1> QED
  BY <1>1, <1>3, <1>4

ReleaseCloses(r, i) ==
    (IF i = None THEN Owned(r) ELSE Owned(r) \cap {i})
      \cup (IF i = None \/ r.act = i THEN Some({r.prev}) ELSE {})

\* What a release makes of every field.
LEMMA ReleaseFields ==
    ASSUME NEW r \in Runtimes, Sound(r), NEW i \in MaybeIds,
           NEW o \in ReleaseRuntime(r, i), NEW q, q = o.rt,
           NEW closing, closing = ReleaseCloses(r, i)
    PROVE  /\ o.ok \in BOOLEAN
           /\ ~o.ok => /\ Shrinks(r, q) /\ q.act = r.act /\ q.prev = r.prev /\ q.phase = r.phase
                       /\ (r.fenced => q.fenced)
           /\ o.ok => /\ q \in Runtimes
                      /\ (r.fenced => q.fenced)
                      /\ q.act = (IF i \in {None, r.act} THEN None ELSE r.act)
                      /\ q.cand = (IF i \in {None, r.cand} THEN None ELSE r.cand)
                      /\ q.prev = (IF i = None \/ r.act = i \/ r.prev = i THEN None ELSE r.prev)
                      /\ q.orphans = (r.orphans \cap r.open) \ closing
                      /\ q.phase = (IF i \in {None, r.ident} THEN "released" ELSE r.phase)
                      /\ q.ident = r.ident /\ q.open = r.open \ closing /\ q.dead = r.dead
<1> DEFINE hit == IF i = None THEN Owned(r) ELSE Owned(r) \cap {i}
           withPrev == i = None \/ r.act = i
           f == r.fenced \/ i \in {None, r.act, r.cand}
           fenced == [r EXCEPT !.fenced = f]
           done == [fenced EXCEPT !.act = IF i \in {None, @} THEN None ELSE @,
                                  !.cand = IF i \in {None, @} THEN None ELSE @,
                                  !.prev = IF withPrev \/ @ = i THEN None ELSE @,
                                  !.orphans = (@ \cap r.open) \ closing,
                                  !.phase = IF i \in {None, r.ident} THEN "released" ELSE @]
           w == WithClosed(done, closing)
<1>1. o \in IF i # None /\ hit = {} /\ Owned(r) # {} THEN {Outcome(FALSE, r)}
            ELSE Closing(fenced, closing, done)
  BY DEF ReleaseRuntime, ReleaseCloses
<1>2. CASE i # None /\ hit = {} /\ Owned(r) # {}
  <2>1. o = Outcome(FALSE, r)
    BY <1>1, <1>2
  <2> QED
    BY <2>1, ShrinksNot DEF Outcome
<1>3. CASE ~(i # None /\ hit = {} /\ Owned(r) # {})
  <2>1. closing \in SUBSET Ids
    BY NoneNoId DEF Some, Runtimes, MaybeIds, Owned, ReleaseCloses
  <2>2. f \in BOOLEAN /\ (r.fenced => f)
    OBVIOUS
  <2>3. o \in Closing(fenced, closing, done)
    BY <1>1, <1>3
  <2>4. (withPrev <=> i = None \/ r.act = i) /\ withPrev \in BOOLEAN
    OBVIOUS
  <2> HIDE DEF f, hit, withPrev
  <2>5. fenced \in Runtimes
    BY <2>2 DEF Runtimes
  <2>6. /\ fenced.act = r.act /\ fenced.cand = r.cand /\ fenced.prev = r.prev
        /\ fenced.phase = r.phase /\ fenced.ident = r.ident /\ fenced.orphans = r.orphans
        /\ fenced.open = r.open /\ fenced.dead = r.dead /\ fenced.fenced = f
    BY <2>2 DEF Runtimes
  <2> HIDE DEF fenced
  <2>7. Sound(fenced)
    BY <2>6 DEF Sound
  <2>8. (r.orphans \cap r.open) \ closing \in SUBSET Ids /\ r.open \ closing \in SUBSET Ids
    BY DEF Runtimes
  <2>9. done \in Runtimes
    <3>1. /\ (IF i \in {None, fenced.act} THEN None ELSE fenced.act) \in MaybeIds
          /\ (IF i \in {None, fenced.cand} THEN None ELSE fenced.cand) \in MaybeIds
          /\ (IF withPrev \/ fenced.prev = i THEN None ELSE fenced.prev) \in MaybeIds
          /\ (IF i \in {None, r.ident} THEN "released" ELSE fenced.phase) \in Phases
          /\ (fenced.orphans \cap r.open) \ closing \in SUBSET Ids
      BY <2>5, <2>6, <2>8 DEF Runtimes, MaybeIds, Phases
    <3> QED
      BY <2>5, <3>1 DEF Runtimes
  <2>10. /\ done.act = (IF i \in {None, r.act} THEN None ELSE r.act)
         /\ done.cand = (IF i \in {None, r.cand} THEN None ELSE r.cand)
         /\ done.prev = (IF withPrev \/ r.prev = i THEN None ELSE r.prev)
         /\ done.orphans = (r.orphans \cap r.open) \ closing
         /\ done.phase = (IF i \in {None, r.ident} THEN "released" ELSE r.phase)
         /\ done.ident = r.ident /\ done.open = r.open /\ done.dead = r.dead /\ done.fenced = f
    BY <2>5, <2>6, <2>8 DEF Runtimes
  <2> HIDE DEF done
  <2>11. w \in Runtimes
    BY <2>8, <2>9, <2>10 DEF Runtimes, WithClosed
  <2>12. /\ w.act = (IF i \in {None, r.act} THEN None ELSE r.act)
         /\ w.cand = (IF i \in {None, r.cand} THEN None ELSE r.cand)
         /\ w.prev = (IF withPrev \/ r.prev = i THEN None ELSE r.prev)
         /\ w.orphans = (r.orphans \cap r.open) \ closing
         /\ w.phase = (IF i \in {None, r.ident} THEN "released" ELSE r.phase)
         /\ w.ident = r.ident /\ w.open = r.open \ closing /\ w.dead = r.dead /\ w.fenced = f
    BY <2>9, <2>10 DEF Runtimes, WithClosed
  <2> HIDE DEF w
  <2>13. /\ o.ok \in BOOLEAN
         /\ o.ok => q = w
         /\ ~o.ok => Shrinks(fenced, q) /\ q.act = r.act /\ q.prev = r.prev
                     /\ q.phase = r.phase /\ q.fenced = f
    BY <2>1, <2>3, <2>5, <2>6, <2>7, ClosingMoves DEF w
  <2>14. CASE o.ok
    BY <2>2, <2>4, <2>11, <2>12, <2>13, <2>14
  <2>15. CASE ~o.ok
    BY <2>2, <2>6, <2>13, <2>15 DEF Shrinks, Empty
  <2> QED
    BY <2>13, <2>14, <2>15
<1> QED
  BY <1>2, <1>3

\* A release of one identity, or of everything.
LEMMA ReleaseMoves ==
    ASSUME NEW r \in Runtimes, Sound(r), NEW i \in MaybeIds,
           NEW o \in ReleaseRuntime(r, i)
    PROVE  /\ o.ok \in BOOLEAN /\ Shrinks(r, o.rt)
           /\ o.rt.act \in {r.act, None} /\ (r.fenced => o.rt.fenced)
           /\ o.ok /\ i # None => i \notin o.rt.open /\ o.rt.act # i
           /\ o.ok /\ o.rt.phase = "committed" => r.ident # i /\ i # None
           /\ o.ok /\ i = None => /\ o.rt.act = None /\ o.rt.cand = None /\ o.rt.prev = None
                                  /\ o.rt.open = {} /\ o.rt.phase = "released"
<1> DEFINE q == o.rt
           closing == ReleaseCloses(r, i)
<1>1. /\ o.ok \in BOOLEAN
      /\ ~o.ok => Shrinks(r, q) /\ q.act = r.act /\ (r.fenced => q.fenced)
      /\ o.ok => /\ q \in Runtimes /\ (r.fenced => q.fenced)
                 /\ q.act = (IF i \in {None, r.act} THEN None ELSE r.act)
                 /\ q.cand = (IF i \in {None, r.cand} THEN None ELSE r.cand)
                 /\ q.prev = (IF i = None \/ r.act = i \/ r.prev = i THEN None ELSE r.prev)
                 /\ q.orphans = (r.orphans \cap r.open) \ closing
                 /\ q.phase = (IF i \in {None, r.ident} THEN "released" ELSE r.phase)
                 /\ q.ident = r.ident /\ q.open = r.open \ closing /\ q.dead = r.dead
  BY ReleaseFields
<1>2. closing = (IF i = None THEN Owned(r) ELSE Owned(r) \cap {i})
                \cup (IF i = None \/ r.act = i THEN Some({r.prev}) ELSE {})
  BY DEF ReleaseCloses
<1> HIDE DEF q, closing
<1>3. CASE o.ok
  <2>1. q.prev # None => q.phase = "committed"
    BY <1>1, <1>3 DEF Sound
  <2>2. q.phase = "committed" => q.act = q.ident /\ q.act # None /\ q.cand = None
    BY <1>1, <1>3 DEF Sound
  <2>3. q.cand # None => q.cand = q.ident /\ q.phase \in {"prepared", "preparing"}
    BY <1>1, <1>3 DEF Sound
  <2>4. q.act # None => q.act # q.cand /\ q.act # q.prev
    BY <1>1, <1>3 DEF Sound
  <2>5. Some({q.act, q.cand, q.prev}) \subseteq q.open \cup q.dead
    BY <1>1, <1>2, <1>3 DEF Sound, Some
  <2>6. q.open \subseteq {q.act, q.cand, q.prev} \cup q.orphans
    BY <1>1, <1>2, <1>3, NoneNoId DEF Sound, Some, Owned, Runtimes, MaybeIds
  <2>7. Sound(q)
    BY <2>1, <2>2, <2>3, <2>4, <2>5, <2>6 DEF Sound
  <2>8. Shrinks(r, q)
    BY <1>1, <1>2, <1>3, <2>7 DEF Shrinks, Empty
  <2>9. i # None => i \notin q.open /\ q.act # i
    BY <1>1, <1>2, <1>3, NoneNoId DEF Sound, Some, Owned, Runtimes, MaybeIds
  <2>10. i = None => /\ q.act = None /\ q.cand = None /\ q.prev = None
                     /\ q.open = {} /\ q.phase = "released"
    BY <1>1, <1>2, <1>3, NoneNoId DEF Sound, Some, Owned, Runtimes, MaybeIds
  <2>11. q.phase = "committed" => r.ident # i /\ i # None
    BY <1>1, <1>3
  <2> QED
    BY <1>1, <1>3, <2>8, <2>9, <2>10, <2>11 DEF q
<1>4. CASE ~o.ok
  BY <1>1, <1>4 DEF q
<1> QED
  BY <1>1, <1>3, <1>4

\* A finalized commit closes the previous runtime.
LEMMA FinalizeMoves ==
    ASSUME NEW r \in Runtimes, Sound(r), NEW i \in Ids,
           NEW o \in FinalizeRuntime(r, i)
    PROVE  /\ o.ok \in BOOLEAN /\ Shrinks(r, o.rt) /\ o.rt.act = r.act
           /\ o.rt.fenced = r.fenced
           /\ o.ok => o.rt.phase = "finalized"
<1> DEFINE S == Some({r.prev})
           done == [r EXCEPT !.prev = None, !.phase = "finalized"]
           q == WithClosed(done, S)
<1>1. CASE r.ident # i \/ r.phase \notin {"committed", "finalized"} \/ ~Loaded(r, i)
  <2>1. o = Outcome(FALSE, r)
    BY <1>1 DEF FinalizeRuntime
  <2> QED
    BY <2>1, ShrinksNot DEF Outcome
<1>2. CASE ~(r.ident # i \/ r.phase \notin {"committed", "finalized"} \/ ~Loaded(r, i))
  <2>1. o \in Closing(r, S, done)
    BY <1>2 DEF FinalizeRuntime
  <2>2. S \in SUBSET Ids /\ r.open \ S \in SUBSET Ids
    BY NoneNoId DEF Some, Runtimes, MaybeIds
  <2>3. q \in Runtimes
    BY <2>2 DEF Runtimes, WithClosed, MaybeIds, Phases
  <2>4. /\ q.act = r.act /\ q.cand = r.cand /\ q.prev = None /\ q.phase = "finalized"
        /\ q.ident = r.ident /\ q.orphans = r.orphans /\ q.open = r.open \ S /\ q.dead = r.dead
        /\ q.fenced = r.fenced
    BY DEF Runtimes, WithClosed
  <2> HIDE DEF q
  <2>5. q.cand = None
    BY <1>2, <2>4 DEF Sound
  <2>6. Sound(q)
    BY <2>4, <2>5 DEF Sound, Some
  <2>7. Shrinks(r, q)
    BY <2>3, <2>4, <2>5, <2>6 DEF Shrinks, Empty
  <2>8. /\ o.ok \in BOOLEAN
        /\ o.ok => o.rt = q
        /\ ~o.ok => Shrinks(r, o.rt) /\ o.rt.act = r.act /\ o.rt.fenced = r.fenced
    <3> HIDE DEF done, S
    <3> QED
      BY <2>1, <2>2, ClosingMoves DEF q
  <2> QED
    BY <2>4, <2>7, <2>8
<1> QED
  BY <1>1, <1>2

\* The previous runtime is closed by itself.
LEMMA RetireMoves ==
    ASSUME NEW r \in Runtimes, Sound(r), NEW i \in Ids,
           NEW o \in RetirePrevious(r, i)
    PROVE  /\ o.ok \in BOOLEAN /\ Shrinks(r, o.rt) /\ o.rt.act = r.act
           /\ o.rt.fenced = r.fenced /\ o.rt.phase = r.phase
           /\ o.ok => i \notin o.rt.open
<1> DEFINE done == [r EXCEPT !.prev = None]
           q == WithClosed(done, {i})
<1>1. CASE r.prev # i
  <2>1. o = Outcome(FALSE, r)
    BY <1>1 DEF RetirePrevious
  <2> QED
    BY <2>1, ShrinksNot DEF Outcome
<1>2. CASE r.prev = i
  <2>1. o \in Closing(r, {i}, done)
    BY <1>2 DEF RetirePrevious
  <2>2. {i} \in SUBSET Ids /\ r.open \ {i} \in SUBSET Ids
    BY DEF Runtimes
  <2>3. q \in Runtimes
    BY <2>2 DEF Runtimes, WithClosed, MaybeIds
  <2>4. /\ q.act = r.act /\ q.cand = r.cand /\ q.prev = None /\ q.phase = r.phase
        /\ q.ident = r.ident /\ q.orphans = r.orphans /\ q.open = r.open \ {i} /\ q.dead = r.dead
        /\ q.fenced = r.fenced
    BY DEF Runtimes, WithClosed
  <2> HIDE DEF q
  <2>5. q.cand = None
    BY <1>2, <2>4, NoneNoId DEF Sound
  <2>6. Sound(q)
    BY <1>2, <2>4, <2>5, NoneNoId DEF Sound, Some
  <2>7. Shrinks(r, q)
    BY <2>3, <2>4, <2>5, <2>6 DEF Shrinks, Empty
  <2>8. /\ o.ok \in BOOLEAN
        /\ o.ok => o.rt = q
        /\ ~o.ok => /\ Shrinks(r, o.rt) /\ o.rt.act = r.act /\ o.rt.fenced = r.fenced
                    /\ o.rt.phase = r.phase
    <3> HIDE DEF done
    <3> QED
      BY <2>1, <2>2, ClosingMoves DEF q
  <2> QED
    BY <2>4, <2>7, <2>8
<1> QED
  BY <1>1, <1>2

\* A commit promotes the candidate, and the runtime that was active becomes the previous one.
LEMMA CommitMoves ==
    ASSUME NEW r \in Runtimes, Sound(r), NEW i \in Ids, NEW o, o = CommitRuntime(r, i)
    PROVE  /\ o.ok \in BOOLEAN /\ o.rt \in Runtimes /\ Sound(o.rt)
           /\ o.rt.open = r.open /\ o.rt.ident = r.ident
           /\ Empty(r) => Empty(o.rt)
           /\ o.ok => o.rt.ident = i
           /\ \/ o.rt = r
              \/ /\ r.cand = i /\ r.phase = "prepared"
                 /\ o.rt.act = i /\ o.rt.prev = r.act /\ o.rt.phase = "committed"
<1> DEFINE q == [r EXCEPT !.prev = r.act, !.act = r.cand, !.cand = None,
                          !.phase = "committed", !.fenced = FALSE]
<1>1. CASE r.ident # i
  BY <1>1 DEF CommitRuntime, Outcome
<1>2. CASE r.ident = i /\ r.phase \in {"committed", "finalized"}
  BY <1>2 DEF CommitRuntime, Outcome, Loaded
<1>3. CASE /\ r.ident = i /\ r.phase \notin {"committed", "finalized"}
           /\ r.phase # "prepared" \/ r.cand = None \/ r.cand \in r.dead
  BY <1>3 DEF CommitRuntime, Outcome
<1>4. CASE /\ r.ident = i /\ r.phase = "prepared" /\ r.cand # None /\ r.cand \notin r.dead
  <2>1. o = Outcome(TRUE, q)
    BY <1>4 DEF CommitRuntime
  <2>2. o.ok = TRUE /\ o.rt = q
    BY <2>1 DEF Outcome
  <2>3. q \in Runtimes
    BY DEF Runtimes, MaybeIds, Phases
  <2>4. /\ q.act = r.cand /\ q.cand = None /\ q.prev = r.act /\ q.phase = "committed"
        /\ q.ident = r.ident /\ q.orphans = r.orphans /\ q.open = r.open /\ q.dead = r.dead
    BY DEF Runtimes
  <2> HIDE DEF q
  <2>5. r.prev = None /\ r.cand = r.ident /\ r.cand \in r.open
    BY <1>4 DEF Sound, Some
  <2>6. Sound(q)
    BY <1>4, <2>4, <2>5 DEF Sound, Some
  <2>7. ~Empty(r)
    BY <2>5 DEF Empty
  <2> QED
    BY <1>4, <2>2, <2>3, <2>4, <2>5, <2>6, <2>7
<1> QED
  BY <1>1, <1>2, <1>3, <1>4

\* A preparation begins unless a candidate or an unfinished commit is in its way.
LEMMA BeginMoves ==
    ASSUME NEW r \in Runtimes, Sound(r), NEW i \in Ids, NEW o, o = PrepareBegin(r, i)
    PROVE  /\ o.ok \in BOOLEAN /\ o.rt \in Runtimes /\ Sound(o.rt)
           /\ o.rt.open = r.open /\ o.rt.act = r.act /\ o.rt.prev = r.prev /\ o.rt.cand = r.cand
           /\ o.ok => o.rt.ident = i /\ o.rt.phase = "preparing" /\ r.cand = None
           /\ ~o.ok => o.rt.phase = r.phase
<1> DEFINE f == Fenced(r)
           q == [f EXCEPT !.ident = i, !.phase = "preparing"]
<1>1. f \in Runtimes /\ Sound(f) /\ f = [r EXCEPT !.fenced = TRUE]
  BY FencedShrinks DEF Shrinks
<1>2. /\ f.act = r.act /\ f.cand = r.cand /\ f.prev = r.prev /\ f.phase = r.phase
      /\ f.open = r.open /\ f.ident = r.ident /\ f.orphans = r.orphans /\ f.dead = r.dead
  BY <1>1 DEF Runtimes
<1>3. o = IF r.phase = "committed" \/ r.cand # None THEN Outcome(FALSE, f) ELSE Outcome(TRUE, q)
  BY DEF PrepareBegin
<1> HIDE DEF f
<1>4. CASE r.phase = "committed" \/ r.cand # None
  <2>1. o = Outcome(FALSE, f)
    BY <1>3, <1>4
  <2>2. o.ok = FALSE /\ o.rt = f
    BY <2>1 DEF Outcome
  <2> QED
    BY <1>1, <1>2, <2>2
<1>5. CASE ~(r.phase = "committed" \/ r.cand # None)
  <2>1. o = Outcome(TRUE, q)
    BY <1>3, <1>5
  <2>2. q \in Runtimes
    BY <1>1 DEF Runtimes, MaybeIds, Phases
  <2>3. /\ q.act = r.act /\ q.cand = r.cand /\ q.prev = r.prev /\ q.phase = "preparing"
        /\ q.open = r.open /\ q.ident = i /\ q.orphans = r.orphans /\ q.dead = r.dead
    BY <1>1, <1>2 DEF Runtimes
  <2> HIDE DEF q
  <2>4. Sound(q)
    BY <1>5, <2>3 DEF Sound
  <2> QED
    BY <1>5, <2>1, <2>2, <2>3, <2>4 DEF Outcome
<1> QED
  BY <1>4, <1>5

\* A load adds the runtime it is for, as the candidate or as an orphan, and nothing else.
LEMMA LoadMoves ==
    ASSUME NEW r \in Runtimes, Sound(r), NEW i \in Ids, NEW cancelled \in BOOLEAN,
           r.ident = i, r.phase = "preparing", r.cand = None, r.act # i,
           NEW o \in LoadFails(r, i) \cup LoadDone(r, i, cancelled)
    PROVE  /\ o.ok \in BOOLEAN /\ o.rt \in Runtimes /\ Sound(o.rt)
           /\ o.rt.open \subseteq r.open \cup {i} /\ o.rt.act = r.act /\ o.rt.prev = r.prev
           /\ o.rt.ident = i /\ o.rt.phase # "committed"
           /\ o.ok => o.rt.phase = "prepared" /\ o.rt.cand = i
<1> DEFINE failed == [r EXCEPT !.phase = "failed"]
           kept == [failed EXCEPT !.orphans = @ \cup {i}, !.open = @ \cup {i}]
           held == [r EXCEPT !.cand = i, !.open = @ \cup {i}, !.dead = @ \ {i}]
           prepared == [held EXCEPT !.phase = "prepared"]
<1>1. r.prev = None
  BY DEF Sound
<1>2. /\ r.open \cup {i} \in SUBSET Ids /\ r.orphans \cup {i} \in SUBSET Ids
      /\ r.dead \ {i} \in SUBSET Ids /\ i \in MaybeIds
  BY DEF Runtimes, MaybeIds
<1>3. /\ failed \in Runtimes /\ Sound(failed) /\ failed.open = r.open /\ failed.act = r.act
      /\ failed.prev = r.prev /\ failed.ident = i /\ failed.phase = "failed"
  <2>1. failed \in Runtimes
    BY DEF Runtimes, Phases
  <2>2. /\ failed.open = r.open /\ failed.act = r.act /\ failed.prev = r.prev
        /\ failed.ident = i /\ failed.phase = "failed" /\ failed.cand = None
        /\ failed.dead = r.dead /\ failed.orphans = r.orphans
    BY DEF Runtimes
  <2> QED
    BY <1>1, <2>1, <2>2 DEF Sound, Some
<1>4. /\ kept \in Runtimes /\ Sound(kept) /\ kept.open = r.open \cup {i} /\ kept.act = r.act
      /\ kept.prev = r.prev /\ kept.ident = i /\ kept.phase = "failed"
  <2>1. kept \in Runtimes
    BY <1>2 DEF Runtimes, Phases
  <2>2. /\ kept.open = r.open \cup {i} /\ kept.act = r.act /\ kept.prev = r.prev
        /\ kept.ident = i /\ kept.phase = "failed" /\ kept.cand = None
        /\ kept.dead = r.dead /\ kept.orphans = r.orphans \cup {i}
    BY DEF Runtimes
  <2> HIDE DEF kept
  <2> QED
    BY <1>1, <2>1, <2>2 DEF Sound, Some
<1>5. /\ held \in Runtimes /\ Sound(held) /\ held.open = r.open \cup {i} /\ held.act = r.act
      /\ held.prev = r.prev /\ held.ident = i /\ held.phase = "preparing" /\ held.cand = i
      /\ held.dead = r.dead \ {i} /\ held.orphans = r.orphans
  <2>1. held \in Runtimes
    BY <1>2 DEF Runtimes
  <2>2. /\ held.open = r.open \cup {i} /\ held.act = r.act /\ held.prev = r.prev
        /\ held.ident = i /\ held.phase = "preparing" /\ held.cand = i
        /\ held.dead = r.dead \ {i} /\ held.orphans = r.orphans
    BY DEF Runtimes
  <2> HIDE DEF held
  <2> QED
    BY <1>1, <2>1, <2>2 DEF Sound, Some
<1>6. /\ prepared \in Runtimes /\ Sound(prepared) /\ prepared.open = r.open \cup {i}
      /\ prepared.act = r.act /\ prepared.prev = r.prev /\ prepared.ident = i
      /\ prepared.phase = "prepared" /\ prepared.cand = i
  <2> HIDE DEF held
  <2>1. prepared \in Runtimes
    BY <1>5 DEF Runtimes, Phases
  <2>2. /\ prepared.open = r.open \cup {i} /\ prepared.act = r.act /\ prepared.prev = r.prev
        /\ prepared.ident = i /\ prepared.phase = "prepared" /\ prepared.cand = i
        /\ prepared.dead = held.dead /\ prepared.orphans = held.orphans
    BY <1>5 DEF Runtimes
  <2> HIDE DEF prepared
  <2> QED
    BY <1>1, <1>5, <2>1, <2>2 DEF Sound, Some
<1>7. \/ o.ok = TRUE /\ o.rt = prepared
      \/ o.ok = FALSE /\ o.rt \in {failed, kept, held}
  BY DEF LoadFails, LoadDone, Outcome
<1> HIDE DEF failed, kept, held, prepared
<1> QED
  BY <1>3, <1>4, <1>5, <1>6, <1>7

LEMMA DiesMoves ==
    ASSUME NEW r \in Runtimes, Sound(r), NEW i \in Ids
    PROVE  LET q == [r EXCEPT !.dead = @ \cup {i}]
           IN  Shrinks(r, q) /\ q.act = r.act /\ q.cand = r.cand /\ q.prev = r.prev
               /\ q.phase = r.phase /\ q.open = r.open /\ q.fenced = r.fenced
<1> DEFINE q == [r EXCEPT !.dead = @ \cup {i}]
<1>1. r.dead \cup {i} \in SUBSET Ids
  BY DEF Runtimes
<1>2. q \in Runtimes
  BY <1>1 DEF Runtimes
<1>3. /\ q.act = r.act /\ q.cand = r.cand /\ q.prev = r.prev /\ q.phase = r.phase
      /\ q.open = r.open /\ q.ident = r.ident /\ q.orphans = r.orphans
      /\ q.dead = r.dead \cup {i} /\ q.fenced = r.fenced
  BY DEF Runtimes
<1> HIDE DEF q
<1>4. Sound(q)
  BY <1>3 DEF Sound
<1>5. Shrinks(r, q)
  BY <1>2, <1>3, <1>4 DEF Shrinks, Empty
<1> QED
  BY <1>3, <1>5 DEF q

(***************************************************************************)
(* What the methods leave of the references.                               *)
(***************************************************************************)
\* The identities whose runtimes a method could still find: the active and the previous one,
\* and whatever is open.
Refs(r) == Some({r.act, r.prev}) \cup r.open

\* Nothing was swapped: the two references and the phase are what they were.
Stands(r, q) == q.act = r.act /\ q.prev = r.prev /\ q.phase = r.phase

\* q has lost some of the references of r, and what is left of them stands where it stood.
Trims(r, q) ==
    /\ Refs(q) \subseteq Refs(r)
    /\ r.act \in Refs(q) => q.act = r.act
    /\ r.prev \in Refs(q) => Stands(r, q)

\* The same, but for a commit that was undone.
Restores(r, q) ==
    /\ Refs(q) \subseteq Refs(r)
    /\ r.act \in Refs(q) => q.act = r.act
    /\ r.prev \in Refs(q) => q.act = r.prev \/ Stands(r, q)

LEMMA NoneNoRef ==
    ASSUME NEW r \in Runtimes
    PROVE  None \notin Refs(r)
BY NoneNoId DEF Refs, Some, Runtimes

LEMMA TrimsNot ==
    ASSUME NEW r
    PROVE  Trims(r, r)
BY DEF Trims, Stands

LEMMA TrimsRestores ==
    ASSUME NEW r, NEW q, Trims(r, q)
    PROVE  Restores(r, q)
BY DEF Trims, Restores

\* Closing some of the runtimes and swapping nothing.
LEMMA StandsTrims ==
    ASSUME NEW r \in Runtimes, NEW q, q.open \subseteq r.open, q.act = r.act, q.prev = r.prev,
           q.phase = r.phase
    PROVE  Trims(r, q) /\ Stands(r, q)
BY DEF Trims, Stands, Refs

LEMMA FencedStands ==
    ASSUME NEW r \in Runtimes
    PROVE  Refs(Fenced(r)) = Refs(r) /\ Stands(r, Fenced(r)) /\ Trims(r, Fenced(r))
<1>1. /\ Fenced(r).act = r.act /\ Fenced(r).prev = r.prev /\ Fenced(r).phase = r.phase
      /\ Fenced(r).open = r.open
  BY DEF Fenced, Runtimes
<1> QED
  BY <1>1 DEF Refs, Stands, Trims

LEMMA RestoresFenced ==
    ASSUME NEW r, NEW q \in Runtimes, Restores(r, q)
    PROVE  Restores(r, Fenced(q))
<1>1. Refs(Fenced(q)) = Refs(q) /\ Stands(q, Fenced(q))
  BY FencedStands
<1> QED
  BY <1>1 DEF Restores, Stands

LEMMA AbortTrims ==
    ASSUME NEW r \in Runtimes, Sound(r), NEW i \in Ids, NEW restore \in BOOLEAN,
           r.phase = "committed" => r.ident = i,
           NEW o \in AbortRuntime(r, i, restore)
    PROVE  /\ Restores(r, o.rt) /\ (~restore => Trims(r, o.rt))
           /\ ~o.ok => Trims(r, o.rt)
           /\ o.ok => i \notin Refs(o.rt)
           /\ o.rt.phase \in {r.phase, "aborted"}
<1> DEFINE q == o.rt
           closing == AbortCloses(r, i, restore)
<1>1. /\ o.ok \in BOOLEAN
      /\ ~o.ok => Shrinks(r, q) /\ q.act = r.act /\ q.prev = r.prev /\ q.phase = r.phase
      /\ o.ok => /\ ~AbortRefused(r, i)
                 /\ q.act = (IF r.act = i THEN (IF restore THEN r.prev ELSE None) ELSE r.act)
                 /\ q.prev = (IF r.act = i THEN None ELSE r.prev)
                 /\ q.open = r.open \ closing /\ q.phase = "aborted"
  BY AbortFields
<1>2. closing = (Owned(r) \cap {i}) \cup (IF r.act = i /\ ~restore THEN Some({r.prev}) ELSE {})
  BY DEF AbortCloses
<1> HIDE DEF q, closing
<1>3. CASE ~o.ok
  <2>1. Trims(r, q)
    BY <1>1, <1>3, StandsTrims DEF Shrinks
  <2> QED
    BY <1>1, <1>3, <2>1, TrimsRestores DEF q
<1>4. CASE o.ok
  <2>1. r.prev # None => r.act = i
    BY <1>1, <1>4 DEF AbortRefused, Sound, Owned, Some
  <2>2. q.prev = None
    BY <1>1, <1>4, <2>1
  <2>3. i # None /\ None \notin r.open
    BY NoneNoId DEF Runtimes
  <2>4. i \notin Refs(q)
    BY <1>1, <1>2, <1>4, <2>2, <2>3 DEF AbortRefused, Sound, Owned, Some, Refs
  <2>5. Refs(q) \subseteq Refs(r)
    BY <1>1, <1>4, <2>2 DEF Refs, Some
  <2>6. r.act \in Refs(q) => q.act = r.act
    BY <1>1, <1>4, <2>4
  <2>7. r.prev \in Refs(q) => restore /\ q.act = r.prev
    <3>1. r.prev \in Refs(q) => r.prev # None
      BY <1>1, <1>4, <2>3 DEF Refs, Some
    <3> QED
      BY <1>1, <1>2, <1>4, <2>1, <2>2, <3>1 DEF Refs, Some
  <2> QED
    BY <1>1, <1>4, <2>4, <2>5, <2>6, <2>7 DEF Restores, Trims, q
<1> QED
  BY <1>1, <1>3, <1>4

LEMMA ReleaseTrims ==
    ASSUME NEW r \in Runtimes, Sound(r), NEW i \in MaybeIds,
           NEW o \in ReleaseRuntime(r, i)
    PROVE  /\ Trims(r, o.rt)
           /\ o.ok /\ i # None => i \notin Refs(o.rt) /\ (r.act = i => r.prev \notin Refs(o.rt))
           /\ o.rt.phase \in {r.phase, "released"}
           /\ i \notin {None, r.ident} => o.rt.phase = r.phase
<1> DEFINE q == o.rt
           closing == ReleaseCloses(r, i)
<1>1. /\ o.ok \in BOOLEAN
      /\ ~o.ok => Shrinks(r, q) /\ q.act = r.act /\ q.prev = r.prev /\ q.phase = r.phase
      /\ o.ok => /\ q.act = (IF i \in {None, r.act} THEN None ELSE r.act)
                 /\ q.prev = (IF i = None \/ r.act = i \/ r.prev = i THEN None ELSE r.prev)
                 /\ q.phase = (IF i \in {None, r.ident} THEN "released" ELSE r.phase)
                 /\ q.open = r.open \ closing
  BY ReleaseFields
<1>2. closing = (IF i = None THEN Owned(r) ELSE Owned(r) \cap {i})
                \cup (IF i = None \/ r.act = i THEN Some({r.prev}) ELSE {})
  BY DEF ReleaseCloses
<1>3. None \notin r.open
  BY NoneNoId DEF Runtimes
<1> HIDE DEF q, closing
<1>4. CASE ~o.ok
  <2>1. Trims(r, q)
    BY <1>1, <1>4, StandsTrims DEF Shrinks
  <2> QED
    BY <1>1, <1>4, <2>1 DEF q
<1>5. CASE o.ok
  <2>1. Refs(q) \subseteq Refs(r)
    BY <1>1, <1>5 DEF Refs, Some
  <2>2. i # None => i \notin Refs(q) /\ (r.act = i => r.prev \notin Refs(q))
    BY <1>1, <1>2, <1>3, <1>5 DEF Refs, Some, Sound, Owned
  <2>3. i = None => Refs(q) = {}
    BY <1>1, <1>2, <1>3, <1>5 DEF Refs, Some, Sound, Owned
  <2>4. r.act \in Refs(q) => q.act = r.act
    BY <1>1, <1>5, <2>2, <2>3
  <2>5. r.prev \in Refs(q) => Stands(r, q)
    <3>1. r.prev \in Refs(q) => i # None /\ r.act # i /\ r.prev # i
      BY <2>2, <2>3
    <3>2. r.prev \in Refs(q) => r.prev # None
      BY <1>1, <1>3, <1>5 DEF Refs, Some
    <3>3. r.prev # None => r.phase = "committed" /\ r.act = r.ident
      BY DEF Sound
    <3> QED
      BY <1>1, <1>5, <3>1, <3>2, <3>3 DEF Stands
  <2> QED
    BY <1>1, <1>5, <2>1, <2>2, <2>4, <2>5 DEF Trims, q
<1> QED
  BY <1>1, <1>4, <1>5

LEMMA RetireTrims ==
    ASSUME NEW r \in Runtimes, Sound(r), NEW i \in Ids,
           NEW o \in RetirePrevious(r, i)
    PROVE  /\ Trims(r, o.rt)
           /\ o.ok => r.prev = i /\ i \notin Refs(o.rt)
<1> DEFINE done == [r EXCEPT !.prev = None]
           q == WithClosed(done, {i})
<1>1. CASE r.prev # i
  <2>1. o = Outcome(FALSE, r)
    BY <1>1 DEF RetirePrevious
  <2> QED
    BY <2>1, TrimsNot DEF Outcome
<1>2. CASE r.prev = i
  <2>1. o \in Closing(r, {i}, done)
    BY <1>2 DEF RetirePrevious
  <2>2. {i} \in SUBSET Ids
    OBVIOUS
  <2>3. q.act = r.act /\ q.prev = None /\ q.phase = r.phase /\ q.open = r.open \ {i}
    BY DEF Runtimes, WithClosed
  <2> HIDE DEF q
  <2>4. i \notin Refs(q)
    BY <1>2, <2>3, NoneNoId DEF Sound, Refs, Some
  <2>5. Trims(r, q)
    BY <1>2, <2>3, <2>4 DEF Trims, Refs, Some
  <2>6. /\ o.ok \in BOOLEAN
        /\ o.ok => o.rt = q
        /\ ~o.ok => /\ Shrinks(r, o.rt) /\ o.rt.act = r.act /\ o.rt.prev = r.prev
                    /\ o.rt.phase = r.phase
    <3> HIDE DEF done
    <3> QED
      BY <2>1, <2>2, ClosingMoves DEF q
  <2>7. ~o.ok => Trims(r, o.rt)
    BY <2>6, StandsTrims DEF Shrinks
  <2> QED
    BY <1>2, <2>4, <2>5, <2>6, <2>7
<1> QED
  BY <1>1, <1>2

LEMMA FinalizeTrims ==
    ASSUME NEW r \in Runtimes, Sound(r), NEW i \in Ids,
           NEW o \in FinalizeRuntime(r, i)
    PROVE  /\ Restores(r, o.rt) /\ (~o.ok => Trims(r, o.rt))
           /\ o.ok => r.prev \notin Refs(o.rt)
           /\ o.rt.phase \in {r.phase, "finalized"}
<1> DEFINE S == Some({r.prev})
           done == [r EXCEPT !.prev = None, !.phase = "finalized"]
           q == WithClosed(done, S)
<1>1. CASE r.ident # i \/ r.phase \notin {"committed", "finalized"} \/ ~Loaded(r, i)
  <2>1. o = Outcome(FALSE, r)
    BY <1>1 DEF FinalizeRuntime
  <2> QED
    BY <2>1, TrimsNot, TrimsRestores DEF Outcome
<1>2. CASE ~(r.ident # i \/ r.phase \notin {"committed", "finalized"} \/ ~Loaded(r, i))
  <2>1. o \in Closing(r, S, done)
    BY <1>2 DEF FinalizeRuntime
  <2>2. S \in SUBSET Ids
    BY NoneNoId DEF Some, Runtimes, MaybeIds
  <2>3. q.act = r.act /\ q.prev = None /\ q.phase = "finalized" /\ q.open = r.open \ S
    BY DEF Runtimes, WithClosed
  <2> HIDE DEF q
  <2>4. r.prev \notin Refs(q)
    BY <2>3, NoneNoId DEF Sound, Refs, Some, Runtimes
  <2>5. Restores(r, q)
    BY <2>3, <2>4 DEF Restores, Refs, Some
  <2>6. /\ o.ok \in BOOLEAN
        /\ o.ok => o.rt = q
        /\ ~o.ok => /\ Shrinks(r, o.rt) /\ o.rt.act = r.act /\ o.rt.prev = r.prev
                    /\ o.rt.phase = r.phase
    <3> HIDE DEF done, S
    <3> QED
      BY <2>1, <2>2, ClosingMoves DEF q
  <2>7. ~o.ok => Trims(r, o.rt)
    BY <2>6, StandsTrims DEF Shrinks
  <2> QED
    BY <2>3, <2>4, <2>5, <2>6, <2>7, TrimsRestores
<1> QED
  BY <1>1, <1>2

\* A commit that changes anything swaps the candidate in and lifts the fence.
LEMMA CommitSwaps ==
    ASSUME NEW r \in Runtimes, Sound(r), NEW i \in Ids, NEW o, o = CommitRuntime(r, i)
    PROVE  \/ o.rt = r /\ (o.ok => r.phase \in {"committed", "finalized"})
           \/ /\ o.ok /\ r.phase = "prepared" /\ o.rt.phase = "committed" /\ ~o.rt.fenced
              /\ o.rt.act = i /\ o.rt.prev = r.act /\ Refs(o.rt) \subseteq Refs(r)
<1> DEFINE q == [r EXCEPT !.prev = r.act, !.act = r.cand, !.cand = None,
                          !.phase = "committed", !.fenced = FALSE]
<1>1. CASE r.ident # i \/ r.phase \in {"committed", "finalized"}
  BY <1>1 DEF CommitRuntime, Outcome
<1>2. CASE /\ r.ident = i /\ r.phase \notin {"committed", "finalized"}
           /\ r.phase # "prepared" \/ r.cand = None \/ r.cand \in r.dead
  BY <1>2 DEF CommitRuntime, Outcome
<1>3. CASE /\ r.ident = i /\ r.phase = "prepared" /\ r.cand # None /\ r.cand \notin r.dead
  <2>1. o = Outcome(TRUE, q)
    BY <1>3 DEF CommitRuntime
  <2>2. o.ok = TRUE /\ o.rt = q
    BY <2>1 DEF Outcome
  <2>3. /\ q.act = r.cand /\ q.prev = r.act /\ q.phase = "committed" /\ q.open = r.open
        /\ q.fenced = FALSE
    BY DEF Runtimes
  <2> HIDE DEF q
  <2>4. r.cand = i /\ r.cand \in r.open
    BY <1>3 DEF Sound, Some
  <2>5. Refs(q) \subseteq Refs(r)
    BY <2>3, <2>4 DEF Refs, Some
  <2> QED
    BY <1>3, <2>2, <2>3, <2>4, <2>5
<1> QED
  BY <1>1, <1>2, <1>3

\* What begins to prepare swaps nothing: an earlier commit would have been in its way.
LEMMA BeginTrims ==
    ASSUME NEW r \in Runtimes, Sound(r), NEW i \in Ids, NEW q, q = PrepareBegin(r, i).rt
    PROVE  Trims(r, q) /\ q \in Runtimes
<1>1. /\ q \in Runtimes /\ q.open = r.open /\ q.act = r.act /\ q.prev = r.prev
      /\ ~PrepareBegin(r, i).ok => q.phase = r.phase
  BY BeginMoves
<1>2. PrepareBegin(r, i).ok => r.phase # "committed"
  BY DEF PrepareBegin, Outcome
<1>3. PrepareBegin(r, i).ok => r.prev = None
  BY <1>2 DEF Sound
<1>4. Refs(q) = Refs(r) /\ None \notin Refs(q)
  BY <1>1, NoneNoRef DEF Refs
<1> QED
  BY <1>1, <1>3, <1>4 DEF Trims, Stands

\* A load adds the runtime it is for to the references.
LEMMA LoadRefs ==
    ASSUME NEW r \in Runtimes, NEW q, NEW i \in Ids, q.open \subseteq r.open \cup {i},
           q.act = r.act, q.prev = r.prev
    PROVE  Refs(q) \subseteq Refs(r) \cup {i}
BY DEF Refs

(***************************************************************************)
(* Types.                                                                  *)
(***************************************************************************)
Terminal == {"abort", "finalize", "release"}
ScopeSet == [epoch : Int, link : Int]
Commands == [act : Actions, id : Ids, scope : ScopeSet]
            \cup [act : {"cleanup"}, id : {None}, scope : ScopeSet]
Locals == [phase : Phases, cand : MaybeIds, active : MaybeIds, prev : MaybeIds,
           restore : BOOLEAN, retired : BOOLEAN, pending : BOOLEAN]
Pcs == {"idle", "check", "begin", "load", "recheck", "promote", "promoted", "settle", "publish",
        "post", "ack", "nack", "error", "failed", "retire", "clear", "dead"}
Kinds == {"", "prepared", "done", "pending", "empty", "dropped", "released", "aborted",
          "finalized", "refused", "closed", "kept"}
Runners == [pc : Pcs, cmd : Commands \cup {NoCommand}, cancelled : BOOLEAN, kind : Kinds,
            loc : Locals]
Controllers == [epoch : Int, closed : BOOLEAN, cand : MaybeIds, phase : Phases,
                active : MaybeIds, prev : MaybeIds, scope : ScopeSet, latest : MaybeIds,
                retired : SUBSET Ids, pending : SUBSET Ids, fenced : BOOLEAN]

TypedWorld ==
    /\ net \in [up : BOOLEAN, link : Int, lost : BOOLEAN]
    /\ net.link \in 0..MaxLink /\ (~net.up => net.link < MaxLink)
    /\ cleanup \in [epoch : Int, done : BOOLEAN, unloaded : BOOLEAN]
    /\ waiter \in [on : BOOLEAN, epoch : Int]
    /\ stage \in [pc : {"off", "asked", "checked", "running"}, id : MaybeIds, epoch : Int]
    /\ stage.pc # "off" => stage.id # None
    /\ sent \in [count : Int, gen : MaybeIds, dropped : SUBSET Ids]
    /\ acked \subseteq Actions \X Ids
    /\ serving \in MaybeIds /\ proved \in BOOLEAN

TypedQueue == queue \in Seq(Commands) /\ Len(queue) <= QueueMax

\* Between taking a command and answering it the runner has one of the master's; the cleanup
\* of an invalidation is retired and cleared only.
TypedRunner ==
    /\ run \in Runners
    /\ run.pc \notin {"idle", "dead", "retire", "clear"} => run.cmd.act \in Actions
    /\ run.pc \in {"retire", "clear"} => run.cmd.act # "none"

TypedController ==
    /\ ctl \in Controllers
    /\ ctl.epoch \in 0..(MaxEpoch + 1) /\ (ctl.closed => ctl.epoch <= MaxEpoch)

Typed == TypedWorld /\ TypedQueue /\ TypedRunner /\ TypedController

LEMMA IdsNat == Ids \subseteq Nat /\ MaybeIds \subseteq Nat /\ None \in Nat
BY WorkerPrepareAssumption DEF Ids, None, MaybeIds

LEMMA IdleTyped == Idle \in Runners /\ NoLocals \in Locals /\ NoScope \in ScopeSet
<1>1. NoScope \in ScopeSet
  BY DEF NoScope, ScopeSet
<1>2. NoLocals \in Locals
  BY DEF NoLocals, Locals, MaybeIds, Phases
<1> QED
  BY <1>1, <1>2 DEF Idle, Runners, Pcs, Kinds

LEMMA NumbersTyped ==
    ASSUME Typed
    PROVE  {ctl.epoch, ctl.latest, ctl.cand, sent.gen} \subseteq Nat
<1>1. ctl.epoch \in Nat
  BY WorkerPrepareAssumption DEF Typed, TypedController
<1>2. {ctl.latest, ctl.cand, sent.gen} \subseteq Nat
  BY IdsNat DEF Typed, TypedController, TypedWorld, Controllers
<1> QED
  BY <1>1, <1>2

\* A command of the master carries an identity, whatever else the runner may hold.
LEMMA CommandId ==
    ASSUME Typed, run.cmd.act \in Actions
    PROVE  Cmd \in Ids /\ run.cmd \in Commands /\ run.cmd.scope \in ScopeSet
BY DEF Typed, TypedRunner, Runners, Commands, NoCommand, Actions, Cmd

LEMMA CommandTyped ==
    ASSUME Typed
    PROVE  /\ Cmd \in MaybeIds /\ run.cmd.scope \in ScopeSet
           /\ run.cmd.act \in Actions \cup {"cleanup", "none"}
BY IdleTyped DEF Typed, TypedRunner, Runners, Commands, NoCommand, Actions, Cmd, MaybeIds

LEMMA TypedInit == Init => Typed /\ rt \in Runtimes /\ Sound(rt)
<1> SUFFICES ASSUME Init PROVE Typed /\ rt \in Runtimes /\ Sound(rt)
  OBVIOUS
<1>1. TypedWorld
  <2>1. 0 \in 0..MaxLink /\ None \in MaybeIds
    BY WorkerPrepareAssumption DEF MaybeIds
  <2>2. /\ net \in [up : BOOLEAN, link : Int, lost : BOOLEAN]
    /\ net.link \in 0..MaxLink /\ (~net.up => net.link < MaxLink)
    BY <2>1 DEF Init
  <2>3. cleanup \in [epoch : Int, done : BOOLEAN, unloaded : BOOLEAN]
        /\ waiter \in [on : BOOLEAN, epoch : Int]
    BY <2>1 DEF Init, NoRetirement
  <2>4. stage \in [pc : {"off", "asked", "checked", "running"}, id : MaybeIds, epoch : Int]
    /\ (stage.pc # "off" => stage.id # None)
    BY <2>1 DEF Init
  <2>5. sent \in [count : Int, gen : MaybeIds, dropped : SUBSET Ids]
    BY <2>1 DEF Init
  <2>6. acked \subseteq Actions \X Ids
    /\ serving \in MaybeIds /\ proved \in BOOLEAN
    BY <2>1 DEF Init
  <2> QED
    BY <2>2, <2>3, <2>4, <2>5, <2>6 DEF TypedWorld
<1>2. TypedQueue
  BY WorkerPrepareAssumption, EmptySeq DEF Init, TypedQueue
<1>3. TypedRunner
  BY IdleTyped DEF Init, TypedRunner, Idle
<1>4. TypedController
  BY IdleTyped, WorkerPrepareAssumption DEF Init, TypedController, Controllers, MaybeIds, Phases
<1>5. rt \in Runtimes
  BY DEF Init, Runtimes, MaybeIds, Phases
<1>6. Sound(rt)
  BY DEF Init, Sound, Some
<1> QED
  BY <1>1, <1>2, <1>3, <1>4, <1>5, <1>6 DEF Typed

(***************************************************************************)
(* Steps of the runner, by field.                                          *)
(***************************************************************************)
SameCommand == run'.cmd = run.cmd
SameLocals == run'.loc = run.loc /\ run'.cancelled = run.cancelled

LEMMA GotoTyped ==
    ASSUME Typed, NEW pc \in Pcs, Goto(pc),
           pc \notin {"idle", "dead", "retire", "clear"} => run.cmd.act \in Actions,
           pc \in {"retire", "clear"} => run.cmd.act # "none"
    PROVE  TypedRunner' /\ run'.pc = pc /\ SameCommand /\ SameLocals /\ run'.kind = run.kind
<1>1. run' \in Runners
  BY DEF Typed, TypedRunner, Goto, Runners
<1>2. run'.pc = pc /\ SameCommand /\ SameLocals /\ run'.kind = run.kind
  BY DEF Typed, TypedRunner, Goto, Runners, SameCommand, SameLocals
<1> QED
  BY <1>1, <1>2 DEF TypedRunner, SameCommand

LEMMA GotoKindTyped ==
    ASSUME Typed, NEW pc \in Pcs, NEW kind \in Kinds, run' = [run EXCEPT !.pc = pc, !.kind = kind],
           pc \notin {"idle", "dead", "retire", "clear"} => run.cmd.act \in Actions,
           pc \in {"retire", "clear"} => run.cmd.act # "none"
    PROVE  TypedRunner' /\ run'.pc = pc /\ SameCommand /\ SameLocals /\ run'.kind = kind
<1>1. run' \in Runners
  BY DEF Typed, TypedRunner, Runners
<1>2. run'.pc = pc /\ SameCommand /\ SameLocals /\ run'.kind = kind
  BY DEF Typed, TypedRunner, Runners, SameCommand, SameLocals
<1> QED
  BY <1>1, <1>2 DEF TypedRunner, SameCommand

LEMMA FrameTyped ==
    ASSUME Typed, RunnerFrame
    PROVE  TypedWorld' /\ TypedQueue'
BY DEF Typed, TypedWorld, TypedQueue, RunnerFrame

LEMMA IdleStays ==
    ASSUME run' = Idle
    PROVE  TypedRunner' /\ run'.pc = "idle" /\ run'.cmd = NoCommand
BY IdleTyped DEF TypedRunner, Idle, NoCommand, Runners

\* Replacing a dead runner and cancelling the busy one.
LEMMA StartedTyped ==
    ASSUME Typed, NEW c \in BOOLEAN, run' = [Started EXCEPT !.cancelled = @ \/ c]
    PROVE  /\ TypedRunner'
           /\ run.pc # "dead" => run'.pc = run.pc /\ run'.cmd = run.cmd /\ run'.loc = run.loc
                                 /\ run'.kind = run.kind
           /\ run.pc = "dead" => run'.pc = "idle" /\ run'.cmd = NoCommand
<1>1. CASE run.pc = "dead"
  <2>1. run' = [Idle EXCEPT !.cancelled = Idle.cancelled \/ c]
    BY <1>1 DEF Started
  <2>2. run' \in Runners
    BY <2>1, IdleTyped DEF Runners
  <2>3. run'.pc = "idle" /\ run'.cmd = NoCommand
    BY <2>1, IdleTyped DEF Runners, Idle
  <2> QED
    BY <1>1, <2>2, <2>3 DEF TypedRunner
<1>2. CASE run.pc # "dead"
  <2>1. run' = [run EXCEPT !.cancelled = run.cancelled \/ c]
    BY <1>2 DEF Started
  <2>2. run' \in Runners
    BY <2>1 DEF Typed, TypedRunner, Runners
  <2>3. run'.pc = run.pc /\ run'.cmd = run.cmd /\ run'.loc = run.loc /\ run'.kind = run.kind
    BY <2>1 DEF Typed, TypedRunner, Runners
  <2> QED
    BY <1>2, <2>2, <2>3 DEF TypedRunner, Typed
<1> QED
  BY <1>1, <1>2

\* What every invalidation does to the controller, the queue and the runtimes.
LEMMA InvalidateMoves ==
    ASSUME Typed, rt \in Runtimes, Sound(rt), NEW close \in BOOLEAN, Invalidate(close)
    PROVE  /\ TypedController' /\ TypedQueue'
           /\ cleanup' \in [epoch : Int, done : BOOLEAN, unloaded : BOOLEAN]
           /\ serving' \in MaybeIds
           /\ ctl'.epoch = ctl.epoch + 1 /\ ctl'.fenced /\ (close \/ ctl.closed <=> ctl'.closed)
           /\ ctl'.cand = None /\ ctl'.active = None /\ ctl'.prev = None /\ ctl'.latest = None
           /\ ctl'.pending = ctl.pending \cup Some({ctl.cand, ctl.active, ctl.prev})
           /\ ctl'.retired = ctl.retired
           /\ Shrinks(rt, rt') /\ rt' = [rt EXCEPT !.fenced = TRUE]
           /\ queue' = Requeued /\ cleanup'.epoch = ctl.epoch + 1 /\ ~cleanup'.done
<1> DEFINE pending == ctl.pending \cup Some({ctl.cand, ctl.active, ctl.prev})
           closed == ctl.closed \/ close
<1>1. ctl \in Controllers /\ ctl.epoch \in Int
  BY DEF Typed, TypedController, Controllers
<1>2. /\ pending \in SUBSET Ids /\ None \in MaybeIds /\ closed \in BOOLEAN
      /\ closed <=> close \/ ctl.closed
  BY <1>1, NoneNoId DEF Controllers, Some, MaybeIds
<1>3. ctl' = [ctl EXCEPT !.epoch = ctl.epoch + 1, !.closed = closed,
                          !.fenced = TRUE, !.pending = pending,
                          !.cand = None, !.active = None, !.prev = None,
                          !.scope = NoScope, !.latest = None, !.phase = "released"]
  BY DEF Invalidate
<1> HIDE DEF pending, closed
<1>4. ctl' \in Controllers
  <2>1. "released" \in Phases /\ ctl.epoch + 1 \in Int
    BY <1>1 DEF Phases
  <2> QED
    BY <1>1, <1>2, <1>3, <2>1, IdleTyped DEF Controllers
<1>5. /\ ctl'.epoch = ctl.epoch + 1 /\ ctl'.fenced /\ (close \/ ctl.closed <=> ctl'.closed)
      /\ ctl'.cand = None /\ ctl'.active = None /\ ctl'.prev = None /\ ctl'.latest = None
      /\ ctl'.pending = pending /\ ctl'.retired = ctl.retired
  BY <1>1, <1>2, <1>3 DEF Controllers
<1>6. TypedController'
  BY <1>4, <1>5, WorkerPrepareAssumption DEF TypedController, Typed, Invalidate
<1>7. queue' = Requeued
  BY DEF Invalidate
<1>8. TypedQueue'
  <2>1. net.link \in Int
    BY DEF Typed, TypedWorld
  <2>2. [act |-> "cleanup", id |-> None, scope |-> [epoch |-> ctl.epoch + 1, link |-> net.link]]
          \in Commands
    BY <1>1, <2>1 DEF Commands, ScopeSet
  <2> QED
    BY <1>7, <2>2, WorkerPrepareAssumption DEF TypedQueue, Requeued
<1>9. Shrinks(rt, rt') /\ rt' = [rt EXCEPT !.fenced = TRUE]
  BY FencedShrinks DEF Invalidate
<1>10. /\ cleanup' = [epoch |-> ctl.epoch + 1, done |-> FALSE, unloaded |-> FALSE]
       /\ serving' = None
  BY DEF Invalidate
<1> QED
  BY <1>1, <1>2, <1>5, <1>6, <1>7, <1>8, <1>9, <1>10 DEF pending

(***************************************************************************)
(* The inductive invariant.                                                *)
(***************************************************************************)
Engine == rt \in Runtimes /\ Sound(rt)

\* No command is of a later epoch than the controller's, and no candidate newer than the newest
\* identity admitted.
Clock ==
    /\ run.cmd.scope.epoch <= ctl.epoch
    /\ \A k \in 1..Len(queue) : queue[k].scope.epoch <= ctl.epoch
    /\ ctl.latest <= sent.gen /\ ctl.cand <= ctl.latest

\* The runner's command is of the current epoch: nothing was invalidated since it was accepted.
Current == run.cmd.scope.epoch = ctl.epoch

\* A candidate the controller knows is live, nothing is pending beside it, and only the runner
\* that loads it leaves it "preparing".
Candidate ==
    /\ ctl.closed => ctl.cand = None
    /\ ctl.cand # None => /\ ctl.phase \in {"preparing", "prepared", "committed", "finalized", "failed"}
                          /\ ctl.pending = {}
    /\ ctl.cand # None /\ ctl.phase = "preparing" =>
         /\ run.pc \in {"load", "recheck", "publish", "error", "clear", "failed"}
         /\ run.cmd.act = "prepare" /\ Cmd = ctl.cand /\ Current

\* A commit of the host is one the controller knows: of its candidate, or of an identity that an
\* invalidation left to be retired.
Promoted ==
    rt.phase = "committed" =>
      \/ /\ ctl.pending = {} /\ ctl.cand = rt.ident
         /\ ctl.phase \in {"prepared", "committed", "failed"}
      \/ rt.ident \in ctl.pending

\* An identity no prepare can be admitted for again: older than the newest, or retired.
Newest == IF ctl.latest # None THEN ctl.latest ELSE sent.gen
Spent(x) == x = None \/ x < Newest \/ x \in ctl.retired

\* What the host holds is spent, pending or the candidate: a load never meets its own identity.
Old ==
    /\ Spent(rt.act) \/ rt.act \in ctl.pending \/ rt.act = ctl.cand
    /\ Spent(rt.prev) \/ rt.prev \in ctl.pending

\* The runner still has the candidate it works for, or an invalidation has made it pending.
Held(phase) == IF Current THEN ctl.cand = Cmd /\ ctl.phase = phase ELSE Cmd \in ctl.pending

Dropping == run.loc.cand # None /\ run.loc.phase \in {"prepared", "failed"}

AtBegin == run.pc = "begin" =>
    /\ run.cmd.act = "prepare"
    /\ rt.phase = "committed" => Dropping /\ rt.ident = run.loc.cand
    /\ rt.act = Cmd => Dropping /\ run.loc.cand = Cmd
    /\ Current => /\ run.loc.cand = ctl.cand /\ ctl.pending = {}
                  /\ ~Dropping => ctl.cand < Cmd
                  /\ Cmd <= ctl.latest

AtLoad == run.pc = "load" =>
    /\ run.cmd.act = "prepare" /\ Held("preparing")
    /\ rt.ident = Cmd /\ rt.phase = "preparing" /\ rt.cand = None /\ rt.act # Cmd

AtLoaded == run.pc = "recheck" \/ (run.pc = "publish" /\ run.kind = "prepared") =>
    /\ run.cmd.act = "prepare" /\ Held("preparing")
    /\ rt.ident = Cmd /\ rt.phase = "prepared"

AtPromote == run.pc \in {"promote", "promoted"} =>
    /\ run.cmd.act = "commit" /\ Held("prepared")
    /\ run.pc = "promoted" => rt.ident = Cmd

AtSettle == run.pc = "settle" =>
    /\ run.cmd.act \in Terminal
    /\ Cmd = run.loc.cand /\ rt.phase = "committed" => rt.ident = Cmd
    /\ Current => run.loc.cand = ctl.cand
    /\ run.loc.pending => Cmd \in ctl.pending
    /\ run.loc.retired => Cmd \in ctl.retired

AtPublish == run.pc = "publish" =>
    /\ run.kind \in {"prepared", "empty", "dropped", "released", "aborted", "finalized"}
    /\ run.kind # "prepared" => run.cmd.act \in Terminal
    /\ run.kind \in {"empty", "aborted", "released"} =>
         Cmd \in ctl.retired /\ (ctl.cand = Cmd => rt.phase # "committed")
    /\ run.kind = "aborted" => rt.phase # "committed" /\ (Current => ctl.cand = Cmd)
    /\ run.kind = "finalized" => rt.phase = "finalized"

AtPost == run.pc = "post" =>
    (run.cmd.act = "prepare" /\ rt.phase = "committed" => rt.ident = Cmd)

AtClear == run.pc = "clear" /\ run.kind = "closed" =>
    Empty(rt) /\ rt.cand = None /\ rt.prev = None

Steps == AtBegin /\ AtLoad /\ AtLoaded /\ AtPromote /\ AtSettle /\ AtPublish /\ AtPost /\ AtClear

Tied == Clock /\ Candidate /\ Promoted /\ Old

IInv == Typed /\ Engine /\ Tied /\ Steps

LEMMA IInvInit == Init => IInv
<1> SUFFICES ASSUME Init PROVE IInv
  OBVIOUS
<1>1. Typed /\ Engine
  BY TypedInit DEF Engine
<1>2. Clock
  <2>1. run.cmd.scope.epoch = -1 /\ Len(queue) = 0 /\ ctl.epoch = 0 /\ ctl.latest = None
        /\ ctl.cand = None /\ sent.gen = None
    BY DEF Init, Idle, NoCommand, NoScope
  <2> QED
    BY <2>1, IdsNat DEF Clock
<1>3. Candidate /\ Promoted /\ Old
  BY DEF Init, Candidate, Promoted, Old, Spent
<1>4. Steps
  BY DEF Init, Idle, Steps, AtBegin, AtLoad, AtLoaded, AtPromote, AtSettle, AtPublish, AtPost, AtClear
<1> QED
  BY <1>1, <1>2, <1>3, <1>4 DEF IInv, Tied

(***************************************************************************)
(* Steps of the other threads: what the runner was told stays true.        *)
(***************************************************************************)
SameReferences ==
    /\ rt'.ident = rt.ident /\ rt'.phase = rt.phase /\ rt'.open = rt.open
    /\ rt'.cand = rt.cand /\ rt'.act = rt.act /\ rt'.prev = rt.prev

SameStep ==
    \/ run'.pc = run.pc /\ run'.cmd = run.cmd /\ run'.loc = run.loc /\ run'.kind = run.kind
    \/ run.pc = "dead" /\ run'.pc = "idle" /\ run'.cmd = NoCommand

\* The runner is between two of the stretches of code the invariant speaks of.
Outside == {"idle", "dead", "check", "error", "failed", "nack", "ack", "retire"}

LEMMA OutsideSteps ==
    ASSUME run'.pc \in Outside
    PROVE  Steps'
BY DEF Outside, Steps, AtBegin, AtLoad, AtLoaded, AtPromote, AtSettle, AtPublish, AtPost, AtClear

LEMMA FencedReferences ==
    ASSUME Engine, rt' = rt \/ rt' = Fenced(rt)
    PROVE  Engine' /\ SameReferences
<1>1. CASE rt' = rt
  BY <1>1 DEF Engine, SameReferences
<1>2. CASE rt' = Fenced(rt)
  <2>1. rt' = [rt EXCEPT !.fenced = TRUE] /\ Shrinks(rt, rt')
    BY <1>2, FencedShrinks DEF Engine
  <2>2. SameReferences
    BY <2>1 DEF Engine, Runtimes, SameReferences
  <2> QED
    BY <2>1, <2>2 DEF Engine, Shrinks
<1> QED
  BY <1>1, <1>2

LEMMA NewestGrows ==
    ASSUME Typed, Typed', Clock, Clock', sent'.gen >= sent.gen,
           ctl'.latest = ctl.latest \/ ctl'.latest >= sent.gen,
           ctl.retired \subseteq ctl'.retired, NEW x \in MaybeIds, Spent(x)
    PROVE  Spent(x)'
<1>1. {ctl.latest, ctl'.latest, sent.gen, sent'.gen} \subseteq Nat
  BY ZenonT(60), IdsNat DEF Typed, TypedController, TypedWorld, Controllers
<1>2. Newest' >= Newest /\ Newest \in Nat /\ Newest' \in Nat
  BY <1>1, IdsNat DEF Newest, Clock, None
<1>3. x \in Nat
  BY IdsNat
<1> QED
  BY <1>2, <1>3 DEF Spent

\* A step that admits a newer identity at most.
LEMMA AdmitKeeps ==
    ASSUME IInv, Typed', Engine', Clock', SameReferences, SameStep,
           ctl'.epoch = ctl.epoch, ctl'.closed = ctl.closed, ctl'.cand = ctl.cand,
           ctl'.phase = ctl.phase, ctl'.pending = ctl.pending, ctl'.retired = ctl.retired,
           ctl'.latest = ctl.latest \/ ctl'.latest >= sent.gen, sent'.gen >= sent.gen
    PROVE  IInv'
<1>1. /\ {ctl.latest, ctl'.latest, sent.gen} \subseteq Nat /\ Cmd \in Nat
      /\ rt.act \in MaybeIds /\ rt.prev \in MaybeIds /\ ctl'.latest >= ctl.latest
  <2>1. /\ {ctl.latest, ctl'.latest, sent.gen} \subseteq Nat /\ Cmd \in Nat
        /\ rt.act \in MaybeIds /\ rt.prev \in MaybeIds
    BY ZenonT(60), IdsNat, CommandTyped
      DEF IInv, Typed, TypedController, TypedWorld, Controllers, Engine, Runtimes
  <2> QED
    BY <2>1 DEF IInv, Tied, Clock
<1>2. Old'
  BY <1>1, NewestGrows DEF IInv, Tied, Old, SameReferences
<1>3. Promoted'
  BY DEF IInv, Tied, Promoted, SameReferences
<1>4. Candidate'
  BY DEF IInv, Tied, Candidate, SameStep, Cmd, Current
<1>5. CASE run'.pc = "idle"
  <2>1. Steps'
    BY <1>5, OutsideSteps DEF Outside
  <2> QED
    BY <1>2, <1>3, <1>4, <2>1 DEF IInv, Tied
<1>6. CASE run'.pc = run.pc /\ run'.cmd = run.cmd /\ run'.loc = run.loc /\ run'.kind = run.kind
  <2>1. Cmd' = Cmd /\ Current' = Current /\ Dropping' = Dropping
        /\ \A p \in Phases : Held(p)' = Held(p)
    BY <1>6 DEF Cmd, Current, Dropping, Held
  <2>2. AtBegin'
    BY <1>1, <1>6, <2>1 DEF IInv, Steps, AtBegin, SameReferences
  <2>3. AtLoad' /\ AtLoaded' /\ AtPromote'
    BY <1>6, <2>1 DEF IInv, Steps, AtLoad, AtLoaded, AtPromote, SameReferences, Phases
  <2>4. AtSettle' /\ AtPublish' /\ AtPost'
    BY <1>6, <2>1 DEF IInv, Steps, AtSettle, AtPublish, AtPost, SameReferences
  <2>5. AtClear'
    BY <1>6 DEF IInv, Steps, AtClear, SameReferences, Empty
  <2> QED
    BY <1>2, <1>3, <1>4, <2>2, <2>3, <2>4, <2>5 DEF IInv, Tied, Steps
<1> QED
  BY <1>5, <1>6 DEF SameStep

\* An invalidation: what the controller knew becomes pending.
LEMMA InvalidateKeeps ==
    ASSUME IInv, NEW close \in BOOLEAN, Invalidate(close), SameStep \/ run' = Idle,
           TypedRunner', TypedWorld', sent' = sent
    PROVE  IInv'
<1>1. /\ TypedController' /\ TypedQueue'
      /\ ctl'.epoch = ctl.epoch + 1 /\ ctl'.cand = None /\ ctl'.latest = None
      /\ ctl'.pending = ctl.pending \cup Some({ctl.cand, ctl.active, ctl.prev})
      /\ ctl'.retired = ctl.retired
      /\ queue' = Requeued
  BY InvalidateMoves DEF IInv, Engine
<1>2. Typed'
  BY <1>1 DEF Typed
<1>3. Engine' /\ SameReferences
  BY FencedReferences DEF IInv, Invalidate
<1>4. /\ {ctl.latest, sent.gen, ctl.cand} \subseteq Nat /\ Cmd \in MaybeIds
      /\ rt.act \in MaybeIds /\ rt.prev \in MaybeIds /\ ctl.epoch \in Nat
      /\ run.cmd.scope.epoch \in Int /\ Cmd \in Nat
  <2>1. /\ {ctl.latest, sent.gen, ctl.cand} \subseteq Nat /\ ctl.epoch \in Nat
    BY NumbersTyped DEF IInv
  <2>2. rt.act \in MaybeIds /\ rt.prev \in MaybeIds
    BY DEF IInv, Engine, Runtimes
  <2>3. Cmd \in MaybeIds /\ run.cmd.scope.epoch \in Int
    BY CommandTyped DEF IInv, ScopeSet
  <2> QED
    BY <2>1, <2>2, <2>3, IdsNat
<1>5. ASSUME NEW x \in MaybeIds, Spent(x) PROVE Spent(x)'
  <2>1. Newest' = sent.gen /\ Newest <= sent.gen /\ Newest \in Nat
    BY <1>1, <1>4 DEF Newest, IInv, Tied, Clock
  <2>2. x \in Nat
    BY IdsNat
  <2> QED
    BY <1>1, <1>4, <1>5, <2>1, <2>2 DEF Spent
<1>6. ctl.pending \subseteq ctl'.pending /\ (ctl.cand # None => ctl.cand \in ctl'.pending)
  BY <1>1 DEF Some
<1>7. Old'
  BY <1>3, <1>4, <1>5, <1>6 DEF IInv, Tied, Old, SameReferences, Spent
<1>8. Promoted'
  BY <1>3, <1>6 DEF IInv, Tied, Promoted, SameReferences, Engine, Sound
<1>9. Candidate'
  BY <1>1 DEF Candidate
<1>10. run'.cmd = run.cmd \/ run'.cmd = NoCommand
  BY IdleStays DEF SameStep
<1>11. Clock'
  <2>1. run'.cmd.scope.epoch <= ctl'.epoch
    BY <1>1, <1>4, <1>10 DEF IInv, Tied, Clock, NoCommand, NoScope
  <2>2. \A k \in 1..Len(queue') : queue'[k].scope.epoch <= ctl'.epoch
    BY <1>1, <1>4 DEF Requeued
  <2> QED
    BY <1>1, <1>4, <2>1, <2>2 DEF Clock, None
<1>12. CASE run'.pc = "idle"
  <2>1. Steps'
    BY <1>12, OutsideSteps DEF Outside
  <2> QED
    BY <1>2, <1>3, <1>7, <1>8, <1>9, <1>11, <2>1 DEF IInv, Tied
<1>13. CASE run'.pc = run.pc /\ run'.cmd = run.cmd /\ run'.loc = run.loc /\ run'.kind = run.kind
  <2>1. Cmd' = Cmd /\ ~Current' /\ Dropping' = Dropping
    BY <1>1, <1>4, <1>13 DEF Cmd, Current, Dropping, IInv, Tied, Clock
  <2>2. ASSUME run.cmd.act \in Actions, NEW p, Held(p) PROVE Held(p)'
    <3>1. Cmd # None
      BY <2>2, CommandId, NoneNoId DEF IInv
    <3> QED
      BY <1>6, <2>1, <2>2, <3>1 DEF Held
  <2>3. AtBegin'
    BY <1>3, <1>13, <2>1 DEF IInv, Steps, AtBegin, SameReferences
  <2>4. AtLoad' /\ AtLoaded' /\ AtPromote'
    BY <1>3, <1>13, <2>1, <2>2
      DEF IInv, Steps, AtLoad, AtLoaded, AtPromote, SameReferences, Actions
  <2>5. AtSettle'
    BY <1>1, <1>3, <1>6, <1>13, <2>1 DEF IInv, Steps, AtSettle, SameReferences
  <2>6. AtPublish' /\ AtPost'
    <3>1. run.cmd.act \in Actions => Cmd # None
      BY CommandId, NoneNoId DEF IInv
    <3>2. run.pc = "publish" => run.cmd.act \in Actions
      BY DEF IInv, Typed, TypedRunner
    <3> QED
      BY <1>1, <1>3, <1>13, <2>1, <3>1, <3>2
        DEF IInv, Steps, AtPublish, AtPost, SameReferences
  <2>7. AtClear'
    BY <1>3, <1>13 DEF IInv, Steps, AtClear, SameReferences, Empty
  <2> QED
    BY <1>2, <1>3, <1>7, <1>8, <1>9, <1>11, <2>3, <2>4, <2>5, <2>6, <2>7 DEF IInv, Tied, Steps
<1> QED
  BY <1>12, <1>13, IdleStays DEF SameStep

LEMMA HandleKeeps ==
    ASSUME IInv, NEW a \in Actions, NEW i \in Ids, Handle(a, i)
    PROVE  IInv'
<1> DEFINE newer == a = "prepare" /\ i > ctl.latest
           cancels == /\ Busy /\ run.cmd.act = "prepare"
                      /\ newer \/ (a \in {"abort", "release"} /\ run.cmd.id = i)
           gen == IF a = "prepare" THEN i ELSE sent.gen
           dropped == sent.dropped \cup (IF a \in {"abort", "release"} THEN {i} ELSE {})
           command == [act |-> a, id |-> i, scope |-> Scope]
<1>1. /\ a = "prepare" => i = sent.gen \/ i = sent.gen + 1
      /\ Len(queue) < QueueMax
      /\ sent' = [count |-> sent.count + 1, gen |-> gen, dropped |-> dropped]
      /\ ctl' = IF newer THEN [ctl EXCEPT !.latest = i, !.fenced = TRUE] ELSE ctl
      /\ rt' = IF newer THEN Fenced(rt) ELSE rt
      /\ run' = [Started EXCEPT !.cancelled = @ \/ cancels]
      /\ queue' = Append(queue, command)
      /\ serving' = IF a = "finalize" THEN serving ELSE None
      /\ proved' = (proved /\ a # "prepare")
      /\ UNCHANGED <<net, cleanup, waiter, stage, acked>>
  BY DEF Handle, Offered, CanEnqueue
<1>2. /\ {ctl.latest, sent.gen, ctl.cand, i} \subseteq Nat /\ ctl.epoch \in Int
      /\ cancels \in BOOLEAN /\ i \in MaybeIds /\ net.link \in Int /\ newer \in BOOLEAN
  BY ZenonT(60), IdsNat DEF IInv, Typed, TypedController, TypedWorld, Controllers, MaybeIds
<1>3. gen \in MaybeIds /\ gen \in Nat /\ gen >= sent.gen /\ (newer => gen = i /\ i >= sent.gen)
  BY <1>1, <1>2 DEF IInv, Typed, TypedWorld
<1>4. dropped \in SUBSET Ids
  BY DEF IInv, Typed, TypedWorld
<1>5. command \in Commands /\ command.scope.epoch = ctl.epoch
  BY <1>2 DEF Commands, ScopeSet, Scope
<1>6. newer => i > ctl.latest
  OBVIOUS
<1> HIDE DEF gen, dropped, command, newer, cancels
<1>7. TypedRunner' /\ SameStep
  BY <1>1, <1>2, StartedTyped DEF IInv, SameStep
<1>8. /\ sent' \in [count : Int, gen : MaybeIds, dropped : SUBSET Ids] /\ sent'.gen = gen
  BY <1>1, <1>3, <1>4 DEF IInv, Typed, TypedWorld
<1>9. TypedWorld'
  BY <1>1, <1>8 DEF IInv, Typed, TypedWorld, MaybeIds
<1>10. TypedQueue' /\ Len(queue') = Len(queue) + 1
       /\ \A k \in 1..Len(queue') : queue'[k] = IF k <= Len(queue) THEN queue[k] ELSE command
  BY <1>1, <1>5, WorkerPrepareAssumption DEF IInv, Typed, TypedQueue
<1>11. /\ ctl' \in Controllers /\ ctl'.latest = (IF newer THEN i ELSE ctl.latest)
       /\ ctl'.epoch = ctl.epoch /\ ctl'.closed = ctl.closed /\ ctl'.cand = ctl.cand
       /\ ctl'.phase = ctl.phase /\ ctl'.pending = ctl.pending /\ ctl'.retired = ctl.retired
  <2>1. CASE newer
    BY <1>1, <1>2, <2>1 DEF IInv, Typed, TypedController, Controllers
  <2>2. CASE ~newer
    BY <1>1, <2>2 DEF IInv, Typed, TypedController
  <2> QED
    BY <2>1, <2>2
<1>12. Typed'
  BY <1>7, <1>9, <1>10, <1>11 DEF IInv, Typed, TypedController
<1>13. Engine' /\ SameReferences
  BY <1>1, FencedReferences DEF IInv
<1>14. Clock'
  <2>1. run'.cmd.scope.epoch <= ctl'.epoch
    <3>1. ctl.epoch \in Nat
      BY WorkerPrepareAssumption DEF IInv, Typed, TypedController
    <3> QED
      BY <1>7, <1>11, <3>1 DEF SameStep, NoCommand, NoScope, IInv, Tied, Clock
  <2>2. \A k \in 1..Len(queue') : queue'[k].scope.epoch <= ctl'.epoch
    <3>1. Len(queue) \in Nat
      BY DEF IInv, Typed, TypedQueue
    <3> QED
      BY <1>2, <1>5, <1>10, <1>11, <3>1 DEF IInv, Tied, Clock
  <2>3. ctl'.latest <= sent'.gen /\ ctl'.cand <= ctl'.latest
    BY <1>2, <1>3, <1>6, <1>8, <1>11 DEF IInv, Tied, Clock
  <2> QED
    BY <2>1, <2>2, <2>3 DEF Clock
<1> QED
  BY <1>2, <1>3, <1>7, <1>8, <1>11, <1>12, <1>13, <1>14, AdmitKeeps

\* The other steps that invalidate.
LEMMA InvalidateNowKeeps ==
    ASSUME IInv, NEW close \in BOOLEAN, InvalidateNow(close),
           net' \in [up : BOOLEAN, link : Int, lost : BOOLEAN], net'.link = net.link,
           net'.up = net.up, waiter' \in [on : BOOLEAN, epoch : Int], proved' \in BOOLEAN
    PROVE  IInv'
<1>1. Busy \in BOOLEAN /\ run' = [Started EXCEPT !.cancelled = @ \/ Busy]
      /\ Invalidate(close) /\ UNCHANGED <<stage, sent, acked>>
  BY DEF InvalidateNow, Busy
<1>2. TypedRunner' /\ SameStep
  <2> DEFINE c == Busy
  <2>1. c \in BOOLEAN /\ run' = [Started EXCEPT !.cancelled = @ \/ c]
    BY <1>1
  <2> HIDE DEF c
  <2> QED
    BY <2>1, StartedTyped DEF IInv, SameStep
<1>3. TypedWorld'
  BY <1>1, InvalidateMoves DEF IInv, Engine, Typed, TypedWorld
<1> QED
  BY <1>1, <1>2, <1>3, InvalidateKeeps

LEMMA LostKeeps ==
    ASSUME IInv, Lost
    PROVE  IInv'
<1>1. /\ net' \in [up : BOOLEAN, link : Int, lost : BOOLEAN]
      /\ net'.link = net.link /\ net'.up = net.up
  BY DEF Lost, IInv, Typed, TypedWorld
<1>2. waiter' \in [on : BOOLEAN, epoch : Int] /\ proved' \in BOOLEAN
      /\ waiter' = waiter /\ proved' = proved
  BY DEF Lost, IInv, Typed, TypedWorld
<1>3. CASE net.up
  <2>1. UNCHANGED <<ctl, queue, run, rt, cleanup, stage, sent, acked, serving>>
    BY <1>3 DEF Lost
  <2>2. Typed'
    BY <1>1, <1>2, <2>1 DEF IInv, Typed, TypedWorld, TypedQueue, TypedRunner, TypedController
  <2>3. Engine' /\ SameReferences /\ SameStep /\ Clock'
    BY <2>1 DEF IInv, Tied, Engine, SameReferences, SameStep, Clock
  <2>4. sent'.gen >= sent.gen
    BY <2>1, NumbersTyped DEF IInv
  <2> QED
    BY <2>1, <2>2, <2>3, <2>4, AdmitKeeps
<1>4. CASE ~net.up
  <2>1. InvalidateNow(FALSE)
    BY <1>4 DEF Lost
  <2> QED
    BY <1>1, <1>2, <2>1, InvalidateNowKeeps
<1> QED
  BY <1>3, <1>4

LEMMA CloseKeeps ==
    ASSUME IInv, Close
    PROVE  IInv'
BY InvalidateNowKeeps DEF Close, IInv, Typed, TypedWorld

LEMMA RetireBeginKeeps ==
    ASSUME IInv, RetireBegin
    PROVE  IInv'
<1>1. ctl.epoch + 1 \in Int
  BY DEF IInv, Typed, TypedController, Controllers
<1> QED
  BY <1>1, InvalidateNowKeeps DEF RetireBegin, IInv, Typed, TypedWorld

LEMMA AckFailsKeeps ==
    ASSUME IInv, AckFails
    PROVE  IInv'
<1>1. Invalidate(FALSE) /\ run' = Idle /\ UNCHANGED <<net, waiter, stage, sent, acked, proved>>
  BY DEF AckFails
<1>2. TypedRunner'
  BY <1>1, IdleStays
<1>3. TypedWorld'
  BY <1>1, InvalidateMoves DEF IInv, Engine, Typed, TypedWorld
<1> QED
  BY <1>1, <1>2, <1>3, InvalidateKeeps

\* A step of the connection, of a waiter or of the stage thread.
LEMMA WorldKeeps ==
    ASSUME IInv, UNCHANGED <<ctl, queue, run, rt, sent>>, TypedWorld'
    PROVE  IInv'
<1>1. Typed'
  BY DEF IInv, Typed, TypedQueue, TypedRunner, TypedController
<1>2. Engine' /\ SameReferences /\ SameStep /\ Clock'
  BY DEF IInv, Tied, Engine, SameReferences, SameStep, Clock
<1>3. sent'.gen >= sent.gen
  BY NumbersTyped DEF IInv
<1> QED
  BY <1>1, <1>2, <1>3, AdmitKeeps

LEMMA OthersKeep ==
    ASSUME IInv, Drop \/ Reconnect \/ RetireJoin \/ RetireTimeout \/ StageAsk \/ StageThread
    PROVE  IInv'
<1>1. TypedWorld
  BY DEF IInv, Typed
<1>2. CASE Drop
  <2>1. net' \in [up : BOOLEAN, link : Int, lost : BOOLEAN] /\ net'.link = net.link
        /\ net.link < MaxLink
    BY <1>1, <1>2 DEF Drop, TypedWorld
  <2>2. acked' \subseteq Actions \X Ids /\ None \in MaybeIds
    BY <1>1, <1>2 DEF Drop, TypedWorld, MaybeIds
  <2>3. TypedWorld'
    BY <1>1, <1>2, <2>1, <2>2 DEF Drop, TypedWorld
  <2> QED
    BY <1>2, <2>3, WorldKeeps DEF Drop
<1>3. CASE Reconnect
  <2>1. net' \in [up : BOOLEAN, link : Int, lost : BOOLEAN] /\ net'.link = net.link + 1 /\ net'.up
    <3>1. net' = [net EXCEPT !.up = TRUE, !.link = net.link + 1] /\ net.link + 1 \in Int
      BY <1>1, <1>3 DEF Reconnect, TypedWorld
    <3> QED
      BY <1>1, <3>1 DEF TypedWorld
  <2>2. net'.link \in 0..MaxLink
    BY <1>1, <1>3, <2>1, WorkerPrepareAssumption DEF Reconnect, TypedWorld
  <2>3. TypedWorld'
    BY <1>1, <1>3, <2>1, <2>2 DEF Reconnect, TypedWorld
  <2> QED
    BY <1>3, <2>3, WorldKeeps DEF Reconnect
<1>4. CASE RetireJoin
  <2>1. TypedWorld'
    BY <1>1, <1>4 DEF RetireJoin, TypedWorld
  <2> QED
    BY <1>4, <2>1, WorldKeeps DEF RetireJoin
<1>5. CASE RetireTimeout
  <2>1. TypedWorld'
    BY <1>1, <1>5 DEF RetireTimeout, TypedWorld
  <2> QED
    BY <1>5, <2>1, WorldKeeps DEF RetireTimeout
<1>6. CASE StageAsk
  <2>1. ctl.active \in MaybeIds /\ ctl.active # None /\ ctl.epoch \in Int
    BY <1>6 DEF StageAsk, IInv, Typed, TypedController, Controllers
  <2>2. TypedWorld'
    BY <1>1, <1>6, <2>1 DEF StageAsk, StageFrame, TypedWorld
  <2> QED
    BY <1>6, <2>2, WorldKeeps DEF StageAsk, StageFrame
<1>7. CASE StageThread
  <2>1. NoStage \in [pc : {"off", "asked", "checked", "running"}, id : MaybeIds, epoch : Int]
        /\ NoStage.pc = "off"
    BY DEF NoStage, MaybeIds
  <2>2. /\ stage' \in [pc : {"off", "asked", "checked", "running"}, id : MaybeIds, epoch : Int]
        /\ stage'.pc # "off" => stage'.id # None
    BY <1>1, <1>7, <2>1 DEF StageThread, StageCheck, StageStart, StageDone, TypedWorld
  <2>3. StageFrame
    BY <1>7 DEF StageThread, StageCheck, StageStart, StageDone
  <2>4. TypedWorld'
    BY <1>1, <2>2, <2>3 DEF StageFrame, TypedWorld
  <2> QED
    BY <2>3, <2>4, WorldKeeps DEF StageFrame
<1> QED
  BY <1>2, <1>3, <1>4, <1>5, <1>6, <1>7

LEMMA DiesKeeps ==
    ASSUME IInv, NEW i \in Ids, Dies(i)
    PROVE  IInv'
<1> DEFINE q == [rt EXCEPT !.dead = @ \cup {i}]
<1>1. rt' = q /\ UNCHANGED <<net, ctl, queue, run, cleanup, waiter, stage, sent, acked, serving, proved>>
  BY DEF Dies
<1>2. Shrinks(rt, q) /\ q.act = rt.act /\ q.cand = rt.cand /\ q.prev = rt.prev
      /\ q.phase = rt.phase /\ q.open = rt.open
  BY DiesMoves DEF IInv, Engine
<1> HIDE DEF q
<1>3. Engine' /\ SameReferences
  BY <1>1, <1>2 DEF Engine, SameReferences, Shrinks
<1>4. Typed'
  BY <1>1 DEF IInv, Typed, TypedWorld, TypedQueue, TypedRunner, TypedController
<1>5. SameStep /\ Clock'
  BY <1>1 DEF IInv, Tied, SameStep, Clock
<1>6. sent'.gen >= sent.gen
  BY <1>1, NumbersTyped DEF IInv
<1> QED
  BY <1>1, <1>3, <1>4, <1>5, <1>6, AdmitKeeps

\* While the controller is closed it has no candidate, so that no step of the runner relies on
\* the epoch that ends.
LEMMA ReopenKeeps ==
    ASSUME IInv, Reopen
    PROVE  IInv'
<1>1. /\ ctl.closed /\ ctl' = [ctl EXCEPT !.closed = FALSE, !.epoch = ctl.epoch + 1]
      /\ UNCHANGED <<net, queue, run, rt, cleanup, waiter, stage, sent, acked, serving, proved>>
  BY DEF Reopen
<1>2. {ctl.epoch, ctl.latest, ctl.cand, sent.gen} \subseteq Nat /\ run.cmd.scope.epoch \in Int
      /\ ctl \in Controllers /\ ctl.epoch + 1 \in Int
  BY NumbersTyped, CommandTyped DEF IInv, ScopeSet, Typed, TypedController
<1>3. /\ ctl' \in Controllers
      /\ ctl'.epoch = ctl.epoch + 1 /\ ~ctl'.closed /\ ctl'.cand = ctl.cand
      /\ ctl'.phase = ctl.phase /\ ctl'.pending = ctl.pending /\ ctl'.retired = ctl.retired
      /\ ctl'.latest = ctl.latest
  BY <1>1, <1>2 DEF Controllers
<1>4. TypedController'
  BY <1>1, <1>2, <1>3, WorkerPrepareAssumption DEF IInv, Typed, TypedController
<1>5. Typed' /\ Engine'
  BY <1>1, <1>4 DEF IInv, Engine, Typed, TypedWorld, TypedQueue, TypedRunner
<1>6. ctl.cand = None /\ ~Current'
  BY <1>1, <1>2, <1>3 DEF IInv, Tied, Candidate, Clock, Current
<1>7. Clock'
  <2>1. \A k \in 1..Len(queue) : queue[k].scope.epoch \in Int
    BY DEF IInv, Typed, TypedQueue, Commands, ScopeSet
  <2> QED
    BY <1>1, <1>2, <1>3, <2>1 DEF IInv, Tied, Clock
<1>8. Candidate' /\ Promoted' /\ Old'
  BY <1>1, <1>3, <1>6 DEF IInv, Tied, Candidate, Promoted, Old, Spent, Newest
<1>9. ASSUME run.cmd.act \in Actions, NEW p, Held(p) PROVE Held(p)'
  <2>1. Cmd # None
    BY <1>9, CommandId, NoneNoId DEF IInv
  <2> QED
    BY <1>1, <1>3, <1>6, <1>9, <2>1 DEF Held, Cmd
<1>10. AtBegin'
  BY <1>1, <1>3, <1>6 DEF IInv, Steps, AtBegin, Dropping, Cmd
<1>11. AtLoad' /\ AtLoaded' /\ AtPromote'
  BY <1>1, <1>9 DEF IInv, Steps, AtLoad, AtLoaded, AtPromote, Actions, Cmd
<1>12. AtSettle' /\ AtPublish' /\ AtPost' /\ AtClear'
  BY <1>1, <1>3, <1>6 DEF IInv, Steps, AtSettle, AtPublish, AtPost, AtClear, Cmd
<1> QED
  BY <1>5, <1>7, <1>8, <1>10, <1>11, <1>12 DEF IInv, Tied, Steps

(***************************************************************************)
(* Steps of the runner.                                                    *)
(***************************************************************************)
LEMMA RunnerTyped ==
    ASSUME IInv, RunnerFrame, TypedRunner', TypedController', SameCommand,
           ctl'.epoch = ctl.epoch, ctl'.latest = ctl.latest, ctl'.cand <= ctl.latest
    PROVE  Typed' /\ Clock' /\ sent' = sent
<1>1. Typed'
  BY FrameTyped DEF IInv, Typed
<1>2. Clock'
  BY DEF IInv, Tied, Clock, RunnerFrame, SameCommand
<1> QED
  BY <1>1, <1>2 DEF RunnerFrame

LEMMA ControllerSame ==
    ASSUME IInv, UNCHANGED ctl
    PROVE  TypedController' /\ ctl'.cand <= ctl.latest
BY DEF IInv, Typed, TypedController, Tied, Clock

\* A native method that opens nothing leaves what is told of the references true.
LEMMA ShrinkKeeps ==
    ASSUME IInv, Shrinks(rt, rt'), ctl'.cand = ctl.cand, ctl'.phase = ctl.phase,
           ctl'.pending = ctl.pending, ctl'.latest = ctl.latest,
           ctl.retired \subseteq ctl'.retired, sent' = sent
    PROVE  Engine' /\ Promoted' /\ Old'
<1>1. Engine'
  BY DEF Shrinks, Engine
<1>2. Promoted'
  BY DEF Shrinks, IInv, Tied, Promoted
<1>3. \A x : Spent(x) => Spent(x)'
  BY DEF Spent, Newest
<1>4. Spent(None)'
  BY DEF Spent
<1>5. Old'
  BY <1>3, <1>4 DEF Shrinks, IInv, Tied, Old
<1> QED
  BY <1>1, <1>2, <1>5

LEMMA NothingShrinks ==
    ASSUME IInv, UNCHANGED rt
    PROVE  Shrinks(rt, rt')
BY ShrinksNot DEF IInv, Engine

\* The runner leaves a stretch, with some native runtimes dropped and no candidate being loaded
\* but one whose failure is still to be marked.
LEMMA LeavesKeep ==
    ASSUME IInv, Shrinks(rt, rt'), RunnerFrame, TypedRunner', TypedController', SameCommand,
           ctl' = ctl \/ (/\ ctl'.cand = ctl.cand /\ ctl'.phase = ctl.phase
                          /\ ctl'.pending = ctl.pending /\ ctl'.latest = ctl.latest
                          /\ ctl.retired \subseteq ctl'.retired
                          /\ ctl'.epoch = ctl.epoch /\ ctl'.closed = ctl.closed),
           \/ run'.pc \in {"error", "failed"}
           \/ run'.pc \in Outside /\ run.pc \notin {"load", "recheck", "publish", "error", "clear", "failed"}
    PROVE  IInv'
<1>1. /\ ctl'.cand = ctl.cand /\ ctl'.phase = ctl.phase
      /\ ctl'.pending = ctl.pending /\ ctl'.latest = ctl.latest
      /\ ctl.retired \subseteq ctl'.retired
      /\ ctl'.epoch = ctl.epoch /\ ctl'.closed = ctl.closed
  OBVIOUS
<1>2. Typed' /\ Clock' /\ sent' = sent
  BY <1>1, RunnerTyped DEF IInv, Tied, Clock
<1>3. Engine' /\ Promoted' /\ Old'
  BY <1>1, <1>2, ShrinkKeeps
<1>4. Steps'
  BY OutsideSteps DEF Outside
<1>5. Candidate'
  BY <1>1 DEF IInv, Tied, Candidate, SameCommand, Cmd, Current
<1> QED
  BY <1>2, <1>3, <1>4, <1>5 DEF IInv, Tied

LEMMA PopKeeps ==
    ASSUME IInv, Pop
    PROVE  IInv'
<1> DEFINE pc == IF Head(queue).act = "cleanup" THEN "retire" ELSE "check"
<1>1. /\ run' = [run EXCEPT !.cmd = Head(queue), !.cancelled = FALSE, !.pc = pc]
      /\ queue' = Tail(queue) /\ queue # <<>> /\ run.pc = "idle"
      /\ UNCHANGED <<net, ctl, rt, cleanup, waiter, stage, sent, acked, serving, proved>>
  BY DEF Pop
<1>2. /\ Head(queue) \in Commands /\ Tail(queue) \in Seq(Commands)
      /\ Len(Tail(queue)) = Len(queue) - 1 /\ Len(queue) \in Nat
      /\ \A k \in 1..Len(Tail(queue)) : Tail(queue)[k] = queue[k + 1]
      /\ Head(queue) = queue[1] /\ Len(queue) >= 1
  BY <1>1 DEF IInv, Typed, TypedQueue
<1>3. pc \in {"retire", "check"} /\ (pc = "check" => Head(queue).act \in Actions)
      /\ Head(queue).act # "none"
  BY <1>2 DEF Commands, Actions
<1> HIDE DEF pc
<1>4. run' \in Runners /\ run'.pc = pc /\ run'.cmd = Head(queue)
  BY <1>1, <1>2, <1>3 DEF IInv, Typed, TypedRunner, Runners, Pcs
<1>5. Typed'
  <2>1. TypedWorld' /\ TypedController'
    <3>1. UNCHANGED <<net, ctl, rt, cleanup, waiter, stage, sent, acked, serving, proved>>
      BY <1>1
    <3> QED
      BY <3>1 DEF IInv, Typed, TypedWorld, TypedController
  <2>2. TypedQueue'
    <3>1. queue' = Tail(queue) /\ Len(queue) <= QueueMax /\ QueueMax \in Nat
      BY <1>1, WorkerPrepareAssumption DEF IInv, Typed, TypedQueue
    <3> QED
      BY <1>2, <3>1 DEF TypedQueue
  <2>3. TypedRunner'
    BY <1>3, <1>4 DEF TypedRunner
  <2> QED
    BY <2>1, <2>2, <2>3 DEF Typed
<1>6. Engine' /\ Promoted' /\ Old'
  BY <1>1, NothingShrinks, ShrinkKeeps
<1>7. Candidate'
  BY <1>1 DEF IInv, Tied, Candidate
<1>8. Clock'
  <2>1. \A k \in 1..Len(queue) : queue[k].scope.epoch <= ctl.epoch
    BY DEF IInv, Tied, Clock
  <2>2. run'.cmd.scope.epoch <= ctl.epoch
    BY <1>2, <1>4, <2>1
  <2>3. \A k \in 1..Len(queue') : queue'[k].scope.epoch <= ctl.epoch
    BY <1>1, <1>2, <2>1
  <2> QED
    BY <1>1, <2>2, <2>3 DEF IInv, Tied, Clock
<1>9. Steps'
  BY <1>3, <1>4, OutsideSteps DEF Outside
<1> QED
  BY <1>5, <1>6, <1>7, <1>8, <1>9 DEF IInv, Tied

LEMMA MarkFailedKeeps ==
    ASSUME IInv, MarkFailed
    PROVE  IInv'
<1> DEFINE marks == /\ run.cmd.scope.epoch = ctl.epoch /\ run.cmd.act = "prepare"
                    /\ ctl.cand = Cmd /\ ctl.phase \notin {"committed", "finalized"}
<1>1. /\ run.pc \in {"error", "failed"} /\ Goto("nack") /\ UNCHANGED rt /\ RunnerFrame
      /\ ctl' = IF marks THEN [ctl EXCEPT !.phase = "failed"] ELSE ctl
  BY DEF MarkFailed
<1>2. TypedRunner' /\ run'.pc = "nack" /\ SameCommand
  BY <1>1, GotoTyped DEF IInv, Typed, TypedRunner, Pcs
<1>3. /\ TypedController' /\ ctl'.cand = ctl.cand /\ ctl'.pending = ctl.pending
      /\ ctl'.latest = ctl.latest /\ ctl'.retired = ctl.retired /\ ctl'.epoch = ctl.epoch
      /\ ctl'.closed = ctl.closed /\ ctl'.phase = (IF marks THEN "failed" ELSE ctl.phase)
  <2>1. CASE marks
    BY <1>1, <2>1 DEF IInv, Typed, TypedController, Controllers, Phases
  <2>2. CASE ~marks
    BY <1>1, <2>2 DEF IInv, Typed, TypedController
  <2> QED
    BY <2>1, <2>2
<1>4. Typed' /\ Clock' /\ sent' = sent
  BY <1>1, <1>2, <1>3, RunnerTyped DEF IInv, Tied, Clock
<1>5. Engine'
  BY <1>1 DEF IInv, Engine
<1>6. Promoted'
  BY <1>1, <1>3 DEF IInv, Tied, Promoted
<1>7. Old'
  BY <1>1, <1>3, <1>4 DEF IInv, Tied, Old, Spent, Newest
<1>8. Candidate'
  BY <1>3 DEF IInv, Tied, Candidate, Current
<1>9. Steps'
  BY <1>2, OutsideSteps DEF Outside
<1> QED
  BY <1>4, <1>5, <1>6, <1>7, <1>8, <1>9 DEF IInv, Tied

LEMMA AckKeeps ==
    ASSUME IInv, Ack
    PROVE  IInv'
<1>1. run.pc \in {"ack", "nack"}
      /\ UNCHANGED <<net, ctl, queue, rt, cleanup, waiter, stage, sent, proved>>
  BY DEF Ack
<1>2. run.cmd.act \in Actions /\ Cmd \in Ids
  BY <1>1, CommandId DEF IInv, Typed, TypedRunner
<1>3. TypedRunner' /\ run'.pc \in {"dead", "idle"} /\ (run'.cmd = run.cmd \/ run'.cmd = NoCommand)
  <2>1. CASE Goto("dead")
    BY <2>1, GotoTyped DEF IInv, Pcs, SameCommand
  <2>2. CASE run' = Idle
    BY <2>2, IdleStays
  <2> QED
    BY <2>1, <2>2 DEF Ack
<1>4. acked' \subseteq Actions \X Ids /\ serving' \in MaybeIds
  BY <1>2 DEF Ack, IInv, Typed, TypedWorld, MaybeIds
<1>5. Typed'
  BY <1>1, <1>3, <1>4 DEF IInv, Typed, TypedWorld, TypedQueue, TypedController
<1>6. Engine' /\ Promoted' /\ Old'
  BY <1>1, NothingShrinks, ShrinkKeeps
<1>7. Candidate'
  BY <1>1 DEF IInv, Tied, Candidate
<1>8. Clock'
  BY <1>1, <1>3, NumbersTyped DEF IInv, Tied, Clock, NoCommand, NoScope
<1>9. Steps'
  BY <1>3, OutsideSteps DEF Outside
<1> QED
  BY <1>5, <1>6, <1>7, <1>8, <1>9 DEF IInv, Tied

\* The runner enters a stretch with nothing but its own locals changed.
LEMMA EntersKeep ==
    ASSUME IInv, UNCHANGED <<ctl, rt>>, RunnerFrame, TypedRunner', SameCommand,
           run.pc \notin {"load", "recheck", "publish", "error", "clear", "failed"}
    PROVE  Typed' /\ Engine' /\ Tied' /\ Cmd' = Cmd /\ Current' = Current
<1>1. Typed' /\ Clock' /\ sent' = sent
  BY RunnerTyped, ControllerSame
<1>2. Engine' /\ Promoted' /\ Old'
  BY <1>1, NothingShrinks, ShrinkKeeps
<1>3. Candidate'
  BY DEF IInv, Tied, Candidate
<1> QED
  BY <1>1, <1>2, <1>3 DEF Tied, SameCommand, Cmd, Current

LEMMA ErrorKeeps ==
    ASSUME IInv, Shrinks(rt, rt'), Goto("error"), RunnerFrame, UNCHANGED ctl,
           run.cmd.act \in Actions
    PROVE  IInv'
<1>1. TypedRunner' /\ run'.pc = "error" /\ SameCommand
  BY GotoTyped DEF IInv, Pcs
<1> QED
  BY <1>1, ControllerSame, LeavesKeep

LEMMA CheckPrepareKeeps ==
    ASSUME IInv, CheckPrepare
    PROVE  IInv'
<1> DEFINE duplicate == ctl.cand = Cmd /\ ctl.phase \in {"prepared", "committed", "finalized"}
           refused == \/ ~Valid(run.cmd.scope)
                      \/ Stale \/ ctl.pending # {}
                      \/ duplicate /\ ~Loaded(rt, Cmd)
                      \/ ~duplicate /\ ctl.phase = "committed"
           loc == [NoLocals EXCEPT !.phase = ctl.phase, !.cand = ctl.cand]
<1>1. /\ run.pc = "check" /\ run.cmd.act = "prepare" /\ UNCHANGED <<ctl, rt>> /\ RunnerFrame
      /\ IF refused THEN Goto("error")
         ELSE IF duplicate THEN Goto("post") ELSE run' = [run EXCEPT !.pc = "begin", !.loc = loc]
  BY DEF CheckPrepare
<1>2. run.cmd.act \in Actions /\ Cmd \in Ids /\ Cmd # None
  BY <1>1, CommandId, NoneNoId DEF IInv, Actions
<1>3. CASE refused
  BY <1>1, <1>2, <1>3, NothingShrinks, ErrorKeeps
<1>4. CASE ~refused /\ duplicate
  <2>1. TypedRunner' /\ run'.pc = "post" /\ SameCommand
    BY <1>1, <1>2, <1>4, GotoTyped DEF IInv, Pcs
  <2>2. Typed' /\ Engine' /\ Tied' /\ Cmd' = Cmd /\ Current' = Current
    BY <1>1, <2>1, EntersKeep
  <2>3. rt.phase = "committed" => rt.ident = Cmd
    BY <1>2, <1>4 DEF IInv, Tied, Promoted
  <2>4. Steps'
    BY <1>1, <2>1, <2>2, <2>3
      DEF Steps, AtBegin, AtLoad, AtLoaded, AtPromote, AtSettle, AtPublish, AtPost, AtClear
  <2> QED
    BY <2>2, <2>4 DEF IInv
<1>5. CASE ~refused /\ ~duplicate
  <2>1. loc \in Locals /\ loc.phase = ctl.phase /\ loc.cand = ctl.cand
    BY IdleTyped DEF Locals, IInv, Typed, TypedController, Controllers
  <2>2. run' = [run EXCEPT !.pc = "begin", !.loc = loc]
    BY <1>1, <1>5
  <2> HIDE DEF loc
  <2>3. TypedRunner' /\ run'.pc = "begin" /\ SameCommand /\ run'.loc = loc
    BY <1>2, <2>1, <2>2 DEF IInv, Typed, TypedRunner, Runners, Pcs, SameCommand
  <2>4. Typed' /\ Engine' /\ Tied' /\ Cmd' = Cmd /\ Current' = Current
    BY <1>1, <2>3, EntersKeep
  <2>5. Current /\ Cmd \notin ctl.retired /\ Cmd = ctl.latest /\ ctl.pending = {}
        /\ ctl.phase # "committed"
    BY <1>5 DEF Valid, Stale, Current
  <2>6. {ctl.cand, ctl.latest, Cmd} \subseteq Nat /\ rt.act \in MaybeIds /\ MaybeIds \subseteq Nat
    BY <1>2, NumbersTyped, IdsNat DEF IInv, Engine, Runtimes
  <2>7. ctl.cand # None /\ ctl.cand # Cmd => ctl.cand < Cmd
    BY <2>5, <2>6 DEF IInv, Tied, Clock
  <2>8. ctl.cand # None => ctl.phase \in {"prepared", "finalized", "failed"}
    BY <1>1, <2>5 DEF IInv, Tied, Candidate
  <2>9. Dropping' <=> ctl.cand # None /\ ctl.phase \in {"prepared", "failed"}
    BY <2>1, <2>3 DEF Dropping
  <2>10. rt.phase = "committed" => Dropping' /\ rt.ident = ctl.cand
    <3>1. rt.phase = "committed" => rt.ident # None
      BY DEF IInv, Engine, Sound
    <3> QED
      BY <2>5, <2>9, <3>1 DEF IInv, Tied, Promoted
  <2>11. rt.act = Cmd => Dropping' /\ ctl.cand = Cmd
    BY <1>2, <1>5, <2>5, <2>6, <2>8, <2>9 DEF IInv, Tied, Old, Spent, Newest
  <2>12. ~Dropping' => ctl.cand < Cmd
    <3>1. ctl.cand = None => ctl.cand < Cmd
      BY <1>2, <2>6 DEF None, Ids
    <3> QED
      BY <1>5, <2>7, <2>8, <2>9, <3>1
  <2>13. AtBegin'
    BY <1>1, <2>1, <2>3, <2>4, <2>5, <2>6, <2>10, <2>11, <2>12 DEF AtBegin, SameCommand
  <2>14. Steps'
    BY <2>3, <2>13
      DEF Steps, AtLoad, AtLoaded, AtPromote, AtSettle, AtPublish, AtPost, AtClear
  <2> QED
    BY <2>4, <2>14 DEF IInv
<1> QED
  BY <1>3, <1>4, <1>5

LEMMA BeginPrepareKeeps ==
    ASSUME IInv, BeginPrepare
    PROVE  IInv' /\ rt'.open \subseteq rt.open /\ ctl.retired \subseteq ctl'.retired
<1> DEFINE aborts == IF Dropping THEN AbortRuntime(rt, run.loc.cand, FALSE) ELSE {Outcome(TRUE, rt)}
           retired(o) == IF Dropping /\ o.ok THEN ctl.retired \cup {run.loc.cand} ELSE ctl.retired
           begun(o) == PrepareBegin(o.rt, Cmd)
<1>1. PICK o \in aborts, selected \in BOOLEAN :
        IF ~o.ok \/ ~Valid(run.cmd.scope)
        THEN /\ ctl' = [ctl EXCEPT !.retired = retired(o)]
             /\ rt' = o.rt
             /\ Goto("error")
        ELSE /\ ctl' = [ctl EXCEPT !.retired = retired(o), !.cand = Cmd,
                                   !.phase = "preparing", !.fenced = TRUE]
             /\ rt' = IF selected THEN begun(o).rt ELSE Fenced(o.rt)
             /\ Goto(IF selected /\ begun(o).ok THEN "load" ELSE "error")
  BY DEF BeginPrepare, Dropping
<1>2. run.pc = "begin" /\ RunnerFrame
  BY DEF BeginPrepare
<1>3. /\ run.cmd.act = "prepare"
      /\ rt.phase = "committed" => Dropping /\ rt.ident = run.loc.cand
      /\ rt.act = Cmd => Dropping /\ run.loc.cand = Cmd
      /\ Current => /\ run.loc.cand = ctl.cand /\ ctl.pending = {}
                    /\ ~Dropping => ctl.cand < Cmd
                    /\ Cmd <= ctl.latest
  BY <1>2 DEF IInv, Steps, AtBegin
<1>4. run.cmd.act \in Actions /\ Cmd \in Ids /\ Cmd # None /\ rt \in Runtimes /\ Sound(rt)
  BY <1>3, CommandId, NoneNoId DEF IInv, Actions, Engine
<1>5. Dropping => run.loc.cand \in Ids
  BY DEF Dropping, IInv, Typed, TypedRunner, Runners, Locals, MaybeIds
<1>6. /\ o.ok \in BOOLEAN /\ Shrinks(rt, o.rt) /\ o.rt.act \in {rt.act, None}
      /\ o.ok => o.rt.phase # "committed"
      /\ o.ok /\ Dropping => o.rt.act # run.loc.cand
  <2>1. CASE Dropping
    <3> DEFINE restore == FALSE
    <3>1. o \in AbortRuntime(rt, run.loc.cand, restore) /\ restore \in BOOLEAN /\ ~restore
      BY <2>1
    <3> HIDE DEF restore
    <3>2. /\ o.ok \in BOOLEAN /\ Shrinks(rt, o.rt) /\ o.rt.act \in {rt.act, None}
          /\ ~o.ok => o.rt.phase = rt.phase
          /\ o.ok => o.rt.act # run.loc.cand /\ o.rt.phase = "aborted"
      BY <1>3, <1>4, <1>5, <2>1, <3>1, AbortMoves
    <3> QED
      BY <3>2
  <2>2. CASE ~Dropping
    <3>1. o = Outcome(TRUE, rt)
      BY <2>2
    <3>2. o.ok = TRUE /\ o.rt = rt
      BY <3>1 DEF Outcome
    <3> QED
      BY <1>3, <1>4, <2>2, <3>2, ShrinksNot
  <2> QED
    BY <2>1, <2>2
<1>7. retired(o) \in SUBSET Ids /\ ctl.retired \subseteq retired(o)
  BY <1>5 DEF IInv, Typed, TypedController, Controllers
<1> HIDE DEF aborts, retired
<1>8. ctl \in Controllers
  BY DEF IInv, Typed, TypedController
<1>9. CASE ~o.ok \/ ~Valid(run.cmd.scope)
  <2>1. /\ ctl' = [ctl EXCEPT !.retired = retired(o)] /\ rt' = o.rt /\ Goto("error")
    BY <1>1, <1>9
  <2>2. /\ ctl' \in Controllers /\ ctl'.cand = ctl.cand /\ ctl'.phase = ctl.phase
        /\ ctl'.pending = ctl.pending /\ ctl'.latest = ctl.latest /\ ctl'.retired = retired(o)
        /\ ctl'.epoch = ctl.epoch /\ ctl'.closed = ctl.closed
    BY <1>7, <1>8, <2>1 DEF Controllers
  <2>3. TypedController'
    BY <2>2 DEF IInv, Typed, TypedController
  <2>4. TypedRunner' /\ run'.pc = "error" /\ SameCommand
    BY <1>4, <2>1, GotoTyped DEF IInv, Pcs
  <2> QED
    BY <1>2, <1>6, <1>7, <2>1, <2>2, <2>3, <2>4, LeavesKeep DEF Shrinks
<1>10. CASE o.ok /\ Valid(run.cmd.scope)
  <2> DEFINE b == begun(o)
             pc == IF selected /\ b.ok THEN "load" ELSE "error"
  <2>1. /\ ctl' = [ctl EXCEPT !.retired = retired(o), !.cand = Cmd,
                              !.phase = "preparing", !.fenced = TRUE]
        /\ rt' = IF selected THEN b.rt ELSE Fenced(o.rt)
        /\ Goto(pc)
    BY <1>1, <1>10
  <2>2. o.rt \in Runtimes /\ Sound(o.rt)
    BY <1>6 DEF Shrinks
  <2>3. /\ b.ok \in BOOLEAN /\ b.rt \in Runtimes /\ Sound(b.rt)
        /\ b.rt.act = o.rt.act /\ b.rt.prev = o.rt.prev /\ b.rt.cand = o.rt.cand
        /\ b.rt.open = o.rt.open
        /\ b.ok => b.rt.ident = Cmd /\ b.rt.phase = "preparing" /\ o.rt.cand = None
        /\ ~b.ok => b.rt.phase = o.rt.phase
    BY <1>4, <2>2, BeginMoves
  <2>4. Shrinks(o.rt, Fenced(o.rt)) /\ Fenced(o.rt).act = o.rt.act /\ Fenced(o.rt).prev = o.rt.prev
        /\ Fenced(o.rt).phase = o.rt.phase
    BY <2>2, FencedShrinks DEF Runtimes
  <2>5. pc \in {"load", "error"} /\ (pc = "load" => selected /\ b.ok)
    OBVIOUS
  <2> HIDE DEF b, pc
  <2>6. /\ Engine' /\ rt'.open \subseteq o.rt.open /\ rt'.act = o.rt.act /\ rt'.prev = o.rt.prev /\ rt'.phase # "committed"
        /\ pc = "load" => rt'.ident = Cmd /\ rt'.phase = "preparing" /\ rt'.cand = None
    <3>1. CASE selected
      BY <1>6, <1>10, <2>1, <2>3, <2>5, <3>1 DEF Engine
    <3>2. CASE ~selected
      BY <1>6, <1>10, <2>1, <2>4, <2>5, <3>2 DEF Engine, Shrinks
    <3> QED
      BY <3>1, <3>2
  <2>7. /\ ctl' \in Controllers /\ ctl'.cand = Cmd /\ ctl'.phase = "preparing"
        /\ ctl'.pending = ctl.pending /\ ctl'.latest = ctl.latest /\ ctl'.retired = retired(o)
        /\ ctl'.epoch = ctl.epoch /\ ctl'.closed = ctl.closed
    BY <1>4, <1>7, <1>8, <2>1 DEF Controllers, MaybeIds, Phases
  <2>8. TypedController'
    BY <2>7 DEF IInv, Typed, TypedController
  <2>9. TypedRunner' /\ run'.pc = pc /\ SameCommand
    BY <1>4, <2>1, <2>5, GotoTyped DEF IInv, Pcs
  <2>10. Current /\ ~ctl.closed /\ Current' /\ Cmd' = Cmd
    BY <1>10, <2>7, <2>9 DEF Valid, Current, SameCommand, Cmd
  <2>11. Typed' /\ Clock' /\ sent' = sent
    BY <1>2, <1>3, <2>7, <2>8, <2>9, <2>10, RunnerTyped
  <2>12. Promoted'
    BY <2>6 DEF Promoted
  <2>13. Candidate'
    BY <1>3, <1>4, <2>5, <2>7, <2>9, <2>10 DEF Candidate, SameCommand
  <2>14. rt'.prev = None
    BY <2>6 DEF Engine, Sound
  <2>15. rt'.act = None \/ rt'.act < Newest' \/ rt'.act \in ctl'.retired
    <3>1. {ctl.cand, ctl.latest, Cmd} \subseteq Nat
      BY <1>4, IdsNat, NumbersTyped DEF IInv
    <3>2. ctl.latest # None
      BY <1>3, <1>4, <2>10, <3>1 DEF None, Ids
    <3>3. Newest = ctl.latest /\ Newest' = ctl.latest
      BY <2>7, <3>2 DEF Newest
    <3>4. CASE rt'.act = rt.act /\ Spent(rt.act)
      BY <1>7, <2>7, <3>3, <3>4 DEF Spent
    <3>5. CASE rt'.act = rt.act /\ rt.act = ctl.cand /\ rt.act # None
      <4>1. ~Dropping
        BY <1>3, <1>6, <1>10, <2>6, <2>10, <3>5
      <4>2. ctl.cand < ctl.latest
        BY <1>3, <2>10, <3>1, <4>1
      <4> QED
        BY <3>3, <3>5, <4>2
    <3> QED
      BY <1>3, <1>6, <2>6, <2>10, <3>4, <3>5 DEF IInv, Tied, Old
  <2>16. Old'
    BY <2>14, <2>15 DEF Old, Spent
  <2>17. rt'.act # Cmd
    BY <1>3, <1>4, <1>6, <1>10, <2>6
  <2>18. Steps'
    <3>1. CASE pc = "error"
      BY <2>9, <3>1, OutsideSteps DEF Outside
    <3>2. CASE pc = "load"
      BY <1>3, <2>6, <2>7, <2>9, <2>10, <2>17, <3>2
        DEF Steps, AtBegin, AtLoad, AtLoaded, AtPromote, AtSettle, AtPublish, AtPost, AtClear,
            Held, SameCommand
    <3> QED
      BY <2>5, <3>1, <3>2
  <2> QED
    BY <1>6, <1>7, <2>6, <2>7, <2>11, <2>12, <2>13, <2>16, <2>18 DEF IInv, Tied, Shrinks
<1> QED
  BY <1>6, <1>9, <1>10

LEMMA LoadKeeps ==
    ASSUME IInv, Load
    PROVE  IInv'
<1>1. PICK o \in LoadFails(rt, Cmd) \cup LoadDone(rt, Cmd, run.cancelled) :
        rt' = o.rt /\ Goto(IF o.ok THEN "recheck" ELSE "error")
  BY DEF Load
<1>2. run.pc = "load" /\ UNCHANGED ctl /\ RunnerFrame
  BY DEF Load
<1>3. /\ run.cmd.act = "prepare" /\ Held("preparing")
      /\ rt.ident = Cmd /\ rt.phase = "preparing" /\ rt.cand = None /\ rt.act # Cmd
  BY <1>2 DEF IInv, Steps, AtLoad
<1>4. run.cmd.act \in Actions /\ Cmd \in Ids /\ rt \in Runtimes /\ Sound(rt)
      /\ run.cancelled \in BOOLEAN
  BY <1>3, CommandId DEF IInv, Actions, Engine, Typed, TypedRunner, Runners
<1>5. /\ o.ok \in BOOLEAN /\ o.rt \in Runtimes /\ Sound(o.rt)
      /\ o.rt.act = rt.act /\ o.rt.prev = rt.prev /\ o.rt.ident = Cmd /\ o.rt.phase # "committed"
      /\ o.ok => o.rt.phase = "prepared" /\ o.rt.cand = Cmd
  BY <1>3, <1>4, LoadMoves
<1> DEFINE pc == IF o.ok THEN "recheck" ELSE "error"
<1>6. pc \in {"recheck", "error"} /\ (pc = "recheck" => o.ok) /\ Goto(pc)
  BY <1>1
<1> HIDE DEF pc
<1>7. TypedRunner' /\ run'.pc = pc /\ SameCommand
  BY <1>4, <1>6, GotoTyped DEF IInv, Pcs
<1>8. Typed' /\ Clock' /\ sent' = sent
  BY <1>2, <1>7, RunnerTyped, ControllerSame
<1>9. Engine' /\ Promoted'
  BY <1>1, <1>5 DEF Engine, Promoted
<1>10. Old'
  BY <1>1, <1>2, <1>5, <1>8 DEF IInv, Tied, Old, Spent, Newest
<1>11. Candidate'
  BY <1>2, <1>6, <1>7 DEF IInv, Tied, Candidate, Current, SameCommand, Cmd
<1>12. Steps'
  <2>1. CASE pc = "error"
    BY <1>7, <2>1, OutsideSteps DEF Outside
  <2>2. CASE pc = "recheck"
    BY <1>1, <1>2, <1>3, <1>5, <1>6, <1>7, <2>2
      DEF Steps, AtBegin, AtLoad, AtLoaded, AtPromote, AtSettle, AtPublish, AtPost, AtClear,
          Held, Current, SameCommand, Cmd
  <2> QED
    BY <1>6, <2>1, <2>2
<1> QED
  BY <1>8, <1>9, <1>10, <1>11, <1>12 DEF IInv, Tied

\* A command that gives its own identity up, whatever comes of it, and fails.
LEMMA AbortsKeep ==
    ASSUME IInv, run.cmd.act \in Actions, rt.phase = "committed" => rt.ident = Cmd,
           NEW restore \in BOOLEAN, NEW o \in AbortRuntime(rt, Cmd, restore),
           rt' = o.rt \/ rt' = Fenced(o.rt), Goto("error"), UNCHANGED ctl, RunnerFrame
    PROVE  IInv' /\ Shrinks(rt, rt')
<1>1. Cmd \in Ids /\ rt \in Runtimes /\ Sound(rt)
  BY CommandId DEF IInv, Engine
<1>2. Shrinks(rt, o.rt)
  BY <1>1, AbortMoves
<1>3. o.rt \in Runtimes /\ Sound(o.rt)
  BY <1>2 DEF Shrinks
<1>4. Shrinks(rt, rt')
  <2>1. CASE rt' = o.rt
    BY <1>2, <2>1
  <2>2. CASE rt' = Fenced(o.rt)
    <3>1. Fenced(o.rt) = [o.rt EXCEPT !.fenced = TRUE] /\ Shrinks(o.rt, Fenced(o.rt))
      BY <1>3, FencedShrinks
    <3>2. /\ rt'.ident = o.rt.ident /\ rt'.phase = o.rt.phase /\ rt'.open = o.rt.open
          /\ rt'.cand = o.rt.cand /\ rt'.act = o.rt.act /\ rt'.prev = o.rt.prev
          /\ rt'.dead = o.rt.dead
      BY <1>3, <2>2, <3>1 DEF Runtimes
    <3>3. rt' \in Runtimes /\ Sound(rt')
      BY <2>2, <3>1 DEF Shrinks
    <3> QED
      BY <1>2, <3>2, <3>3 DEF Shrinks, Empty
  <2> QED
    BY <2>1, <2>2
<1> QED
  BY <1>4, ErrorKeeps

LEMMA RecheckKeeps ==
    ASSUME IInv, Recheck
    PROVE  IInv' /\ Shrinks(rt, rt')
<1>1. run.pc = "recheck" /\ UNCHANGED ctl /\ RunnerFrame
  BY DEF Recheck
<1>2. run.cmd.act = "prepare" /\ Held("preparing") /\ rt.ident = Cmd /\ rt.phase = "prepared"
  BY <1>1 DEF IInv, Steps, AtLoaded
<1>3. run.cmd.act \in Actions
  BY <1>2 DEF Actions
<1>4. CASE run' = [run EXCEPT !.pc = "publish", !.kind = "prepared"] /\ UNCHANGED rt
  <2>1. TypedRunner' /\ run'.pc = "publish" /\ SameCommand /\ run'.kind = "prepared"
    BY <1>3, <1>4, GotoKindTyped DEF IInv, Pcs, Kinds
  <2>2. Typed' /\ Clock' /\ sent' = sent
    BY <1>1, <2>1, RunnerTyped, ControllerSame
  <2>3. Engine' /\ Promoted' /\ Old'
    BY <1>1, <1>4, <2>2, NothingShrinks, ShrinkKeeps
  <2>4. Candidate'
    BY <1>1, <2>1 DEF IInv, Tied, Candidate, Current, SameCommand, Cmd
  <2>5. Steps'
    BY <1>1, <1>2, <1>4, <2>1
      DEF Steps, AtBegin, AtLoad, AtLoaded, AtPromote, AtSettle, AtPublish, AtPost, AtClear,
          Held, Current, SameCommand, Cmd
  <2> QED
    BY <1>4, <2>2, <2>3, <2>4, <2>5, NothingShrinks DEF IInv, Tied
<1>5. CASE (\E o \in AbortRuntime(rt, Cmd, FALSE) : rt' = o.rt) /\ Goto("error")
  <2> DEFINE restore == FALSE
  <2>1. PICK o \in AbortRuntime(rt, Cmd, restore) : rt' = o.rt
    BY <1>5
  <2>2. restore \in BOOLEAN
    OBVIOUS
  <2> HIDE DEF restore
  <2> QED
    BY <1>1, <1>2, <1>3, <1>5, <2>1, <2>2, AbortsKeep
<1> QED
  BY <1>4, <1>5 DEF Recheck

LEMMA CheckCommitKeeps ==
    ASSUME IInv, CheckCommit
    PROVE  IInv'
<1>1. /\ run.pc = "check" /\ run.cmd.act = "commit" /\ UNCHANGED <<ctl, rt>> /\ RunnerFrame
      /\ \/ Goto("error") \/ Goto("post")
         \/ Goto("promote") /\ Valid(run.cmd.scope) /\ ctl.cand = Cmd /\ ctl.phase = "prepared"
  BY DEF CheckCommit
<1>2. run.cmd.act \in Actions
  BY <1>1 DEF Actions
<1>3. CASE Goto("error")
  BY <1>1, <1>2, <1>3, NothingShrinks, ErrorKeeps
<1>4. CASE Goto("post")
  <2>1. TypedRunner' /\ run'.pc = "post" /\ SameCommand
    BY <1>2, <1>4, GotoTyped DEF IInv, Pcs
  <2>2. Typed' /\ Engine' /\ Tied' /\ Cmd' = Cmd /\ Current' = Current
    BY <1>1, <2>1, EntersKeep
  <2>3. Steps'
    BY <1>1, <2>1
      DEF Steps, AtBegin, AtLoad, AtLoaded, AtPromote, AtSettle, AtPublish, AtPost, AtClear,
          SameCommand
  <2> QED
    BY <2>2, <2>3 DEF IInv
<1>5. CASE Goto("promote") /\ Valid(run.cmd.scope) /\ ctl.cand = Cmd /\ ctl.phase = "prepared"
  <2>1. TypedRunner' /\ run'.pc = "promote" /\ SameCommand
    BY <1>2, <1>5, GotoTyped DEF IInv, Pcs
  <2>2. Typed' /\ Engine' /\ Tied' /\ Cmd' = Cmd /\ Current' = Current
    BY <1>1, <2>1, EntersKeep
  <2>3. Held("prepared")'
    BY <1>1, <1>5, <2>2 DEF Held, Valid, Current
  <2>4. Steps'
    BY <1>1, <2>1, <2>3
      DEF Steps, AtBegin, AtLoad, AtLoaded, AtPromote, AtSettle, AtPublish, AtPost, AtClear,
          SameCommand
  <2> QED
    BY <2>2, <2>4 DEF IInv
<1> QED
  BY <1>1, <1>3, <1>4, <1>5

LEMMA PromoteKeeps ==
    ASSUME IInv, Promote
    PROVE  IInv'
<1> DEFINE o == CommitRuntime(rt, Cmd)
           pc == IF o.ok THEN "promoted" ELSE "error"
<1>1. run.pc = "promote" /\ UNCHANGED ctl /\ RunnerFrame /\ rt' = o.rt /\ Goto(pc)
  BY DEF Promote
<1>2. run.cmd.act = "commit" /\ Held("prepared")
  BY <1>1 DEF IInv, Steps, AtPromote
<1>3. run.cmd.act \in Actions /\ Cmd \in Ids /\ Cmd # None /\ rt \in Runtimes /\ Sound(rt)
  BY <1>2, CommandId, NoneNoId DEF IInv, Actions, Engine
<1>4. /\ o.ok \in BOOLEAN /\ o.rt \in Runtimes /\ Sound(o.rt)
      /\ o.ok => o.rt.ident = Cmd
      /\ \/ o.rt = rt
         \/ /\ rt.cand = Cmd /\ rt.phase = "prepared" /\ o.rt.ident = rt.ident
            /\ o.rt.act = Cmd /\ o.rt.prev = rt.act /\ o.rt.phase = "committed"
  BY <1>3, CommitMoves
<1>5. pc \in {"promoted", "error"} /\ (pc = "promoted" => o.ok)
  OBVIOUS
<1> HIDE DEF o, pc
<1>6. TypedRunner' /\ run'.pc = pc /\ SameCommand
  BY <1>1, <1>3, <1>5, GotoTyped DEF IInv, Pcs
<1>7. Typed' /\ Clock' /\ sent' = sent
  BY <1>1, <1>6, RunnerTyped, ControllerSame
<1>8. Engine' /\ Promoted' /\ Old'
  <2>1. CASE o.rt = rt
    BY <1>1, <1>7, <2>1, NothingShrinks, ShrinkKeeps
  <2>2. CASE /\ rt.cand = Cmd /\ rt.phase = "prepared" /\ o.rt.ident = rt.ident
             /\ o.rt.act = Cmd /\ o.rt.prev = rt.act /\ o.rt.phase = "committed"
    <3>1. Engine'
      BY <1>1, <1>4 DEF Engine
    <3>2. rt'.ident = Cmd /\ rt'.act = Cmd /\ rt'.prev = rt.act /\ (rt.act # None => rt.act # Cmd)
      BY <1>1, <1>3, <2>2 DEF Sound
    <3>3. CASE Current
      <4>1. ctl.cand = Cmd /\ ctl.phase = "prepared" /\ ctl.pending = {}
        BY <1>2, <1>3, <3>3 DEF Held, IInv, Tied, Candidate
      <4>2. Promoted'
        BY <1>1, <3>2, <4>1 DEF Promoted
      <4>3. Spent(rt.act)
        BY <3>2, <4>1 DEF IInv, Tied, Old, Spent
      <4>4. Old'
        BY <1>1, <1>7, <3>2, <4>1, <4>3 DEF Old, Spent, Newest
      <4> QED
        BY <3>1, <4>2, <4>4
    <3>4. CASE ~Current
      <4>1. Cmd \in ctl.pending /\ ctl.cand = None
        BY <1>2, <3>4 DEF Held, IInv, Tied, Candidate
      <4>2. Promoted'
        BY <1>1, <3>2, <4>1 DEF Promoted
      <4>3. Spent(rt.act) \/ rt.act \in ctl.pending
        BY <4>1 DEF IInv, Tied, Old, Spent
      <4>4. Old'
        BY <1>1, <1>7, <3>2, <4>1, <4>3 DEF Old, Spent, Newest
      <4> QED
        BY <3>1, <4>2, <4>4
    <3> QED
      BY <3>3, <3>4
  <2> QED
    BY <1>4, <2>1, <2>2
<1>9. Candidate'
  BY <1>1 DEF IInv, Tied, Candidate
<1>10. Steps'
  <2>1. CASE pc = "error"
    BY <1>6, <2>1, OutsideSteps DEF Outside
  <2>2. CASE pc = "promoted"
    BY <1>1, <1>2, <1>4, <1>5, <1>6, <2>2
      DEF Steps, AtBegin, AtLoad, AtLoaded, AtPromote, AtSettle, AtPublish, AtPost, AtClear,
          Held, Current, SameCommand, Cmd
  <2> QED
    BY <1>5, <2>1, <2>2
<1> QED
  BY <1>7, <1>8, <1>9, <1>10 DEF IInv, Tied

LEMMA PublishCommitKeeps ==
    ASSUME IInv, PublishCommit
    PROVE  IInv' /\ Shrinks(rt, rt') /\ ctl'.retired = ctl.retired
<1>1. run.pc = "promoted" /\ RunnerFrame
  BY DEF PublishCommit
<1>2. run.cmd.act = "commit" /\ Held("prepared") /\ rt.ident = Cmd
  BY <1>1 DEF IInv, Steps, AtPromote
<1>3. run.cmd.act \in Actions /\ Cmd \in Ids /\ run.cmd.scope \in ScopeSet
  BY <1>2, CommandId DEF IInv, Actions
<1>4. CASE Valid(run.cmd.scope) /\ Cmd = ctl.latest
  <2> DEFINE pc == IF Loaded(rt, Cmd) THEN "post" ELSE "error"
  <2>1. /\ ctl' = [ctl EXCEPT !.prev = ctl.active, !.active = Cmd, !.scope = run.cmd.scope,
                              !.phase = "committed", !.fenced = FALSE]
        /\ Goto(pc) /\ UNCHANGED rt
    BY <1>4 DEF PublishCommit
  <2>2. pc \in {"post", "error"}
    OBVIOUS
  <2> HIDE DEF pc
  <2>3. /\ ctl' \in Controllers /\ ctl'.cand = ctl.cand /\ ctl'.phase = "committed"
        /\ ctl'.pending = ctl.pending /\ ctl'.latest = ctl.latest /\ ctl'.retired = ctl.retired
        /\ ctl'.epoch = ctl.epoch /\ ctl'.closed = ctl.closed
    <3>1. ctl \in Controllers /\ ctl.active \in MaybeIds /\ Cmd \in MaybeIds
      BY <1>3 DEF IInv, Typed, TypedController, Controllers, MaybeIds
    <3>2. "committed" \in Phases /\ FALSE \in BOOLEAN
      BY DEF Phases
    <3> QED
      BY <1>3, <2>1, <3>1, <3>2 DEF Controllers
  <2>4. TypedController'
    BY <2>3 DEF IInv, Typed, TypedController
  <2>5. TypedRunner' /\ run'.pc = pc /\ SameCommand
    BY <1>3, <2>1, <2>2, GotoTyped DEF IInv, Pcs
  <2>6. Typed' /\ Clock' /\ sent' = sent
    <3>1. ctl.cand <= ctl.latest
      BY DEF IInv, Tied, Clock
    <3> QED
      BY <1>1, <2>3, <2>4, <2>5, <3>1, RunnerTyped
  <2>7. Current /\ ctl.cand = Cmd /\ ctl.pending = {}
    BY <1>2, <1>3, <1>4, NoneNoId DEF Valid, Current, Held, IInv, Tied, Candidate
  <2>8. Engine'
    BY <2>1 DEF IInv, Engine
  <2>9. Promoted'
    BY <1>2, <2>1, <2>3, <2>7 DEF Promoted
  <2>10. Old'
    BY <2>1, <2>3, <2>6 DEF IInv, Tied, Old, Spent, Newest
  <2>11. Candidate'
    BY <1>4, <2>3, <2>7 DEF Candidate, Valid
  <2>12. Steps'
    BY <1>2, <2>2, <2>5
      DEF Steps, AtBegin, AtLoad, AtLoaded, AtPromote, AtSettle, AtPublish, AtPost, AtClear,
          SameCommand
  <2> QED
    BY <2>1, <2>3, <2>6, <2>8, <2>9, <2>10, <2>11, <2>12, NothingShrinks DEF IInv, Tied
<1>5. CASE ~(Valid(run.cmd.scope) /\ Cmd = ctl.latest)
  <2> DEFINE restore == ctl.scope # NoScope /\ Valid(ctl.scope)
  <2>1. PICK o \in AbortRuntime(rt, Cmd, restore) : rt' = Fenced(o.rt)
    BY <1>5 DEF PublishCommit
  <2>2. restore \in BOOLEAN /\ Goto("error") /\ UNCHANGED ctl
    BY <1>5 DEF PublishCommit
  <2> HIDE DEF restore
  <2> QED
    BY <1>1, <1>2, <1>3, <2>1, <2>2, AbortsKeep
<1> QED
  BY <1>4, <1>5

LEMMA CheckTerminalKeeps ==
    ASSUME IInv, CheckTerminal
    PROVE  IInv'
<1> DEFINE restore == ctl.scope # NoScope /\ Valid(ctl.scope)
           retired == Cmd \in ctl.retired
           pending == Cmd \in ctl.pending
           loc == [phase |-> ctl.phase, cand |-> ctl.cand, active |-> ctl.active,
                   prev |-> ctl.prev, restore |-> restore, retired |-> retired,
                   pending |-> pending]
<1>1. /\ run.pc = "check" /\ run.cmd.act \in Terminal /\ UNCHANGED <<ctl, rt>> /\ RunnerFrame
      /\ \/ Goto("error")
         \/ Valid(run.cmd.scope) /\ run' = [run EXCEPT !.pc = "settle", !.loc = loc]
  BY DEF CheckTerminal, Terminal
<1>2. run.cmd.act \in Actions /\ Cmd \in Ids /\ Cmd # None
  BY <1>1, CommandId, NoneNoId DEF IInv, Actions, Terminal
<1>3. CASE Goto("error")
  BY <1>1, <1>2, <1>3, NothingShrinks, ErrorKeeps
<1>4. CASE Valid(run.cmd.scope) /\ run' = [run EXCEPT !.pc = "settle", !.loc = loc]
  <2>1. restore \in BOOLEAN /\ retired \in BOOLEAN /\ pending \in BOOLEAN
        /\ (retired => Cmd \in ctl.retired) /\ (pending => Cmd \in ctl.pending)
    OBVIOUS
  <2> HIDE DEF restore, retired, pending
  <2>2. loc \in Locals /\ loc.cand = ctl.cand /\ loc.retired = retired /\ loc.pending = pending
    BY <2>1 DEF Locals, IInv, Typed, TypedController, Controllers
  <2> HIDE DEF loc
  <2>3. TypedRunner' /\ run'.pc = "settle" /\ SameCommand /\ run'.loc = loc
    BY <1>2, <1>4, <2>2 DEF IInv, Typed, TypedRunner, Runners, Pcs, SameCommand
  <2>4. Typed' /\ Engine' /\ Tied' /\ Cmd' = Cmd /\ Current' = Current
    BY <1>1, <2>3, EntersKeep
  <2>5. Cmd = ctl.cand /\ rt.phase = "committed" => rt.ident = Cmd
    BY <1>2 DEF IInv, Tied, Promoted, Candidate
  <2>6. AtSettle'
    BY <1>1, <2>1, <2>2, <2>3, <2>4, <2>5 DEF AtSettle, SameCommand
  <2>7. Steps'
    BY <2>3, <2>6
      DEF Steps, AtBegin, AtLoad, AtLoaded, AtPromote, AtPublish, AtPost, AtClear
  <2> QED
    BY <2>4, <2>7 DEF IInv
<1> QED
  BY <1>1, <1>3, <1>4

SettleKinds == {"done", "pending", "empty", "dropped", "released", "aborted", "finalized",
                "refused"}

\* What each way of a terminal command leaves of the runtimes.
LEMMA SettleMoves ==
    ASSUME IInv, run.pc = "settle", NEW o \in SettleRuntime(SettleKind)
    PROVE  /\ o.ok \in BOOLEAN /\ Shrinks(rt, o.rt)
           /\ o.rt.act \in {rt.act, None} \/ run.loc.restore
           /\ o.ok /\ SettleKind = "pending" =>
                (o.rt.phase = "committed" => rt.ident # Cmd)
           /\ o.ok /\ SettleKind \in {"empty", "released", "aborted"} /\ ctl.cand = Cmd =>
                o.rt.phase # "committed"
           /\ o.ok /\ SettleKind = "aborted" => o.rt.phase = "aborted"
           /\ o.ok /\ SettleKind = "finalized" => o.rt.phase = "finalized"
           /\ o.ok /\ SettleKind # "finalized" => Cmd \notin o.rt.open
           /\ ~(o.ok /\ SettleKind = "refused")
<1> DEFINE kind == SettleKind
<1>1. /\ run.cmd.act \in Terminal
      /\ Cmd = run.loc.cand /\ rt.phase = "committed" => rt.ident = Cmd
  BY DEF IInv, Steps, AtSettle
<1>2. Cmd \in Ids /\ Cmd # None /\ rt \in Runtimes /\ Sound(rt) /\ run.loc.restore \in BOOLEAN
  BY <1>1, CommandId, NoneNoId
    DEF IInv, Actions, Terminal, Engine, Typed, TypedRunner, Runners, Locals
<1>3. /\ kind \in SettleKinds
      /\ kind = "empty" => ~Present(rt)
      /\ kind = "done" => Cmd \notin Owned(rt)
      /\ kind = "aborted" => Cmd = run.loc.cand
  BY DEF SettleKind, SettleKinds
<1>4. ~Present(rt) => rt.phase # "committed"
  BY DEF Present, Owned, Some, IInv, Engine, Sound
<1>13. ~Present(rt) \/ Cmd \notin Owned(rt) => Cmd \notin rt.open
  BY <1>2 DEF Present, Owned, Some, Sound
<1>5. ctl.cand = Cmd /\ rt.phase = "committed" => rt.ident = Cmd
  BY <1>2 DEF IInv, Tied, Promoted, Candidate
<1>6. o \in SettleRuntime(kind)
  OBVIOUS
<1> HIDE DEF kind
<1>7. CASE kind = "pending"
  <2>1. CASE Cmd \in Owned(rt)
    <3>1. o \in ReleaseRuntime(rt, Cmd)
      BY <1>6, <1>7, <2>1 DEF SettleRuntime
    <3>2. Cmd \in MaybeIds
      BY <1>2 DEF MaybeIds
    <3> QED
      BY <1>2, <1>7, <3>1, <3>2, ReleaseMoves DEF kind
  <2>2. CASE Cmd \notin Owned(rt)
    <3>1. o = Outcome(~Present(rt), rt)
      BY <1>6, <1>7, <2>2 DEF SettleRuntime
    <3>2. o.ok = ~Present(rt) /\ o.rt = rt
      BY <3>1 DEF Outcome
    <3> QED
      BY <1>2, <1>4, <1>7, <1>13, <3>2, ShrinksNot DEF kind
  <2> QED
    BY <2>1, <2>2
<1>8. CASE kind = "dropped"
  <2>1. o \in RetirePrevious(rt, Cmd)
    BY <1>6, <1>8 DEF SettleRuntime
  <2> QED
    BY <1>2, <1>8, <2>1, RetireMoves DEF kind
<1>9. CASE kind = "released"
  <2>1. o \in ReleaseRuntime(rt, Cmd) /\ Cmd \in MaybeIds
    BY <1>2, <1>6, <1>9 DEF SettleRuntime, MaybeIds
  <2>2. /\ o.ok \in BOOLEAN /\ Shrinks(rt, o.rt) /\ o.rt.act \in {rt.act, None}
        /\ o.ok => Cmd \notin o.rt.open
        /\ o.ok /\ o.rt.phase = "committed" => rt.ident # Cmd
    BY <1>2, <2>1, ReleaseMoves
  <2>3. o.ok /\ ctl.cand = Cmd => o.rt.phase # "committed"
    BY <1>5, <2>2 DEF Shrinks
  <2> QED
    BY <1>9, <2>2, <2>3 DEF kind
<1>10. CASE kind = "aborted"
  <2>1. o \in AbortRuntime(rt, Cmd, run.loc.restore)
    BY <1>6, <1>10 DEF SettleRuntime
  <2>2. /\ o.ok \in BOOLEAN /\ Shrinks(rt, o.rt)
        /\ ~run.loc.restore => o.rt.act \in {rt.act, None}
        /\ o.ok => o.rt.phase = "aborted" /\ Cmd \notin o.rt.open
    BY <1>1, <1>2, <1>3, <1>10, <2>1, AbortMoves
  <2> QED
    BY <1>2, <1>10, <2>2 DEF kind
<1>11. CASE kind = "finalized"
  <2>1. o \in FinalizeRuntime(rt, Cmd)
    BY <1>6, <1>11 DEF SettleRuntime
  <2> QED
    BY <1>2, <1>11, <2>1, FinalizeMoves DEF kind
<1>12. CASE kind \in {"done", "empty", "refused"}
  <2>1. o = Outcome(kind # "refused", rt)
    BY <1>6, <1>12 DEF SettleRuntime
  <2>2. o.ok = (kind # "refused") /\ o.rt = rt
    BY <2>1 DEF Outcome
  <2> QED
    BY <1>2, <1>3, <1>4, <1>12, <1>13, <2>2, ShrinksNot DEF kind
<1> QED
  BY <1>3, <1>7, <1>8, <1>9, <1>10, <1>11, <1>12 DEF SettleKinds

LEMMA SettleKeeps ==
    ASSUME IInv, Settle
    PROVE  /\ IInv' /\ Shrinks(rt, rt') /\ ctl.retired \subseteq ctl'.retired
           /\ run'.pc \in {"error", "post", "publish"}
           /\ run'.pc # "error" /\ run.cmd.act # "finalize" =>
                Cmd \in ctl'.retired /\ Cmd \notin rt'.open
<1>1. PICK o \in SettleRuntime(SettleKind) :
        /\ rt' = o.rt
        /\ ctl' = IF o.ok THEN [ctl EXCEPT !.retired = @ \cup SettleRecord(SettleKind),
                                 !.pending = IF SettleKind = "pending" THEN @ \ {Cmd} ELSE @]
                  ELSE ctl
        /\ run' = [run EXCEPT !.kind = SettleKind,
                     !.pc = IF ~o.ok THEN "error"
                            ELSE IF SettleKind \in {"done", "pending"} THEN "post" ELSE "publish"]
  BY DEF Settle
<1>2. run.pc = "settle" /\ RunnerFrame
  BY DEF Settle
<1>3. /\ run.cmd.act \in Terminal
      /\ Current => run.loc.cand = ctl.cand
      /\ run.loc.pending => Cmd \in ctl.pending
      /\ run.loc.retired => Cmd \in ctl.retired
  BY <1>2 DEF IInv, Steps, AtSettle
<1>4. run.cmd.act \in Actions /\ Cmd \in Ids /\ Cmd # None
  BY <1>3, CommandId, NoneNoId DEF IInv, Actions, Terminal
<1>5. /\ o.ok \in BOOLEAN /\ Shrinks(rt, o.rt)
      /\ o.ok /\ SettleKind = "pending" => (o.rt.phase = "committed" => rt.ident # Cmd)
      /\ o.ok /\ SettleKind \in {"empty", "released", "aborted"} /\ ctl.cand = Cmd =>
           o.rt.phase # "committed"
      /\ o.ok /\ SettleKind = "aborted" => o.rt.phase = "aborted"
      /\ o.ok /\ SettleKind = "finalized" => o.rt.phase = "finalized"
      /\ o.ok /\ SettleKind # "finalized" => Cmd \notin o.rt.open
      /\ ~(o.ok /\ SettleKind = "refused")
  BY <1>2, SettleMoves
<1> DEFINE kind == SettleKind
           retired == ctl.retired \cup SettleRecord(SettleKind)
           pending == IF kind = "pending" THEN ctl.pending \ {Cmd} ELSE ctl.pending
           pc == IF ~o.ok THEN "error"
                 ELSE IF kind \in {"done", "pending"} THEN "post" ELSE "publish"
<1>6. /\ kind \in SettleKinds
      /\ kind = "pending" => run.loc.pending
      /\ kind = "aborted" => run.loc.cand = Cmd
      /\ kind = "done" => run.loc.retired
      /\ kind = "finalized" => run.cmd.act = "finalize"
  BY DEF SettleKind, SettleKinds
<1>7. /\ ctl \in Controllers /\ retired \in SUBSET Ids /\ pending \in SUBSET Ids
      /\ ctl.retired \subseteq retired
      /\ kind \in {"pending", "empty", "dropped", "aborted", "released"} => Cmd \in retired
  BY <1>4 DEF IInv, Typed, TypedController, Controllers, SettleRecord, TypedRunner, Runners,
              Locals, MaybeIds, Some
<1>8. /\ pc \in {"error", "post", "publish"}
      /\ pc = "error" <=> ~o.ok
      /\ pc = "publish" => kind \notin {"done", "pending"}
  OBVIOUS
<1>9. run' = [run EXCEPT !.pc = pc, !.kind = kind]
  BY <1>1
<1>10. ctl' = IF o.ok THEN [ctl EXCEPT !.retired = retired, !.pending = pending] ELSE ctl
  BY <1>1
<1>11. (kind # "pending" => pending = ctl.pending) /\ (kind = "pending" => pending = ctl.pending \ {Cmd})
  OBVIOUS
<1> HIDE DEF retired, pending, pc
<1>12. TypedRunner' /\ run'.pc = pc /\ SameCommand /\ run'.kind = kind
  BY ZenonT(60), <1>4, <1>6, <1>8, <1>9, GotoKindTyped DEF IInv, Pcs, Kinds, SettleKinds
<1>13. CASE ~o.ok
  BY <1>1, <1>2, <1>5, <1>8, <1>10, <1>12, <1>13, ControllerSame, LeavesKeep
<1>14. CASE o.ok
  <2>1. /\ ctl' \in Controllers /\ ctl'.cand = ctl.cand /\ ctl'.phase = ctl.phase
        /\ ctl'.pending = pending /\ ctl'.latest = ctl.latest /\ ctl'.retired = retired
        /\ ctl'.epoch = ctl.epoch /\ ctl'.closed = ctl.closed
    <3>1. ctl' = [ctl EXCEPT !.retired = retired, !.pending = pending]
      BY <1>10, <1>14
    <3>2. ctl \in Controllers /\ retired \in SUBSET Ids /\ pending \in SUBSET Ids
      BY <1>7
    <3> QED
      BY <3>1, <3>2 DEF Controllers
  <2>2. TypedController' /\ ctl'.cand <= ctl.latest
    BY <2>1 DEF IInv, Typed, TypedController, Tied, Clock
  <2>3. Typed' /\ Clock' /\ sent' = sent
    BY <1>2, <1>12, <2>1, <2>2, RunnerTyped
  <2>4. Engine' /\ Promoted' /\ Old' /\ Candidate'
    <3>1. CASE kind = "pending"
      <4>1. Cmd \in ctl.pending /\ ctl.cand = None
        BY <1>3, <1>6, <3>1 DEF IInv, Tied, Candidate
      <4>2. Engine'
        BY <1>1, <1>5 DEF Engine, Shrinks
      <4>3. Promoted'
        BY <1>1, <1>5, <1>11, <1>14, <2>1, <3>1, <4>1
          DEF Promoted, IInv, Tied, Shrinks
      <4>4. Candidate'
        BY <2>1, <4>1 DEF Candidate
      <4>5. ASSUME NEW x, Spent(x) \/ x \in ctl.pending
            PROVE  Spent(x)' \/ x \in ctl'.pending
        <5>1. ctl'.latest = ctl.latest /\ sent' = sent /\ ctl.retired \subseteq ctl'.retired
              /\ Cmd \in ctl'.retired /\ ctl'.pending = ctl.pending \ {Cmd}
          BY <1>7, <1>11, <2>1, <2>3, <3>1
        <5>2. CASE Spent(x)
          BY <5>1, <5>2 DEF Spent, Newest
        <5>3. CASE x \in ctl.pending
          BY <5>1, <5>3 DEF Spent
        <5> QED
          BY <4>5, <5>2, <5>3
      <4>6. Spent(rt.act) \/ rt.act \in ctl.pending
        BY <4>1 DEF IInv, Tied, Old, Spent
      <4>7. Spent(rt.prev) \/ rt.prev \in ctl.pending
        BY DEF IInv, Tied, Old
      <4>8. Spent(None)'
        BY DEF Spent
      <4>9. rt'.act \in {rt.act, rt.prev, None} /\ rt'.prev \in {rt.prev, None}
        BY <1>1, <1>5 DEF Shrinks
      <4>10. Old'
        BY <4>5, <4>6, <4>7, <4>8, <4>9 DEF Old
      <4> QED
        BY <4>2, <4>3, <4>4, <4>10
    <3>2. CASE kind # "pending"
      <4>1. Engine' /\ Promoted' /\ Old'
        BY <1>1, <1>5, <1>7, <1>11, <2>1, <2>3, <3>2, ShrinkKeeps
      <4>2. Candidate'
        BY <1>2, <1>11, <2>1, <3>2 DEF IInv, Tied, Candidate
      <4> QED
        BY <4>1, <4>2
    <3> QED
      BY <3>1, <3>2
  <2>7. /\ Shrinks(rt, rt') /\ ctl.retired \subseteq ctl'.retired
        /\ run.cmd.act # "finalize" => Cmd \in ctl'.retired /\ Cmd \notin rt'.open
    <3>1. run.cmd.act # "finalize" => Cmd \in retired /\ Cmd \notin o.rt.open
      BY <1>3, <1>5, <1>6, <1>7, <1>14 DEF SettleKinds
    <3> QED
      BY <1>1, <1>5, <1>7, <2>1, <3>1
  <2>5. CASE pc = "post"
    <3>1. Steps'
      BY <1>3, <1>12, <2>5
        DEF Steps, AtBegin, AtLoad, AtLoaded, AtPromote, AtSettle, AtPublish, AtPost, AtClear,
            SameCommand, Terminal
    <3> QED
      BY <1>12, <2>3, <2>4, <2>5, <2>7, <3>1 DEF IInv, Tied
  <2>6. CASE pc = "publish"
    <3>1. kind \in {"empty", "dropped", "released", "aborted", "finalized"}
      BY <1>5, <1>6, <1>8, <1>14, <2>6 DEF SettleKinds
    <3>2. Current' = Current /\ Cmd' = Cmd
      BY <1>12, <2>1 DEF Current, SameCommand, Cmd
    <3>3. AtPublish'
      <4>1. run'.kind = kind /\ run'.cmd = run.cmd /\ rt' = o.rt /\ ctl'.retired = retired
            /\ ctl'.cand = ctl.cand
        BY <1>1, <1>12, <2>1 DEF SameCommand
      <4>2. /\ kind \in {"empty", "aborted", "released"} => Cmd \in retired
            /\ kind \in {"empty", "released", "aborted"} /\ ctl.cand = Cmd =>
                 o.rt.phase # "committed"
            /\ kind = "aborted" => o.rt.phase # "committed"
            /\ kind = "finalized" => o.rt.phase = "finalized"
        BY <1>5, <1>7, <1>14
      <4>3. kind = "aborted" => (Current => ctl.cand = Cmd)
        BY <1>3, <1>6
      <4> HIDE DEF kind
      <4> QED
        BY <1>3, <3>1, <3>2, <4>1, <4>2, <4>3 DEF AtPublish
    <3>4. Steps'
      BY <1>12, <2>6, <3>1, <3>3
        DEF Steps, AtBegin, AtLoad, AtLoaded, AtPromote, AtSettle, AtPost, AtClear
    <3> QED
      BY <1>12, <2>3, <2>4, <2>6, <2>7, <3>4 DEF IInv, Tied
  <2> QED
    BY <1>8, <1>14, <2>5, <2>6
<1> QED
  BY <1>5, <1>13, <1>14

Forgotten == [ctl EXCEPT !.cand = None, !.phase = "released"]

\* The updates of _publish, by the fields that the invariant speaks of.
LEMMA PublishMoves ==
    ASSUME IInv, run.pc = "publish", NEW c, c = Published
    PROVE  /\ c \in Controllers
           /\ c.epoch = ctl.epoch /\ c.closed = ctl.closed /\ c.latest = ctl.latest
           /\ c.retired = ctl.retired /\ c.pending = ctl.pending
           /\ \/ run.kind \in {"prepared", "finalized"} /\ c.cand = ctl.cand /\ c.phase = run.kind
              \/ run.kind \in {"empty", "dropped", "released"} /\ c.cand = ctl.cand
                 /\ c.phase = ctl.phase
              \/ run.kind \in {"empty", "released"} /\ ctl.cand = Cmd /\ c.cand = None
              \/ run.kind = "aborted" /\ c.cand = None
<1>1. /\ run.kind \in {"prepared", "empty", "dropped", "released", "aborted", "finalized"}
      /\ run.kind # "prepared" => run.cmd.act \in Terminal
  BY DEF IInv, Steps, AtPublish
<1>2. run.cmd.scope \in ScopeSet /\ ctl \in Controllers /\ run.loc \in Locals
  BY CommandTyped DEF IInv, Typed, TypedController, TypedRunner, Runners
<1>3. NoScope \in ScopeSet /\ None \in MaybeIds
      /\ {"prepared", "released", "aborted", "finalized"} \subseteq Phases
  BY IdleTyped DEF MaybeIds, Phases
<1>4. CASE run.kind = "prepared"
  <2>1. c = [ctl EXCEPT !.phase = "prepared"]
    BY <1>4 DEF Published
  <2> QED
    BY <1>2, <1>3, <1>4, <2>1 DEF Controllers
<1>5. CASE run.kind = "finalized"
  <2>1. c = [ctl EXCEPT !.prev = None, !.phase = "finalized"]
    BY <1>5 DEF Published
  <2> QED
    BY <1>2, <1>3, <1>5, <2>1 DEF Controllers
<1>6. CASE run.kind = "dropped"
  <2>1. c = [ctl EXCEPT !.prev = None]
    BY <1>6 DEF Published
  <2> QED
    BY <1>2, <1>3, <1>6, <2>1 DEF Controllers
<1>7. CASE run.kind = "aborted"
  <2> DEFINE kept == IF ~run.loc.restore THEN None
                     ELSE IF run.loc.phase = "committed" THEN run.loc.prev ELSE ctl.active
             scope == IF kept # None THEN run.cmd.scope ELSE NoScope
             fenced == kept = None
  <2>1. c = [ctl EXCEPT !.active = kept, !.prev = None, !.cand = None, !.phase = "aborted",
                        !.scope = scope, !.fenced = fenced]
    BY <1>7 DEF Published
  <2>2. kept \in MaybeIds /\ scope \in ScopeSet /\ fenced \in BOOLEAN
    BY <1>2, <1>3 DEF Controllers, Locals
  <2> HIDE DEF kept, scope, fenced
  <2> QED
    BY ZenonT(60), <1>2, <1>3, <1>7, <2>1, <2>2 DEF Controllers
<1>8. CASE run.kind \in {"empty", "released"}
  <2> DEFINE cleared == IF ctl.cand = Cmd THEN Forgotten ELSE ctl
             unfenced == [cleared EXCEPT !.prev = None, !.active = None, !.scope = NoScope,
                                         !.fenced = TRUE]
             fenced == [cleared EXCEPT !.fenced = TRUE]
  <2>1. /\ cleared \in Controllers
        /\ cleared.epoch = ctl.epoch /\ cleared.closed = ctl.closed
        /\ cleared.latest = ctl.latest /\ cleared.retired = ctl.retired
        /\ cleared.pending = ctl.pending
        /\ \/ cleared.cand = ctl.cand /\ cleared.phase = ctl.phase
           \/ ctl.cand = Cmd /\ cleared.cand = None
    <3>1. CASE ctl.cand = Cmd
      <4>1. cleared = [ctl EXCEPT !.cand = None, !.phase = "released"]
        BY <3>1 DEF Forgotten
      <4> HIDE DEF cleared
      <4> QED
        BY <1>2, <1>3, <3>1, <4>1 DEF Controllers
    <3>2. CASE ctl.cand # Cmd
      BY <1>2, <3>2
    <3> QED
      BY <3>1, <3>2
  <2>2. c = cleared \/ (run.kind = "released" /\ (c = unfenced \/ c = fenced))
    BY <1>8 DEF Published, Forgotten
  <2> HIDE DEF cleared
  <2>3. CASE c = cleared
    BY <1>8, <2>1, <2>3
  <2>4. CASE run.kind = "released" /\ c = unfenced
    <3>1. TRUE \in BOOLEAN
      OBVIOUS
    <3>2. c = [cleared EXCEPT !.prev = None, !.active = None, !.scope = NoScope,
                              !.fenced = TRUE]
      BY <2>4
    <3>3. /\ c \in Controllers /\ c.cand = cleared.cand /\ c.phase = cleared.phase
          /\ c.epoch = cleared.epoch /\ c.closed = cleared.closed /\ c.latest = cleared.latest
          /\ c.retired = cleared.retired /\ c.pending = cleared.pending
      BY <1>3, <2>1, <3>1, <3>2 DEF Controllers
    <3> QED
      BY <1>8, <2>1, <2>4, <3>3
  <2>5. CASE run.kind = "released" /\ c = fenced
    <3>1. c = [cleared EXCEPT !.fenced = TRUE]
      BY <2>5
    <3>2. /\ c \in Controllers /\ c.cand = cleared.cand /\ c.phase = cleared.phase
          /\ c.epoch = cleared.epoch /\ c.closed = cleared.closed /\ c.latest = cleared.latest
          /\ c.retired = cleared.retired /\ c.pending = cleared.pending
      BY <2>1, <3>1 DEF Controllers
    <3> QED
      BY <1>8, <2>1, <2>5, <3>2
  <2> QED
    BY <2>2, <2>3, <2>4, <2>5
<1> QED
  BY <1>1, <1>4, <1>5, <1>6, <1>7, <1>8

LEMMA PublishKeeps ==
    ASSUME IInv, Publish
    PROVE  IInv'
<1>1. run.pc = "publish" /\ UNCHANGED rt /\ RunnerFrame
  BY DEF Publish
<1>2. /\ run.kind \in {"prepared", "empty", "dropped", "released", "aborted", "finalized"}
      /\ run.kind # "prepared" => run.cmd.act \in Terminal
      /\ run.kind \in {"empty", "aborted", "released"} =>
           Cmd \in ctl.retired /\ (ctl.cand = Cmd => rt.phase # "committed")
      /\ run.kind = "aborted" => rt.phase # "committed" /\ (Current => ctl.cand = Cmd)
      /\ run.kind = "finalized" => rt.phase = "finalized"
  BY <1>1 DEF IInv, Steps, AtPublish
<1>3. run.kind = "prepared" =>
        run.cmd.act = "prepare" /\ Held("preparing") /\ rt.phase = "prepared"
  BY <1>1 DEF IInv, Steps, AtLoaded
<1>4. run.cmd.act \in Actions /\ Cmd \in Ids /\ Cmd # None
  BY <1>2, <1>3, CommandId, NoneNoId DEF IInv, Actions, Terminal
<1>5. CASE UNCHANGED ctl /\ Goto("error")
  BY <1>1, <1>4, <1>5, NothingShrinks, ErrorKeeps
<1>6. CASE Valid(run.cmd.scope) /\ ctl' = Published /\ Goto("post")
  <2>1. /\ ctl' \in Controllers
        /\ ctl'.epoch = ctl.epoch /\ ctl'.closed = ctl.closed /\ ctl'.latest = ctl.latest
        /\ ctl'.retired = ctl.retired /\ ctl'.pending = ctl.pending
        /\ \/ run.kind \in {"prepared", "finalized"} /\ ctl'.cand = ctl.cand
              /\ ctl'.phase = run.kind
           \/ run.kind \in {"empty", "dropped", "released"} /\ ctl'.cand = ctl.cand
              /\ ctl'.phase = ctl.phase
           \/ run.kind \in {"empty", "released"} /\ ctl.cand = Cmd /\ ctl'.cand = None
           \/ run.kind = "aborted" /\ ctl'.cand = None
    BY <1>1, <1>6, PublishMoves
  <2>2. Current /\ ~ctl.closed
    BY <1>6 DEF Valid, Current
  <2>3. TypedController'
    BY <2>1 DEF IInv, Typed, TypedController
  <2>4. TypedRunner' /\ run'.pc = "post" /\ SameCommand
    BY <1>4, <1>6, GotoTyped DEF IInv, Pcs
  <2>5. Typed' /\ Clock' /\ sent' = sent
    <3>1. ctl.cand <= ctl.latest /\ ctl.latest \in Nat
      BY NumbersTyped DEF IInv, Tied, Clock
    <3>2. ctl'.cand \in {ctl.cand, None}
      BY <2>1
    <3>3. ctl'.cand <= ctl.latest
      BY <3>1, <3>2 DEF None
    <3> QED
      BY <1>1, <2>1, <2>3, <2>4, <3>3, RunnerTyped
  <2>6. Engine'
    BY <1>1 DEF IInv, Engine
  <2>7. Promoted'
    BY <1>1, <1>2, <1>3, <2>1, <2>2 DEF IInv, Tied, Promoted, Candidate, Held
  <2>8. Old'
    <3>1. ctl'.cand = ctl.cand \/ (Cmd \in ctl.retired /\ ctl.cand = Cmd)
      BY <1>2, <2>1, <2>2
    <3>2. \A x : Spent(x) => Spent(x)'
      BY <2>1, <2>5 DEF Spent, Newest
    <3>3. Cmd \in ctl.retired => Spent(Cmd)
      BY DEF Spent
    <3> QED
      BY <1>1, <2>1, <3>1, <3>2, <3>3 DEF IInv, Tied, Old
  <2>9. Candidate'
    <3>1. CASE ctl'.cand = None
      BY <3>1 DEF Candidate
    <3>2. CASE ctl'.cand = ctl.cand /\ ctl'.phase \in {"prepared", "finalized"}
      BY <2>1, <2>2, <3>2 DEF IInv, Tied, Candidate
    <3>3. CASE run.kind # "prepared" /\ ctl'.cand = ctl.cand /\ ctl'.phase = ctl.phase
      <4>1. run.cmd.act # "prepare"
        BY <1>2, <3>3 DEF Terminal
      <4> QED
        BY <2>1, <2>2, <3>3, <4>1 DEF IInv, Tied, Candidate
    <3> QED
      BY <2>1, <3>1, <3>2, <3>3
  <2>10. run.cmd.act = "prepare" => rt.phase = "prepared"
    BY <1>2, <1>3 DEF Terminal
  <2>11. Steps'
    BY <1>1, <2>4, <2>10
      DEF Steps, AtBegin, AtLoad, AtLoaded, AtPromote, AtSettle, AtPublish, AtPost, AtClear,
          SameCommand
  <2> QED
    BY <2>5, <2>6, <2>7, <2>8, <2>9, <2>11 DEF IInv, Tied
<1> QED
  BY <1>5, <1>6 DEF Publish

\* Everything the host owns is released, or as much of it as closes.
LEMMA ReleaseAllKeeps ==
    ASSUME IInv, NEW next \in {"error", "clear"}, ReleaseAll(next), RunnerFrame,
           run.pc \in {"post", "error", "retire"}, run.cmd.act # "none",
           next = "error" => run.cmd.act \in Actions
    PROVE  IInv' /\ Shrinks(rt, rt') /\ ctl.retired \subseteq ctl'.retired
<1>1. PICK o \in ReleaseRuntime(rt, None) :
        LET closed == o.ok /\ ~Present(o.rt)
        IN  /\ rt' = o.rt
            /\ ctl' = IF closed THEN [ctl EXCEPT !.retired = @ \cup ctl.pending \cup Owned(rt)]
                      ELSE ctl
            /\ run' = [run EXCEPT !.pc = next, !.kind = IF closed THEN "closed" ELSE "kept"]
  BY DEF ReleaseAll
<1> DEFINE closed == o.ok /\ ~Present(o.rt)
           retired == ctl.retired \cup (ctl.pending \cup Owned(rt))
           kind == IF closed THEN "closed" ELSE "kept"
<1>2. /\ rt' = o.rt
      /\ ctl' = ctl \/ ctl' = [ctl EXCEPT !.retired = retired]
      /\ run' = [run EXCEPT !.pc = next, !.kind = kind]
  <2>1. (ctl.retired \cup ctl.pending) \cup Owned(rt) = retired
    OBVIOUS
  <2> QED
    BY <1>1, <2>1
<1>3. kind \in {"closed", "kept"} /\ (kind = "closed" => o.ok)
  OBVIOUS
<1>4. rt \in Runtimes /\ Sound(rt) /\ None \in MaybeIds
  BY DEF IInv, Engine, MaybeIds
<1>5. /\ o.ok \in BOOLEAN /\ Shrinks(rt, o.rt)
      /\ o.ok => /\ o.rt.act = None /\ o.rt.cand = None /\ o.rt.prev = None
                 /\ o.rt.open = {} /\ o.rt.phase = "released"
  BY <1>4, ReleaseMoves
<1>6. ctl \in Controllers /\ retired \in SUBSET Ids /\ ctl.retired \subseteq retired
  <2>1. Owned(rt) \in SUBSET Ids
    BY <1>4 DEF Owned, Some, Runtimes, MaybeIds
  <2> QED
    BY <2>1 DEF IInv, Typed, TypedController, Controllers
<1> HIDE DEF closed, retired, kind
<1>7. TypedRunner' /\ run'.pc = next /\ SameCommand /\ run'.kind = kind
  BY <1>2, <1>3, GotoKindTyped DEF IInv, Pcs, Kinds
<1>8. /\ ctl' \in Controllers /\ ctl'.cand = ctl.cand /\ ctl'.phase = ctl.phase
      /\ ctl'.pending = ctl.pending /\ ctl'.latest = ctl.latest
      /\ ctl.retired \subseteq ctl'.retired
      /\ ctl'.epoch = ctl.epoch /\ ctl'.closed = ctl.closed
  <2>1. CASE ctl' = ctl
    BY <1>6, <2>1
  <2>2. CASE ctl' = [ctl EXCEPT !.retired = retired]
    BY <1>6, <2>2 DEF Controllers
  <2> QED
    BY <1>2, <2>1, <2>2
<1>9. TypedController' /\ ctl'.cand <= ctl.latest
  BY <1>8 DEF IInv, Typed, TypedController, Tied, Clock
<1>10. Typed' /\ Clock' /\ sent' = sent
  BY <1>7, <1>8, <1>9, RunnerTyped
<1>11. Engine' /\ Promoted' /\ Old'
  BY <1>2, <1>5, <1>8, <1>10, ShrinkKeeps
<1>12. Candidate'
  BY <1>7, <1>8 DEF IInv, Tied, Candidate, Current, SameCommand, Cmd
<1>13. Steps'
  <2>1. CASE next = "error"
    BY <1>7, <2>1, OutsideSteps DEF Outside
  <2>2. CASE next = "clear"
    BY <1>2, <1>3, <1>5, <1>7, <2>2
      DEF Steps, AtBegin, AtLoad, AtLoaded, AtPromote, AtSettle, AtPublish, AtPost, AtClear, Empty
  <2> QED
    BY <2>1, <2>2
<1> QED
  BY <1>2, <1>5, <1>8, <1>10, <1>11, <1>12, <1>13 DEF IInv, Tied

LEMMA PostKeeps ==
    ASSUME IInv, Post
    PROVE  IInv' /\ Shrinks(rt, rt') /\ ctl.retired \subseteq ctl'.retired
<1>1. run.pc = "post" /\ RunnerFrame
  BY DEF Post
<1>2. run.cmd.act \in Actions /\ run.cmd.act # "none"
  BY <1>1 DEF IInv, Typed, TypedRunner, Actions
<1>3. CASE ReleaseAll("error")
  BY <1>1, <1>2, <1>3, ReleaseAllKeeps
<1>4. CASE /\ run.cmd.act = "prepare"
           /\ \E o \in AbortRuntime(rt, Cmd, FALSE) : rt' = o.rt
           /\ Goto("error") /\ UNCHANGED ctl
  <2> DEFINE restore == FALSE
  <2>1. PICK o \in AbortRuntime(rt, Cmd, restore) : rt' = o.rt
    BY <1>4
  <2>2. restore \in BOOLEAN
    OBVIOUS
  <2>3. rt.phase = "committed" => rt.ident = Cmd
    BY <1>1, <1>4 DEF IInv, Steps, AtPost
  <2> HIDE DEF restore
  <2> QED
    BY <1>1, <1>2, <1>4, <2>1, <2>2, <2>3, AbortsKeep
<1>5. CASE Goto("ack") /\ UNCHANGED <<ctl, rt>>
  <2>1. TypedRunner' /\ run'.pc = "ack" /\ SameCommand
    BY <1>2, <1>5, GotoTyped DEF IInv, Pcs
  <2> QED
    BY <1>1, <1>5, <2>1, NothingShrinks, ControllerSame, LeavesKeep DEF Outside
<1> QED
  BY <1>3, <1>4, <1>5 DEF Post

LEMMA FenceCleanupKeeps ==
    ASSUME IInv, FenceCleanup
    PROVE  IInv' /\ Shrinks(rt, rt') /\ ctl.retired \subseteq ctl'.retired
<1>1. run.pc = "error" /\ ReleaseAll("clear") /\ RunnerFrame
  BY DEF FenceCleanup
<1>2. run.cmd.act # "none"
  BY <1>1 DEF IInv, Typed, TypedRunner, Actions
<1> QED
  BY <1>1, <1>2, ReleaseAllKeeps

LEMMA RetireKeeps ==
    ASSUME IInv, Retire
    PROVE  IInv' /\ Shrinks(rt, rt') /\ ctl.retired \subseteq ctl'.retired
<1>1. run.pc = "retire" /\ ReleaseAll("clear") /\ RunnerFrame
  BY DEF Retire
<1>2. run.cmd.act # "none"
  BY <1>1 DEF IInv, Typed, TypedRunner
<1> QED
  BY <1>1, <1>2, ReleaseAllKeeps

LEMMA ClearKeeps ==
    ASSUME IInv, Clear
    PROVE  IInv'
<1>1. /\ run.pc = "clear" /\ UNCHANGED <<net, queue, rt, waiter, stage, sent, acked, serving, proved>>
      /\ ctl' = IF run.kind = "closed" THEN [ctl EXCEPT !.pending = {}] ELSE ctl
  BY DEF Clear
<1>2. run.kind = "closed" => Empty(rt) /\ rt.cand = None /\ rt.prev = None
  BY <1>1 DEF IInv, Steps, AtClear
<1>3. /\ ctl' \in Controllers /\ ctl'.cand = ctl.cand /\ ctl'.phase = ctl.phase
      /\ ctl'.latest = ctl.latest /\ ctl'.retired = ctl.retired
      /\ ctl'.epoch = ctl.epoch /\ ctl'.closed = ctl.closed
      /\ ctl'.pending = (IF run.kind = "closed" THEN {} ELSE ctl.pending)
  <2>1. ctl \in Controllers /\ {} \in SUBSET Ids
    BY DEF IInv, Typed, TypedController
  <2>2. CASE run.kind = "closed"
    BY <1>1, <2>1, <2>2 DEF Controllers
  <2>3. CASE run.kind # "closed"
    BY <1>1, <2>1, <2>3
  <2> QED
    BY <2>2, <2>3
<1>4. TypedController'
  BY <1>3 DEF IInv, Typed, TypedController
<1>5. /\ TypedRunner' /\ run'.pc \in {"idle", "failed"}
      /\ \/ run'.cmd = NoCommand /\ run.cmd.act = "cleanup"
         \/ SameCommand /\ run'.pc = "failed"
      /\ cleanup' \in [epoch : Int, done : BOOLEAN, unloaded : BOOLEAN]
  <2>1. CASE run.cmd.act = "cleanup"
    <3> DEFINE unloaded == run.kind = "closed" /\ cleanup.epoch = ctl.epoch
    <3>1. /\ run' = Idle
          /\ cleanup' = cleanup \/ cleanup' = [cleanup EXCEPT !.done = TRUE, !.unloaded = unloaded]
      BY <2>1 DEF Clear
    <3>2. cleanup \in [epoch : Int, done : BOOLEAN, unloaded : BOOLEAN] /\ unloaded \in BOOLEAN
      BY DEF IInv, Typed, TypedWorld
    <3> HIDE DEF unloaded
    <3>3. cleanup' \in [epoch : Int, done : BOOLEAN, unloaded : BOOLEAN]
      BY <3>1, <3>2
    <3> QED
      BY <2>1, <3>1, <3>3, IdleStays
  <2>2. CASE run.cmd.act # "cleanup"
    <3>1. Goto("failed") /\ cleanup' = cleanup
      BY <2>2 DEF Clear
    <3>2. run.cmd.act \in Actions
      BY <1>1, <2>2, CommandTyped DEF IInv, Typed, TypedRunner
    <3>3. TypedRunner' /\ run'.pc = "failed" /\ SameCommand
      BY <3>1, <3>2, GotoTyped DEF IInv, Pcs
    <3> QED
      BY <2>2, <3>1, <3>3 DEF IInv, Typed, TypedWorld
  <2> QED
    BY <2>1, <2>2
<1>6. Typed'
  BY <1>1, <1>4, <1>5 DEF IInv, Typed, TypedWorld, TypedQueue
<1>7. Clock'
  BY <1>1, <1>3, <1>5, NumbersTyped DEF IInv, Tied, Clock, NoCommand, NoScope, SameCommand
<1>8. Engine'
  BY <1>1 DEF IInv, Engine
<1>9. Promoted' /\ Old'
  <2>1. CASE run.kind = "closed"
    <3>1. rt'.act = None /\ rt'.prev = None /\ rt'.phase # "committed"
      BY <1>1, <1>2, <2>1 DEF Empty, IInv, Engine, Sound
    <3> QED
      BY <3>1 DEF Promoted, Old, Spent
  <2>2. CASE run.kind # "closed"
    BY <1>1, <1>3, <2>2 DEF IInv, Tied, Promoted, Old, Spent, Newest
  <2> QED
    BY <2>1, <2>2
<1>10. Candidate'
  <2>1. ctl.cand # None /\ ctl.phase = "preparing" => run'.pc = "failed" /\ SameCommand
    BY <1>5 DEF IInv, Tied, Candidate
  <2>2. ctl'.pending \subseteq ctl.pending
    BY <1>3
  <2> QED
    BY <1>3, <2>1, <2>2 DEF IInv, Tied, Candidate, Current, SameCommand, Cmd
<1>11. Steps'
  BY <1>5, OutsideSteps DEF Outside
<1> QED
  BY <1>6, <1>7, <1>8, <1>9, <1>10, <1>11 DEF IInv, Tied

(***************************************************************************)
(* The invariant.                                                          *)
(***************************************************************************)
LEMMA RunnerKeeps ==
    ASSUME IInv, Runner
    PROVE  IInv'
BY PopKeeps, CheckPrepareKeeps, BeginPrepareKeeps, LoadKeeps, RecheckKeeps, CheckCommitKeeps,
   PromoteKeeps, PublishCommitKeeps, CheckTerminalKeeps, SettleKeeps, PublishKeeps, PostKeeps,
   FenceCleanupKeeps, MarkFailedKeeps, RetireKeeps, ClearKeeps, AckKeeps DEF Runner

LEMMA NextKeeps ==
    ASSUME IInv, [Next]_vars
    PROVE  IInv'
<1>1. CASE UNCHANGED vars
  BY <1>1 DEF vars, IInv, Typed, TypedWorld, TypedQueue, TypedRunner, TypedController, Engine,
       Tied, Clock, Candidate, Promoted, Old, Spent, Newest, Steps, AtBegin, AtLoad, AtLoaded,
       AtPromote, AtSettle, AtPublish, AtPost, AtClear, Held, Current, Dropping, Cmd
<1>2. CASE \E a \in Actions, i \in Ids : Handle(a, i)
  BY <1>2, HandleKeeps
<1>3. CASE Runner
  BY <1>3, RunnerKeeps
<1>4. CASE AckFails
  BY <1>4, AckFailsKeeps
<1>5. CASE Lost \/ Close \/ Reopen \/ RetireBegin
  BY <1>5, LostKeeps, CloseKeeps, ReopenKeeps, RetireBeginKeeps
<1>6. CASE \E i \in Ids : Dies(i)
  BY <1>6, DiesKeeps
<1>7. CASE Drop \/ Reconnect \/ RetireJoin \/ RetireTimeout \/ StageAsk \/ StageThread
  BY <1>7, OthersKeep
<1> QED
  BY <1>1, <1>2, <1>3, <1>4, <1>5, <1>6, <1>7 DEF Next

\* The invariant of the preparation holds of every behaviour of the worker: the types, the
\* references of the host (prepare_, commit_, abort_, finalize_ and release_worker_runtime) and
\* what each stretch of WorkerPrepareController._apply relies on after it unlocks.
THEOREM Invariance == Spec => []IInv
<1>1. Init => IInv
  BY IInvInit
<1>2. IInv /\ [Next]_vars => IInv'
  BY NextKeeps
<1> QED
  BY <1>1, <1>2, PTL DEF Spec


\* Every variable of the preparation keeps its type: the identities, epochs, registrations and
\* the queue of WorkerPrepareController, and the references of the host's runtimes.
THEOREM TypeCorrect == Spec => []TypeOK
<1>1. IInv => TypeOK
  <2> SUFFICES ASSUME IInv PROVE TypeOK
    OBVIOUS
  <2>1. net \in [up : BOOLEAN, link : 0..MaxLink, lost : BOOLEAN]
    BY DEF IInv, Typed, TypedWorld
  <2>2. ctl.epoch \in 0..(MaxEpoch + 1) /\ Len(queue) <= QueueMax
    BY DEF IInv, Typed, TypedController, TypedQueue
  <2>3. {ctl.cand, ctl.active, ctl.prev, ctl.latest} \subseteq Ids \cup {None}
    BY DEF IInv, Typed, TypedController, Controllers, MaybeIds
  <2>4. ctl.retired \cup ctl.pending \subseteq Ids
    BY DEF IInv, Typed, TypedController, Controllers
  <2>5. rt.open \cup rt.orphans \cup rt.dead \subseteq Ids
    BY DEF IInv, Engine, Runtimes
  <2>6. stage.pc \in {"off", "asked", "checked", "running"} /\ acked \subseteq Actions \X Ids
    BY DEF IInv, Typed, TypedWorld
  <2> QED
    BY <2>1, <2>2, <2>3, <2>4, <2>5, <2>6 DEF TypeOK
<1> QED
  BY <1>1, Invariance, PTL

(***************************************************************************)
(* The stage thread and the runner: full_chat_execution_lock.              *)
(***************************************************************************)
Exclusive == ~(RunnerHolds /\ StageHolds)

\* What a stage has been checked against lasts until the host is fenced.
Checked == stage.pc = "checked" /\ ~rt.fenced =>
    ctl.epoch = stage.epoch /\ ctl.active = stage.id /\ ~ctl.fenced /\ ~ctl.closed

StageInv == Exclusive /\ Checked /\ StageKeepsRuntime

(***************************************************************************)
(* What was given up.                                                      *)
(***************************************************************************)
Given(i) == <<"abort", i>> \in acked \/ <<"release", i>> \in acked

Final == \A i \in Ids : Given(i) =>
    /\ i \in ctl.retired /\ i \notin rt.open
    /\ run.pc \in {"begin", "load"} => Cmd # i

Ending == run.pc \in {"publish", "post", "ack"} /\ run.cmd.act \in {"abort", "release"} =>
    Cmd \in ctl.retired /\ Cmd \notin rt.open

GivenInv == Final /\ Ending

(***************************************************************************)
(* The retirement a thread waits for.                                      *)
(***************************************************************************)
NoPrepare == waiter.on \/ proved => \A k \in 1..Len(queue) : queue[k].act # "prepare"

NotPreparing == Busy /\ run.cmd.act = "prepare" => ~proved /\ (waiter.on => ~cleanup.done)

Unloaded == waiter.on /\ cleanup.done /\ cleanup.unloaded /\ cleanup.epoch = waiter.epoch =>
    Empty(rt)

JoinInv == NoPrepare /\ NotPreparing /\ Unloaded /\ (proved => Empty(rt))

(***************************************************************************)
(* What no step does: the retired stay retired, only a load opens weights, *)
(* and nothing but a prepare fills an empty host.                          *)
(***************************************************************************)
Grows == IF run.pc = "load" THEN {Cmd} ELSE {}

Flow ==
    /\ ctl.retired \subseteq ctl'.retired
    /\ rt'.open \subseteq rt.open \cup Grows
    /\ Empty(rt) /\ run.pc \notin {"begin", "load"} => Empty(rt')

LEMMA ShrinksFlow ==
    ASSUME Shrinks(rt, rt'), ctl.retired \subseteq ctl'.retired
    PROVE  Flow
BY DEF Shrinks, Flow

LEMMA HandleFlow ==
    ASSUME IInv, NEW a \in Actions, NEW i \in Ids, Handle(a, i)
    PROVE  Flow /\ ctl'.retired = ctl.retired
<1>1. rt \in Runtimes /\ Sound(rt) /\ ctl \in Controllers
  BY DEF IInv, Engine, Typed, TypedController
<1>2. (rt' = rt \/ rt' = Fenced(rt)) /\ (ctl' = ctl \/ ctl' = [ctl EXCEPT !.latest = i, !.fenced = TRUE])
  BY DEF Handle
<1>3. Shrinks(rt, rt')
  BY <1>1, <1>2, ShrinksNot, FencedShrinks
<1>4. ctl'.retired = ctl.retired
  BY <1>1, <1>2 DEF Controllers
<1> QED
  BY <1>3, <1>4, ShrinksFlow

LEMMA InvalidateFlow ==
    ASSUME IInv, NEW close \in BOOLEAN, Invalidate(close)
    PROVE  Flow
BY InvalidateMoves, ShrinksFlow DEF IInv, Engine

LEMMA RunnerFlow ==
    ASSUME IInv, Runner
    PROVE  Flow
<1>1. rt \in Runtimes /\ Sound(rt) /\ ctl \in Controllers
  BY DEF IInv, Engine, Typed, TypedController
<1>2. CASE Pop \/ CheckPrepare \/ CheckCommit \/ CheckTerminal \/ Ack
  BY <1>2 DEF Pop, CheckPrepare, CheckCommit, CheckTerminal, Ack, Flow
<1>3. CASE BeginPrepare
  BY <1>3, BeginPrepareKeeps DEF Flow, BeginPrepare
<1>4. CASE Load
  <2>1. PICK o \in LoadFails(rt, Cmd) \cup LoadDone(rt, Cmd, run.cancelled) : rt' = o.rt
    BY <1>4 DEF Load
  <2>2. /\ run.pc = "load" /\ UNCHANGED ctl /\ run.cmd.act = "prepare"
        /\ rt.ident = Cmd /\ rt.phase = "preparing" /\ rt.cand = None /\ rt.act # Cmd
    BY <1>4 DEF Load, IInv, Steps, AtLoad
  <2>3. Cmd \in Ids /\ run.cancelled \in BOOLEAN
    BY <2>2, CommandId DEF IInv, Actions, Typed, TypedRunner, Runners
  <2>4. o.rt.open \subseteq rt.open \cup {Cmd}
    BY <1>1, <2>1, <2>2, <2>3, LoadMoves
  <2> QED
    BY <2>1, <2>2, <2>4 DEF Flow, Grows
<1>5. CASE Recheck
  BY <1>5, RecheckKeeps, ShrinksFlow DEF Recheck
<1>6. CASE Promote
  <2>1. /\ rt' = CommitRuntime(rt, Cmd).rt /\ UNCHANGED ctl /\ run.pc = "promote"
    BY <1>6 DEF Promote
  <2>2. Cmd \in Ids
    BY <2>1, CommandId DEF IInv, Typed, TypedRunner
  <2>3. rt'.open = rt.open /\ (Empty(rt) => Empty(rt'))
    BY <1>1, <2>1, <2>2, CommitMoves
  <2> QED
    BY <2>1, <2>3 DEF Flow
<1>7. CASE PublishCommit
  BY <1>7, PublishCommitKeeps, ShrinksFlow
<1>8. CASE Settle
  BY <1>8, SettleKeeps, ShrinksFlow
<1>9. CASE Publish
  <2>1. ctl'.retired = ctl.retired /\ UNCHANGED rt
    BY <1>9, PublishMoves DEF Publish
  <2> QED
    BY <2>1 DEF Flow
<1>10. CASE Post \/ FenceCleanup \/ Retire
  BY <1>10, PostKeeps, FenceCleanupKeeps, RetireKeeps, ShrinksFlow
<1>11. CASE MarkFailed
  <2>1. UNCHANGED rt /\ (ctl' = ctl \/ ctl' = [ctl EXCEPT !.phase = "failed"])
    BY <1>11 DEF MarkFailed
  <2> QED
    BY <1>1, <2>1 DEF Controllers, Flow
<1>12. CASE Clear
  <2>1. UNCHANGED rt /\ (ctl' = ctl \/ ctl' = [ctl EXCEPT !.pending = {}])
    BY <1>12 DEF Clear
  <2> QED
    BY <1>1, <2>1 DEF Controllers, Flow
<1> QED
  BY <1>2, <1>3, <1>4, <1>5, <1>6, <1>7, <1>8, <1>9, <1>10, <1>11, <1>12 DEF Runner

LEMMA NextFlow ==
    ASSUME IInv, [Next]_vars
    PROVE  Flow
<1>1. CASE UNCHANGED vars
  BY <1>1 DEF vars, Flow, Empty
<1>2. CASE \E a \in Actions, i \in Ids : Handle(a, i)
  BY <1>2, HandleFlow
<1>3. CASE Runner
  BY <1>3, RunnerFlow
<1>4. CASE AckFails \/ Close \/ RetireBegin \/ Lost
  <2>1. (\E close \in BOOLEAN : Invalidate(close)) \/ UNCHANGED <<ctl, rt>>
    BY <1>4 DEF AckFails, Close, RetireBegin, Lost, InvalidateNow
  <2> QED
    BY <2>1, InvalidateFlow DEF Flow
<1>5. CASE Reopen
  <2>1. UNCHANGED rt /\ ctl' = [ctl EXCEPT !.closed = FALSE, !.epoch = ctl.epoch + 1]
        /\ ctl \in Controllers
    BY <1>5 DEF Reopen, IInv, Typed, TypedController
  <2> QED
    BY <2>1 DEF Controllers, Flow
<1>6. CASE \E i \in Ids : Dies(i)
  <2>1. PICK i \in Ids : Dies(i)
    BY <1>6
  <2>2. rt' = [rt EXCEPT !.dead = @ \cup {i}] /\ UNCHANGED ctl
    BY <2>1 DEF Dies
  <2>3. Shrinks(rt, rt')
    BY <2>2, DiesMoves DEF IInv, Engine
  <2> QED
    BY <2>2, <2>3, ShrinksFlow
<1>7. CASE Drop \/ Reconnect \/ RetireJoin \/ RetireTimeout \/ StageAsk \/ StageThread
  BY <1>7 DEF Drop, Reconnect, RetireJoin, RetireTimeout, StageAsk, StageThread, StageCheck,
              StageStart, StageDone, StageFrame, Flow
<1> QED
  BY <1>1, <1>2, <1>3, <1>4, <1>5, <1>6, <1>7 DEF Next

\* The runner's next stretch, whatever else its step does.
Moves(pcs) == run'.pc \in pcs /\ run'.cmd = run.cmd

LEMMA GotoMoves ==
    ASSUME IInv, NEW pc, Goto(pc)
    PROVE  run'.pc = pc /\ run'.cmd = run.cmd
BY DEF IInv, Typed, TypedRunner, Runners, Goto

LEMMA RunnerMoves ==
    ASSUME IInv
    PROVE  /\ Pop => run'.pc \in {"check", "retire"} /\ run'.cmd = Head(queue)
           /\ CheckPrepare => /\ Moves({"error", "post", "begin"}) /\ run.cmd.act = "prepare"
                              /\ run'.pc = "begin" => Cmd \notin ctl.retired
           /\ BeginPrepare => Moves({"error", "load"}) /\ run.pc = "begin"
           /\ Load => Moves({"error", "recheck"}) /\ run.pc = "load"
           /\ Recheck => Moves({"error", "publish"}) /\ run.pc = "recheck"
           /\ CheckCommit => Moves({"error", "post", "promote"}) /\ run.cmd.act = "commit"
           /\ Promote => Moves({"error", "promoted"}) /\ run.pc = "promote"
           /\ PublishCommit => Moves({"error", "post"}) /\ run.pc = "promoted"
           /\ CheckTerminal => Moves({"error", "settle"})
           /\ Settle => Moves({"error", "post", "publish"}) /\ run.pc = "settle"
           /\ Publish => Moves({"error", "post"}) /\ run.pc = "publish"
           /\ Post => Moves({"error", "ack"}) /\ run.pc = "post"
           /\ FenceCleanup => Moves({"clear"}) /\ run.pc = "error"
           /\ MarkFailed => Moves({"nack"}) /\ run.pc \in {"error", "failed"}
           /\ Retire => Moves({"clear"}) /\ run.pc = "retire"
           /\ Clear => run' = Idle \/ Moves({"failed"})
           /\ Ack => run' = Idle \/ Moves({"dead"})
<1>1. run \in Runners
  BY DEF IInv, Typed, TypedRunner
<1>2. Pop => run'.pc \in {"check", "retire"} /\ run'.cmd = Head(queue)
  <2> DEFINE pc == IF Head(queue).act = "cleanup" THEN "retire" ELSE "check"
  <2>1. pc \in {"check", "retire"}
    OBVIOUS
  <2>2. Pop => run' = [run EXCEPT !.cmd = Head(queue), !.cancelled = FALSE, !.pc = pc]
    BY DEF Pop
  <2> HIDE DEF pc
  <2> QED
    BY <1>1, <2>1, <2>2 DEF Runners
<1>3. CheckPrepare => /\ Moves({"error", "post", "begin"}) /\ run.cmd.act = "prepare"
                      /\ run'.pc = "begin" => Cmd \notin ctl.retired
  <2> DEFINE loc == [NoLocals EXCEPT !.phase = ctl.phase, !.cand = ctl.cand]
  <2> SUFFICES ASSUME CheckPrepare
               PROVE  /\ Moves({"error", "post", "begin"}) /\ run.cmd.act = "prepare"
                      /\ run'.pc = "begin" => Cmd \notin ctl.retired
    OBVIOUS
  <2>1. /\ run.cmd.act = "prepare"
        /\ \/ Goto("error") \/ Goto("post")
           \/ Cmd \notin ctl.retired /\ run' = [run EXCEPT !.pc = "begin", !.loc = loc]
    BY DEF CheckPrepare, Stale
  <2> HIDE DEF loc
  <2> QED
    BY <1>1, <2>1 DEF Runners, Goto, Moves
<1>4. BeginPrepare => Moves({"error", "load"}) /\ run.pc = "begin"
  <2> SUFFICES ASSUME BeginPrepare PROVE Moves({"error", "load"}) /\ run.pc = "begin"
    OBVIOUS
  <2>1. \E pc \in {"error", "load"} : Goto(pc)
    BY DEF BeginPrepare
  <2> QED
    BY <2>1, GotoMoves DEF Moves, BeginPrepare
<1>5. Load => Moves({"error", "recheck"}) /\ run.pc = "load"
  <2> SUFFICES ASSUME Load PROVE Moves({"error", "recheck"}) /\ run.pc = "load"
    OBVIOUS
  <2>1. \E pc \in {"error", "recheck"} : Goto(pc)
    BY DEF Load
  <2> QED
    BY <2>1, GotoMoves DEF Moves, Load
<1>6. Recheck => Moves({"error", "publish"}) /\ run.pc = "recheck"
  <2> SUFFICES ASSUME Recheck PROVE Moves({"error", "publish"}) /\ run.pc = "recheck"
    OBVIOUS
  <2>1. Goto("error") \/ run' = [run EXCEPT !.pc = "publish", !.kind = "prepared"]
    BY DEF Recheck
  <2> QED
    BY <1>1, <2>1 DEF Moves, Recheck, Goto, Runners
<1>7. CheckCommit => Moves({"error", "post", "promote"}) /\ run.cmd.act = "commit"
  BY GotoMoves DEF CheckCommit, Moves
<1>8. Promote => Moves({"error", "promoted"}) /\ run.pc = "promote"
  BY GotoMoves DEF Promote, Moves
<1>9. PublishCommit => Moves({"error", "post"}) /\ run.pc = "promoted"
  <2> SUFFICES ASSUME PublishCommit PROVE Moves({"error", "post"}) /\ run.pc = "promoted"
    OBVIOUS
  <2>1. \E pc \in {"error", "post"} : Goto(pc)
    BY DEF PublishCommit
  <2> QED
    BY <2>1, GotoMoves DEF Moves, PublishCommit
<1>10. CheckTerminal => Moves({"error", "settle"})
  <2> DEFINE loc == [phase |-> ctl.phase, cand |-> ctl.cand, active |-> ctl.active,
                     prev |-> ctl.prev, restore |-> ctl.scope # NoScope /\ Valid(ctl.scope),
                     retired |-> Cmd \in ctl.retired, pending |-> Cmd \in ctl.pending]
  <2>1. CheckTerminal => Goto("error") \/ run' = [run EXCEPT !.pc = "settle", !.loc = loc]
    BY DEF CheckTerminal
  <2> HIDE DEF loc
  <2> QED
    BY <1>1, <2>1 DEF Moves, Goto, Runners
<1>11. Settle => Moves({"error", "post", "publish"}) /\ run.pc = "settle"
  <2> SUFFICES ASSUME Settle PROVE Moves({"error", "post", "publish"}) /\ run.pc = "settle"
    OBVIOUS
  <2>1. \E pc \in {"error", "post", "publish"} : run' = [run EXCEPT !.pc = pc, !.kind = SettleKind]
    <3>1. PICK o \in SettleRuntime(SettleKind) :
            run' = [run EXCEPT !.kind = SettleKind,
                     !.pc = IF ~o.ok THEN "error"
                            ELSE IF SettleKind \in {"done", "pending"} THEN "post" ELSE "publish"]
      BY DEF Settle
    <3> DEFINE pc == IF ~o.ok THEN "error"
                     ELSE IF SettleKind \in {"done", "pending"} THEN "post" ELSE "publish"
    <3>2. pc \in {"error", "post", "publish"} /\ run' = [run EXCEPT !.pc = pc, !.kind = SettleKind]
      BY <3>1
    <3> QED
      BY <3>2
  <2> QED
    BY <1>1, <2>1 DEF Moves, Settle, Runners
<1>12. Publish => Moves({"error", "post"}) /\ run.pc = "publish"
  BY GotoMoves DEF Publish, Moves
<1>13. ASSUME NEW next, ReleaseAll(next) PROVE Moves({next})
  BY <1>1, <1>13 DEF ReleaseAll, Moves, Runners
<1>14. Post => Moves({"error", "ack"}) /\ run.pc = "post"
  BY <1>13, GotoMoves DEF Post, Moves
<1>15. FenceCleanup => Moves({"clear"}) /\ run.pc = "error"
  BY <1>13 DEF FenceCleanup
<1>16. MarkFailed => Moves({"nack"}) /\ run.pc \in {"error", "failed"}
  BY GotoMoves DEF MarkFailed, Moves
<1>17. Retire => Moves({"clear"}) /\ run.pc = "retire"
  BY <1>13 DEF Retire
<1>18. Clear => run' = Idle \/ Moves({"failed"})
  BY GotoMoves DEF Clear, Moves
<1>19. Ack => run' = Idle \/ Moves({"dead"})
  BY GotoMoves DEF Ack, Moves
<1> QED
  BY <1>2, <1>3, <1>4, <1>5, <1>6, <1>7, <1>8, <1>9, <1>10, <1>11, <1>12, <1>14, <1>15, <1>16,
     <1>17, <1>18, <1>19

\* A step of another thread: the runner stays where it is, or a dead one is replaced, or its
\* acknowledgement fails.
Others == \/ \E a \in Actions, i \in Ids : Handle(a, i)
          \/ AckFails
          \/ Drop \/ Reconnect \/ Lost \/ Close \/ Reopen
          \/ RetireBegin \/ RetireJoin \/ RetireTimeout
          \/ \E i \in Ids : Dies(i)
          \/ StageAsk \/ StageThread

LEMMA NextCases == Next <=> Runner \/ Others
BY DEF Next, Others

LEMMA IdlePc == Idle.pc = "idle"
BY DEF Idle

LEMMA OtherMoves ==
    ASSUME IInv, Others
    PROVE  (SameStep \/ run' = Idle) /\ acked' \subseteq acked
<1>1. CASE \E a \in Actions, i \in Ids : Handle(a, i)
  <2>1. PICK a \in Actions, i \in Ids : Handle(a, i)
    BY <1>1
  <2> DEFINE c == /\ Busy /\ run.cmd.act = "prepare"
                  /\ \/ a = "prepare" /\ i > ctl.latest
                     \/ a \in {"abort", "release"} /\ run.cmd.id = i
  <2>2. run' = [Started EXCEPT !.cancelled = @ \/ c] /\ c \in BOOLEAN /\ acked' = acked
    BY <2>1 DEF Handle
  <2> HIDE DEF c
  <2>3. SameStep
    BY <2>2, StartedTyped DEF IInv, SameStep
  <2> QED
    BY <2>2, <2>3
<1>2. CASE AckFails
  BY <1>2 DEF AckFails
<1>3. ASSUME NEW close \in BOOLEAN, InvalidateNow(close)
      PROVE  SameStep /\ acked' = acked
  <2>1. run' = [Started EXCEPT !.cancelled = @ \/ Busy] /\ acked' = acked /\ Busy \in BOOLEAN
    BY <1>3 DEF InvalidateNow, Busy
  <2> QED
    BY <2>1, StartedTyped DEF IInv, SameStep
<1>4. CASE Lost \/ Close \/ RetireBegin
  BY <1>3, <1>4 DEF Lost, Close, RetireBegin, SameStep
<1>5. CASE Drop \/ Reconnect \/ Reopen \/ RetireJoin \/ RetireTimeout \/ StageAsk \/ StageThread
  BY <1>5 DEF Drop, Reconnect, Reopen, RetireJoin, RetireTimeout, StageAsk, StageThread,
              StageCheck, StageStart, StageDone, StageFrame, SameStep
<1>6. CASE \E i \in Ids : Dies(i)
  BY <1>6 DEF Dies, SameStep
<1> QED
  BY <1>1, <1>2, <1>4, <1>5, <1>6 DEF Others

(***************************************************************************)
(* What was given up stays closed.                                         *)
(***************************************************************************)
LEMMA GivenStep ==
    ASSUME IInv, GivenInv, Flow, acked' \subseteq acked,
           run'.pc \in {"begin", "load"} =>
             run'.cmd = run.cmd /\ (run.pc \in {"begin", "load"} \/ Cmd \notin ctl.retired),
           run'.pc \in {"publish", "post", "ack"} /\ run'.cmd.act \in {"abort", "release"} =>
             run'.cmd = run.cmd /\ run.pc \in {"publish", "post", "ack"}
    PROVE  GivenInv'
<1>1. ASSUME NEW i \in Ids, Given(i)'
      PROVE  /\ i \in ctl'.retired /\ i \notin rt'.open
             /\ run'.pc \in {"begin", "load"} => Cmd' # i
  <2>1. Given(i)
    BY <1>1 DEF Given
  <2>2. i \in ctl.retired /\ i \notin rt.open /\ (run.pc \in {"begin", "load"} => Cmd # i)
    BY <2>1 DEF GivenInv, Final
  <2>3. i \in ctl'.retired /\ i \notin rt'.open
    BY <2>2 DEF Flow, Grows
  <2>4. run'.pc \in {"begin", "load"} => Cmd' # i
    BY <2>2 DEF Cmd
  <2> QED
    BY <2>3, <2>4
<1>2. Final'
  BY <1>1 DEF Final
<1>3. Ending'
  <2> SUFFICES ASSUME run'.pc \in {"publish", "post", "ack"}, run'.cmd.act \in {"abort", "release"}
               PROVE  Cmd' \in ctl'.retired /\ Cmd' \notin rt'.open
    BY DEF Ending
  <2>1. run'.cmd = run.cmd /\ run.pc \in {"publish", "post", "ack"}
    OBVIOUS
  <2>2. Cmd \in ctl.retired /\ Cmd \notin rt.open /\ Cmd' = Cmd
    BY <2>1 DEF GivenInv, Ending, Cmd
  <2> QED
    BY <2>1, <2>2 DEF Flow, Grows
<1> QED
  BY <1>2, <1>3 DEF GivenInv

\* How the runner comes to the stretches in which weights appear or are given up.
LEMMA RunnerEnters ==
    ASSUME IInv, Runner
    PROVE  \/ run'.pc \notin {"begin", "load", "publish", "post", "ack"}
           \/ /\ run'.cmd = run.cmd
              /\ \/ run'.pc = "begin" /\ Cmd \notin ctl.retired
                 \/ run'.pc = "load" /\ run.pc = "begin"
                 \/ run'.pc \in {"post", "ack"} /\ run.pc \in {"publish", "post"}
                 \/ run'.pc \in {"publish", "post"} /\ run.cmd.act \in {"prepare", "commit"}
                 \/ run'.pc \in {"publish", "post"} /\ Settle
<1>1. CASE Pop
  BY <1>1, RunnerMoves
<1>2. CASE CheckPrepare
  <2>1. Moves({"error", "post", "begin"}) /\ run.cmd.act = "prepare"
        /\ (run'.pc = "begin" => Cmd \notin ctl.retired)
    BY <1>2, RunnerMoves
  <2> QED
    BY <2>1 DEF Moves
<1>3. CASE BeginPrepare
  <2>1. Moves({"error", "load"}) /\ run.pc = "begin"
    BY <1>3, RunnerMoves
  <2> QED
    BY <2>1 DEF Moves
<1>4. CASE Load
  <2>1. Moves({"error", "recheck"})
    BY <1>4, RunnerMoves
  <2> QED
    BY <2>1 DEF Moves
<1>5. CASE Recheck
  <2>1. Moves({"error", "publish"}) /\ run.pc = "recheck"
    BY <1>5, RunnerMoves
  <2>2. run.cmd.act = "prepare"
    BY <2>1 DEF IInv, Steps, AtLoaded
  <2> QED
    BY <2>1, <2>2 DEF Moves
<1>6. CASE CheckCommit
  <2>1. Moves({"error", "post", "promote"}) /\ run.cmd.act = "commit"
    BY <1>6, RunnerMoves
  <2> QED
    BY <2>1 DEF Moves
<1>7. CASE Promote
  <2>1. Moves({"error", "promoted"})
    BY <1>7, RunnerMoves
  <2> QED
    BY <2>1 DEF Moves
<1>8. CASE PublishCommit
  <2>1. Moves({"error", "post"}) /\ run.pc = "promoted"
    BY <1>8, RunnerMoves
  <2>2. run.cmd.act = "commit"
    BY <2>1 DEF IInv, Steps, AtPromote
  <2> QED
    BY <2>1, <2>2 DEF Moves
<1>9. CASE CheckTerminal
  <2>1. Moves({"error", "settle"})
    BY <1>9, RunnerMoves
  <2> QED
    BY <2>1 DEF Moves
<1>10. CASE Settle
  <2>1. Moves({"error", "post", "publish"})
    BY <1>10, RunnerMoves
  <2> QED
    BY <1>10, <2>1 DEF Moves
<1>11. CASE Publish \/ Post
  <2>1. Moves({"error", "post", "ack"}) /\ run.pc \in {"publish", "post"}
    BY <1>11, RunnerMoves DEF Moves
  <2> QED
    BY <2>1 DEF Moves
<1>12. CASE FenceCleanup \/ MarkFailed \/ Retire
  <2>1. Moves({"clear", "nack"})
    BY <1>12, RunnerMoves DEF Moves
  <2> QED
    BY <2>1 DEF Moves
<1>13. CASE Clear \/ Ack
  <2>1. run' = Idle \/ Moves({"failed", "dead"})
    BY <1>13, RunnerMoves DEF Moves
  <2> QED
    BY <2>1, IdlePc DEF Moves
<1> QED
  BY <1>1, <1>2, <1>3, <1>4, <1>5, <1>6, <1>7, <1>8, <1>9, <1>10, <1>11, <1>12, <1>13 DEF Runner

LEMMA GivenSettle ==
    ASSUME IInv, GivenInv, Settle
    PROVE  GivenInv'
<1>1. Flow /\ Moves({"error", "post", "publish"}) /\ run.pc = "settle" /\ acked' = acked
  BY RunnerFlow, RunnerMoves DEF Runner, Settle, RunnerFrame
<1>2. run'.pc # "error" /\ run.cmd.act # "finalize" => Cmd \in ctl'.retired /\ Cmd \notin rt'.open
  BY SettleKeeps
<1>3. Final'
  BY <1>1 DEF GivenInv, Final, Given, Flow, Grows, Moves
<1>4. Ending'
  BY <1>1, <1>2 DEF Ending, Moves, Cmd
<1> QED
  BY <1>3, <1>4 DEF GivenInv

LEMMA GivenAck ==
    ASSUME IInv, GivenInv, Ack
    PROVE  GivenInv'
<1>1. /\ UNCHANGED <<ctl, rt>>
      /\ acked' \subseteq acked \cup (IF run.pc = "ack" THEN {<<run.cmd.act, Cmd>>} ELSE {})
  BY DEF Ack
<1>3. run'.pc \in {"idle", "dead"}
  <2>1. run' = Idle \/ Moves({"dead"})
    BY RunnerMoves
  <2> QED
    BY <2>1, IdlePc DEF Moves
<1>2. ASSUME NEW i \in Ids, Given(i)'
      PROVE  i \in ctl.retired /\ i \notin rt.open
  <2>1. CASE Given(i)
    BY <2>1 DEF GivenInv, Final
  <2>2. CASE run.pc = "ack" /\ run.cmd.act \in {"abort", "release"} /\ Cmd = i
    BY <2>2 DEF GivenInv, Ending
  <2> QED
    BY <1>1, <1>2, <2>1, <2>2 DEF Given
<1> QED
  BY <1>1, <1>2, <1>3 DEF GivenInv, Final, Ending

LEMMA GivenKeeps ==
    ASSUME IInv, GivenInv, [Next]_vars
    PROVE  GivenInv'
<1>1. Flow
  BY NextFlow
<1>2. CASE UNCHANGED vars
  BY <1>1, <1>2, GivenStep DEF vars
<1>3. CASE Others
  <2>1. acked' \subseteq acked /\ (SameStep \/ run' = Idle)
    BY <1>3, OtherMoves
  <2>2. CASE SameStep
    BY <1>1, <2>1, <2>2, GivenStep DEF SameStep
  <2>3. CASE run' = Idle
    <3>1. run'.pc = "idle"
      BY <2>3 DEF Idle
    <3> QED
      BY <1>1, <2>1, <3>1, GivenStep
  <2> QED
    BY <2>1, <2>2, <2>3
<1>4. CASE Settle
  BY <1>4, GivenSettle
<1>5. CASE Ack
  BY <1>5, GivenAck
<1>6. CASE Runner /\ ~Settle /\ ~Ack
  <2>1. acked' = acked
    BY <1>6 DEF Runner, RunnerFrame, Pop, CheckPrepare, BeginPrepare, Load, Recheck, CheckCommit,
       Promote, PublishCommit, CheckTerminal, Publish, Post, FenceCleanup, MarkFailed, Retire, Clear
  <2>2. run'.pc \in {"begin", "load"} =>
          run'.cmd = run.cmd /\ (run.pc \in {"begin", "load"} \/ Cmd \notin ctl.retired)
    BY <1>6, RunnerEnters
  <2>3. run'.pc \in {"publish", "post", "ack"} /\ run'.cmd.act \in {"abort", "release"} =>
          run'.cmd = run.cmd /\ run.pc \in {"publish", "post", "ack"}
    BY <1>6, RunnerEnters
  <2> QED
    BY <1>1, <2>1, <2>2, <2>3, GivenStep
<1> QED
  BY <1>2, <1>3, <1>4, <1>5, <1>6, NextCases

\* An acknowledged abort or release of an identity is final: _record_retired has its identity and
\* no later load is of it, so its weights never come back.
THEOREM GivenUp == Spec => []ReleasedStaysReleased
<1>1. Init => IInv /\ GivenInv
  <2>1. Init => acked = {} /\ run.pc = "idle"
    BY IdlePc DEF Init
  <2> QED
    BY <2>1, IInvInit DEF GivenInv, Final, Given, Ending
<1>2. IInv /\ GivenInv /\ [Next]_vars => (IInv /\ GivenInv)'
  BY NextKeeps, GivenKeeps
<1>3. GivenInv => ReleasedStaysReleased
  BY DEF GivenInv, Final, Given, ReleasedStaysReleased
<1> QED
  BY <1>1, <1>2, <1>3, PTL DEF Spec

(***************************************************************************)
(* While a stage holds the execution lock.                                 *)
(***************************************************************************)
\* The host keeps its active runtime, and what was checked changes only where the host is
\* fenced as well.
Undisturbed ==
    /\ rt'.act = rt.act /\ rt'.open = rt.open
    /\ rt'.fenced \/ rt'.fenced = rt.fenced
    /\ \/ rt'.fenced
       \/ ctl.closed
       \/ /\ ctl'.epoch = ctl.epoch /\ ctl'.active = ctl.active
          /\ ctl'.fenced = ctl.fenced /\ ctl'.closed = ctl.closed

LEMMA FencingUndisturbed ==
    ASSUME IInv, rt' = Fenced(rt)
    PROVE  Undisturbed
<1>1. rt' = [rt EXCEPT !.fenced = TRUE] /\ rt \in Runtimes
  BY FencedShrinks DEF IInv, Engine
<1> QED
  BY <1>1 DEF Runtimes, Undisturbed

LEMMA StageHeld ==
    ASSUME IInv, StageHolds, ~RunnerHolds, [Next]_vars
    PROVE  Undisturbed /\ ~RunnerHolds'
<1>1. rt \in Runtimes /\ Sound(rt) /\ ctl \in Controllers
  BY DEF IInv, Engine, Typed, TypedController
<1>2. CASE Others
  <2>1. ~RunnerHolds'
    <3>1. SameStep \/ run' = Idle
      BY <1>2, OtherMoves
    <3> QED
      BY <3>1, IdlePc DEF SameStep, RunnerHolds
  <2>2. CASE \E a \in Actions, i \in Ids : Handle(a, i)
    <3>1. PICK a \in Actions, i \in Ids : Handle(a, i)
      BY <2>2
    <3>2. (rt' = Fenced(rt)) \/ (UNCHANGED <<ctl, rt>>)
      BY <3>1 DEF Handle
    <3> QED
      BY <2>1, <3>2, FencingUndisturbed DEF Undisturbed
  <2>3. CASE AckFails \/ Lost \/ Close \/ RetireBegin
    <3>1. (rt' = Fenced(rt)) \/ (UNCHANGED <<ctl, rt>>)
      BY <2>3 DEF AckFails, Lost, Close, RetireBegin, InvalidateNow, Invalidate
    <3> QED
      BY <2>1, <3>1, FencingUndisturbed DEF Undisturbed
  <2>4. CASE Reopen
    BY <2>1, <2>4 DEF Reopen, Undisturbed
  <2>5. CASE \E i \in Ids : Dies(i)
    <3>1. PICK i \in Ids : Dies(i)
      BY <2>5
    <3>2. rt' = [rt EXCEPT !.dead = @ \cup {i}] /\ UNCHANGED ctl
      BY <3>1 DEF Dies
    <3>3. rt'.act = rt.act /\ rt'.open = rt.open /\ rt'.fenced = rt.fenced
      BY <1>1, <3>2, DiesMoves
    <3> QED
      BY <2>1, <3>2, <3>3 DEF Undisturbed
  <2>6. CASE Drop \/ Reconnect \/ RetireJoin \/ RetireTimeout \/ StageAsk \/ StageThread
    BY <2>1, <2>6 DEF Drop, Reconnect, RetireJoin, RetireTimeout, StageAsk, StageThread,
                      StageCheck, StageStart, StageDone, StageFrame, Undisturbed
  <2> QED
    BY <1>2, <2>2, <2>3, <2>4, <2>5, <2>6 DEF Others
<1>3. CASE Pop
  <2>1. UNCHANGED <<ctl, rt>> /\ run'.pc \in {"check", "retire"}
    BY <1>3, RunnerMoves DEF Pop
  <2> QED
    BY <2>1 DEF Undisturbed, RunnerHolds
<1>4. CASE MarkFailed
  <2>1. UNCHANGED rt /\ (ctl' = ctl \/ ctl' = [ctl EXCEPT !.phase = "failed"])
        /\ Moves({"nack"})
    BY <1>4, RunnerMoves DEF MarkFailed
  <2> QED
    BY <1>1, <2>1 DEF Controllers, Undisturbed, RunnerHolds, Moves
<1>5. CASE Clear
  <2>1. UNCHANGED rt /\ (ctl' = ctl \/ ctl' = [ctl EXCEPT !.pending = {}])
        /\ (run' = Idle \/ Moves({"failed"}))
    BY <1>5, RunnerMoves DEF Clear
  <2> QED
    BY <1>1, <2>1, IdlePc DEF Controllers, Undisturbed, RunnerHolds, Moves
<1>6. CASE Ack
  <2>1. UNCHANGED <<ctl, rt>> /\ (run' = Idle \/ Moves({"dead"}))
    BY <1>6, RunnerMoves DEF Ack
  <2> QED
    BY <2>1, IdlePc DEF Undisturbed, RunnerHolds, Moves
<1>7. CASE CheckPrepare \/ CheckCommit \/ CheckTerminal \/ FenceCleanup \/ Retire
  BY <1>7 DEF CheckPrepare, CheckCommit, CheckTerminal, FenceCleanup, Retire
<1>8. CASE \/ BeginPrepare \/ Load \/ Recheck \/ Promote \/ PublishCommit \/ Settle \/ Publish
           \/ Post
  BY <1>8 DEF BeginPrepare, Load, Recheck, Promote, PublishCommit, Settle, Publish, Post,
              RunnerHolds
<1>9. CASE UNCHANGED vars
  BY <1>9 DEF vars, Undisturbed, RunnerHolds
<1> QED
  BY <1>2, <1>3, <1>4, <1>5, <1>6, <1>7, <1>8, <1>9, NextCases DEF Runner

\* The stage thread is where it was unless it takes its own step.
LEMMA StageMoves ==
    ASSUME IInv, [Next]_vars
    PROVE  \/ stage' = stage
           \/ StageAsk
           \/ StageThread
<1>1. CASE Runner
  BY <1>1 DEF Runner, RunnerFrame, Pop, CheckPrepare, BeginPrepare, Load, Recheck, CheckCommit,
     Promote, PublishCommit, CheckTerminal, Settle, Publish, Post, FenceCleanup, MarkFailed, Retire,
     Clear, Ack
<1>2. CASE Others
  BY <1>2 DEF Others, Handle, AckFails, Drop, Reconnect, Lost, Close, Reopen, RetireBegin,
     RetireJoin, RetireTimeout, Dies, InvalidateNow
<1> QED
  BY <1>1, <1>2, NextCases DEF vars

LEMMA StageInvKeeps ==
    ASSUME IInv, StageInv, [Next]_vars
    PROVE  StageInv'
<1>1. CASE StageThread
  <2>1. UNCHANGED <<ctl, run, rt>> /\ StageHolds
    BY <1>1 DEF StageThread, StageCheck, StageStart, StageDone, StageFrame, StageHolds
  <2>2. Exclusive'
    BY <2>1 DEF StageInv, Exclusive, RunnerHolds
  <2>3. CASE StageCheck
    <3>1. \/ stage' = NoStage
          \/ /\ stage' = [stage EXCEPT !.pc = "checked"] /\ stage.epoch = ctl.epoch
             /\ ~ctl.fenced /\ ctl.active = stage.id /\ ~ctl.closed
      BY <2>3 DEF StageCheck, Valid
    <3>2. NoStage.pc = "off"
      BY DEF NoStage
    <3>3. stage \in [pc : {"off", "asked", "checked", "running"}, id : MaybeIds, epoch : Int]
      BY DEF IInv, Typed, TypedWorld
    <3> QED
      BY <2>1, <2>2, <3>1, <3>2, <3>3 DEF StageInv, Checked, StageKeepsRuntime
  <2>4. CASE StageStart
    <3>1. \/ stage' = NoStage
          \/ Ready(rt, stage.id) /\ stage' = [stage EXCEPT !.pc = "running"]
      BY <2>4 DEF StageStart
    <3>2. NoStage.pc = "off"
      BY DEF NoStage
    <3>3. stage \in [pc : {"off", "asked", "checked", "running"}, id : MaybeIds, epoch : Int]
          /\ stage.id # None
      BY <2>1 DEF IInv, Typed, TypedWorld, StageHolds
    <3>4. Ready(rt, stage.id) => rt.act = stage.id /\ stage.id \in rt.open
      BY <3>3 DEF Ready, IInv, Engine, Sound, Some
    <3> QED
      BY <2>1, <2>2, <3>1, <3>2, <3>3, <3>4 DEF StageInv, Checked, StageKeepsRuntime
  <2>5. CASE StageDone
    <3>1. stage'.pc = "off"
      BY <2>5 DEF StageDone, NoStage
    <3> QED
      BY <2>2, <3>1 DEF StageInv, Checked, StageKeepsRuntime
  <2> QED
    BY <1>1, <2>3, <2>4, <2>5 DEF StageThread
<1>2. CASE StageAsk
  <2>1. UNCHANGED run /\ ~RunnerHolds /\ stage'.pc = "asked"
    BY <1>2 DEF StageAsk, StageFrame
  <2> QED
    BY <2>1 DEF StageInv, Exclusive, RunnerHolds, Checked, StageKeepsRuntime
<1>3. CASE stage' = stage /\ StageHolds
  <2>1. Undisturbed /\ ~RunnerHolds'
    BY <1>3, StageHeld DEF StageInv, Exclusive
  <2>2. rt.fenced \in BOOLEAN /\ rt'.fenced \in BOOLEAN
    BY NextKeeps DEF IInv, Engine, Runtimes
  <2>3. Checked'
    <3> SUFFICES ASSUME stage.pc = "checked", ~rt'.fenced
                 PROVE  ctl'.epoch = stage.epoch /\ ctl'.active = stage.id /\ ~ctl'.fenced
                        /\ ~ctl'.closed
      BY <1>3 DEF Checked
    <3>1. ~rt.fenced
      BY <2>1, <2>2 DEF Undisturbed
    <3>2. ctl.epoch = stage.epoch /\ ctl.active = stage.id /\ ~ctl.fenced /\ ~ctl.closed
      BY <3>1 DEF StageInv, Checked
    <3>3. ctl'.epoch = ctl.epoch /\ ctl'.active = ctl.active /\ ctl'.fenced = ctl.fenced
          /\ ctl'.closed = ctl.closed
      BY <2>1, <3>2 DEF Undisturbed
    <3> QED
      BY <3>2, <3>3
  <2>4. StageKeepsRuntime'
    BY <1>3, <2>1 DEF StageInv, StageKeepsRuntime, Undisturbed
  <2> QED
    BY <2>1, <2>3, <2>4 DEF StageInv, Exclusive
<1>4. CASE stage' = stage /\ ~StageHolds
  BY <1>4 DEF StageInv, Exclusive, Checked, StageKeepsRuntime, StageHolds
<1> QED
  BY <1>1, <1>2, <1>3, <1>4, StageMoves

LEMMA StageInvariance == Spec => [](IInv /\ StageInv)
<1>1. Init => IInv /\ StageInv
  <2>1. Init => stage.pc = "off"
    BY DEF Init
  <2> QED
    BY <2>1, IInvInit DEF StageInv, Exclusive, Checked, StageKeepsRuntime, StageHolds
<1>2. IInv /\ StageInv /\ [Next]_vars => (IInv /\ StageInv)'
  BY NextKeeps, StageInvKeeps
<1> QED
  BY <1>1, <1>2, PTL DEF Spec

\* A runtime is never unloaded or replaced under a running stage, whichever thread invalidates,
\* retires or commits meanwhile: full_chat_execution_lock keeps the runner out of every region
\* that closes or swaps runtimes, and _check_worker_runtime_stage tests the active one under it.
THEOREM StageSafe == Spec => []StageKeepsRuntime
<1>1. StageInv => StageKeepsRuntime
  BY DEF StageInv
<1> QED
  BY <1>1, StageInvariance, PTL

\* A stage that starts was not fenced since check_stage let it in: every method that moves the
\* epoch, the active identity or the fence of the controller fences the host as well.
THEOREM StartsFresh == Spec => StartsUnfenced
<1>1. ASSUME IInv, StageInv, [Next]_vars
      PROVE  [stage.pc = "checked" /\ stage'.pc = "running" =>
                ctl.epoch = stage.epoch /\ ctl.active = stage.id /\ ~ctl.fenced]_vars
  <2> SUFFICES ASSUME stage.pc = "checked", stage'.pc = "running"
               PROVE  ctl.epoch = stage.epoch /\ ctl.active = stage.id /\ ~ctl.fenced
    OBVIOUS
  <2>1. StageStart
    <3>1. StageAsk \/ StageThread
      BY <1>1, StageMoves
    <3> QED
      BY <3>1 DEF StageAsk, StageThread, StageCheck, StageDone
  <2>2. Ready(rt, stage.id)
    BY <2>1 DEF StageStart, NoStage
  <2> QED
    BY <1>1, <2>2 DEF Ready, StageInv, Checked
<1> QED
  BY <1>1, StageInvariance, PTL DEF Spec, StartsUnfenced

(***************************************************************************)
(* A retirement that a thread waited for.                                  *)
(***************************************************************************)
Preparing == Busy /\ run.cmd.act = "prepare"

LEMMA NotPreparingEmpty ==
    ASSUME IInv, Flow, ~Preparing, Empty(rt)
    PROVE  Empty(rt')
<1>1. run.pc \in {"begin", "load"} => Preparing
  BY DEF IInv, Steps, AtBegin, AtLoad, Preparing, Busy
<1> QED
  BY <1>1 DEF Flow

\* A step that leaves the retirement and the queue alone.
LEMMA JoinSame ==
    ASSUME IInv, JoinInv, Flow, UNCHANGED <<queue, cleanup, waiter, proved>>,
           Preparing' => Preparing
    PROVE  JoinInv'
<1>1. NoPrepare'
  BY DEF JoinInv, NoPrepare
<1>2. NotPreparing'
  BY DEF JoinInv, NotPreparing, Preparing
<1>3. Unloaded'
  BY NotPreparingEmpty DEF JoinInv, NotPreparing, Unloaded, Preparing
<1>4. proved' => Empty(rt')
  BY NotPreparingEmpty DEF JoinInv, NotPreparing, Preparing
<1> QED
  BY <1>1, <1>2, <1>3, <1>4 DEF JoinInv

LEMMA IdleNotPreparing ==
    ASSUME run' = Idle \/ SameStep
    PROVE  Preparing' => Preparing
<1>1. NoCommand.act = "none" /\ Idle.pc = "idle"
  BY IdlePc DEF NoCommand
<1> QED
  BY <1>1 DEF Preparing, Busy, SameStep

LEMMA JoinHandle ==
    ASSUME IInv, JoinInv, NEW a \in Actions, NEW i \in Ids, Handle(a, i)
    PROVE  JoinInv'
<1> DEFINE cmd == [act |-> a, id |-> i, scope |-> Scope]
<1>1. /\ queue' = Append(queue, cmd) /\ UNCHANGED <<cleanup, waiter>>
      /\ a = "prepare" => ~waiter.on /\ cleanup.done
      /\ proved' = (proved /\ a # "prepare")
  BY DEF Handle, Barred
<1>2. cmd.act = a
  OBVIOUS
<1> HIDE DEF cmd
<1>3. Flow /\ (Preparing' => Preparing)
  <2>1. Others
    BY DEF Others
  <2> QED
    BY <2>1, HandleFlow, OtherMoves, IdleNotPreparing
<1>4. NoPrepare'
  <2> SUFFICES ASSUME waiter'.on \/ proved', NEW k \in 1..Len(queue')
               PROVE  queue'[k].act # "prepare"
    BY DEF NoPrepare
  <2>1. a # "prepare" /\ (waiter.on \/ proved)
    BY <1>1
  <2>2. queue \in Seq(Commands) /\ Len(queue) \in Nat
    BY DEF IInv, Typed, TypedQueue
  <2>3. k = Len(queue) + 1 \/ k \in 1..Len(queue)
    BY <1>1, <2>2
  <2>4. CASE k = Len(queue) + 1
    BY <1>1, <1>2, <2>1, <2>2, <2>4
  <2>5. CASE k \in 1..Len(queue)
    <3>1. queue'[k] = queue[k]
      BY <1>1, <2>2, <2>5
    <3> QED
      BY <2>1, <2>5, <3>1 DEF JoinInv, NoPrepare
  <2> QED
    BY <2>3, <2>4, <2>5
<1>5. NotPreparing'
  BY <1>1, <1>3 DEF JoinInv, NotPreparing, Preparing
<1>6. Unloaded'
  BY <1>1, <1>3, NotPreparingEmpty DEF JoinInv, NotPreparing, Unloaded, Preparing
<1>7. proved' => Empty(rt')
  BY <1>1, <1>3, NotPreparingEmpty DEF JoinInv, NotPreparing, Preparing
<1> QED
  BY <1>4, <1>5, <1>6, <1>7 DEF JoinInv

LEMMA JoinInvalidate ==
    ASSUME IInv, JoinInv, NEW close \in BOOLEAN, Invalidate(close), proved' = proved,
           Preparing' => Preparing
    PROVE  JoinInv'
<1>1. Flow /\ ~cleanup'.done /\ queue' = Requeued
  BY InvalidateFlow, InvalidateMoves DEF IInv, Engine
<1>2. NoPrepare'
  <2>1. Len(queue') = 1 /\ queue'[1].act = "cleanup"
    BY <1>1 DEF Requeued
  <2> QED
    BY <2>1 DEF NoPrepare
<1>3. NotPreparing' /\ Unloaded'
  BY <1>1 DEF JoinInv, NotPreparing, Unloaded, Preparing
<1>4. proved' => Empty(rt')
  BY <1>1, NotPreparingEmpty DEF JoinInv, NotPreparing, Preparing
<1> QED
  BY <1>2, <1>3, <1>4 DEF JoinInv

LEMMA JoinWaiter ==
    ASSUME IInv, JoinInv, RetireJoin \/ RetireTimeout
    PROVE  JoinInv'
<1>1. /\ UNCHANGED <<queue, run, rt, cleanup>> /\ waiter.on /\ ~waiter'.on
      /\ \/ proved' = proved
         \/ cleanup.done /\ waiter.epoch = cleanup.epoch /\ cleanup.unloaded
         \/ ~proved'
  <2>1. CASE RetireJoin
    BY <2>1 DEF RetireJoin
  <2>2. CASE RetireTimeout
    BY <2>2 DEF RetireTimeout
  <2> QED
    BY <2>1, <2>2
<1>2. NoPrepare'
  BY <1>1 DEF JoinInv, NoPrepare
<1>3. NotPreparing'
  BY <1>1 DEF JoinInv, NotPreparing, Busy
<1>4. Unloaded' /\ (proved' => Empty(rt'))
  BY <1>1 DEF JoinInv, Unloaded, Empty
<1> QED
  BY <1>2, <1>3, <1>4 DEF JoinInv

LEMMA JoinPop ==
    ASSUME IInv, JoinInv, Pop
    PROVE  JoinInv'
<1>1. /\ queue' = Tail(queue) /\ queue # <<>> /\ run'.cmd = Head(queue)
      /\ UNCHANGED <<rt, cleanup, waiter, proved>>
  BY RunnerMoves DEF Pop
<1>2. /\ Len(queue) \in Nat /\ Len(queue) >= 1 /\ Head(queue) = queue[1]
      /\ \A k \in 1..Len(Tail(queue)) : Tail(queue)[k] = queue[k + 1] /\ k + 1 \in 1..Len(queue)
  BY <1>1 DEF IInv, Typed, TypedQueue
<1>3. NoPrepare'
  BY <1>1, <1>2 DEF JoinInv, NoPrepare
<1>4. run'.cmd.act = "prepare" => ~waiter.on /\ ~proved
  BY <1>1, <1>2 DEF JoinInv, NoPrepare
<1>5. NotPreparing'
  BY <1>1, <1>4 DEF NotPreparing
<1>6. Unloaded' /\ (proved' => Empty(rt'))
  BY <1>1 DEF JoinInv, Unloaded, Empty
<1> QED
  BY <1>3, <1>5, <1>6 DEF JoinInv

LEMMA JoinClear ==
    ASSUME IInv, JoinInv, Clear
    PROVE  JoinInv'
<1>1. /\ run.pc = "clear" /\ UNCHANGED <<queue, rt, waiter, proved>>
      /\ run' = Idle \/ Moves({"failed"})
  BY RunnerMoves DEF Clear
<1>2. Preparing' => Preparing
  BY <1>1, IdleNotPreparing DEF Moves, Preparing, Busy
<1>3. Flow
  BY RunnerFlow DEF Runner
<1>4. CASE cleanup' = cleanup
  BY <1>1, <1>2, <1>3, <1>4, JoinSame
<1>5. CASE cleanup' # cleanup
  <2> DEFINE unloaded == run.kind = "closed" /\ cleanup.epoch = ctl.epoch
  <2>1. cleanup' = [cleanup EXCEPT !.done = TRUE, !.unloaded = unloaded] /\ run' = Idle
    BY <1>5 DEF Clear
  <2>2. cleanup \in [epoch : Int, done : BOOLEAN, unloaded : BOOLEAN]
    BY DEF IInv, Typed, TypedWorld
  <2>3. unloaded => Empty(rt)
    BY <1>1 DEF IInv, Steps, AtClear
  <2> HIDE DEF unloaded
  <2>4. cleanup'.unloaded = unloaded
    BY <2>1, <2>2
  <2>5. Unloaded'
    BY <1>1, <2>3, <2>4 DEF Unloaded, Empty
  <2>6. NotPreparing'
    BY <2>1, IdlePc DEF NotPreparing, Busy
  <2>7. NoPrepare' /\ (proved' => Empty(rt'))
    BY <1>1 DEF JoinInv, NoPrepare, Empty
  <2> QED
    BY <2>5, <2>6, <2>7 DEF JoinInv
<1> QED
  BY <1>4, <1>5

LEMMA JoinKeeps ==
    ASSUME IInv, JoinInv, [Next]_vars
    PROVE  JoinInv'
<1>1. Flow
  BY NextFlow
<1>2. CASE UNCHANGED vars
  BY <1>1, <1>2, JoinSame DEF vars, Preparing, Busy
<1>3. CASE Others
  <2>1. Preparing' => Preparing
    BY <1>3, OtherMoves, IdleNotPreparing
  <2>2. CASE \E a \in Actions, i \in Ids : Handle(a, i)
    BY <2>2, JoinHandle
  <2>3. CASE AckFails \/ Lost \/ Close \/ RetireBegin
    <3>1. proved' = proved
      BY <2>3 DEF AckFails, Lost, Close, RetireBegin
    <3>2. (\E close \in BOOLEAN : Invalidate(close)) \/ UNCHANGED <<queue, cleanup, waiter, proved>>
      BY <2>3 DEF AckFails, Lost, Close, RetireBegin, InvalidateNow
    <3> QED
      BY <1>1, <2>1, <3>1, <3>2, JoinInvalidate, JoinSame
  <2>4. CASE RetireJoin \/ RetireTimeout
    BY <2>4, JoinWaiter
  <2>5. CASE Drop \/ Reconnect \/ Reopen \/ (\E i \in Ids : Dies(i)) \/ StageAsk \/ StageThread
    <3>1. UNCHANGED <<queue, cleanup, waiter, proved>>
      BY <2>5 DEF Drop, Reconnect, Reopen, Dies, StageAsk, StageThread, StageCheck, StageStart,
                  StageDone, StageFrame
    <3> QED
      BY <1>1, <2>1, <3>1, JoinSame
  <2> QED
    BY <1>3, <2>2, <2>3, <2>4, <2>5 DEF Others
<1>4. CASE Pop
  BY <1>4, JoinPop
<1>5. CASE Clear
  BY <1>5, JoinClear
<1>6. CASE Runner /\ ~Pop /\ ~Clear
  <2>1. UNCHANGED <<queue, cleanup, waiter, proved>> /\ Busy
    BY <1>6 DEF Runner, RunnerFrame, CheckPrepare, BeginPrepare, Load, Recheck, CheckCommit,
       Promote, PublishCommit, CheckTerminal, Settle, Publish, Post, FenceCleanup, MarkFailed,
       Retire, Ack, Busy
  <2>2. run' = Idle \/ run'.cmd = run.cmd
    <3>1. CASE Ack
      BY <3>1, RunnerMoves DEF Moves
    <3>2. CASE CheckPrepare \/ BeginPrepare \/ Load \/ Recheck \/ CheckCommit \/ Promote
      BY <3>2, RunnerMoves DEF Moves
    <3>3. CASE PublishCommit \/ CheckTerminal \/ Settle \/ Publish \/ Post
      BY <3>3, RunnerMoves DEF Moves
    <3>4. CASE FenceCleanup \/ MarkFailed \/ Retire
      BY <3>4, RunnerMoves DEF Moves
    <3> QED
      BY <1>6, <3>1, <3>2, <3>3, <3>4 DEF Runner
  <2>3. Preparing' => Preparing
    BY <2>1, <2>2, IdleNotPreparing DEF Preparing
  <2> QED
    BY <1>1, <2>1, <2>3, JoinSame
<1> QED
  BY <1>2, <1>3, <1>4, <1>5, <1>6, NextCases

\* retire_and_join's TRUE is a proof: nothing native is left when it returns, and nothing appears
\* until a later prepare is accepted, however the runner, the connection and later invalidations
\* interleave with the wait.
THEOREM RetirementProved == Spec => []RetirementProof
<1>1. Init => IInv /\ JoinInv
  <2>1. Init => run.pc = "idle" /\ queue = <<>> /\ waiter.on = FALSE /\ proved = FALSE
    BY IdlePc DEF Init
  <2> QED
    BY <2>1, IInvInit DEF JoinInv, NoPrepare, NotPreparing, Unloaded, Busy
<1>2. IInv /\ JoinInv /\ [Next]_vars => (IInv /\ JoinInv)'
  BY NextKeeps, JoinKeeps
<1>3. JoinInv => RetirementProof
  BY DEF JoinInv, RetirementProof, Empty, Present, Owned, Some
<1> QED
  BY <1>1, <1>2, <1>3, PTL DEF Spec

=============================================================================
