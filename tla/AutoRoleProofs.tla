--------------------------- MODULE AutoRoleProofs ---------------------------
(***************************************************************************)
(* Proofs about AutoRole for every set of nodes, lease, skew and bound:    *)
(* the inductive invariant IInv and the properties that follow from it.    *)
(*                                                                         *)
(* IInv is split along the variables the actions touch together: what the  *)
(* quorum granted and what was written (Ledger), the roles (Roles), the    *)
(* calls in flight (Flight), certificates and permits on their way (Hands) *)
(* and the rest (Rest).  Each kind of step has a lemma per part.           *)
(***************************************************************************)
EXTENDS AutoRole, TLAPS

Ledger ==
    /\ clock \in 0 .. MaxClock /\ granted \subseteq Certs /\ written \in 0 .. MaxTerm
    /\ GrantedExclusive /\ WritesBacked

Roles ==
    /\ state \in [Nodes -> States] /\ cert \in [Nodes -> MaybeCert]
    /\ current \in [Nodes -> SUBSET {"takeover", "renewal"}]
    /\ term \in [Nodes -> 0 .. MaxTerm] /\ auth \in [Nodes -> MaybeCert]
    /\ RoleBacked

Flight ==
    /\ takeover \in [Nodes -> [phase : {"idle", "asking", "answered"}, cert : MaybeCert]]
    /\ renewal \in [Nodes -> [phase : {"idle", "due", "asking", "answered"}, cert : MaybeCert]]
    /\ CallsBacked

Hands ==
    /\ offer \in [Nodes -> [to : {"none", "controller", "authority"}, cert : MaybeCert]]
    /\ permit \in [Nodes -> MaybeCert]
    /\ HandsBacked

Rest ==
    /\ lost \in [Nodes -> BOOLEAN] /\ losing \in [Nodes -> BOOLEAN]
    /\ events \in 0 .. MaxEvents /\ installs \in 0 .. MaxInstalls

\* The parts make up the invariant, and the same for the next state.
LEMMA Parts == Backed <=> Ledger /\ Roles /\ Flight /\ Hands /\ Rest
  BY DEF Backed, TypeOK, Ledger, Roles, Flight, Hands, Rest

LEMMA PartsNext == Backed' <=> Ledger' /\ Roles' /\ Flight' /\ Hands' /\ Rest'
  BY DEF Backed, TypeOK, Ledger, Roles, Flight, Hands, Rest

\* NoCert is no certificate: its term is 0.
LEMMA NoCertTyped ==
  /\ NoCert \in MaybeCert /\ NoCert \notin Certs /\ Certs \subseteq MaybeCert
  /\ NoCert.term = 0
  BY BoundsAssumption DEF NoCert, MaybeCert, Certs

(***************************************************************************)
(* Roles.                                                                  *)
(***************************************************************************)
\* A step that leaves controllers and authorities alone keeps their part, also
\* when the quorum grants more.
LEMMA RolesKept ==
  ASSUME Roles, UNCHANGED <<state, cert, current, term, auth>>, granted \subseteq granted'
  PROVE  Roles'
  BY DEF Roles, RoleBacked

\* A transition keeps the role or gives it up.
LEMMA TransitionStep ==
  ASSUME Roles, NEW n \in Nodes, NEW s \in {"read_only", "stopped", state[n]},
         Transition(n, s), granted' = granted
  PROVE  Roles'
  <1> USE DEF Roles, Transition
  <1>1. s \in States
    BY DEF States
  <1>2. /\ state' \in [Nodes -> States] /\ cert' = cert /\ term' = term
        /\ current' \in [Nodes -> SUBSET {"takeover", "renewal"}]
        /\ auth' \in [Nodes -> MaybeCert]
    BY <1>1, NoCertTyped
  <1>3. \A m \in Nodes : /\ state'[m] = IF m = n THEN s ELSE state[m]
                         /\ auth'[m] \in {auth[m], NoCert}
                         /\ m # n => auth'[m] = auth[m]
    BY <1>1
  <1>5. RoleBacked'
    BY <1>2, <1>3 DEF RoleBacked
  <1> QED
    BY <1>2, <1>5

\* Installing a granted certificate gives the node the role it names.
LEMMA InstallStep ==
  ASSUME Roles, granted \subseteq Certs, NEW n \in Nodes, NEW x \in granted, Install(n, x),
         cert' = [cert EXCEPT ![n] = x],
         state' = [state EXCEPT ![n] = IF x.leader = n THEN "leader" ELSE "follower"],
         current' = [current EXCEPT ![n] = {}],
         granted' = granted
  PROVE  Roles'
  <1>1. x \in MaybeCert /\ x.term \in 0 .. MaxTerm /\ x # NoCert
    BY NoCertTyped DEF Certs
  <1>2. /\ state' \in [Nodes -> States] /\ cert' \in [Nodes -> MaybeCert]
        /\ current' \in [Nodes -> SUBSET {"takeover", "renewal"}]
        /\ term' \in [Nodes -> 0 .. MaxTerm] /\ auth' \in [Nodes -> MaybeCert]
    BY <1>1 DEF Roles, Install, States
  <1>3. \A m \in Nodes : m # n =>
           /\ state'[m] = state[m] /\ cert'[m] = cert[m]
           /\ term'[m] = term[m] /\ auth'[m] = auth[m]
    BY DEF Roles, Install
  <1>4. /\ state'[n] = (IF x.leader = n THEN "leader" ELSE "follower")
        /\ cert'[n] = x /\ auth'[n] = x /\ term'[n] = x.term
    BY DEF Roles, Install
  <1>5. RoleBacked'
    BY <1>3, <1>4 DEF Roles, RoleBacked
  <1> QED
    BY <1>2, <1>5 DEF Roles

LEMMA ConsumeStep ==
  ASSUME Roles, granted \subseteq Certs, NEW n \in Nodes, NEW x \in granted, Consume(n, x),
         lost \in [Nodes -> BOOLEAN], granted' = granted
  PROVE  Roles' /\ lost' \in [Nodes -> BOOLEAN]
  <1>1. CASE Transition(n, "stopped") /\ UNCHANGED lost
    BY <1>1, TransitionStep
  <1>2. CASE Transition(n, "read_only") /\ UNCHANGED lost
    BY <1>2, TransitionStep
  <1>3. CASE /\ Install(n, x)
             /\ cert' = [cert EXCEPT ![n] = x]
             /\ lost' = [lost EXCEPT ![n] = FALSE]
             /\ state' = [state EXCEPT ![n] = IF x.leader = n THEN "leader" ELSE "follower"]
             /\ current' = [current EXCEPT ![n] = {}]
    BY <1>3, InstallStep
  <1> QED
    BY <1>1, <1>2, <1>3 DEF Consume

LEMMA GuardFailsStep ==
  ASSUME Roles, NEW n \in Nodes, GuardFails(n), lost \in [Nodes -> BOOLEAN], granted' = granted
  PROVE  Roles' /\ lost' \in [Nodes -> BOOLEAN]
  <1>1. CASE UNCHANGED <<controller, authority>>
    BY <1>1, RolesKept DEF controller, authority
  <1>2. CASE LoseQuorum(n)
    <2>1. Roles'
      BY <1>2, TransitionStep DEF LoseQuorum
    <2> QED
      BY <1>2, <2>1 DEF LoseQuorum
  <1> QED
    BY <1>1, <1>2 DEF GuardFails

(***************************************************************************)
(* The ledger of grants and writes.                                        *)
(***************************************************************************)
LEMMA LedgerKept ==
  ASSUME Ledger, UNCHANGED <<clock, granted, written>>
  PROVE  Ledger'
  BY DEF Ledger, GrantedExclusive, WritesBacked, Unexpired, Register!SameLease

\* A grant keeps unexpired leases exclusive and above what was written.
LEMMA GrantStep ==
  ASSUME Ledger, NEW x \in Certs, Register!Grant(x), written' = written
  PROVE  Ledger' /\ granted \subseteq granted' /\ x \in granted'
  <1> USE DEF Register!Grant, Register!Unexpired, Unexpired, Register!SameLease
  <1>1. clock' = clock /\ granted' = granted \cup {x}
    OBVIOUS
  <1>2. GrantedExclusive'
    BY <1>1 DEF Ledger, GrantedExclusive
  <1>3. WritesBacked'
    <2>1. SUFFICES ASSUME MaxSkew = 0
          PROVE  /\ written = 0 \/ \E y \in granted' : y.term = written
                 /\ \A y \in granted' : Unexpired(y) => written <= y.term
      BY <1>1 DEF WritesBacked
    <2>2. Unexpired(x) => written <= x.term
      BY <2>1, BoundsAssumption DEF Ledger, WritesBacked, Certs
    <2> QED
      BY <1>1, <2>1, <2>2 DEF Ledger, WritesBacked
  <1> QED
    BY <1>1, <1>2, <1>3 DEF Ledger

\* Time only makes certificates expire.
LEMMA TickStep ==
  ASSUME Ledger, Tick
  PROVE  Ledger'
  <1> USE BoundsAssumption DEF Tick, Register!Tick
  <1>1. clock' \in 0 .. MaxClock /\ clock' = clock + 1 /\ clock \in Nat
    BY DEF Ledger
  <1>2. granted' = granted /\ written' = written
    OBVIOUS
  <1>3. \A x \in granted : Unexpired(x)' => Unexpired(x)
    BY <1>1 DEF Unexpired, Ledger, Certs
  <1>4. GrantedExclusive'
    BY <1>2, <1>3 DEF GrantedExclusive, Ledger, Register!SameLease
  <1>5. WritesBacked'
    BY <1>2, <1>3 DEF WritesBacked, Ledger
  <1> QED
    BY <1>1, <1>2, <1>4, <1>5 DEF Ledger

\* With exact clocks, a certificate that can be admitted is unexpired.
LEMMA ExactClocks ==
  ASSUME MaxSkew = 0, NEW x, MayBeValid(x), x.expires \in Nat, clock \in Nat
  PROVE  Unexpired(x)
  BY DEF MayBeValid, Unexpired

\* A write with an unexpired certificate is not ahead of any unexpired lease.
LEMMA WriteStep ==
  ASSUME Ledger, UNCHANGED <<clock, granted>>, NEW x \in granted, MayBeValid(x),
         written' = x.term
  PROVE  Ledger' /\ (MaxSkew = 0 => written' >= written)
  <1>1. x \in Certs /\ x.term \in 0 .. MaxTerm /\ x.expires \in Nat /\ clock \in Nat
    BY BoundsAssumption DEF Ledger, Certs
  <1>2. MaxSkew = 0 => Unexpired(x)
    BY <1>1, ExactClocks
  <1>3. MaxSkew = 0 => \A y \in granted : Unexpired(y) => y.term = x.term
    BY <1>2 DEF Ledger, GrantedExclusive, Register!SameLease
  <1>4. WritesBacked'
    BY <1>1, <1>3, BoundsAssumption DEF WritesBacked, Unexpired
  <1>5. GrantedExclusive'
    BY DEF Ledger, GrantedExclusive, Unexpired, Register!SameLease
  <1>6. MaxSkew = 0 => written' >= written
    BY <1>1, <1>2, BoundsAssumption DEF Ledger, WritesBacked
  <1> QED
    BY <1>1, <1>4, <1>5, <1>6 DEF Ledger

(***************************************************************************)
(* Calls in flight; certificates and permits on their way.                 *)
(***************************************************************************)
LEMMA FlightKept ==
  ASSUME Flight, UNCHANGED <<takeover, renewal>>, granted \subseteq granted'
  PROVE  Flight'
  BY DEF Flight, CallsBacked

\* A takeover moves on: it asks for a lease, is answered, or ends.
LEMMA TakeoverStep ==
  ASSUME Flight, NEW n \in Nodes, granted \subseteq granted', renewal' = renewal,
         NEW k, takeover' = [takeover EXCEPT ![n] = k],
         k \in [phase : {"idle", "asking", "answered"}, cert : MaybeCert],
         k.phase = "asking" =>
            k.cert \in [term : {0}, leader : {n}, lease : {0}, expires : Nat],
         k.phase = "answered" => k.cert \in granted' \cup {NoCert}
  PROVE  Flight'
  <1>1. takeover' \in [Nodes -> [phase : {"idle", "asking", "answered"}, cert : MaybeCert]]
    BY DEF Flight
  <1>2. \A m \in Nodes : takeover'[m] = IF m = n THEN k ELSE takeover[m]
    BY DEF Flight
  <1> QED
    BY <1>1, <1>2 DEF Flight, CallsBacked

\* A renewal moves on in the same way.
LEMMA RenewalStep ==
  ASSUME Flight, NEW n \in Nodes, granted \subseteq granted', takeover' = takeover,
         NEW k, renewal' = [renewal EXCEPT ![n] = k],
         k \in [phase : {"idle", "due", "asking", "answered"}, cert : MaybeCert],
         k.phase = "asking" => k.cert \in Certs,
         k.phase = "answered" => k.cert \in granted' \cup {NoCert}
  PROVE  Flight'
  <1>1. renewal' \in [Nodes -> [phase : {"idle", "due", "asking", "answered"}, cert : MaybeCert]]
    BY DEF Flight
  <1>2. \A m \in Nodes : renewal'[m] = IF m = n THEN k ELSE renewal[m]
    BY DEF Flight
  <1> QED
    BY <1>1, <1>2 DEF Flight, CallsBacked

LEMMA HandsKept ==
  ASSUME Hands, UNCHANGED <<offer, permit>>, granted \subseteq granted'
  PROVE  Hands'
  BY DEF Hands, HandsBacked

\* An offer is made of a granted certificate, or is taken away.
LEMMA OfferStep ==
  ASSUME Hands, NEW n \in Nodes, granted' = granted, permit' = permit,
         NEW k, offer' = [offer EXCEPT ![n] = k],
         k \in [to : {"none", "controller", "authority"}, cert : MaybeCert],
         k.to # "none" => k.cert \in granted
  PROVE  Hands'
  <1>1. offer' \in [Nodes -> [to : {"none", "controller", "authority"}, cert : MaybeCert]]
    BY DEF Hands
  <1>2. \A m \in Nodes : offer'[m] = IF m = n THEN k ELSE offer[m]
    BY DEF Hands
  <1> QED
    BY <1>1, <1>2 DEF Hands, HandsBacked

LEMMA PermitStep ==
  ASSUME Hands, granted \subseteq Certs, NEW n \in Nodes, granted' = granted, offer' = offer,
         NEW x \in granted \cup {NoCert}, permit' = [permit EXCEPT ![n] = x]
  PROVE  Hands'
  BY NoCertTyped DEF Hands, HandsBacked

(***************************************************************************)
(* The invariant holds initially and is preserved.                         *)
(***************************************************************************)
LEMMA InitBacked == Init => Backed
  <1> SUFFICES ASSUME Init PROVE Ledger /\ Roles /\ Flight /\ Hands /\ Rest
    BY Parts
  <1> USE NoCertTyped, BoundsAssumption DEF Init
  <1>1. Ledger
    BY DEF Register!Init, Ledger, GrantedExclusive, WritesBacked
  <1>2. Roles
    BY DEF Roles, RoleBacked, States
  <1>3. Flight
    BY DEF Flight, CallsBacked, Idle
  <1>4. Hands
    BY DEF Hands, HandsBacked, NoOffer
  <1>5. Rest
    BY DEF Rest
  <1> QED
    BY <1>1, <1>2, <1>3, <1>4, <1>5

\* Steps that ask, answer or finish a takeover.
LEMMA TakeoverActions ==
  ASSUME Backed, NEW n \in Nodes,
         \/ \E now \in Readings : Start(n, now) \/ AttemptTakeover(n, now)
         \/ TakeoverAnswered(n) \/ TakeoverFinish(n)
  PROVE  Backed'
  <1> USE DEF quorum, authority, bounds, controller
  <1>0. Ledger /\ Roles /\ Flight /\ Hands /\ Rest
    BY Parts
  <1>a. /\ Idle \in [phase : {"idle", "asking", "answered"}, cert : MaybeCert]
        /\ Idle.phase = "idle"
    BY NoCertTyped DEF Idle
  <1>b. \A now \in Readings :
           /\ now \in Nat
           /\ Ask(n, Wanted(n, now)) \in [phase : {"idle", "asking", "answered"}, cert : MaybeCert]
           /\ Ask(n, Wanted(n, now)).phase = "asking"
           /\ Ask(n, Wanted(n, now)).cert \in
                [term : {0}, leader : {n}, lease : {0}, expires : Nat]
    <2>1. \A now \in Readings : now \in Nat /\ now + LeaseMs \in Nat
      BY BoundsAssumption DEF Readings
    <2> QED
      BY <2>1, BoundsAssumption DEF Ask, Wanted, MaybeCert
  <1>1. ASSUME NEW now \in Readings, Start(n, now)
        PROVE  Backed'
    <2> USE <1>1 DEF Start
    <2>1. Ledger' /\ Hands' /\ Rest'
      BY <1>0, LedgerKept, HandsKept DEF Rest
    <2>2. CASE Transition(n, "read_only") /\ UNCHANGED takeover
      BY <1>0, <2>1, <2>2, TransitionStep, FlightKept, PartsNext
    <2>3. CASE /\ state' = [state EXCEPT ![n] = "starting"]
               /\ takeover' = [takeover EXCEPT ![n] = Ask(n, Wanted(n, now))]
               /\ current' = [current EXCEPT ![n] =
                     IF state[n] = "stopped" THEN {"takeover"} ELSE @ \cup {"takeover"}]
               /\ UNCHANGED <<cert, authority>>
      <3>1. Flight'
        BY <1>0, <1>b, <2>3, TakeoverStep
      <3>2. Roles'
        BY <1>0, <2>3 DEF Roles, RoleBacked, States
      <3> QED
        BY <2>1, <3>1, <3>2, PartsNext
    <2> QED
      BY <2>2, <2>3
  <1>2. ASSUME NEW now \in Readings, AttemptTakeover(n, now)
        PROVE  Backed'
    <2> USE <1>2 DEF AttemptTakeover
    <2>1. Ledger' /\ Hands' /\ Rest'
      BY <1>0, LedgerKept, HandsKept, BoundsAssumption DEF Rest
    <2>2. CASE Transition(n, "stopped") /\ UNCHANGED takeover
      BY <1>0, <2>1, <2>2, TransitionStep, FlightKept, PartsNext
    <2>3. CASE /\ takeover' = [takeover EXCEPT ![n] = Ask(n, Wanted(n, now))]
               /\ current' = [current EXCEPT ![n] = @ \cup {"takeover"}]
               /\ UNCHANGED <<state, cert, authority>>
      <3>1. Flight'
        BY <1>0, <1>b, <2>3, TakeoverStep
      <3>2. Roles'
        BY <1>0, <2>3 DEF Roles, RoleBacked
      <3> QED
        BY <2>1, <3>1, <3>2, PartsNext
    <2> QED
      BY <2>2, <2>3
  <1>3. ASSUME TakeoverAnswered(n)
        PROVE  Backed'
    <2> USE <1>3 DEF TakeoverAnswered
    <2>1. Rest'
      BY <1>0 DEF Rest
    <2>2. ASSUME NEW t \in 1 .. MaxTerm, NEW x,
                 x = [term |-> t, leader |-> n, lease |-> t,
                      expires |-> takeover[n].cert.expires],
                 Register!Grant(x),
                 takeover' = [takeover EXCEPT ![n] = [phase |-> "answered", cert |-> x]]
          PROVE  Backed'
      <3>1. x \in Certs
        BY <1>0, <2>2 DEF Flight, CallsBacked, Certs
      <3>2. Ledger' /\ granted \subseteq granted' /\ x \in granted'
        BY <1>0, <2>2, <3>1, GrantStep
      <3>3. Roles' /\ Hands'
        BY <1>0, <3>2, RolesKept, HandsKept
      <3>4. Flight'
        BY <1>0, <2>2, <3>1, <3>2, TakeoverStep, NoCertTyped
      <3> QED
        BY <2>1, <3>2, <3>3, <3>4, PartsNext
    <2>3. CASE /\ takeover' = [takeover EXCEPT ![n] = [phase |-> "answered", cert |-> NoCert]]
               /\ UNCHANGED quorum
      <3>1. Ledger' /\ Roles' /\ Hands'
        BY <1>0, <2>3, LedgerKept, RolesKept, HandsKept
      <3>2. Flight'
        BY <1>0, <2>3, TakeoverStep, NoCertTyped
      <3> QED
        BY <2>1, <3>1, <3>2, PartsNext
    <2> QED
      BY <2>2, <2>3
  <1>4. ASSUME TakeoverFinish(n)
        PROVE  Backed'
    <2> USE <1>4 DEF TakeoverFinish
    <2>1. Ledger' /\ Hands'
      BY <1>0, LedgerKept, HandsKept
    <2>2. Flight'
      BY <1>0, <1>a, TakeoverStep
    <2>3. Roles' /\ Rest'
      <3>1. CASE Transition(n, state[n]) /\ UNCHANGED lost
        BY <1>0, <3>1, TransitionStep DEF Rest
      <3>2. CASE Transition(n, "read_only") /\ UNCHANGED lost
        BY <1>0, <3>2, TransitionStep DEF Rest
      <3>3. CASE takeover[n].cert # NoCert /\ Consume(n, takeover[n].cert)
        <4>1. takeover[n].cert \in granted
          BY <1>0, <3>3 DEF Flight, CallsBacked
        <4> QED
          BY <1>0, <3>3, <4>1, ConsumeStep DEF Rest, Ledger
      <3> QED
        BY <3>1, <3>2, <3>3
    <2> QED
      BY <2>1, <2>2, <2>3, PartsNext
  <1> QED
    BY <1>1, <1>2, <1>3, <1>4

(* Setting the phase of one call keeps its certificate.                    *)
LEMMA PhaseUpdate ==
  ASSUME renewal \in [Nodes -> [phase : {"idle", "due", "asking", "answered"},
                                cert : MaybeCert]],
         NEW n \in Nodes
  PROVE  [renewal EXCEPT ![n].phase = "answered"] =
         [renewal EXCEPT ![n] = [phase |-> "answered", cert |-> renewal[n].cert]]
  <1>1. renewal[n] \in [phase : {"idle", "due", "asking", "answered"}, cert : MaybeCert]
    OBVIOUS
  <1>2. [renewal[n] EXCEPT !.phase = "answered"] =
        [phase |-> "answered", cert |-> renewal[n].cert]
    BY <1>1
  <1> QED
    BY <1>2

\* Steps of the renewal thread.
LEMMA RenewalActions ==
  ASSUME Backed, NEW n \in Nodes,
         \/ RenewalDue(n) \/ \E now \in Readings : RenewBegin(n, now)
         \/ RenewAnswered(n) \/ RenewFinish(n)
  PROVE  Backed'
  <1> USE DEF quorum, authority, bounds, controller
  <1>0. Ledger /\ Roles /\ Flight /\ Hands /\ Rest
    BY Parts
  <1>a. /\ Idle \in [phase : {"idle", "due", "asking", "answered"}, cert : MaybeCert]
        /\ Idle.phase = "idle"
    BY NoCertTyped DEF Idle
  <1>1. ASSUME RenewalDue(n)
        PROVE  Backed'
    <2> USE <1>1 DEF RenewalDue
    <2>1. Ledger' /\ Roles' /\ Hands' /\ Rest'
      BY <1>0, LedgerKept, RolesKept, HandsKept DEF Rest
    <2>2. Flight'
      BY <1>0 DEF Flight, CallsBacked
    <2> QED
      BY <2>1, <2>2, PartsNext
  <1>2. ASSUME NEW now \in Readings, RenewBegin(n, now)
        PROVE  Backed'
    <2> USE <1>2 DEF RenewBegin
    <2>1. Ledger' /\ Hands' /\ Rest'
      BY <1>0, LedgerKept, HandsKept DEF Rest
    <2>2. CASE /\ state[n] = "leader"
               /\ current' = [current EXCEPT ![n] = @ \cup {"renewal"}]
               /\ renewal' = [renewal EXCEPT ![n] =
                     IF cert[n].expires > now /\ now + LeaseMs > cert[n].expires
                     THEN Ask(n, [cert[n] EXCEPT !.expires = now + LeaseMs])
                     ELSE [phase |-> "answered", cert |-> NoCert]]
               /\ UNCHANGED <<state, cert, authority>>
      <3> DEFINE k == IF cert[n].expires > now /\ now + LeaseMs > cert[n].expires
                      THEN Ask(n, [cert[n] EXCEPT !.expires = now + LeaseMs])
                      ELSE [phase |-> "answered", cert |-> NoCert]
      <3>1. now + LeaseMs \in Nat /\ cert[n] \in Certs
        BY <1>0, <2>2, BoundsAssumption DEF Readings, Roles, RoleBacked, Ledger
      <3>2. [cert[n] EXCEPT !.expires = now + LeaseMs] \in Certs
        BY <3>1 DEF Certs
      <3>3. /\ k \in [phase : {"idle", "due", "asking", "answered"}, cert : MaybeCert]
            /\ k.phase = "asking" => k.cert \in Certs
            /\ k.phase = "answered" => k.cert = NoCert
        BY <3>2, NoCertTyped DEF Ask
      <3>4. Flight'
        <4> HIDE DEF k
        <4>1. renewal' = [renewal EXCEPT ![n] = k]
          BY <2>2 DEF k
        <4> QED
          BY <1>0, <3>3, <4>1, RenewalStep
      <3>5. Roles'
        BY <1>0, <2>2 DEF Roles, RoleBacked
      <3> QED
        BY <2>1, <3>4, <3>5, PartsNext
    <2>3. CASE /\ Transition(n, IF state[n] = "stopped" THEN "stopped" ELSE "read_only")
               /\ renewal' = [renewal EXCEPT ![n] = Idle]
      <3>1. Flight'
        BY <1>0, <1>a, <2>3, RenewalStep
      <3>2. Roles'
        BY <1>0, <2>3, TransitionStep
      <3> QED
        BY <2>1, <3>1, <3>2, PartsNext
    <2> QED
      BY <2>2, <2>3
  <1>3. ASSUME RenewAnswered(n)
        PROVE  Backed'
    <2> USE <1>3 DEF RenewAnswered
    <2>1. Rest'
      BY <1>0 DEF Rest
    <2>2. CASE /\ Register!Grant(renewal[n].cert)
               /\ renewal' = [renewal EXCEPT ![n].phase = "answered"]
      <3>1. renewal[n].cert \in Certs
        BY <1>0 DEF Flight, CallsBacked
      <3>2. Ledger' /\ granted \subseteq granted' /\ renewal[n].cert \in granted'
        BY <1>0, <2>2, <3>1, GrantStep
      <3>3. Roles' /\ Hands'
        BY <1>0, <3>2, RolesKept, HandsKept
      <3>4. renewal' = [renewal EXCEPT ![n] =
                          [phase |-> "answered", cert |-> renewal[n].cert]]
        <4>1. renewal \in [Nodes -> [phase : {"idle", "due", "asking", "answered"},
                                     cert : MaybeCert]]
          BY <1>0 DEF Flight
        <4>2. [renewal EXCEPT ![n].phase = "answered"] =
              [renewal EXCEPT ![n] = [phase |-> "answered", cert |-> renewal[n].cert]]
          BY <4>1, PhaseUpdate
        <4> HIDE <1>3 DEF RenewAnswered
        <4> QED
          BY <2>2, <4>2
      <3>5. Flight'
        BY <1>0, <3>1, <3>2, <3>4, RenewalStep, NoCertTyped
      <3> QED
        BY <2>1, <3>2, <3>3, <3>5, PartsNext
    <2>3. CASE /\ renewal' = [renewal EXCEPT ![n] = [phase |-> "answered", cert |-> NoCert]]
               /\ UNCHANGED quorum
      <3>1. Ledger' /\ Roles' /\ Hands'
        BY <1>0, <2>3, LedgerKept, RolesKept, HandsKept
      <3>2. Flight'
        BY <1>0, <2>3, RenewalStep, NoCertTyped
      <3> QED
        BY <2>1, <3>1, <3>2, PartsNext
    <2> QED
      BY <2>2, <2>3
  <1>4. ASSUME RenewFinish(n)
        PROVE  Backed'
    <2> USE <1>4 DEF RenewFinish
    <2>1. Ledger' /\ Hands'
      BY <1>0, LedgerKept, HandsKept
    <2>2. Flight'
      BY <1>0, <1>a, RenewalStep
    <2>3. Roles' /\ Rest'
      <3>1. CASE Transition(n, state[n]) /\ UNCHANGED lost
        BY <1>0, <3>1, TransitionStep DEF Rest
      <3>2. CASE LoseQuorum(n)
        <4>1. Roles'
          BY <1>0, <3>2, TransitionStep DEF LoseQuorum
        <4> QED
          BY <1>0, <3>2, <4>1 DEF LoseQuorum, Rest
      <3>3. CASE renewal[n].cert # NoCert /\ Consume(n, renewal[n].cert)
        <4>1. renewal[n].cert \in granted
          BY <1>0, <3>3 DEF Flight, CallsBacked
        <4> QED
          BY <1>0, <3>3, <4>1, ConsumeStep DEF Rest, Ledger
      <3> QED
        BY <3>1, <3>2, <3>3
    <2> QED
      BY <2>1, <2>2, <2>3, PartsNext
  <1> QED
    BY <1>1, <1>2, <1>3, <1>4

\* Losses, stops, reconnections and crashes.
LEMMA EventActions ==
  ASSUME Backed, NEW n \in Nodes,
         \/ QuorumLossBegin(n) \/ QuorumLossEnd(n) \/ Stop(n) \/ Crash(n)
         \/ (\E x \in granted : ReconnectCheck(n, x))
         \/ ReconnectConsume(n) \/ ReconnectEmpty(n)
  PROVE  Backed'
  <1> USE DEF quorum, authority, bounds, controller, threads
  <1>0. Ledger /\ Roles /\ Flight /\ Hands /\ Rest
    BY Parts
  <1>a. granted \subseteq Certs
    BY <1>0 DEF Ledger
  <1>1. ASSUME QuorumLossBegin(n)
        PROVE  Backed'
    <2> USE <1>1 DEF QuorumLossBegin
    <2>1. Ledger' /\ Flight' /\ Hands'
      BY <1>0, LedgerKept, FlightKept, HandsKept
    <2>2. Rest'
      <3>1. events' \in 0 .. MaxEvents /\ installs' \in 0 .. MaxInstalls
        BY <1>0, BoundsAssumption DEF Rest
      <3>2. \/ UNCHANGED <<lost, losing>>
            \/ /\ lost' = [lost EXCEPT ![n] = TRUE]
               /\ losing' = [losing EXCEPT ![n] = TRUE]
        OBVIOUS
      <3>3. lost' \in [Nodes -> BOOLEAN] /\ losing' \in [Nodes -> BOOLEAN]
        BY ONLY <1>0, <3>2 DEF Rest
      <3> QED
        BY <3>1, <3>3 DEF Rest
    <2>3. Roles'
      BY <1>0, TransitionStep, RolesKept
    <2> QED
      BY <2>1, <2>2, <2>3, PartsNext
  <1>2. ASSUME QuorumLossEnd(n)
        PROVE  Backed'
    BY <1>0, <1>2, LedgerKept, FlightKept, HandsKept, TransitionStep, PartsNext
       DEF QuorumLossEnd, Rest
  <1>3. ASSUME Stop(n)
        PROVE  Backed'
    BY <1>0, <1>3, LedgerKept, FlightKept, HandsKept, TransitionStep, PartsNext,
       BoundsAssumption DEF Stop, Rest
  <1>4. ASSUME NEW x \in granted, ReconnectCheck(n, x)
        PROVE  Backed'
    <2> USE <1>4 DEF ReconnectCheck
    <2>1. Ledger' /\ Flight' /\ Rest'
      BY <1>0, LedgerKept, FlightKept, BoundsAssumption DEF Rest
    <2>2. Roles'
      BY <1>0, TransitionStep, RolesKept
    <2>3. Hands'
      <3>1. CASE UNCHANGED offer
        BY <1>0, <3>1, HandsKept
      <3>2. CASE offer' = [offer EXCEPT ![n] = [to |-> "controller", cert |-> x]]
        BY <1>0, <1>a, <3>2, OfferStep, NoCertTyped
      <3> QED
        BY <3>1, <3>2
    <2> QED
      BY <2>1, <2>2, <2>3, PartsNext
  <1>b. NoOffer \in [to : {"none", "controller", "authority"}, cert : MaybeCert]
        /\ NoOffer.to = "none"
    BY NoCertTyped DEF NoOffer
  <1>5. ASSUME ReconnectConsume(n)
        PROVE  Backed'
    <2> USE <1>5 DEF ReconnectConsume
    <2>1. Ledger' /\ Flight'
      BY <1>0, LedgerKept, FlightKept
    <2>2. offer[n].cert \in granted
      BY <1>0 DEF Hands, HandsBacked
    <2>3. Roles' /\ Rest'
      BY <1>0, <1>a, <2>2, ConsumeStep DEF Rest
    <2>4. Hands'
      BY <1>0, <1>b, OfferStep
    <2> QED
      BY <2>1, <2>3, <2>4, PartsNext
  <1>6. ASSUME ReconnectEmpty(n)
        PROVE  Backed'
    BY <1>0, <1>6, LedgerKept, FlightKept, HandsKept, TransitionStep, PartsNext,
       BoundsAssumption DEF ReconnectEmpty, Rest
  <1>7. ASSUME Crash(n)
        PROVE  Backed'
    <2> USE <1>7, NoCertTyped DEF Crash
    <2>1. Ledger' /\ Rest'
      BY <1>0, LedgerKept, BoundsAssumption DEF Rest
    <2>2. Roles'
      BY <1>0, BoundsAssumption DEF Roles, RoleBacked, States
    <2>3. Flight'
      BY <1>0 DEF Flight, CallsBacked, Idle
    <2>4. Hands'
      BY <1>0 DEF Hands, HandsBacked, NoOffer
    <2> QED
      BY <2>1, <2>2, <2>3, <2>4, PartsNext
  <1> QED
    BY <1>1, <1>2, <1>3, <1>4, <1>5, <1>6, <1>7

\* Control writes and operators' installs.
LEMMA WriteActions ==
  ASSUME Backed, NEW n \in Nodes,
         \/ Demote(n) \/ (\E x \in granted : Admit(n, x)) \/ Write(n)
         \/ (\E x \in granted : InstallCheck(n, x)) \/ InstallOffered(n)
  PROVE  Backed'
  <1> USE DEF quorum, authority, bounds, controller, threads
  <1>0. Ledger /\ Roles /\ Flight /\ Hands /\ Rest
    BY Parts
  <1>a. granted \subseteq Certs
    BY <1>0 DEF Ledger
  <1>1. ASSUME Demote(n)
        PROVE  Backed'
    <2>1. Roles' /\ Rest'
      BY <1>0, <1>1, GuardFailsStep DEF Demote, Rest
    <2> QED
      BY <1>0, <1>1, <2>1, LedgerKept, FlightKept, HandsKept, PartsNext DEF Demote
  <1>2. ASSUME NEW x \in granted, Admit(n, x)
        PROVE  Backed'
    <2> USE <1>2 DEF Admit, GuardPasses
    <2>1. Ledger' /\ Flight' /\ Roles' /\ Rest'
      BY <1>0, LedgerKept, FlightKept, RolesKept DEF Rest
    <2>2. Hands'
      BY <1>0, <1>a, PermitStep
    <2> QED
      BY <2>1, <2>2, PartsNext
  <1>3. ASSUME Write(n)
        PROVE  Backed'
    <2> USE <1>3 DEF Write
    <2>1. Flight' /\ Hands'
      BY <1>0, <1>a, FlightKept, PermitStep
    <2>2. Roles' /\ Rest'
      BY <1>0, GuardFailsStep, RolesKept DEF GuardPasses, Rest
    <2>3. Ledger'
      <3>1. CASE UNCHANGED written
        BY <1>0, <3>1, LedgerKept
      <3>2. CASE GuardPasses(n) /\ auth[n] = permit[n] /\ written' = permit[n].term
        <4>1. permit[n] \in granted
          BY <1>0 DEF Hands, HandsBacked
        <4>2. MayBeValid(permit[n])
          BY <1>0, <3>2 DEF GuardPasses, CanWrite, CanAdmit
        <4> QED
          BY <1>0, <3>2, <4>1, <4>2, WriteStep
      <3> QED
        BY <3>1, <3>2
    <2> QED
      BY <2>1, <2>2, <2>3, PartsNext
  <1>4. ASSUME NEW x \in granted, InstallCheck(n, x)
        PROVE  Backed'
    <2> USE <1>4 DEF InstallCheck, GuardPasses
    <2>1. Ledger' /\ Flight' /\ Roles' /\ Rest'
      BY <1>0, LedgerKept, FlightKept, RolesKept, BoundsAssumption DEF Rest
    <2>2. Hands'
      <3>1. /\ offer' = [offer EXCEPT ![n] = [to |-> "authority", cert |-> x]]
            /\ x \in MaybeCert
        BY <1>a, NoCertTyped
      <3> QED
        BY <1>0, <3>1, OfferStep
    <2> QED
      BY <2>1, <2>2, PartsNext
  <1>5. ASSUME InstallOffered(n)
        PROVE  Backed'
    <2> USE <1>5 DEF InstallOffered
    <2>1. Ledger' /\ Flight' /\ Rest'
      BY <1>0, LedgerKept, FlightKept DEF Rest
    <2>2. Hands'
      <3>1. NoOffer \in [to : {"none", "controller", "authority"}, cert : MaybeCert]
            /\ NoOffer.to = "none"
        BY NoCertTyped DEF NoOffer
      <3> QED
        BY <1>0, <3>1, OfferStep
    <2>3. offer[n].cert \in granted /\ offer[n].cert \in Certs
      BY <1>0, <1>a DEF Hands, HandsBacked
    <2>4. Roles'
      <3>1. CASE UNCHANGED authority
        BY <1>0, <3>1, RolesKept
      <3>2. CASE Install(n, offer[n].cert)
        <4>1. offer[n].cert \in MaybeCert /\ offer[n].cert.term \in 0 .. MaxTerm
          BY <2>3 DEF Certs, MaybeCert
        <4>2. term' \in [Nodes -> 0 .. MaxTerm] /\ auth' \in [Nodes -> MaybeCert]
          BY <1>0, <3>2, <4>1 DEF Install, Roles
        <4>3. RoleBacked'
          BY <1>0, <2>3, <3>2 DEF Install, Roles, RoleBacked
        <4> QED
          BY <1>0, <4>2, <4>3 DEF Roles
      <3> QED
        BY <3>1, <3>2
    <2> QED
      BY <2>1, <2>2, <2>4, PartsNext
  <1> QED
    BY <1>1, <1>2, <1>3, <1>4, <1>5

\* A step of a node keeps what is backed.
LEMMA NodeBacked ==
  ASSUME Backed, NEW n \in Nodes, NodeStep(n)
  PROVE  Backed'
  BY TakeoverActions, RenewalActions, EventActions, WriteActions DEF NodeStep, Serves

\* So does time, and a step of which these variables see nothing.
LEMMA TickBacked ==
  ASSUME Backed, Tick
  PROVE  Backed'
  <1>0. Ledger /\ Roles /\ Flight /\ Hands /\ Rest
    BY Parts
  <1>1. Ledger' /\ granted' = granted
    BY <1>0, TickStep DEF Tick, Register!Tick
  <1> QED
    BY <1>0, <1>1, RolesKept, FlightKept, HandsKept, PartsNext
       DEF Tick, controller, authority, threads, bounds, Rest

LEMMA StutterBacked ==
  ASSUME Backed, UNCHANGED vars
  PROVE  Backed'
  BY Parts, LedgerKept, RolesKept, FlightKept, HandsKept, PartsNext
     DEF vars, quorum, controller, authority, threads, bounds, Rest

LEMMA NextBacked == Backed /\ [Next]_vars => Backed'
  BY NodeBacked, TickBacked, StutterBacked DEF Next

(***************************************************************************)
(* What a step of a node does to its role and authority.                   *)
(***************************************************************************)
\* The node takes the certificate x and the role x gives it.
Takes(n, x) ==
    /\ CanInstall(n, x) /\ Install(n, x)
    /\ cert' = [cert EXCEPT ![n] = x]
    /\ state' = [state EXCEPT ![n] = IF x.leader = n THEN "leader" ELSE "follower"]

\* It keeps role and authority, gives them up, starts again, takes a certificate, only installs
\* one that an operator offered, or crashes.
RoleStep(n) ==
    \/ UNCHANGED <<state, cert, term, auth>>
    \/ \E s \in {"read_only", "stopped", state[n]} : Transition(n, s)
    \/ /\ state[n] \in {"starting", "stopped"}
       /\ state' = [state EXCEPT ![n] = "starting"] /\ UNCHANGED <<cert, term, auth>>
    \/ \E x \in granted : Takes(n, x)
    \/ \E x \in granted : /\ offer[n].to = "authority" /\ Supersedes(n, x) /\ Install(n, x)
                          /\ UNCHANGED <<state, cert>>
    \/ Crash(n)

LEMMA ConsumeRole ==
  ASSUME NEW n \in Nodes, NEW x \in granted, Consume(n, x)
  PROVE  RoleStep(n)
  <1>1. (\E s \in {"read_only", "stopped", state[n]} : Transition(n, s)) \/ Takes(n, x)
    BY DEF Consume, Takes
  <1> QED
    BY <1>1 DEF RoleStep

LEMMA NodeRoles ==
  ASSUME Backed, NEW n \in Nodes, NodeStep(n)
  PROVE  RoleStep(n)
  <1>0. Flight /\ Hands
    BY Parts
  <1>1. CASE TakeoverFinish(n) /\ "takeover" \in current[n] /\ takeover[n].cert # NoCert
    <2>1. takeover[n].cert \in granted /\ Consume(n, takeover[n].cert)
      BY <1>0, <1>1 DEF TakeoverFinish, Flight, CallsBacked
    <2> QED
      BY <2>1, ConsumeRole
  <1>2. CASE RenewFinish(n) /\ "renewal" \in current[n] /\ renewal[n].cert # NoCert
    <2>1. renewal[n].cert \in granted /\ Consume(n, renewal[n].cert)
      BY <1>0, <1>2 DEF RenewFinish, Flight, CallsBacked
    <2> QED
      BY <2>1, ConsumeRole
  <1>3. CASE ReconnectConsume(n)
    <2>1. offer[n].cert \in granted /\ Consume(n, offer[n].cert)
      BY <1>0, <1>3 DEF ReconnectConsume, Hands, HandsBacked
    <2> QED
      BY <2>1, ConsumeRole
  <1>4. CASE InstallOffered(n)
    <2>1. offer[n].cert \in granted /\ offer[n].to = "authority"
      BY <1>0, <1>4 DEF InstallOffered, Hands, HandsBacked
    <2>2. \/ Supersedes(n, offer[n].cert) /\ Install(n, offer[n].cert)
          \/ UNCHANGED authority
      BY <1>4 DEF InstallOffered, CanInstall
    <2>3. UNCHANGED <<state, cert>>
      BY <1>4 DEF InstallOffered, controller
    <2> QED
      BY <2>1, <2>2, <2>3 DEF RoleStep, authority
  <1>5. CASE \/ TakeoverAnswered(n) \/ RenewalDue(n) \/ RenewAnswered(n)
             \/ \E x \in granted : Admit(n, x) \/ InstallCheck(n, x)
    BY <1>5 DEF TakeoverAnswered, RenewalDue, RenewAnswered, Admit, InstallCheck, GuardPasses,
                controller, authority, RoleStep
  <1>6. CASE \/ TakeoverFinish(n) /\ ("takeover" \notin current[n] \/ takeover[n].cert = NoCert)
             \/ RenewFinish(n) /\ ("renewal" \notin current[n] \/ renewal[n].cert = NoCert)
             \/ QuorumLossEnd(n) \/ Stop(n) \/ ReconnectEmpty(n)
    <2>1. \E s \in {"read_only", "stopped", state[n]} : Transition(n, s)
      BY <1>6 DEF TakeoverFinish, RenewFinish, QuorumLossEnd, Stop, ReconnectEmpty, LoseQuorum
    <2> QED
      BY <2>1 DEF RoleStep
  <1>7. CASE \/ \E now \in Readings : AttemptTakeover(n, now) \/ RenewBegin(n, now)
             \/ QuorumLossBegin(n) \/ \E x \in granted : ReconnectCheck(n, x)
             \/ Demote(n) \/ Write(n)
    <2>1. \/ \E s \in {"read_only", "stopped", state[n]} : Transition(n, s)
          \/ UNCHANGED <<state, cert, term, auth>>
      BY <1>7 DEF AttemptTakeover, RenewBegin, QuorumLossBegin, ReconnectCheck, Demote, Write,
                  GuardFails, GuardPasses, LoseQuorum, controller, authority
    <2> QED
      BY <2>1 DEF RoleStep
  <1>8. CASE \E now \in Readings : Start(n, now)
    <2>1. \/ \E s \in {"read_only", "stopped", state[n]} : Transition(n, s)
          \/ /\ state[n] \in {"starting", "stopped"}
             /\ state' = [state EXCEPT ![n] = "starting"] /\ UNCHANGED <<cert, term, auth>>
      BY <1>8 DEF Start, authority
    <2> QED
      BY <2>1 DEF RoleStep
  <1>9. CASE Crash(n)
    BY <1>9 DEF RoleStep
  <1> QED
    BY <1>1, <1>2, <1>3, <1>4, <1>5, <1>6, <1>7, <1>8, <1>9 DEF NodeStep, Serves

\* What was granted stays granted.
LEMMA NodeGrants ==
  ASSUME NEW n \in Nodes, NodeStep(n)
  PROVE  granted \subseteq granted'
  <1>1. CASE TakeoverAnswered(n) \/ RenewAnswered(n)
    BY <1>1 DEF TakeoverAnswered, RenewAnswered, Register!Grant, quorum
  <1> QED
    BY <1>1 DEF NodeStep, Serves, Start, AttemptTakeover, TakeoverFinish, RenewalDue,
       RenewBegin, RenewFinish, QuorumLossBegin, QuorumLossEnd, Stop, ReconnectCheck,
       ReconnectConsume, ReconnectEmpty, Demote, Admit, Write, InstallCheck, InstallOffered,
       Crash, quorum

\* An authority's term never goes back, unless its process dies.
LEMMA TermsGrow ==
  ASSUME Backed, NEW n \in Nodes, NodeStep(n), NEW m \in Nodes, m # n \/ ~Crash(n)
  PROVE  term'[m] >= term[m]
  <1>1. RoleStep(n) /\ Roles /\ term[m] \in Nat /\ granted \subseteq Certs
    BY NodeRoles, Parts, BoundsAssumption DEF Roles, Ledger
  <1>2. ASSUME NEW x \in granted, Supersedes(n, x), Install(n, x)
        PROVE  term'[m] >= term[m]
    BY <1>1, <1>2 DEF Supersedes, Install, Roles, Certs
  <1>3. ASSUME term'[m] = term[m]
        PROVE  term'[m] >= term[m]
    BY <1>1, <1>3
  <1> QED
    BY <1>1, <1>2, <1>3 DEF RoleStep, Takes, CanInstall, Transition, Crash, Roles

\* Without an operator's install, nothing is offered to an authority.
LEMMA OffersKept ==
  ASSUME Backed, NEW n \in Nodes, NodeStep(n), installs' = 0
  PROVE  /\ installs = 0
         /\ \A m \in Nodes : offer'[m].to = "authority" => offer[m].to = "authority"
  <1>0. /\ installs \in Nat
        /\ offer \in [Nodes -> [to : {"none", "controller", "authority"}, cert : MaybeCert]]
    BY BoundsAssumption DEF Backed, TypeOK
  <1>1. CASE \E x \in granted : InstallCheck(n, x)
    BY <1>0, <1>1 DEF InstallCheck
  <1>2. CASE \/ ReconnectConsume(n) \/ InstallOffered(n) \/ Crash(n)
             \/ \E x \in granted : ReconnectCheck(n, x)
    <2>1. /\ installs' = installs
          /\ \/ offer' = offer
             \/ \E x : offer' = [offer EXCEPT ![n] = [to |-> "controller", cert |-> x]]
             \/ offer' = [offer EXCEPT ![n] = NoOffer]
      BY <1>2 DEF ReconnectConsume, InstallOffered, Crash, ReconnectCheck, bounds
    <2> QED
      BY <1>0, <2>1 DEF NoOffer
  <1>3. CASE \/ \E now \in Readings : Start(n, now) \/ AttemptTakeover(n, now)
             \/ TakeoverAnswered(n) \/ TakeoverFinish(n) \/ RenewalDue(n)
             \/ \E now \in Readings : RenewBegin(n, now)
             \/ RenewAnswered(n) \/ RenewFinish(n) \/ QuorumLossBegin(n) \/ QuorumLossEnd(n)
             \/ Stop(n) \/ ReconnectEmpty(n) \/ Demote(n) \/ Write(n)
             \/ \E x \in granted : Admit(n, x)
    <2>1. installs' = installs /\ offer' = offer
      BY <1>3 DEF Start, AttemptTakeover, TakeoverAnswered, TakeoverFinish,
         RenewalDue, RenewBegin, RenewAnswered, RenewFinish, QuorumLossBegin, QuorumLossEnd,
         Stop, ReconnectEmpty, Demote, Admit, Write, bounds, threads
    <2> QED
      BY <2>1
  <1> QED
    BY <1>1, <1>2, <1>3 DEF NodeStep, Serves

\* The authority follows the controller through every step of a node.
LEMMA NodeFollows ==
  ASSUME IInv, NEW n \in Nodes, NodeStep(n)
  PROVE  AuthorityFollows'
  <1> SUFFICES ASSUME installs' = 0, NEW m \in Nodes
               PROVE  /\ offer'[m].to # "authority"
                      /\ auth'[m] \in {NoCert, cert'[m]}
                      /\ state'[m] \notin {"leader", "follower"} => auth'[m] = NoCert
    BY DEF AuthorityFollows
  <1>0. Backed /\ Roles /\ RoleStep(n)
    BY NodeRoles, Parts DEF IInv
  <1>1. /\ installs = 0 /\ offer'[m].to # "authority" /\ offer[n].to # "authority"
        /\ auth[m] \in {NoCert, cert[m]}
        /\ state[m] \notin {"leader", "follower"} => auth[m] = NoCert
    BY <1>0, OffersKept DEF IInv, AuthorityFollows
  <1>2. CASE \E s \in {"read_only", "stopped", state[n]} : Transition(n, s)
    BY <1>0, <1>1, <1>2 DEF Transition, Roles
  <1>3. CASE \E x \in granted : Takes(n, x)
    BY <1>0, <1>1, <1>3 DEF Takes, Install, Roles
  <1> QED
    BY <1>0, <1>1, <1>2, <1>3 DEF RoleStep, Crash, Roles

(***************************************************************************)
(* The theorems.                                                           *)
(***************************************************************************)
LEMMA InitIInv == Init => IInv
  <1>1. Init => AuthorityFollows
    BY DEF Init, AuthorityFollows, NoOffer
  <1> QED
    BY <1>1, InitBacked DEF IInv

LEMMA NextIInv == IInv /\ [Next]_vars => IInv'
  <1> SUFFICES ASSUME IInv, [Next]_vars PROVE AuthorityFollows'
    BY NextBacked DEF IInv
  <1>1. CASE Tick \/ UNCHANGED vars
    BY <1>1 DEF Tick, IInv, AuthorityFollows, controller, authority, threads, bounds, vars
  <1> QED
    BY <1>1, NodeFollows DEF Next

\* The invariant holds in every reachable state.
THEOREM Invariance == Spec => []IInv
  <1>1. Init => IInv
    BY InitIInv
  <1>2. IInv /\ [Next]_vars => IInv'
    BY NextIInv
  <1> QED
    BY <1>1, <1>2, PTL DEF Spec

\* Every variable keeps its type, for every set of nodes and every bound.
THEOREM TypeCorrect == Spec => []TypeOK
  <1>1. IInv => TypeOK
    BY DEF IInv, Backed
  <1> QED
    BY <1>1, Invariance, PTL

\* What is backed by grants makes leaders with unexpired certificates one.
LEMMA BackedSingle == Backed => SingleWriter
  BY DEF Backed, SingleWriter, RoleBacked, CanWrite, GrantedExclusive, Register!SameLease

\* At most one node has write authority under certificates that no clock sees
\* as expired: the authority's checks, the controller's role and the register's
\* exclusivity together, for any skew, interleaving, crash or replay.
THEOREM OneWriter == Spec => []SingleWriter
  <1>1. IInv => SingleWriter
    BY BackedSingle DEF IInv
  <1> QED
    BY <1>1, Invariance, PTL

\* A fenced node has no certificate installed, unless operators install them.
THEOREM Fenced == ASSUME MaxInstalls = 0 PROVE Spec => []FencedMeansRevoked
  <1>1. IInv => FencedMeansRevoked
    BY DEF IInv, Backed, TypeOK, AuthorityFollows, FencedMeansRevoked
  <1> QED
    BY <1>1, Invariance, PTL

\* With exact clocks, the cluster's control writes never go back to an older
\* term, however late an admitted request reaches the scheduler.
THEOREM WriteOrder == ASSUME MaxSkew = 0 PROVE Spec => WritesNeverGoBack
  <1>1. IInv /\ [Next]_vars => [written' >= written]_vars
    <2> SUFFICES ASSUME IInv, [Next]_vars, written' # written PROVE written' >= written
      BY BoundsAssumption DEF IInv, Backed, TypeOK
    <2> USE DEF quorum, controller, authority, threads, bounds, vars
    <2>0. Ledger /\ Roles /\ Hands
      BY Parts DEF IInv
    <2>1. PICK n \in Nodes : Write(n)
      BY ZenonT(60) DEF Next, Tick, NodeStep, Serves, Start, AttemptTakeover, TakeoverAnswered, TakeoverFinish,
             RenewalDue, RenewBegin, RenewAnswered, RenewFinish, QuorumLossBegin,
             QuorumLossEnd, Stop, ReconnectCheck, ReconnectConsume, ReconnectEmpty, Demote,
             Admit, InstallCheck, InstallOffered, Crash
    <2>2. GuardPasses(n) /\ auth[n] = permit[n] /\ written' = permit[n].term
      BY <2>1 DEF Write
    <2>3. permit[n] \in granted
      BY <2>0, <2>1 DEF Write, Hands, HandsBacked
    <2>4. MayBeValid(permit[n])
      BY <2>0, <2>2 DEF GuardPasses, CanWrite, CanAdmit
    <2> QED
      BY <2>0, <2>1, <2>2, <2>3, <2>4, WriteStep DEF Write
  <1> QED
    BY <1>1, Invariance, PTL DEF Spec, WritesNeverGoBack

\* Taking a certificate makes a leader of a node that was none only with a term larger than
\* any it installed before: the authority holds no certificate of the node's own.
LEMMA TakeRegain ==
  ASSUME Roles, granted \subseteq Certs, NEW n \in Nodes, NEW x \in granted, Takes(n, x),
         auth[n].leader # n, state'[n] = "leader"
  PROVE  cert'[n].term > term[n]
  <1>1. CanInstall(n, x) /\ cert'[n] = x /\ x.leader = n
    BY DEF Takes, Roles
  <1>2. x.term \in Nat /\ term[n] \in Nat
    BY BoundsAssumption DEF Certs, Roles
  <1> QED
    BY <1>1, <1>2 DEF CanInstall, Supersedes

\* A node becomes leader in no other way.
LEMMA NodeRegain ==
  ASSUME Backed, NEW n \in Nodes, auth[n].leader # n, NEW m \in Nodes, NodeStep(m),
         state[n] # "leader", state'[n] = "leader"
  PROVE  cert'[n].term > term[n]
  <1>1. Roles /\ granted \subseteq Certs /\ RoleStep(m)
    BY Parts, NodeRoles DEF Ledger
  <1>2. PICK x \in granted : Takes(m, x) /\ m = n
    BY <1>1 DEF RoleStep, Transition, Takes, Crash, Roles
  <1> QED
    BY <1>1, <1>2, TakeRegain

\* Unless operators install certificates, a node that is not leader becomes
\* leader only with a new term: neither a late answer nor a replayed
\* certificate gives a fenced lease back.
THEOREM Regain == ASSUME MaxInstalls = 0 PROVE Spec => RegainNeedsNewTerm
  <1>1. IInv /\ [Next]_vars =>
           [\A n \in Nodes : state[n] # "leader" /\ state'[n] = "leader"
                                => cert'[n].term > term[n]]_vars
    <2> SUFFICES ASSUME IInv, [Next]_vars, NEW n \in Nodes,
                        state[n] # "leader", state'[n] = "leader"
                 PROVE  cert'[n].term > term[n]
      OBVIOUS
    <2>1. PICK m \in Nodes : NodeStep(m)
      BY DEF Next, Tick, vars, controller
    <2>2. installs = 0
      BY DEF IInv, Backed, TypeOK
    <2>3. auth[n].leader # n
      BY <2>2, NodesAssumption DEF IInv, Backed, RoleBacked, AuthorityFollows, NoCert
    <2> QED
      BY <2>1, <2>3, NodeRegain DEF IInv
  <1> QED
    BY <1>1, Invariance, PTL DEF Spec, RegainNeedsNewTerm
=============================================================================
