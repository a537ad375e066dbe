------------------------- MODULE InputArbiterProofs -------------------------
(***************************************************************************)
(* Console ownership, for any number of connections, registry slots and    *)
(* selections.  The arbiter by itself, under every interleaving of the two *)
(* cores and any resets: types, a sound registry, classes, the finality of *)
(* a choice and the rule of the policy.  The arbiter as the router drives  *)
(* it: departures, identities, selections, and what the console shows.     *)
(***************************************************************************)
EXTENDS InputRouting, WellFoundedInduction, TLAPS

-----------------------------------------------------------------------------
(* The operators.                                                          *)

(* A set of numbers that is not empty has a least element.                 *)
LEMMA LeastNumber ==
  ASSUME NEW S \in SUBSET Nat, S # {}
  PROVE  \E m \in S : \A n \in S : m <= n
<1>1. \E m \in S : \A n \in S : ~(<<n, m>> \in OpToRel(<, Nat))
  BY NatLessThanWellFounded, WFMin, Zenon
<1>2. \A m, n \in Nat : <<n, m>> \in OpToRel(<, Nat) <=> n < m
  BY DEF OpToRel
<1>3. \A m, n \in Nat : ~(n < m) => m <= n
  OBVIOUS
<1>4. QED
  BY <1>1, <1>2, <1>3

(* The search for a free slot, or for a surviving half, finds one.         *)
LEMMA LowestIn ==
  ASSUME NEW S \in SUBSET Slot, S # {}
  PROVE  Lowest(S) \in S
<1>1. S \in SUBSET Nat
  BY DEF Slot
<1>2. QED
  BY <1>1, LeastNumber DEF Lowest

(* Among registered sources there is a preferred one: the earliest of the  *)
(* highest class (preferred_index).                                        *)
LEMMA PreferredExists ==
  ASSUME NEW a \in ArbiterState, UniqueSources(a), Present(a) # {}
  PROVE  \E s \in Present(a) : IsPreferred(a, s)
<1>1. \A s \in Slot : a.sources[s].id \in Nat /\ a.sources[s].class \in 0 .. 2
  BY DEF ArbiterState, Source, Class, UNKNOWN, BRIDGE, DIRECT
<1>2. PICK top \in Present(a) :
        \A t \in Present(a) : a.sources[t].class <= a.sources[top].class
  <2>1. CASE \E s \in Present(a) : a.sources[s].class = 2
    BY <1>1, <2>1 DEF Present
  <2>2. CASE /\ ~ \E s \in Present(a) : a.sources[s].class = 2
             /\ \E s \in Present(a) : a.sources[s].class = 1
    BY <1>1, <2>2 DEF Present
  <2>3. CASE ~ \E s \in Present(a) : a.sources[s].class \in {1, 2}
    BY <1>1, <2>3 DEF Present
  <2>4. QED
    BY <2>1, <2>2, <2>3
<1> DEFINE High == {s \in Present(a) : a.sources[s].class = a.sources[top].class}
           Ids == {a.sources[s].id : s \in High}
<1>3. Ids \in SUBSET Nat /\ Ids # {}
  BY <1>1, <1>2 DEF Present
<1>4. PICK first \in High : \A t \in High : a.sources[first].id <= a.sources[t].id
  <2>1. PICK m \in Ids : \A n \in Ids : m <= n
    BY <1>3, LeastNumber
  <2>2. QED
    BY <2>1
<1>5. ASSUME NEW t \in Present(a) \ {first}
      PROVE  Outranks(a.sources[first], a.sources[t])
  <2>1. a.sources[first].id # a.sources[t].id
    BY <1>4 DEF UniqueSources
  <2>2. CASE t \in High
    BY <1>1, <1>4, <2>1, <2>2 DEF Outranks, Present
  <2>3. CASE t \notin High
    BY <1>1, <1>2, <1>4, <2>3 DEF Outranks, Present
  <2>4. QED
    BY <2>2, <2>3
<1>6. QED
  BY <1>4, <1>5 DEF IsPreferred

(* The policy's target is nobody or a registered source.                   *)
LEMMA WantedRegistered ==
  ASSUME NEW a \in ArbiterState, UniqueSources(a)
  PROVE  /\ Wanted(a) \in Nat
         /\ Wanted(a) # NONE => IsId(a, Wanted(a))
<1>1. CASE Present(a) = {}
  BY <1>1 DEF Wanted, NONE
<1>2. CASE Present(a) # {}
  <2> DEFINE p == CHOOSE s \in Slot : IsPreferred(a, s)
  <2>1. p \in Slot /\ IsPreferred(a, p)
    BY <1>2, PreferredExists DEF Present
  <2>2. p \in Present(a) /\ Wanted(a) = a.sources[p].id
    BY <1>2, <2>1 DEF Wanted, IsPreferred
  <2>3. QED
    BY <2>1, <2>2 DEF IsId, ArbiterState, Source
<1>3. QED
  BY <1>1, <1>2

(* The selection policy moves nothing but ownership, to a registered source. *)
LEMMA AutoPolicySound ==
  ASSUME NEW a \in ArbiterState, SoundRegistry(a)
  PROVE  /\ AutoPolicy(a) \in ArbiterState
         /\ SoundRegistry(AutoPolicy(a))
         /\ AutoPolicy(a).applied = a.applied
         /\ AutoPolicy(a).sources = a.sources
         /\ AutoPolicy(a).nextId = a.nextId
         /\ AutoPolicy(a).explicit = a.explicit
<1> DEFINE w == Wanted(a)
           b == [a EXCEPT !.active = w, !.awaiting = a.active # NONE /\ w # NONE]
<1>1. w \in Nat /\ (w # NONE => IsId(a, w))
  BY WantedRegistered DEF SoundRegistry
<1>2. /\ b \in ArbiterState
      /\ b.sources = a.sources /\ b.nextId = a.nextId /\ b.applied = a.applied
      /\ b.active = w /\ (b.awaiting => w # NONE)
      /\ b.explicit = a.explicit
  BY <1>1 DEF ArbiterState
<1>3. AutoPolicy(a) = a \/ AutoPolicy(a) = b
  BY DEF AutoPolicy
<1> HIDE DEF w, b
<1>4. SoundRegistry(b)
  BY <1>1, <1>2 DEF SoundRegistry, UniqueSources, OwnerRegistered, Present, IsId
<1>5. QED
  BY <1>2, <1>3, <1>4

(* A key names the one slot that holds it.                                 *)
LEMMA SlotOfKeyIn ==
  ASSUME NEW a \in ArbiterState, NEW k, Holds(a, k)
  PROVE  SlotOfKey(a, k) \in Present(a) /\ a.sources[SlotOfKey(a, k)].key = k
BY DEF Holds, SlotOfKey

(* Registration adds a source under a fresh id, or refreshes the one that   *)
(* is there; it never moves ownership.                                      *)
LEMMA EnrolledSound ==
  ASSUME NEW a \in ArbiterState, SoundRegistry(a), NEW k \in Key, NEW c \in Class
  PROVE  /\ Enrolled(a, k, c) \in ArbiterState
         /\ SoundRegistry(Enrolled(a, k, c))
         /\ Enrolled(a, k, c).applied = a.applied
         /\ Enrolled(a, k, c).active = a.active
         /\ Enrolled(a, k, c).explicit = a.explicit
<1> USE KeyAssumption, GroupAssumption
<1>1. CASE Holds(a, k)
  <2> DEFINE s == SlotOfKey(a, k)
             old == a.sources[s]
             new == [old EXCEPT !.group = GroupOf[k],
                                !.class = IF c = UNKNOWN THEN @ ELSE c]
             b == Enrolled(a, k, c)
  <2>1. s \in Slot /\ old \in Source
    BY <1>1, SlotOfKeyIn DEF Present, ArbiterState
  <2>2. new \in Source /\ new.id = old.id /\ new.key = old.key
    BY <2>1 DEF Source
  <2>3. b = [a EXCEPT !.sources = [@ EXCEPT ![s] = new]]
    BY <1>1, <2>1 DEF Enrolled, Source, ArbiterState
  <2> HIDE DEF new, s, b
  <2>4. /\ b \in ArbiterState
        /\ b.nextId = a.nextId /\ b.applied = a.applied
        /\ b.active = a.active /\ b.awaiting = a.awaiting
        /\ b.explicit = a.explicit
        /\ b.sources = [a.sources EXCEPT ![s] = new]
    BY <2>1, <2>2, <2>3 DEF ArbiterState
  <2>5. \A t \in Slot : /\ b.sources[t].id = a.sources[t].id
                        /\ b.sources[t].key = a.sources[t].key
    BY <2>1, <2>2, <2>4 DEF ArbiterState
  <2>6. Present(b) = Present(a)
    BY <2>5 DEF Present
  <2>7. SoundRegistry(b)
    BY <2>4, <2>5, <2>6
       DEF SoundRegistry, UniqueSources, OwnerRegistered, IsId, Present
  <2>8. QED
    BY <2>4, <2>7 DEF b
<1>2. CASE ~Holds(a, k) /\ Present(a) = Slot
  BY <1>2 DEF Enrolled
<1>3. CASE ~Holds(a, k) /\ Present(a) # Slot
  <2> DEFINE s == Lowest(Slot \ Present(a))
             new == [key |-> k, id |-> a.nextId + 1, class |-> c, group |-> GroupOf[k]]
             b == Enrolled(a, k, c)
  <2>1. s \in Slot /\ s \notin Present(a)
    <3>1. Slot \ Present(a) # {}
      BY <1>3 DEF Present
    <3>2. QED
      BY <3>1, LowestIn
  <2>2. new \in Source /\ new.id # NONE
    BY DEF Source, ArbiterState, NONE
  <2>3. b = [a EXCEPT !.sources = [@ EXCEPT ![s] = new], !.nextId = @ + 1]
    BY <1>3 DEF Enrolled
  <2>4. /\ b \in ArbiterState
        /\ b.nextId = a.nextId + 1 /\ b.applied = a.applied
        /\ b.active = a.active /\ b.awaiting = a.awaiting
        /\ b.explicit = a.explicit
        /\ b.sources = [a.sources EXCEPT ![s] = new]
    <3> HIDE DEF new, s, b
    <3>1. [a.sources EXCEPT ![s] = new] \in [Slot -> Source]
      BY <2>1, <2>2 DEF ArbiterState
    <3>2. b = [sources |-> [a.sources EXCEPT ![s] = new], nextId |-> a.nextId + 1,
               active |-> a.active, explicit |-> a.explicit,
               awaiting |-> a.awaiting, applied |-> a.applied]
      BY <2>3 DEF ArbiterState
    <3>3. QED
      BY <3>1, <3>2 DEF ArbiterState
  <2>5. /\ b.sources[s].id = a.nextId + 1 /\ b.sources[s].key = k
        /\ \A t \in Slot \ {s} : b.sources[t] = a.sources[t]
    BY <2>1, <2>4 DEF ArbiterState
  <2> HIDE DEF b, s, new
  <2>6. Present(b) = Present(a) \cup {s}
    BY <2>1, <2>2, <2>4, <2>5 DEF Present, ArbiterState, NONE
  <2>7. \A t \in Present(a) : a.sources[t].key # k /\ a.sources[t].id < a.nextId + 1
    BY <1>3 DEF Holds, SoundRegistry, Present, ArbiterState, Source
  <2>8. UniqueSources(b)
    BY <2>1, <2>5, <2>6, <2>7 DEF SoundRegistry, UniqueSources, Present, ArbiterState, Source
  <2>9. OwnerRegistered(b)
    BY <2>1, <2>4, <2>5, <2>6 DEF SoundRegistry, OwnerRegistered, IsId, Present
  <2>10. \A t \in Present(b) : b.sources[t].key \in Key /\ b.sources[t].id <= b.nextId
    BY <2>4, <2>5, <2>6 DEF SoundRegistry, Present, ArbiterState, Source
  <2>11. SoundRegistry(b)
    BY <2>4, <2>8, <2>9, <2>10 DEF SoundRegistry
  <2>12. QED
    BY <2>4, <2>11 DEF b
<1>4. QED
  BY <1>1, <1>2, <1>3

(* Registering a device keeps the registry sound: the source is enrolled,   *)
(* then the selection policy runs.                                          *)
LEMMA RegisteredSound ==
  ASSUME NEW a \in ArbiterState, SoundRegistry(a), NEW k \in Key, NEW c \in Class
  PROVE  /\ Registered(a, k, c) \in ArbiterState
         /\ SoundRegistry(Registered(a, k, c))
         /\ Registered(a, k, c).applied = a.applied
         /\ Registered(a, k, c).sources = Enrolled(a, k, c).sources
         /\ Registered(a, k, c).nextId = Enrolled(a, k, c).nextId
         /\ Registered(a, k, c).explicit = a.explicit
         /\ a.explicit => Registered(a, k, c).active = a.active
<1>1. a.explicit => AutoPolicy(Enrolled(a, k, c)) = Enrolled(a, k, c)
  BY EnrolledSound DEF AutoPolicy
<1>2. QED
  BY <1>1, EnrolledSound, AutoPolicySound DEF Registered

(* A selection is applied to a source that is registered, or to nobody.    *)
LEMMA ApplyPendingSound ==
  ASSUME NEW a \in ArbiterState, SoundRegistry(a), NEW req \in Nat, NEW id \in Nat
  PROVE  /\ ApplyPending(a, req, id) \in ArbiterState
         /\ SoundRegistry(ApplyPending(a, req, id))
         /\ ApplyPending(a, req, id).applied = req
         /\ ApplyPending(a, req, id).sources = a.sources
         /\ ApplyPending(a, req, id).nextId = a.nextId
<1> DEFINE b == [a EXCEPT !.active   = IF IsId(a, id) THEN id ELSE NONE,
                          !.awaiting = IsId(a, id),
                          !.explicit = TRUE,
                          !.applied  = req]
<1>1. IsId(a, id) \in BOOLEAN /\ (IsId(a, id) => id # NONE)
  BY DEF IsId, Present
<1>2. /\ b \in ArbiterState
      /\ b.sources = a.sources /\ b.nextId = a.nextId /\ b.applied = req
      /\ b.active = IF IsId(a, id) THEN id ELSE NONE
      /\ b.awaiting = IsId(a, id) /\ b.explicit
  BY <1>1 DEF ArbiterState, NONE
<1> HIDE DEF b
<1>3. SoundRegistry(b)
  BY <1>1, <1>2 DEF SoundRegistry, UniqueSources, OwnerRegistered, Present, IsId
<1>4. ApplyPending(a, req, id) = IF req = a.applied THEN a ELSE b
  BY DEF ApplyPending, b
<1>5. QED
  BY <1>2, <1>3, <1>4

(* Applying a selection touches nothing of the registry but its owner.      *)
LEMMA ApplyPendingOwner ==
  ASSUME NEW a \in ArbiterState, NEW req \in Nat, req # a.applied, NEW id \in Nat
  PROVE  /\ ApplyPending(a, req, id).explicit
         /\ ApplyPending(a, req, id).active \in {id, NONE}
BY DEF ApplyPending, ArbiterState

(* Submitting a report keeps the registry sound: the source is registered,  *)
(* then an accepted report is the one the owner was waiting for.            *)
LEMMA SubmittedSound ==
  ASSUME NEW a \in ArbiterState, SoundRegistry(a), NEW k \in Key, NEW c \in Class
  PROVE  /\ Submitted(a, k, c) \in ArbiterState
         /\ SoundRegistry(Submitted(a, k, c))
         /\ Submitted(a, k, c).applied = a.applied
         /\ Submitted(a, k, c).sources = Enrolled(a, k, c).sources
         /\ Submitted(a, k, c).nextId = Enrolled(a, k, c).nextId
         /\ Submitted(a, k, c).explicit = a.explicit
         /\ a.explicit => Submitted(a, k, c).active = a.active
<1> DEFINE b == Registered(a, k, c)
           d == [b EXCEPT !.awaiting = FALSE]
<1>1. /\ b \in ArbiterState /\ SoundRegistry(b) /\ b.applied = a.applied
      /\ b.sources = Enrolled(a, k, c).sources
      /\ b.nextId = Enrolled(a, k, c).nextId /\ b.explicit = a.explicit
      /\ a.explicit => b.active = a.active
  BY RegisteredSound
<1>2. Submitted(a, k, c) = IF Accepted(b, k) THEN d ELSE b
  BY DEF Submitted
<1> HIDE DEF b
<1>3. /\ d \in ArbiterState /\ d.sources = b.sources /\ d.nextId = b.nextId
      /\ d.active = b.active /\ d.awaiting = FALSE /\ d.applied = b.applied
      /\ d.explicit = b.explicit
  BY <1>1 DEF ArbiterState
<1> HIDE DEF d
<1>4. SoundRegistry(d)
  BY <1>1, <1>3 DEF SoundRegistry, UniqueSources, OwnerRegistered, Present, IsId
<1>5. QED
  BY <1>1, <1>2, <1>3, <1>4

(* A departure empties one slot; the owner is then the same source, a       *)
(* surviving half of its composite, the policy's choice, or nobody.         *)
LEMMA RemovedSound ==
  ASSUME NEW a \in ArbiterState, SoundRegistry(a),
         NEW s \in Present(a), NEW pending \in BOOLEAN
  PROVE  /\ Removed(a, s, pending) \in ArbiterState
         /\ SoundRegistry(Removed(a, s, pending))
         /\ Removed(a, s, pending).applied = a.applied
         /\ Removed(a, s, pending).sources = [a.sources EXCEPT ![s] = Empty]
         /\ Removed(a, s, pending).nextId = a.nextId
<1> USE KeyAssumption
<1> DEFINE gone == a.sources[s]
           b == [a EXCEPT !.sources[s] = Empty]
           left == Survivors(b, gone.group)
           c == [b EXCEPT !.active = NONE, !.awaiting = FALSE]
           d == [c EXCEPT !.explicit = TRUE]
           e == [b EXCEPT !.active = b.sources[Lowest(left)].id]
<1>1. s \in Slot /\ Empty \in Source
  BY DEF Present, Empty, Source, NONE, UNKNOWN, Class
<1>2. /\ b \in ArbiterState
      /\ b.nextId = a.nextId /\ b.applied = a.applied
      /\ b.active = a.active /\ b.awaiting = a.awaiting
      /\ b.sources = [a.sources EXCEPT ![s] = Empty]
  <2>1. [a.sources EXCEPT ![s] = Empty] \in [Slot -> Source]
    BY <1>1 DEF ArbiterState
  <2>2. b = [sources |-> [a.sources EXCEPT ![s] = Empty], nextId |-> a.nextId,
             active |-> a.active, explicit |-> a.explicit,
             awaiting |-> a.awaiting, applied |-> a.applied]
    BY DEF ArbiterState
  <2>3. QED
    BY <2>1, <2>2 DEF ArbiterState
<1>3. Present(b) = Present(a) \ {s} /\ \A t \in Present(b) : b.sources[t] = a.sources[t]
  BY <1>1, <1>2 DEF Present, Empty, ArbiterState
<1> HIDE DEF b
<1>4. /\ UniqueSources(b)
      /\ \A t \in Present(b) : b.sources[t].key \in Key /\ b.sources[t].id <= b.nextId
      /\ b.awaiting => b.active # NONE
  BY <1>2, <1>3 DEF SoundRegistry, UniqueSources
<1>5. gone.id # a.active => SoundRegistry(b)
  BY <1>2, <1>3, <1>4 DEF SoundRegistry, OwnerRegistered, IsId
<1>6. /\ c \in ArbiterState /\ c.applied = a.applied
      /\ d \in ArbiterState /\ d.applied = a.applied
      /\ c.sources = b.sources /\ d.sources = b.sources
      /\ c.nextId = a.nextId /\ d.nextId = a.nextId
      /\ SoundRegistry(c) /\ SoundRegistry(d)
  <2>1. /\ c \in ArbiterState /\ c.sources = b.sources /\ c.nextId = b.nextId
        /\ c.active = NONE /\ c.awaiting = FALSE /\ c.applied = b.applied
    BY <1>2 DEF ArbiterState, NONE
  <2> HIDE DEF c
  <2>2. /\ d \in ArbiterState /\ d.sources = c.sources /\ d.nextId = c.nextId
        /\ d.active = c.active /\ d.awaiting = c.awaiting /\ d.applied = c.applied
    BY <2>1 DEF ArbiterState
  <2> HIDE DEF d
  <2>3. SoundRegistry(c)
    BY <1>4, <2>1 DEF SoundRegistry, UniqueSources, OwnerRegistered, Present
  <2>4. SoundRegistry(d)
    BY <1>4, <2>1, <2>2 DEF SoundRegistry, UniqueSources, OwnerRegistered, Present
  <2>5. QED
    BY <1>2, <2>1, <2>2, <2>3, <2>4
<1>7. ASSUME left # {}
      PROVE  /\ e \in ArbiterState /\ e.applied = a.applied
             /\ e.sources = b.sources /\ e.nextId = a.nextId /\ SoundRegistry(e)
  <2> DEFINE heir == Lowest(left)
  <2>1. heir \in Present(b)
    <3>1. left \in SUBSET Slot /\ left \subseteq Present(b)
      BY DEF Survivors, Present
    <3>2. QED
      BY <1>7, <3>1, LowestIn
  <2> HIDE DEF heir
  <2> DEFINE id == b.sources[heir].id
  <2>2. id \in Nat /\ id # NONE /\ IsId(b, id)
    BY <1>2, <2>1 DEF IsId, Present, ArbiterState, Source
  <2> HIDE DEF id
  <2>3. /\ e \in ArbiterState /\ e.sources = b.sources /\ e.nextId = b.nextId
        /\ e.active = id /\ e.awaiting = b.awaiting /\ e.applied = b.applied
    BY <1>2, <2>2 DEF ArbiterState, id, heir
  <2> HIDE DEF e
  <2>4. SoundRegistry(e)
    BY <1>4, <2>2, <2>3
       DEF SoundRegistry, UniqueSources, OwnerRegistered, Present, IsId
  <2>5. QED
    BY <1>2, <2>3, <2>4
<1>8. Removed(a, s, pending) =
        IF gone.id # a.active /\ ~pending THEN b
        ELSE IF left # {} /\ ~pending THEN e
        ELSE IF pending THEN d
        ELSE AutoPolicy(c)
  BY DEF Removed, b
<1> HIDE DEF gone, left, c, d, e
<1>9. /\ AutoPolicy(c) \in ArbiterState
      /\ SoundRegistry(AutoPolicy(c))
      /\ AutoPolicy(c).applied = a.applied
      /\ AutoPolicy(c).sources = b.sources /\ AutoPolicy(c).nextId = a.nextId
  BY <1>6, AutoPolicySound
<1>10. QED
  BY <1>2, <1>5, <1>6, <1>7, <1>8, <1>9

-----------------------------------------------------------------------------
(* The two cores.                                                          *)

(* RegistrySound and TypeOK are not inductive alone: core 1 carries a      *)
(* request number and a key across its steps, and what it does with them   *)
(* relies on the request having been queued and, for a departure, on the   *)
(* source still being registered (core 0 never writes the registry).       *)
ArbiterInv ==
  /\ TypeOK
  /\ RegistrySound
  /\ core1.pc # "idle" => core1.key \in Key /\ core1.req <= pend.req
  /\ core1.pc = "disconnect" => Holds(arb, core1.key)

(* The registry a reset leaves is empty, and sound.                         *)
LEMMA InitSound == ArbiterInit \in ArbiterState /\ SoundRegistry(ArbiterInit)
<1>1. Empty \in Source
  BY DEF Empty, Source, NONE, UNKNOWN, Class
<1>2. ArbiterInit \in ArbiterState
  BY <1>1 DEF ArbiterInit, ArbiterState, NONE
<1>3. Present(ArbiterInit) = {}
  BY DEF Present, ArbiterInit, Empty
<1>4. SoundRegistry(ArbiterInit)
  BY <1>3 DEF SoundRegistry, UniqueSources, OwnerRegistered, ArbiterInit
<1>5. QED
  BY <1>2, <1>4

(* The inductive invariant holds at start ...                               *)
LEMMA InvInit == AInit => ArbiterInv
<1>1. ArbiterInit.applied = 0
  BY DEF ArbiterInit
<1>2. QED
  BY InitSound, <1>1
     DEF AInit, ArbiterInv, TypeOK, RegistrySound, Idle0, Idle1, NoChoice, NONE,
         UNKNOWN, Class

(* The key of a source that is registered is a key.                         *)
LEMMA TargetKeyType ==
  ASSUME ArbiterInv, NEW id \in Nat, id = NONE \/ IsId(arb, id)
  PROVE  TargetKey(id) \in Key \cup {NoKey}
<1>1. CASE id = NONE
  BY <1>1 DEF TargetKey
<1>2. CASE id # NONE /\ IsId(arb, id)
  <2>1. SlotOfId(arb, id) \in Present(arb)
    BY <1>2 DEF IsId, SlotOfId
  <2>2. QED
    BY <1>2, <2>1 DEF TargetKey, ArbiterInv, RegistrySound, SoundRegistry
<1>3. QED
  BY <1>1, <1>2

(* The steps the router takes: it claims any class for any key, and never   *)
(* resets the arbiter.                                                      *)
RoutedStep ==
  \/ \E id \in Choice : Validate(id) \/ AnswerRepeated(id)
  \/ StoreId
  \/ BumpRequest
  \/ \E k \in Key, c \in Class : SubmitBegin(k, c)
  \/ SubmitCommit
  \/ \E k \in Key : DisconnectBegin(k)
  \/ DisconnectCommit
  \/ ClearPending
  \/ SettlePending

AnyStep == RoutedStep \/ Reset

(* The arbiter's own steps are among them and the resets.                   *)
LEMMA ANextIsAny == ANext => AnyStep
BY DEF ANext, AnyStep, RoutedStep, ClassOf, Class

(* ... and every step of either core keeps it.                              *)
LEMMA AnyInvNext == ArbiterInv /\ [AnyStep]_avars => ArbiterInv'
<1> SUFFICES ASSUME ArbiterInv, [AnyStep]_avars
             PROVE  ArbiterInv'
  OBVIOUS
<1>0. /\ arb \in ArbiterState /\ SoundRegistry(arb)
      /\ pend.id \in Nat /\ pend.req \in Nat
      /\ core1.req \in Nat /\ core1.class \in Class
      /\ arb.applied \in Nat /\ arb.applied <= pend.req
  BY DEF ArbiterInv, TypeOK, RegistrySound, ArbiterState
<1> USE DEF TypeOK, RegistrySound
<1>1. ASSUME NEW id \in Choice, Validate(id)
      PROVE  ArbiterInv'
  <2>1. id \in Nat
    BY BoundAssumption DEF Choice, NONE
  <2>2. TargetKey(id) \in Key \cup {NoKey}
    BY <1>1, <2>1, TargetKeyType DEF Validate
  <2>3. QED
    BY <1>1, <2>1, <2>2 DEF Validate, ArbiterInv
<1>2. ASSUME NEW id \in Choice, AnswerRepeated(id)
      PROVE  ArbiterInv'
  <2>1. id \in Nat
    BY BoundAssumption DEF Choice, NONE
  <2>2. TargetKey(id) \in Key \cup {NoKey}
    BY <1>2, <2>1, TargetKeyType DEF AnswerRepeated
  <2>3. QED
    BY <1>2, <2>1, <2>2 DEF AnswerRepeated, ArbiterInv, NoChoice, NONE
<1>3. CASE StoreId
  BY <1>3 DEF StoreId, ArbiterInv
<1>4. CASE BumpRequest
  BY <1>0, <1>4 DEF BumpRequest, ArbiterInv, Idle0, NoChoice, NONE
<1>5. ASSUME NEW k \in Key, NEW c \in Class, SubmitBegin(k, c)
      PROVE  ArbiterInv'
  BY <1>0, <1>5 DEF SubmitBegin, ArbiterInv
<1>6. CASE SubmitCommit
  <2> DEFINE b == ApplyPending(arb, core1.req, pend.id)
  <2>1. core1.key \in Key /\ core1.req <= pend.req
    BY <1>6 DEF SubmitCommit, ArbiterInv
  <2>2. b \in ArbiterState /\ SoundRegistry(b) /\ b.applied = core1.req
    BY <1>0, ApplyPendingSound
  <2>3. arb' \in ArbiterState /\ SoundRegistry(arb') /\ arb'.applied = core1.req
    BY <1>0, <1>6, <2>1, <2>2, SubmittedSound DEF SubmitCommit
  <2>4. issued' \in SUBSET Nat
    <3>1. \A s \in Present(arb') : arb'.sources[s].id \in Nat
      BY <2>3 DEF Present, ArbiterState, Source
    <3>2. issued \in SUBSET Nat
      BY DEF ArbiterInv
    <3>3. issued' = issued \cup {arb'.sources[s].id : s \in Present(arb')}
      BY <1>6 DEF SubmitCommit
    <3>4. QED
      BY <3>1, <3>2, <3>3
  <2>5. QED
    BY <1>0, <1>6, <2>1, <2>3, <2>4
       DEF SubmitCommit, ArbiterInv, Idle1, UNKNOWN, Class
<1>7. ASSUME NEW k \in Key, DisconnectBegin(k)
      PROVE  ArbiterInv'
  BY <1>0, <1>7 DEF DisconnectBegin, ArbiterInv, UNKNOWN, Class
<1>8. CASE DisconnectCommit
  <2> DEFINE s == SlotOfKey(arb, core1.key)
  <2>1. s \in Present(arb)
    BY <1>0, <1>8, SlotOfKeyIn DEF DisconnectCommit, ArbiterInv
  <2>2. PendingTarget \in BOOLEAN
    BY DEF PendingTarget
  <2>3. arb' \in ArbiterState /\ SoundRegistry(arb') /\ arb'.applied = arb.applied
    BY <1>0, <1>8, <2>1, <2>2, RemovedSound DEF DisconnectCommit
  <2>4. /\ core1'.key \in Key \cup {NoKey} /\ core1'.req \in Nat
        /\ core1'.pc \in {"idle", "clear"}
        /\ core1'.pc # "idle" => core1'.key \in Key /\ core1'.req <= pend.req
        /\ core1' \in [pc : {"idle", "submit", "disconnect", "clear", "settle"},
                       key : Key \cup {NoKey}, class : Class, req : Nat]
    BY <1>8 DEF DisconnectCommit, ArbiterInv, Idle1, UNKNOWN, Class
  <2>5. QED
    BY <1>0, <1>8, <2>3, <2>4 DEF DisconnectCommit, ArbiterInv
<1>9. CASE ClearPending
  BY <1>0, <1>9 DEF ClearPending, ArbiterInv, NONE
<1>10. CASE SettlePending
  <2>1. /\ arb' \in ArbiterState /\ arb'.sources = arb.sources
        /\ arb'.nextId = arb.nextId /\ arb'.active = arb.active
        /\ arb'.awaiting = arb.awaiting /\ arb'.applied = pend.req
    BY <1>0, <1>10 DEF SettlePending, ArbiterState
  <2>2. SoundRegistry(arb')
    BY <1>0, <2>1 DEF SoundRegistry, UniqueSources, OwnerRegistered, Present, IsId
  <2>3. QED
    BY <1>0, <1>10, <2>1, <2>2 DEF SettlePending, ArbiterInv, Idle1, UNKNOWN, Class
<1>11. CASE Reset
  <2>1. arb' \in ArbiterState /\ SoundRegistry(arb') /\ arb'.applied = 0
    BY <1>11, InitSound DEF Reset, ArbiterInit
  <2>2. QED
    BY <1>0, <1>11, <2>1 DEF Reset, ArbiterInv, NoChoice, NONE
<1>12. CASE UNCHANGED avars
  BY <1>12 DEF avars, ArbiterInv, Holds, Present
<1>13. QED
  BY <1>1, <1>2, <1>3, <1>4, <1>5, <1>6, <1>7, <1>8, <1>9, <1>10, <1>11, <1>12
     DEF AnyStep, RoutedStep

(* A step of the arbiter by itself keeps it.                                *)
LEMMA InvNext == ArbiterInv /\ [ANext]_avars => ArbiterInv'
BY ANextIsAny, AnyInvNext

(* The inductive invariant holds always.                                    *)
LEMMA ArbiterInvariant == ASpec => []ArbiterInv
<1>1. QED
  BY InvInit, InvNext, PTL DEF ASpec

(* Every variable keeps its type, and core 1 never counts as applied a     *)
(* request core 0 has not queued.                                          *)
THEOREM TypeCorrect == ASpec => []TypeOK
<1>1. ArbiterInv => TypeOK
  BY DEF ArbiterInv
<1>2. QED
  BY <1>1, ArbiterInvariant, PTL

(* The registry is sound under every interleaving: no two sources share an *)
(* id or a key, and the console's owner is always a registered source.     *)
THEOREM RegistryAlwaysSound == ASpec => []RegistrySound
<1>1. ArbiterInv => RegistrySound
  BY DEF ArbiterInv
<1>2. QED
  BY <1>1, ArbiterInvariant, PTL

(* Refreshing a source never downgrades its class to UNKNOWN.              *)
LEMMA EnrolledKeepsClass ==
  ASSUME NEW a \in ArbiterState, NEW k \in Key, NEW c \in Class,
         NEW s \in Present(a), a.sources[s].class # UNKNOWN
  PROVE  Enrolled(a, k, c).sources[s].class # UNKNOWN
<1>1. CASE Holds(a, k)
  <2> DEFINE t == SlotOfKey(a, k)
  <2>1. t \in Slot /\ s \in Slot
    BY <1>1, SlotOfKeyIn DEF Present
  <2>2. CASE s = t
    BY <1>1, <2>1, <2>2 DEF Enrolled, ArbiterState, Source
  <2>3. CASE s # t
    BY <1>1, <2>1, <2>3 DEF Enrolled, ArbiterState, Source
  <2>4. QED
    BY <2>2, <2>3
<1>2. CASE ~Holds(a, k) /\ Present(a) = Slot
  BY <1>2 DEF Enrolled
<1>3. CASE ~Holds(a, k) /\ Present(a) # Slot
  <2> DEFINE t == Lowest(Slot \ Present(a))
  <2>1. t \in Slot /\ t # s
    <3>1. Slot \ Present(a) # {}
      BY <1>3 DEF Present
    <3>2. QED
      BY <3>1, LowestIn
  <2> HIDE DEF t
  <2>2. Enrolled(a, k, c).sources =
          [a.sources EXCEPT ![t] = [key |-> k, id |-> a.nextId + 1,
                                    class |-> c, group |-> GroupOf[k]]]
    BY <1>3 DEF Enrolled, ArbiterState, t
  <2>3. Enrolled(a, k, c).sources[s] = a.sources[s]
    BY <2>1, <2>2 DEF ArbiterState, Present
  <2>4. QED
    BY <2>3
<1>4. QED
  BY <1>1, <1>2, <1>3

ClassKept ==
  \A s \in Present(arb) :
    /\ arb'.sources[s].id = arb.sources[s].id
    /\ arb.sources[s].class # UNKNOWN
    => arb'.sources[s].class # UNKNOWN

(* No step of either core forgets a class.                                  *)
LEMMA ClassStep == ArbiterInv /\ [ANext]_avars => [ClassKept]_avars
<1> SUFFICES ASSUME ArbiterInv, [ANext]_avars,
                    NEW s \in Present(arb),
                    arb'.sources[s].id = arb.sources[s].id,
                    arb.sources[s].class # UNKNOWN
             PROVE  arb'.sources[s].class # UNKNOWN
  BY DEF ClassKept
<1>0. /\ arb \in ArbiterState /\ SoundRegistry(arb)
      /\ pend.id \in Nat /\ core1.req \in Nat /\ core1.class \in Class
      /\ s \in Slot /\ arb.sources[s].id # NONE
  BY DEF ArbiterInv, TypeOK, RegistrySound, Present
<1>1. CASE UNCHANGED arb
  BY <1>1
<1>2. CASE SubmitCommit
  <2> DEFINE b == ApplyPending(arb, core1.req, pend.id)
  <2>1. core1.key \in Key
    BY <1>2 DEF SubmitCommit, ArbiterInv
  <2>2. b \in ArbiterState /\ SoundRegistry(b) /\ b.sources = arb.sources
    BY <1>0, ApplyPendingSound
  <2>3. s \in Present(b) /\ b.sources[s].class # UNKNOWN
    BY <1>0, <2>2 DEF Present
  <2>4. arb'.sources = Enrolled(b, core1.key, core1.class).sources
    BY <1>0, <1>2, <2>1, <2>2, SubmittedSound DEF SubmitCommit
  <2> HIDE DEF b
  <2>5. QED
    BY <1>0, <2>1, <2>2, <2>3, <2>4, EnrolledKeepsClass
<1>3. CASE DisconnectCommit
  <2> DEFINE t == SlotOfKey(arb, core1.key)
  <2>1. t \in Present(arb) /\ t \in Slot
    BY <1>0, <1>3, SlotOfKeyIn DEF DisconnectCommit, ArbiterInv, Present
  <2>2. PendingTarget \in BOOLEAN
    BY DEF PendingTarget
  <2>3. arb'.sources = [arb.sources EXCEPT ![t] = Empty]
    BY <1>0, <1>3, <2>1, <2>2, RemovedSound DEF DisconnectCommit
  <2> HIDE DEF t
  <2>4. s # t
    BY <1>0, <2>1, <2>3 DEF Empty, ArbiterState
  <2>5. QED
    BY <1>0, <2>1, <2>3, <2>4 DEF ArbiterState
<1>4. CASE SettlePending
  BY <1>0, <1>4 DEF SettlePending, ArbiterState
<1>5. CASE Reset
  BY <1>0, <1>5 DEF Reset, ArbiterInit, Empty
<1>6. QED
  BY <1>1, <1>2, <1>3, <1>4, <1>5
     DEF ANext, avars, Validate, AnswerRepeated, StoreId, BumpRequest,
         SubmitBegin, DisconnectBegin, ClearPending

(* What core 1 has learned of a source's class it never forgets while the  *)
(* source stays registered.                                                *)
THEOREM ClassNeverForgotten == ASpec => ClassKnowledgeKept
<1>1. ASpec => [][ClassKept]_avars
  BY ArbiterInvariant, ClassStep, PTL DEF ASpec
<1>2. QED
  BY <1>1 DEF ClassKnowledgeKept, ClassKept

(* A source's slot is the one its id names.                                *)
LEMMA SlotOfIdIs ==
  ASSUME NEW a \in ArbiterState, UniqueSources(a), NEW s \in Present(a)
  PROVE  SlotOfId(a, a.sources[s].id) = s
<1>1. \A t \in Present(a) : a.sources[t].id = a.sources[s].id => t = s
  BY DEF UniqueSources
<1>2. QED
  BY <1>1 DEF SlotOfId

(* When the owner of an explicit choice departs, the console passes to the *)
(* surviving half of its composite or to nobody.                           *)
LEMMA RemovedFinal ==
  ASSUME NEW a \in ArbiterState, SoundRegistry(a), a.explicit,
         NEW s \in Present(a), NEW pending \in BOOLEAN,
         NEW r, r = Removed(a, s, pending), r.active # a.active
  PROVE  \/ r.active = NONE
         \/ /\ ActiveGroup(a) # 0
            /\ ActiveGroup(r) = ActiveGroup(a)
            /\ ~IsId(r, a.active)
<1> DEFINE gone == a.sources[s]
           b == [a EXCEPT !.sources[s] = Empty]
           left == Survivors(b, gone.group)
           c == [b EXCEPT !.active = NONE, !.awaiting = FALSE]
           d == [c EXCEPT !.explicit = TRUE]
           e == [b EXCEPT !.active = b.sources[Lowest(left)].id]
<1>1. /\ s \in Slot /\ gone.id # NONE
      /\ \A t \in Slot : a.sources[t].id \in Nat /\ a.sources[t].group \in Nat
  BY DEF Present, ArbiterState, Source
<1>2. /\ b.sources = [a.sources EXCEPT ![s] = Empty]
      /\ b.active = a.active /\ b.explicit
      /\ c.active = NONE /\ c.explicit
      /\ d.active = NONE
      /\ e.active = b.sources[Lowest(left)].id /\ e.sources = b.sources
  BY DEF ArbiterState
<1>3. Present(b) = Present(a) \ {s} /\ \A t \in Present(b) : b.sources[t] = a.sources[t]
  BY <1>1, <1>2 DEF Present, Empty, ArbiterState
<1>4. AutoPolicy(c) = c
  BY <1>2 DEF AutoPolicy
<1>5. r = IF gone.id # a.active /\ ~pending THEN b
          ELSE IF left # {} /\ ~pending THEN e
          ELSE IF pending THEN d
          ELSE c
  BY <1>4 DEF Removed
<1>6. ASSUME gone.id = a.active, left # {}, r = e
      PROVE  ActiveGroup(a) # 0 /\ ActiveGroup(r) = ActiveGroup(a) /\ ~IsId(r, a.active)
  <2> DEFINE heir == Lowest(left)
  <2>1. left \in SUBSET Slot
    BY DEF Survivors, Present
  <2>2. heir \in Present(b) /\ gone.group # 0 /\ b.sources[heir].group = gone.group
    BY <1>6, <2>1, LowestIn DEF Survivors
  <2> HIDE DEF heir, b, left, e
  <2>3. heir \in Present(a) /\ heir # s /\ b.sources[heir] = a.sources[heir]
    BY <1>3, <2>2
  <2>4. Present(r) = Present(a) \ {s} /\ \A t \in Present(r) : r.sources[t] = a.sources[t]
    <3>1. r.sources = b.sources
      BY <1>2, <1>6
    <3>2. Present(r) = Present(b)
      BY <3>1 DEF Present
    <3>3. QED
      BY <1>3, <3>1, <3>2
  <2>5. ActiveGroup(a) = gone.group
    <3>1. SlotOfId(a, a.active) = s
      BY <1>6, SlotOfIdIs DEF SoundRegistry
    <3>2. IsId(a, a.active)
      BY <1>6 DEF IsId
    <3>3. QED
      BY <3>1, <3>2 DEF ActiveGroup
  <2>6. ActiveGroup(r) = gone.group
    <3>1. r.active = a.sources[heir].id /\ IsId(r, r.active)
      BY <1>2, <1>6, <2>3, <2>4 DEF IsId, heir
    <3>2. \A t \in Present(r) : r.sources[t].id = r.active => t = heir
      BY <2>3, <2>4, <3>1 DEF SoundRegistry, UniqueSources
    <3>3. SlotOfId(r, r.active) = heir
      BY <3>1, <3>2 DEF SlotOfId, IsId
    <3>4. r.sources[heir].group = gone.group
      BY <2>2, <2>3, <2>4
    <3>5. QED
      BY <3>1, <3>3, <3>4 DEF ActiveGroup
  <2>7. ~IsId(r, a.active)
    BY <1>6, <2>4 DEF IsId, SoundRegistry, UniqueSources
  <2>8. QED
    BY <2>2, <2>5, <2>6, <2>7
<1> HIDE DEF gone, b, left, c, d, e
<1>7. QED
  BY <1>2, <1>5, <1>6

ChoiceKept ==
  arb.explicit /\ arb.active # arb'.active =>
    \/ arb'.active = NONE
    \/ arb'.applied # arb.applied /\ arb'.active = pend.id
    \/ /\ ActiveGroup(arb) # 0
       /\ ActiveGroup(arb') = ActiveGroup(arb)
       /\ ~IsId(arb', arb.active)

(* Once the choice is explicit, no step hands the console over on its own.  *)
LEMMA ChoiceStep == ArbiterInv /\ [ANext]_avars => [ChoiceKept]_avars
<1> SUFFICES ASSUME ArbiterInv, [ANext]_avars, arb.explicit, arb.active # arb'.active
             PROVE  \/ arb'.active = NONE
                    \/ arb'.applied # arb.applied /\ arb'.active = pend.id
                    \/ /\ ActiveGroup(arb) # 0
                       /\ ActiveGroup(arb') = ActiveGroup(arb)
                       /\ ~IsId(arb', arb.active)
  BY DEF ChoiceKept
<1>0. /\ arb \in ArbiterState /\ SoundRegistry(arb)
      /\ pend.id \in Nat /\ core1.req \in Nat /\ core1.class \in Class
  BY DEF ArbiterInv, TypeOK, RegistrySound
<1>1. CASE SubmitCommit
  <2> DEFINE b == ApplyPending(arb, core1.req, pend.id)
  <2>1. core1.key \in Key
    BY <1>1 DEF SubmitCommit, ArbiterInv
  <2>2. /\ b \in ArbiterState /\ SoundRegistry(b) /\ b.applied = core1.req
        /\ b.sources = arb.sources
    BY <1>0, ApplyPendingSound
  <2>3. /\ b.explicit
        /\ b.active = arb.active \/ (core1.req # arb.applied /\ b.active \in {pend.id, NONE})
    <3>1. CASE core1.req = arb.applied
      BY <3>1 DEF ApplyPending
    <3>2. CASE core1.req # arb.applied
      BY <1>0, <3>2, ApplyPendingOwner
    <3>3. QED
      BY <3>1, <3>2
  <2> HIDE DEF b
  <2>4. arb'.active = b.active /\ arb'.applied = b.applied
    BY <1>0, <1>1, <2>1, <2>2, <2>3, SubmittedSound DEF SubmitCommit, b
  <2>5. QED
    BY <2>2, <2>3, <2>4
<1>2. CASE DisconnectCommit
  <2> DEFINE s == SlotOfKey(arb, core1.key)
  <2>1. s \in Present(arb)
    BY <1>0, <1>2, SlotOfKeyIn DEF DisconnectCommit, ArbiterInv
  <2>2. PendingTarget \in BOOLEAN
    BY DEF PendingTarget
  <2>3. arb' = Removed(arb, s, PendingTarget)
    BY <1>2 DEF DisconnectCommit
  <2> HIDE DEF s
  <2>4. QED
    BY <1>0, <2>1, <2>2, <2>3, RemovedFinal
<1>3. CASE SettlePending
  BY <1>0, <1>3 DEF SettlePending, ArbiterState
<1>4. CASE Reset
  BY <1>4 DEF Reset, ArbiterInit
<1>5. QED
  BY <1>1, <1>2, <1>3, <1>4
     DEF ANext, avars, Validate, AnswerRepeated, StoreId, BumpRequest,
         SubmitBegin, DisconnectBegin, ClearPending

(* An explicit choice is final: from then on only the user's next choice,  *)
(* the surviving half of a composite, or nobody takes the console.         *)
THEOREM ExplicitChoiceFinal == ASpec => ExplicitIsFinal
<1>1. ASpec => [][ChoiceKept]_avars
  BY ArbiterInvariant, ChoiceStep, PTL DEF ASpec
<1>2. QED
  BY <1>1 DEF ExplicitIsFinal, ChoiceKept

-----------------------------------------------------------------------------
(* The owner of the console while nobody has chosen.                       *)

(* Every source is registered with the composite of its key, and a member  *)
(* of a composite as a controller in its own right.                        *)
Grouped(a) ==
  \A s \in Present(a) :
    /\ a.sources[s].group = GroupOf[a.sources[s].key]
    /\ a.sources[s].group # 0 => a.sources[s].class = DIRECT

(* AutoOwnerIsBest for a registry, with one source for the owner: among    *)
(* other sources a standalone owner is the preferred one.  A composite may *)
(* keep the console by its surviving half, which may be the later of two   *)
(* controllers, so the owner is not always the one the policy would choose. *)
OwnerBest(a) ==
  ~a.explicit =>
    /\ a.active = NONE => Present(a) = {}
    /\ \A o \in Present(a) : a.sources[o].id = a.active =>
         /\ \A t \in Present(a) : a.sources[t].class <= a.sources[o].class
         /\ a.sources[o].group = 0 => IsPreferred(a, o)

(* The policy's target, when there is a source, is the preferred one, and  *)
(* none has a higher class.                                                *)
LEMMA WantedIs ==
  ASSUME NEW a \in ArbiterState, UniqueSources(a), Present(a) # {}
  PROVE  \E p \in Present(a) :
           /\ IsPreferred(a, p)
           /\ Wanted(a) = a.sources[p].id
           /\ \A t \in Present(a) : a.sources[t].class <= a.sources[p].class
<1> DEFINE p == CHOOSE s \in Slot : IsPreferred(a, s)
<1>1. p \in Slot /\ IsPreferred(a, p)
  BY PreferredExists DEF Present
<1>2. p \in Present(a) /\ Wanted(a) = a.sources[p].id
  BY <1>1 DEF Wanted, IsPreferred
<1> HIDE DEF p
<1>3. \A t \in Slot : a.sources[t].class \in 0 .. 2
  BY DEF ArbiterState, Source, Class, UNKNOWN, BRIDGE, DIRECT
<1>4. ASSUME NEW t \in Present(a)
      PROVE  a.sources[t].class <= a.sources[p].class
  BY <1>1, <1>2, <1>3 DEF IsPreferred, Outranks, Present
<1>5. QED
  BY <1>1, <1>2, <1>4

(* Only one source is preferred.                                           *)
LEMMA PreferredOne ==
  ASSUME NEW a \in ArbiterState, NEW p, NEW q, IsPreferred(a, p), IsPreferred(a, q)
  PROVE  p = q
<1>1. p \in Present(a) /\ q \in Present(a)
  BY DEF IsPreferred
<1>2. /\ a.sources[p].class \in Nat /\ a.sources[q].class \in Nat
      /\ a.sources[p].id \in Nat /\ a.sources[q].id \in Nat
  BY <1>1 DEF Present, ArbiterState, Source, Class, UNKNOWN, BRIDGE, DIRECT
<1>3. CASE p # q
  <2>1. Outranks(a.sources[p], a.sources[q]) /\ Outranks(a.sources[q], a.sources[p])
    BY <1>1, <1>3 DEF IsPreferred
  <2>2. QED
    BY <1>2, <2>1 DEF Outranks
<1>4. QED
  BY <1>3

(* The registry, the owner and the choice are what OwnerBest depends on,    *)
LEMMA OwnerBestOf ==
  ASSUME NEW a, NEW b, OwnerBest(a), b.sources = a.sources,
         b.active = a.active, b.explicit = a.explicit
  PROVE  OwnerBest(b)
BY DEF OwnerBest, Present, IsPreferred

(* ... and its sources are what Grouped depends on.                         *)
LEMMA GroupedOf ==
  ASSUME NEW a, NEW b, Grouped(a), b.sources = a.sources
  PROVE  Grouped(b)
BY DEF Grouped, Present

(* The owner the policy leaves is the best one.                            *)
LEMMA PolicyChooses ==
  ASSUME NEW a \in ArbiterState, SoundRegistry(a), Grouped(a)
  PROVE  OwnerBest(AutoPolicy(a))
<1> DEFINE w == Wanted(a)
           b == [a EXCEPT !.active = w, !.awaiting = a.active # NONE /\ w # NONE]
<1>1. w \in Nat /\ (w # NONE => IsId(a, w))
  BY WantedRegistered DEF SoundRegistry
<1>2. b.sources = a.sources /\ b.active = w /\ b.explicit = a.explicit
  BY DEF ArbiterState
<1>3. AutoPolicy(a) = IF a.explicit \/ w = a.active \/ SameComposite(a, w) THEN a ELSE b
  BY DEF AutoPolicy
<1>4. CASE a.explicit
  BY <1>3, <1>4 DEF OwnerBest
<1>5. CASE ~a.explicit /\ Present(a) = {}
  <2>1. w = NONE
    BY <1>5 DEF Wanted
  <2>2. a.active = NONE
    BY <1>5 DEF SoundRegistry, OwnerRegistered, IsId
  <2>3. QED
    BY <1>3, <1>5, <2>1, <2>2 DEF OwnerBest
<1>6. CASE ~a.explicit /\ Present(a) # {}
  <2>1. PICK p \in Present(a) :
          /\ IsPreferred(a, p)
          /\ w = a.sources[p].id
          /\ \A t \in Present(a) : a.sources[t].class <= a.sources[p].class
    BY <1>6, WantedIs DEF SoundRegistry
  <2> HIDE DEF w, b
  <2>2. w # NONE
    BY <2>1 DEF Present
  <2>3. \A o \in Present(a) : a.sources[o].id = w => o = p
    BY <2>1 DEF SoundRegistry, UniqueSources
  <2>4. CASE w = a.active
    BY <1>3, <2>1, <2>2, <2>3, <2>4 DEF OwnerBest
  <2>5. CASE w # a.active /\ SameComposite(a, w)
    <3>1. ActiveGroup(a) # 0
      BY <2>5 DEF SameComposite
    <3>2. IsId(a, a.active) /\ a.sources[SlotOfId(a, a.active)].group # 0
      BY <3>1 DEF ActiveGroup
    <3>3. a.active # NONE
      BY <3>2 DEF IsId, Present
    <3>4. ASSUME NEW o \in Present(a), a.sources[o].id = a.active
          PROVE  a.sources[o].group # 0 /\ a.sources[o].class = 2
      <4>1. SlotOfId(a, a.active) = o
        BY <3>4, SlotOfIdIs DEF SoundRegistry
      <4>2. QED
        BY <3>2, <4>1 DEF Grouped, DIRECT
    <3>5. \A t \in Present(a) : a.sources[t].class \in 0 .. 2
      BY DEF Present, ArbiterState, Source, Class, UNKNOWN, BRIDGE, DIRECT
    <3>6. OwnerBest(a)
      BY <3>3, <3>4, <3>5 DEF OwnerBest
    <3>7. QED
      BY <1>3, <2>5, <3>6
  <2>6. CASE w # a.active /\ ~SameComposite(a, w)
    <3>1. AutoPolicy(a) = b
      BY <1>3, <1>6, <2>6
    <3>2. Present(b) = Present(a) /\ IsPreferred(b, p)
      BY <1>2, <2>1 DEF Present, IsPreferred
    <3>3. OwnerBest(b)
      BY <1>2, <2>1, <2>2, <2>3, <3>2 DEF OwnerBest
    <3>4. QED
      BY <3>1, <3>3
  <2>7. QED
    BY <2>4, <2>5, <2>6
<1>7. QED
  BY <1>4, <1>5, <1>6

(* Registration keeps composites together ...                              *)
LEMMA EnrolledGrouped ==
  ASSUME NEW a \in ArbiterState, SoundRegistry(a), Grouped(a),
         NEW k \in Key, NEW c \in ClassOf(k)
  PROVE  Grouped(Enrolled(a, k, c))
<1> USE GroupAssumption
<1>0. c \in Class /\ (GroupOf[k] # 0 => c = DIRECT)
  BY DEF ClassOf, Class
<1>1. CASE Holds(a, k)
  <2> DEFINE s == SlotOfKey(a, k)
             old == a.sources[s]
             new == [old EXCEPT !.group = GroupOf[k],
                                !.class = IF c = UNKNOWN THEN @ ELSE c]
             b == Enrolled(a, k, c)
  <2>1. s \in Slot /\ s \in Present(a) /\ old \in Source /\ old.key = k
    BY <1>1, SlotOfKeyIn DEF Present, ArbiterState
  <2>2. /\ new.id = old.id /\ new.key = k /\ new.group = GroupOf[k]
        /\ new.group # 0 => new.class = DIRECT
    BY <1>0, <2>1 DEF Source, DIRECT, UNKNOWN
  <2>3. b.sources = [a.sources EXCEPT ![s] = new]
    BY <1>1, <2>1 DEF Enrolled, Source, ArbiterState
  <2> HIDE DEF new, s, b, old
  <2>4. b.sources[s] = new /\ \A t \in Slot \ {s} : b.sources[t] = a.sources[t]
    BY <2>1, <2>3 DEF ArbiterState
  <2>5. ASSUME NEW t \in Present(b)
        PROVE  /\ b.sources[t].group = GroupOf[b.sources[t].key]
               /\ b.sources[t].group # 0 => b.sources[t].class = DIRECT
    <3>1. CASE t = s
      BY <2>2, <2>4, <3>1
    <3>2. CASE t # s
      BY <2>4, <3>2 DEF Grouped, Present
    <3>3. QED
      BY <3>1, <3>2
  <2>6. QED
    BY <2>5 DEF Grouped, b
<1>2. CASE ~Holds(a, k) /\ Present(a) = Slot
  BY <1>2 DEF Enrolled
<1>3. CASE ~Holds(a, k) /\ Present(a) # Slot
  <2> DEFINE s == Lowest(Slot \ Present(a))
             new == [key |-> k, id |-> a.nextId + 1, class |-> c, group |-> GroupOf[k]]
             b == Enrolled(a, k, c)
  <2>1. s \in Slot
    <3>1. Slot \ Present(a) # {}
      BY <1>3 DEF Present
    <3>2. QED
      BY <3>1, LowestIn
  <2>2. new.key = k /\ new.group = GroupOf[k] /\ (new.group # 0 => new.class = DIRECT)
    BY <1>0
  <2>3. b.sources = [a.sources EXCEPT ![s] = new]
    BY <1>3 DEF Enrolled, ArbiterState
  <2> HIDE DEF new, s, b
  <2>4. b.sources[s] = new /\ \A t \in Slot \ {s} : b.sources[t] = a.sources[t]
    BY <2>1, <2>3 DEF ArbiterState
  <2>5. ASSUME NEW t \in Present(b)
        PROVE  /\ b.sources[t].group = GroupOf[b.sources[t].key]
               /\ b.sources[t].group # 0 => b.sources[t].class = DIRECT
    <3>1. CASE t = s
      BY <2>2, <2>4, <3>1
    <3>2. CASE t # s
      BY <2>4, <3>2 DEF Grouped, Present
    <3>3. QED
      BY <3>1, <3>2
  <2>6. QED
    BY <2>5 DEF Grouped, b
<1>4. QED
  BY <1>1, <1>2, <1>3

(* ... and changes nothing when the policy does not run.                   *)
LEMMA EnrolledQuiet ==
  ASSUME NEW a \in ArbiterState, Grouped(a), NEW k \in Key, NEW c \in Class,
         ~ReEvaluates(a, k, c)
  PROVE  Enrolled(a, k, c).sources = a.sources
<1>1. CASE Holds(a, k)
  <2> DEFINE s == SlotOfKey(a, k)
             old == a.sources[s]
             new == [old EXCEPT !.group = GroupOf[k],
                                !.class = IF c = UNKNOWN THEN @ ELSE c]
  <2>1. s \in Slot /\ s \in Present(a) /\ old \in Source /\ old.key = k
    BY <1>1, SlotOfKeyIn DEF Present, ArbiterState
  <2>2. old.group = GroupOf[k] /\ (c = UNKNOWN \/ old.class = c)
    BY <1>1, <2>1 DEF ReEvaluates, Grouped
  <2>3. new = old
    BY <2>1, <2>2 DEF Source
  <2>4. Enrolled(a, k, c).sources = [a.sources EXCEPT ![s] = new]
    BY <1>1, <2>1 DEF Enrolled, Source, ArbiterState
  <2>5. QED
    <3> HIDE DEF new, s
    <3>1. QED
      BY <2>1, <2>3, <2>4 DEF ArbiterState
<1>2. CASE ~Holds(a, k)
  BY <1>2 DEF ReEvaluates, Enrolled
<1>3. QED
  BY <1>1, <1>2

(* Registration leaves the best owner.                                     *)
LEMMA RegisteredBest ==
  ASSUME NEW a \in ArbiterState, SoundRegistry(a), Grouped(a), OwnerBest(a),
         NEW k \in Key, NEW c \in ClassOf(k)
  PROVE  Grouped(Registered(a, k, c)) /\ OwnerBest(Registered(a, k, c))
<1>0. c \in Class
  BY DEF ClassOf, Class
<1> DEFINE e == Enrolled(a, k, c)
<1>1. /\ e \in ArbiterState /\ SoundRegistry(e) /\ Grouped(e)
      /\ e.active = a.active /\ e.explicit = a.explicit
  BY <1>0, EnrolledSound, EnrolledGrouped
<1> HIDE DEF e
<1>2. CASE ReEvaluates(a, k, c)
  <2>1. OwnerBest(AutoPolicy(e)) /\ AutoPolicy(e).sources = e.sources
    BY <1>1, PolicyChooses, AutoPolicySound
  <2>2. Grouped(AutoPolicy(e))
    BY <1>1, <2>1, GroupedOf
  <2>3. QED
    BY <1>2, <2>1, <2>2 DEF Registered, e
<1>3. CASE ~ReEvaluates(a, k, c)
  <2>1. e.sources = a.sources
    BY <1>0, <1>3, EnrolledQuiet DEF e
  <2>2. OwnerBest(e)
    BY <1>1, <2>1, OwnerBestOf
  <2>3. QED
    BY <1>1, <1>3, <2>2 DEF Registered, e
<1>4. QED
  BY <1>2, <1>3

(* So does a report, ...                                                    *)
LEMMA SubmittedBest ==
  ASSUME NEW a \in ArbiterState, SoundRegistry(a), Grouped(a), OwnerBest(a),
         NEW k \in Key, NEW c \in ClassOf(k)
  PROVE  Grouped(Submitted(a, k, c)) /\ OwnerBest(Submitted(a, k, c))
<1> DEFINE b == Registered(a, k, c)
           d == [b EXCEPT !.awaiting = FALSE]
<1>1. Grouped(b) /\ OwnerBest(b)
  BY RegisteredBest
<1>2. b \in ArbiterState
  BY RegisteredSound DEF ClassOf, Class
<1>3. Submitted(a, k, c) = IF Accepted(b, k) THEN d ELSE b
  BY DEF Submitted
<1> HIDE DEF b
<1>4. d.sources = b.sources /\ d.active = b.active /\ d.explicit = b.explicit
  BY <1>2 DEF ArbiterState
<1> HIDE DEF d
<1>5. Grouped(d) /\ OwnerBest(d)
  BY <1>1, <1>4, GroupedOf, OwnerBestOf
<1>6. QED
  BY <1>1, <1>3, <1>5

(* A selection ends the policy's rule.                                     *)
LEMMA ApplyPendingBest ==
  ASSUME NEW a \in ArbiterState, SoundRegistry(a), Grouped(a), OwnerBest(a),
         NEW req \in Nat, NEW id \in Nat
  PROVE  Grouped(ApplyPending(a, req, id)) /\ OwnerBest(ApplyPending(a, req, id))
<1>1. Grouped(ApplyPending(a, req, id))
  BY ApplyPendingSound, GroupedOf
<1>2. CASE req = a.applied
  BY <1>2 DEF ApplyPending
<1>3. CASE req # a.applied
  BY <1>1, <1>3, ApplyPendingOwner DEF OwnerBest
<1>4. QED
  BY <1>2, <1>3

(* A departure leaves the best owner: the heir of a composite is a         *)
(* controller, and no class is higher.                                     *)
LEMMA RemovedBest ==
  ASSUME NEW a \in ArbiterState, SoundRegistry(a), Grouped(a), OwnerBest(a),
         NEW s \in Present(a), NEW pending \in BOOLEAN
  PROVE  Grouped(Removed(a, s, pending)) /\ OwnerBest(Removed(a, s, pending))
<1> DEFINE gone == a.sources[s]
           b == [a EXCEPT !.sources[s] = Empty]
           left == Survivors(b, gone.group)
           c == [b EXCEPT !.active = NONE, !.awaiting = FALSE]
           d == [c EXCEPT !.explicit = TRUE]
           e == [b EXCEPT !.active = b.sources[Lowest(left)].id]
           r == Removed(a, s, pending)
<1>1. s \in Slot
  BY DEF Present
<1>2. r \in ArbiterState /\ r.sources = [a.sources EXCEPT ![s] = Empty]
  BY RemovedSound
<1>3. /\ b.sources = [a.sources EXCEPT ![s] = Empty]
      /\ b.active = a.active /\ b.explicit = a.explicit
      /\ c.sources = b.sources /\ c.explicit = a.explicit /\ c.active = NONE
      /\ d.sources = b.sources /\ d.explicit
      /\ e.sources = b.sources /\ e.explicit = a.explicit
      /\ e.active = b.sources[Lowest(left)].id
  BY DEF ArbiterState
<1>4. Present(b) = Present(a) \ {s} /\ \A t \in Present(b) : b.sources[t] = a.sources[t]
  BY <1>1, <1>3 DEF Present, Empty, ArbiterState
<1>5. Grouped(b) /\ UniqueSources(b)
  BY <1>4 DEF Grouped, SoundRegistry, UniqueSources
<1>6. c \in ArbiterState /\ SoundRegistry(c)
  <2>1. Empty \in Source
    BY DEF Empty, Source, NONE, UNKNOWN, Class
  <2>2. [a.sources EXCEPT ![s] = Empty] \in [Slot -> Source]
    BY <1>1, <2>1 DEF ArbiterState
  <2>3. b = [sources |-> [a.sources EXCEPT ![s] = Empty], nextId |-> a.nextId,
             active |-> a.active, explicit |-> a.explicit,
             awaiting |-> a.awaiting, applied |-> a.applied]
    BY DEF ArbiterState
  <2>4. b \in ArbiterState /\ b.nextId = a.nextId
    BY <2>2, <2>3 DEF ArbiterState
  <2> HIDE DEF b
  <2>5. /\ c \in ArbiterState /\ c.sources = b.sources
        /\ c.nextId = a.nextId /\ c.active = NONE /\ c.awaiting = FALSE
    BY <2>4 DEF ArbiterState, NONE
  <2> HIDE DEF c
  <2>6. Present(c) = Present(b)
    BY <2>5 DEF Present
  <2>7. \A t \in Present(b) : b.sources[t].key \in Key /\ b.sources[t].id <= a.nextId
    BY <1>4 DEF SoundRegistry
  <2>8. SoundRegistry(c)
    BY <1>5, <2>5, <2>6, <2>7 DEF SoundRegistry, UniqueSources, OwnerRegistered
  <2>9. QED
    BY <2>5, <2>8
<1>7. r = IF gone.id # a.active /\ ~pending THEN b
          ELSE IF left # {} /\ ~pending THEN e
          ELSE IF pending THEN d
          ELSE AutoPolicy(c)
  BY DEF Removed
<1>8. Grouped(r)
  <2> HIDE DEF b, r
  <2>1. QED
    BY <1>2, <1>3, <1>5, GroupedOf
<1>9. ASSUME gone.id # a.active
      PROVE  OwnerBest(b)
  <2>1. CASE a.explicit
    BY <1>3, <2>1 DEF OwnerBest
  <2>2. CASE ~a.explicit
    <3> HIDE DEF b, gone
    <3>1. a.active = NONE => Present(b) = {}
      BY <1>4, <2>2 DEF OwnerBest
    <3>2. ASSUME NEW o \in Present(b), b.sources[o].id = a.active
          PROVE  /\ \A t \in Present(b) : b.sources[t].class <= b.sources[o].class
                 /\ b.sources[o].group = 0 => IsPreferred(b, o)
      <4>1. o \in Present(a) /\ a.sources[o].id = a.active /\ b.sources[o] = a.sources[o]
        BY <1>4, <3>2
      <4>2. \A t \in Present(a) : a.sources[t].class <= a.sources[o].class
        BY <2>2, <4>1 DEF OwnerBest
      <4>3. a.sources[o].group = 0 => IsPreferred(a, o)
        BY <2>2, <4>1 DEF OwnerBest
      <4>4. a.sources[o].group = 0 => IsPreferred(b, o)
        BY <1>4, <3>2, <4>1, <4>3 DEF IsPreferred
      <4>5. QED
        BY <1>4, <4>1, <4>2, <4>4
    <3>3. QED
      BY <1>3, <3>1, <3>2 DEF OwnerBest
  <2>3. QED
    BY <2>1, <2>2
<1>10. ASSUME left # {}
       PROVE  OwnerBest(e)
  <2> DEFINE heir == Lowest(left)
  <2>1. left \in SUBSET Slot
    BY DEF Survivors, Present
  <2>2. heir \in Present(b) /\ gone.group # 0 /\ b.sources[heir].group = gone.group
    BY <1>10, <2>1, LowestIn DEF Survivors
  <2> HIDE DEF heir, b, left, gone
  <2>3. b.sources[heir].class = 2 /\ b.sources[heir].group # 0
    BY <1>5, <2>2 DEF Grouped, DIRECT
  <2>4. \A t \in Present(b) : b.sources[t].class \in 0 .. 2
    BY <1>4 DEF Present, ArbiterState, Source, Class, UNKNOWN, BRIDGE, DIRECT
  <2>5. /\ e.active = b.sources[heir].id /\ Present(e) = Present(b)
        /\ e.sources = b.sources
    BY <1>3 DEF Present, heir
  <2> HIDE DEF e
  <2>6. e.active # NONE
    BY <2>2, <2>5 DEF Present
  <2>7. \A o \in Present(b) : b.sources[o].id = e.active => o = heir
    BY <1>5, <2>2, <2>5 DEF UniqueSources
  <2>8. QED
    BY <2>3, <2>4, <2>5, <2>6, <2>7 DEF OwnerBest
<1>11. OwnerBest(d)
  BY <1>3 DEF OwnerBest
<1>12. OwnerBest(AutoPolicy(c))
  <2> HIDE DEF b, c
  <2>1. QED
    BY <1>3, <1>5, <1>6, GroupedOf, PolicyChooses
<1> HIDE DEF b, c, d, e, left, gone, r
<1>13. OwnerBest(r)
  BY <1>7, <1>9, <1>10, <1>11, <1>12
<1>14. QED
  BY <1>8, <1>13 DEF r

(* AutoOwnerIsBest is inductive once composites stay together, in the       *)
(* registry and in the report core 1 is about to submit.                    *)
BestInv ==
  /\ ArbiterInv
  /\ Grouped(arb)
  /\ OwnerBest(arb)
  /\ core1.pc = "submit" => core1.class \in ClassOf(core1.key)

(* The registry a reset leaves is empty: nobody owns the console.           *)
LEMMA EmptyIsBest == Grouped(ArbiterInit) /\ OwnerBest(ArbiterInit)
<1>1. Present(ArbiterInit) = {}
  BY DEF Present, ArbiterInit, Empty
<1>2. QED
  BY <1>1 DEF Grouped, OwnerBest

(* The invariant of ownership holds at start ...                            *)
LEMMA BestInit == AInit => BestInv
BY InvInit, EmptyIsBest DEF AInit, BestInv, Idle1

(* ... and every step of either core keeps it.                              *)
LEMMA BestNext == BestInv /\ [ANext]_avars => BestInv'
<1> SUFFICES ASSUME BestInv, [ANext]_avars
             PROVE  BestInv'
  OBVIOUS
<1>0. /\ ArbiterInv /\ ArbiterInv'
      /\ arb \in ArbiterState /\ SoundRegistry(arb) /\ Grouped(arb) /\ OwnerBest(arb)
      /\ pend.id \in Nat /\ core1.req \in Nat
  BY InvNext DEF BestInv, ArbiterInv, TypeOK, RegistrySound
<1>1. CASE UNCHANGED arb /\ UNCHANGED core1
  BY <1>0, <1>1 DEF BestInv
<1>2. ASSUME NEW k \in Key, NEW c \in ClassOf(k), SubmitBegin(k, c)
      PROVE  BestInv'
  BY <1>0, <1>2 DEF SubmitBegin, BestInv
<1>3. CASE SubmitCommit
  <2> DEFINE b == ApplyPending(arb, core1.req, pend.id)
  <2>1. core1.key \in Key /\ core1.class \in ClassOf(core1.key)
    BY <1>3 DEF SubmitCommit, BestInv, ArbiterInv
  <2>2. b \in ArbiterState /\ SoundRegistry(b)
    BY <1>0, ApplyPendingSound
  <2>3. Grouped(b) /\ OwnerBest(b)
    BY <1>0, ApplyPendingBest
  <2>4. arb' = Submitted(b, core1.key, core1.class)
    BY <1>3 DEF SubmitCommit
  <2> HIDE DEF b
  <2>5. Grouped(arb') /\ OwnerBest(arb')
    BY <2>1, <2>2, <2>3, <2>4, SubmittedBest
  <2>6. QED
    BY <1>0, <1>3, <2>5 DEF SubmitCommit, BestInv, Idle1
<1>4. ASSUME NEW k \in Key, DisconnectBegin(k)
      PROVE  BestInv'
  BY <1>0, <1>4 DEF DisconnectBegin, BestInv
<1>5. CASE DisconnectCommit
  <2> DEFINE s == SlotOfKey(arb, core1.key)
  <2>1. s \in Present(arb)
    BY <1>0, <1>5, SlotOfKeyIn DEF DisconnectCommit, ArbiterInv
  <2>2. PendingTarget \in BOOLEAN
    BY DEF PendingTarget
  <2>3. arb' = Removed(arb, s, PendingTarget)
    BY <1>5 DEF DisconnectCommit
  <2> HIDE DEF s
  <2>4. Grouped(arb') /\ OwnerBest(arb')
    BY <1>0, <2>1, <2>2, <2>3, RemovedBest
  <2>5. core1'.pc # "submit"
    BY <1>5 DEF DisconnectCommit, Idle1
  <2>6. QED
    BY <1>0, <2>4, <2>5 DEF BestInv
<1>6. CASE ClearPending
  BY <1>0, <1>6 DEF ClearPending, BestInv
<1>7. CASE SettlePending
  <2>1. arb'.sources = arb.sources /\ arb'.active = arb.active /\ arb'.explicit = arb.explicit
    BY <1>0, <1>7 DEF SettlePending, ArbiterState
  <2>2. Grouped(arb') /\ OwnerBest(arb')
    BY <1>0, <2>1, GroupedOf, OwnerBestOf
  <2>3. QED
    BY <1>0, <1>7, <2>2 DEF SettlePending, BestInv, Idle1
<1>8. CASE Reset
  BY <1>0, <1>8, EmptyIsBest DEF Reset, BestInv
<1>9. QED
  BY <1>1, <1>2, <1>3, <1>4, <1>5, <1>6, <1>7, <1>8
     DEF ANext, avars, Validate, AnswerRepeated, StoreId, BumpRequest

(* Until the user chooses, whoever owns the console is of the highest class *)
(* registered, and a standalone owner is the first of its class.            *)
THEOREM AutoOwnerAlwaysBest == ASpec => []AutoOwnerIsBest
<1>1. BestInv => AutoOwnerIsBest
  <2> SUFFICES ASSUME BestInv, ~arb.explicit
               PROVE  AutoOwnerIsBest
    BY DEF AutoOwnerIsBest
  <2>1. arb \in ArbiterState /\ SoundRegistry(arb) /\ OwnerBest(arb)
    BY DEF BestInv, ArbiterInv, TypeOK, RegistrySound
  <2>2. CASE Present(arb) = {}
    BY <2>2 DEF AutoOwnerIsBest
  <2>3. CASE Present(arb) # {}
    <3>1. PICK o \in Present(arb) : arb.sources[o].id = arb.active
      BY <2>1, <2>3 DEF OwnerBest, SoundRegistry, OwnerRegistered, IsId
    <3>2. SlotOfId(arb, arb.active) = o
      BY <2>1, <3>1, SlotOfIdIs DEF SoundRegistry
    <3>3. ASSUME NEW s \in Present(arb)
          PROVE  /\ arb.sources[s].class <= arb.sources[o].class
                 /\ \/ arb.sources[s].class < arb.sources[o].class
                    \/ arb.sources[o].id <= arb.sources[s].id
                    \/ arb.sources[o].group # 0
      <4>1. /\ arb.sources[s].class \in 0 .. 2 /\ arb.sources[s].id \in Nat
            /\ arb.sources[o].class \in 0 .. 2 /\ arb.sources[o].id \in Nat
        BY <2>1 DEF Present, ArbiterState, Source, Class, UNKNOWN, BRIDGE, DIRECT
      <4>2. /\ arb.sources[s].class <= arb.sources[o].class
            /\ arb.sources[o].group = 0 => IsPreferred(arb, o)
        BY <2>1, <3>1 DEF OwnerBest
      <4>3. IsPreferred(arb, o) /\ s # o => Outranks(arb.sources[o], arb.sources[s])
        BY DEF IsPreferred
      <4>4. QED
        BY <4>1, <4>2, <4>3 DEF Outranks
    <3>4. arb.active # NONE
      BY <3>1 DEF Present
    <3>5. QED
      BY <3>2, <3>3, <3>4 DEF AutoOwnerIsBest
  <2>4. QED
    BY <2>2, <2>3
<1>2. QED
  BY <1>1, BestInit, BestNext, PTL DEF ASpec
-----------------------------------------------------------------------------
(* The router.                                                             *)

(* A step of the router is a step of the arbiter it drives, or none.        *)
LEMMA RoutingStep == ArbiterInv /\ [Next]_vars => [RoutedStep]_avars
<1> SUFFICES ASSUME ArbiterInv, [Next]_vars
             PROVE  [RoutedStep]_avars
  OBVIOUS
<1>1. CASE Core0Next
  BY <1>1 DEF Core0Next, RequestValidate, RequestRepeated, RequestStore, RequestBump,
              RequestNeutralize, RoutedStep
<1>2. CASE Core1Step
  BY <1>2 DEF Core1Step, Decide, Neutralize, Publish, Remove, RemoveClear, RemoveSettle,
              RoutedStep
<1>3. ASSUME NEW k \in Key, Connect(k) \/ Note(k) \/ StopLink(k)
      PROVE  [RoutedStep]_avars
  BY <1>3 DEF Connect, Note, StopLink, RoutedStep, Class
<1>4. ASSUME NEW k \in Key, NEW c \in {BRIDGE, DIRECT}, NEW held \in BOOLEAN, Report(k, c, held)
      PROVE  [RoutedStep]_avars
  BY <1>4 DEF Report, RoutedStep, Class
<1>5. ASSUME NEW k \in Key, Unplug(k)
      PROVE  [RoutedStep]_avars
  <2>1. CASE Holds(arb, DisconnectKey(k))
    <3>1. DisconnectKey(k) \in Key
      BY <2>1 DEF Holds, ArbiterInv, RegistrySound, SoundRegistry
    <3>2. QED
      BY <1>5, <2>1, <3>1 DEF Unplug, RoutedStep
  <2>2. CASE ~Holds(arb, DisconnectKey(k))
    BY <1>5, <2>2 DEF Unplug
  <2>3. QED
    BY <2>1, <2>2
<1>6. CASE UNCHANGED vars
  BY <1>6 DEF vars, avars
<1>7. QED
  BY <1>1, <1>2, <1>3, <1>4, <1>5, <1>6 DEF Next

(* So the router keeps the arbiter's invariant.                            *)
LEMMA RoutedInvNext == ArbiterInv /\ [Next]_vars => ArbiterInv'
BY RoutingStep, AnyInvNext DEF AnyStep

(* Registration keeps the sources there are, and adds at most one, under a *)
(* new id.                                                                 *)
LEMMA EnrolledSources ==
  ASSUME NEW a \in ArbiterState, SoundRegistry(a), NEW k \in Key, NEW c \in Class,
         NEW e, e = Enrolled(a, k, c)
  PROVE  /\ e.nextId \in {a.nextId, a.nextId + 1}
         /\ \A t \in Present(e) :
              \/ /\ t \in Present(a)
                 /\ e.sources[t].id = a.sources[t].id
                 /\ e.sources[t].key = a.sources[t].key
              \/ /\ t \notin Present(a)
                 /\ e.sources[t].id = a.nextId + 1
                 /\ e.sources[t].key = k
                 /\ e.sources[t].class = c
                 /\ e.nextId = a.nextId + 1
                 /\ ~Holds(a, k)
                 /\ \A u \in Slot : u # t => e.sources[u] = a.sources[u]
<1>1. CASE Holds(a, k)
  <2> DEFINE s == SlotOfKey(a, k)
             old == a.sources[s]
             new == [old EXCEPT !.group = GroupOf[k],
                                !.class = IF c = UNKNOWN THEN @ ELSE c]
  <2>1. s \in Slot /\ old \in Source
    BY <1>1, SlotOfKeyIn DEF Present, ArbiterState
  <2>2. new.id = old.id /\ new.key = old.key
    BY <2>1 DEF Source
  <2>3. e.sources = [a.sources EXCEPT ![s] = new] /\ e.nextId = a.nextId
    BY <1>1, <2>1 DEF Enrolled, Source, ArbiterState
  <2> HIDE DEF new, s
  <2>4. \A t \in Slot : /\ e.sources[t].id = a.sources[t].id
                        /\ e.sources[t].key = a.sources[t].key
    BY <2>1, <2>2, <2>3 DEF ArbiterState
  <2>5. QED
    BY <2>3, <2>4 DEF Present
<1>2. CASE ~Holds(a, k) /\ Present(a) = Slot
  BY <1>2 DEF Enrolled
<1>3. CASE ~Holds(a, k) /\ Present(a) # Slot
  <2> DEFINE s == Lowest(Slot \ Present(a))
             new == [key |-> k, id |-> a.nextId + 1, class |-> c, group |-> GroupOf[k]]
  <2>1. s \in Slot /\ s \notin Present(a)
    <3>1. Slot \ Present(a) # {}
      BY <1>3 DEF Present
    <3>2. QED
      BY <3>1, LowestIn
  <2>2. e.sources = [a.sources EXCEPT ![s] = new] /\ e.nextId = a.nextId + 1
    BY <1>3 DEF Enrolled, ArbiterState
  <2>3. new.id = a.nextId + 1 /\ new.key = k /\ new.class = c
    OBVIOUS
  <2> HIDE DEF new, s
  <2>4. e.sources[s] = new /\ \A t \in Slot \ {s} : e.sources[t] = a.sources[t]
    BY <2>1, <2>2 DEF ArbiterState
  <2>5. QED
    BY <1>3, <2>1, <2>2, <2>3, <2>4 DEF Present
<1>4. QED
  BY <1>1, <1>2, <1>3

(* A departure adds nothing.                                               *)
LEMMA RemovedSources ==
  ASSUME NEW a \in ArbiterState, SoundRegistry(a), NEW s \in Present(a), NEW r,
         r.sources = [a.sources EXCEPT ![s] = Empty]
  PROVE  /\ Present(r) = Present(a) \ {s}
         /\ \A t \in Present(r) : r.sources[t] = a.sources[t]
         /\ \A id : IsId(r, id) => IsId(a, id) /\ id # a.sources[s].id
<1>1. Present(r) = Present(a) \ {s} /\ \A t \in Present(r) : r.sources[t] = a.sources[t]
  BY DEF Present, Empty, ArbiterState
<1>2. \A id : IsId(r, id) => IsId(a, id) /\ id # a.sources[s].id
  BY <1>1 DEF IsId, SoundRegistry, UniqueSources
<1>3. QED
  BY <1>1, <1>2
-----------------------------------------------------------------------------
(* Departures.                                                             *)

(* PadsReleased rests on this: only a connection that is still there is    *)
(* submitted, and while a controller that is gone is still registered its  *)
(* removal is under way.                                                   *)
Released ==
  /\ link \in [Key -> {"new", "live", "stopping", "gone"}]
  /\ core1.pc = "submit" => link[core1.key] # "gone"
  /\ \A s \in Present(arb) :
       arb.sources[s].key \notin CompanionLink /\ link[arb.sources[s].key] = "gone"
       => core1.pc = "disconnect" /\ core1.key = arb.sources[s].key

(* Every step of the router keeps it: what has left is looked up and removed.*)
LEMMA ReleasedNext == ArbiterInv /\ Released /\ [Next]_vars => Released'
<1> SUFFICES ASSUME ArbiterInv, Released, [Next]_vars
             PROVE  Released'
  OBVIOUS
<1>0. /\ arb \in ArbiterState /\ SoundRegistry(arb)
      /\ pend.id \in Nat /\ core1.req \in Nat /\ core1.class \in Class
      /\ \A s \in Present(arb) : arb.sources[s].key \in Key
      /\ link \in [Key -> {"new", "live", "stopping", "gone"}]
  BY DEF ArbiterInv, TypeOK, RegistrySound, SoundRegistry, Released
<1>1. CASE UNCHANGED <<arb, core1, link>>
  BY <1>1 DEF Released, Present
<1>2. ASSUME NEW k \in Key, Connect(k)
      PROVE  Released'
  <2>1. UNCHANGED <<arb, core1>> /\ link' = [link EXCEPT ![k] = "live"]
    BY <1>2 DEF Connect, avars
  <2>2. \A j \in Key : link'[j] = "gone" => link[j] = "gone"
    BY <1>0, <2>1
  <2>3. core1.pc # "submit"
    BY <1>2 DEF Connect, Core1Free
  <2>4. link' \in [Key -> {"new", "live", "stopping", "gone"}]
    BY <1>0, <2>1
  <2>5. QED
    BY <1>0, <2>1, <2>2, <2>3, <2>4 DEF Released, Present
<1>3. ASSUME NEW k \in Key, NEW c, SubmitBegin(k, c), link[k] # "gone",
             \/ UNCHANGED link
             \/ link' = [link EXCEPT ![k] = "stopping"]
      PROVE  Released'
  <2>1. /\ UNCHANGED arb /\ core1.pc = "idle"
        /\ core1'.pc = "submit" /\ core1'.key = k
    BY <1>3 DEF SubmitBegin
  <2>2. \A j \in Key : link'[j] = "gone" => link[j] = "gone"
    BY <1>0, <1>3
  <2>3. link' \in [Key -> {"new", "live", "stopping", "gone"}]
    BY <1>0, <1>3
  <2>4. QED
    BY <1>0, <1>3, <2>1, <2>2, <2>3 DEF Released, Present
<1>4. CASE SubmitCommit /\ UNCHANGED link
  <2> DEFINE b == ApplyPending(arb, core1.req, pend.id)
             e == Enrolled(b, core1.key, core1.class)
  <2>1. core1.key \in Key /\ core1.pc = "submit" /\ core1'.pc = "idle"
    BY <1>4 DEF SubmitCommit, ArbiterInv, Idle1
  <2>2. b \in ArbiterState /\ SoundRegistry(b) /\ b.sources = arb.sources
    BY <1>0, ApplyPendingSound
  <2>3. arb'.sources = e.sources
    BY <1>0, <1>4, <2>1, <2>2, SubmittedSound DEF SubmitCommit
  <2> HIDE DEF b
  <2>4. \A t \in Present(e) : \/ t \in Present(b) /\ e.sources[t].key = b.sources[t].key
                              \/ e.sources[t].key = core1.key
    BY <1>0, <2>1, <2>2, EnrolledSources
  <2> HIDE DEF e
  <2>5. \A t \in Present(arb') : \/ t \in Present(arb) /\ arb'.sources[t].key = arb.sources[t].key
                                 \/ arb'.sources[t].key = core1.key
    BY <2>2, <2>3, <2>4 DEF Present
  <2>6. \A t \in Present(arb') : arb'.sources[t].key \in CompanionLink
                                 \/ link[arb'.sources[t].key] # "gone"
    BY <2>1, <2>5 DEF Released
  <2>7. QED
    BY <1>0, <1>4, <2>1, <2>6 DEF Released
<1>5. ASSUME NEW k \in Key, Unplug(k)
      PROVE  Released'
  <2>1. /\ core1.pc = "idle"
        /\ link' = [link EXCEPT ![k] = "gone"]
        /\ UNCHANGED arb
        /\ k \notin CompanionLink => DisconnectKey(k) = k
    BY <1>5 DEF Unplug, DisconnectBegin, DisconnectKey, avars
  <2>2. link' \in [Key -> {"new", "live", "stopping", "gone"}]
    BY <1>0, <2>1
  <2>3. \A j \in Key : link'[j] = "gone" => j = k \/ link[j] = "gone"
    BY <1>0, <2>1
  <2>4. CASE Holds(arb, DisconnectKey(k))
    <3>1. core1'.pc = "disconnect" /\ core1'.key = DisconnectKey(k)
      BY <1>5, <2>4 DEF Unplug, DisconnectBegin
    <3>2. QED
      BY <1>0, <2>1, <2>2, <2>3, <3>1 DEF Released, Present
  <2>5. CASE ~Holds(arb, DisconnectKey(k))
    <3>1. UNCHANGED core1
      BY <1>5, <2>5 DEF Unplug, avars
    <3>2. \A s \in Present(arb) : k \notin CompanionLink => arb.sources[s].key # k
      BY <2>1, <2>5 DEF Holds
    <3>3. QED
      BY <1>0, <2>1, <2>2, <2>3, <3>1, <3>2 DEF Released, Present
  <2>6. QED
    BY <2>4, <2>5
<1>6. CASE DisconnectCommit /\ UNCHANGED link
  <2> DEFINE s == SlotOfKey(arb, core1.key)
  <2>1. s \in Present(arb) /\ arb.sources[s].key = core1.key
    BY <1>0, <1>6, SlotOfKeyIn DEF DisconnectCommit, ArbiterInv
  <2>2. PendingTarget \in BOOLEAN
    BY DEF PendingTarget
  <2>3. arb'.sources = [arb.sources EXCEPT ![s] = Empty]
    BY <1>0, <1>6, <2>1, <2>2, RemovedSound DEF DisconnectCommit
  <2> HIDE DEF s
  <2>4. /\ Present(arb') = Present(arb) \ {s}
        /\ \A t \in Present(arb') : arb'.sources[t] = arb.sources[t]
    BY <1>0, <2>1, <2>3, RemovedSources
  <2>5. \A t \in Present(arb') : arb'.sources[t].key # core1.key
    BY <1>0, <2>1, <2>4 DEF SoundRegistry, UniqueSources
  <2>6. core1'.pc # "submit"
    BY <1>6 DEF DisconnectCommit, Idle1
  <2>7. QED
    BY <1>0, <1>6, <2>4, <2>5, <2>6 DEF Released
<1>7. CASE ClearPending /\ UNCHANGED link
  BY <1>7 DEF ClearPending, Released, Present
<1>8. CASE SettlePending /\ UNCHANGED link
  <2>1. arb'.sources = arb.sources
    BY <1>0, <1>8 DEF SettlePending, ArbiterState
  <2>2. QED
    BY <1>8, <2>1 DEF SettlePending, Released, Present, Idle1
<1>9. QED
  <2>1. CASE Core0Next
    BY <1>1, <2>1 DEF Core0Next, RequestValidate, RequestRepeated, RequestStore, RequestBump,
                 RequestNeutralize, Validate, AnswerRepeated, StoreId, BumpRequest, avars, rvars
  <2>2. CASE Core1Step
    BY <1>1, <1>4, <1>6, <1>7, <1>8, <2>2
       DEF Core1Step, Decide, Neutralize, Publish, Remove, RemoveClear, RemoveSettle, avars, rvars
  <2>3. CASE \E k \in Key : Note(k)
    BY <1>3, <2>3 DEF Note
  <2>4. CASE \E k \in Key, c \in {BRIDGE, DIRECT}, held \in BOOLEAN : Report(k, c, held)
    BY <1>3, <2>4 DEF Report
  <2>5. CASE \E k \in Key : StopLink(k)
    BY <1>3, <2>5 DEF StopLink
  <2>6. CASE UNCHANGED vars
    BY <1>1, <2>6 DEF vars
  <2>7. QED
    BY <1>2, <1>5, <2>1, <2>2, <2>3, <2>4, <2>5, <2>6 DEF Next

(* No controller that has left keeps the console: with its connection gone  *)
(* and core 1 between two operations, it is in the registry no longer.      *)
THEOREM PadsAlwaysReleased == Spec => []PadsReleased
<1>1. Init => ArbiterInv /\ Released
  <2>1. Init => ArbiterInv
    BY InvInit DEF Init
  <2>2. Present(ArbiterInit) = {}
    BY DEF Present, ArbiterInit, Empty
  <2>3. Init => Released
    BY <2>2 DEF Init, AInit, Released, Idle1
  <2>4. QED
    BY <2>1, <2>3
<1>2. ArbiterInv /\ Released => PadsReleased
  BY DEF Released, PadsReleased
<1>3. QED
  BY <1>1, <1>2, RoutedInvNext, ReleasedNext, PTL DEF Spec
-----------------------------------------------------------------------------
(* Identities.                                                             *)

(* Every id handed out is one the counter has passed.                      *)
Issued == issued \subseteq 0 .. arb.nextId

(* What a submission and a departure do to the registry, in one place.     *)
LEMMA SubmitEffect ==
  ASSUME ArbiterInv, SubmitCommit
  PROVE  /\ arb.nextId \in Nat /\ arb'.nextId \in Nat /\ arb'.nextId >= arb.nextId
         /\ \A id \in Nat : id <= arb.nextId /\ IsId(arb', id) => IsId(arb, id)
         /\ \A t \in Present(arb') : \/ /\ t \in Present(arb)
                                        /\ arb'.sources[t].key = arb.sources[t].key
                                     \/ arb'.sources[t].id = arb.nextId + 1
         /\ arb'.applied = core1.req
<1> DEFINE b == ApplyPending(arb, core1.req, pend.id)
           e == Enrolled(b, core1.key, core1.class)
<1>1. /\ arb \in ArbiterState /\ SoundRegistry(arb) /\ arb.nextId \in Nat
      /\ pend.id \in Nat /\ core1.req \in Nat /\ core1.class \in Class /\ core1.key \in Key
  BY DEF ArbiterInv, TypeOK, RegistrySound, SubmitCommit, ArbiterState
<1>2. /\ b \in ArbiterState /\ SoundRegistry(b) /\ b.sources = arb.sources
      /\ b.nextId = arb.nextId /\ b.applied = core1.req
  BY <1>1, ApplyPendingSound
<1>3. arb'.sources = e.sources /\ arb'.nextId = e.nextId /\ arb'.applied = core1.req
  BY <1>1, <1>2, SubmittedSound DEF SubmitCommit
<1> HIDE DEF b
<1>4. /\ e.nextId \in {b.nextId, b.nextId + 1}
      /\ \A t \in Present(e) : \/ /\ t \in Present(b)
                                  /\ e.sources[t].id = b.sources[t].id
                                  /\ e.sources[t].key = b.sources[t].key
                               \/ e.sources[t].id = b.nextId + 1
  BY <1>1, <1>2, EnrolledSources
<1> HIDE DEF e
<1>5. \A t \in Present(arb') : \/ /\ t \in Present(arb)
                                  /\ arb'.sources[t].id = arb.sources[t].id
                                  /\ arb'.sources[t].key = arb.sources[t].key
                               \/ arb'.sources[t].id = arb.nextId + 1
  BY <1>2, <1>3, <1>4 DEF Present
<1>6. \A id \in Nat : id <= arb.nextId /\ IsId(arb', id) => IsId(arb, id)
  BY <1>1, <1>5 DEF IsId
<1>7. QED
  BY <1>1, <1>2, <1>3, <1>4, <1>5, <1>6

(* ... a departure empties the slot of its key and adds nothing.            *)
LEMMA DepartEffect ==
  ASSUME ArbiterInv, DisconnectCommit, NEW s, s = SlotOfKey(arb, core1.key)
  PROVE  /\ s \in Present(arb)
         /\ arb' = Removed(arb, s, PendingTarget)
         /\ arb'.nextId = arb.nextId /\ arb'.applied = arb.applied
         /\ Present(arb') = Present(arb) \ {s}
         /\ \A t \in Present(arb') : arb'.sources[t] = arb.sources[t]
         /\ \A id : IsId(arb', id) => IsId(arb, id) /\ id # arb.sources[s].id
<1>1. /\ arb \in ArbiterState /\ SoundRegistry(arb)
      /\ s \in Present(arb) /\ PendingTarget \in BOOLEAN
  BY SlotOfKeyIn DEF ArbiterInv, TypeOK, RegistrySound, DisconnectCommit, PendingTarget
<1>2. arb' = Removed(arb, s, PendingTarget)
  BY DEF DisconnectCommit
<1>3. /\ arb'.nextId = arb.nextId /\ arb'.applied = arb.applied
      /\ arb'.sources = [arb.sources EXCEPT ![s] = Empty]
  BY <1>1, <1>2, RemovedSound
<1>4. QED
  BY <1>1, <1>2, <1>3, RemovedSources

(* Every step keeps it: the counter only grows.                             *)
LEMMA IssuedNext == ArbiterInv /\ Issued /\ [RoutedStep]_avars => Issued'
<1> SUFFICES ASSUME ArbiterInv, Issued, [RoutedStep]_avars
             PROVE  Issued'
  OBVIOUS
<1>1. CASE UNCHANGED <<arb, issued>>
  BY <1>1 DEF Issued
<1>2. CASE SubmitCommit
  <2>1. arb.nextId \in Nat /\ arb'.nextId \in Nat /\ arb'.nextId >= arb.nextId
    BY <1>2, SubmitEffect
  <2>2. arb' \in ArbiterState /\ SoundRegistry(arb')
    BY AnyInvNext DEF AnyStep, ArbiterInv, TypeOK, RegistrySound
  <2>3. \A t \in Present(arb') : arb'.sources[t].id \in 0 .. arb'.nextId
    BY <2>1, <2>2 DEF SoundRegistry, ArbiterState, Source, Present
  <2>4. issued' = issued \cup {arb'.sources[s].id : s \in Present(arb')}
    BY <1>2 DEF SubmitCommit
  <2>5. \A i \in issued : i \in 0 .. arb'.nextId
    BY <2>1 DEF Issued
  <2>6. QED
    BY <2>3, <2>4, <2>5 DEF Issued
<1>3. CASE DisconnectCommit
  BY <1>3, DepartEffect DEF DisconnectCommit, Issued
<1>4. CASE SettlePending
  BY <1>4 DEF SettlePending, Issued, ArbiterInv, TypeOK, ArbiterState
<1>5. QED
  BY <1>1, <1>2, <1>3, <1>4
     DEF RoutedStep, avars, Validate, AnswerRepeated, StoreId, BumpRequest, SubmitBegin,
         DisconnectBegin, ClearPending

IdFresh ==
  \A s \in Present(arb') :
    arb'.sources[s].key # arb.sources[s].key => arb'.sources[s].id \notin issued

(* Only a submission fills a slot, under the next id.                       *)
LEMMA IdStep == ArbiterInv /\ Issued /\ [RoutedStep]_avars => [IdFresh]_avars
<1> SUFFICES ASSUME ArbiterInv, Issued, [RoutedStep]_avars, NEW s \in Present(arb'),
                    arb'.sources[s].key # arb.sources[s].key
             PROVE  arb'.sources[s].id \notin issued
  BY DEF IdFresh
<1>1. CASE SubmitCommit
  <2>1. arb'.sources[s].id = arb.nextId + 1 /\ arb.nextId \in Nat
    BY <1>1, SubmitEffect
  <2>2. QED
    BY <2>1 DEF Issued
<1>2. CASE DisconnectCommit
  BY <1>2, DepartEffect
<1>3. CASE SettlePending
  BY <1>3 DEF SettlePending, ArbiterInv, TypeOK, ArbiterState
<1>4. QED
  BY <1>1, <1>2, <1>3
     DEF RoutedStep, avars, Validate, AnswerRepeated, StoreId, BumpRequest, SubmitBegin,
         DisconnectBegin, ClearPending

(* A source that enters the registry gets an id no source had since boot:  *)
(* the router never resets the arbiter.                                    *)
THEOREM IdsNeverReused == Spec => IdNeverReused
<1>1. Init => ArbiterInv /\ Issued
  BY InvInit DEF Init, AInit, Issued
<1>2. ArbiterInv /\ Issued /\ [Next]_vars => (ArbiterInv /\ Issued)'
  BY RoutingStep, RoutedInvNext, IssuedNext
<1>3. ArbiterInv /\ Issued /\ [Next]_vars => [IdFresh]_avars
  BY RoutingStep, IdStep
<1>4. Spec => [][IdFresh]_avars
  BY <1>1, <1>2, <1>3, PTL DEF Spec
<1>5. QED
  BY <1>4 DEF IdNeverReused, IdFresh
-----------------------------------------------------------------------------
(* Selections.                                                             *)

(* What core 1 loaded is at least what it has applied, so it applies        *)
(* something only while something is outstanding.                          *)
Loaded == core1.pc # "idle" => arb.applied <= core1.req

(* The ids a selection waits for are old: a source that has left never     *)
(* comes back under one.                                                   *)
Lasting ==
  /\ chosen.made => chosen.id <= arb.nextId
  /\ core0.pc # "idle" => core0.id <= arb.nextId

(* Withdrawing a selection is an explicit choice of nobody.                *)
Withdrawn == core1.pc \in {"clear", "settle"} => arb.explicit

(* What was chosen still stands: nothing, or a source that has not left.   *)
Stands == chosen.id = NONE \/ IsId(arb, chosen.id)

(* A selection that stands is carried on: outstanding, then the owner, and *)
(* never the one that core 1 is taking back.                               *)
Carried ==
  /\ chosen.made /\ ~arb.explicit => pend.req # arb.applied
  /\ core0.pc = "idle" /\ chosen.made /\ Stands =>
       /\ core1.pc \notin {"clear", "settle"}
       /\ pend.req = arb.applied => arb.active = chosen.id
       /\ pend.req # arb.applied => pend.id = chosen.id

SelectionInv == ArbiterInv /\ Loaded /\ Lasting /\ Withdrawn /\ Carried

(* What a departure does to ownership.                                     *)
LEMMA RemovedOwner ==
  ASSUME NEW a \in ArbiterState, NEW s \in Present(a), NEW pending \in BOOLEAN,
         NEW r, r = Removed(a, s, pending)
  PROVE  /\ pending => r.explicit /\ r.active = NONE
         /\ a.explicit => r.explicit
         /\ ~pending /\ a.sources[s].id # a.active => r.active = a.active
         /\ ~pending /\ ~a.explicit => ~r.explicit
<1> DEFINE gone == a.sources[s]
           b == [a EXCEPT !.sources[s] = Empty]
           left == Survivors(b, gone.group)
           c == [b EXCEPT !.active = NONE, !.awaiting = FALSE]
           d == [c EXCEPT !.explicit = TRUE]
           e == [b EXCEPT !.active = b.sources[Lowest(left)].id]
<1>1. /\ b.active = a.active /\ b.explicit = a.explicit
      /\ c.active = NONE /\ c.explicit = a.explicit
      /\ d.active = NONE /\ d.explicit
      /\ e.explicit = a.explicit
  BY DEF ArbiterState
<1>2. AutoPolicy(c).explicit = c.explicit
  <2> DEFINE w == Wanted(c)
             f == [c EXCEPT !.active = w, !.awaiting = c.active # NONE /\ w # NONE]
  <2>1. f.explicit = c.explicit
    BY DEF ArbiterState
  <2>2. AutoPolicy(c) \in {c, f}
    BY DEF AutoPolicy
  <2> HIDE DEF c, f
  <2>3. QED
    BY <2>1, <2>2
<1>3. r = IF gone.id # a.active /\ ~pending THEN b
          ELSE IF left # {} /\ ~pending THEN e
          ELSE IF pending THEN d
          ELSE AutoPolicy(c)
  BY DEF Removed
<1> HIDE DEF gone, b, left, c, d, e
<1>4. QED
  BY <1>1, <1>2, <1>3 DEF gone

(* Core 1 applies what it loaded.                                           *)
LEMMA LoadedNext == ArbiterInv /\ Loaded /\ [RoutedStep]_avars => Loaded'
<1> SUFFICES ASSUME ArbiterInv, Loaded, [RoutedStep]_avars
             PROVE  Loaded'
  OBVIOUS
<1>1. CASE UNCHANGED avars
  BY <1>1 DEF avars, Loaded
<1>2. CASE \/ \E id \in Choice : Validate(id) \/ AnswerRepeated(id)
           \/ StoreId
           \/ BumpRequest
  BY <1>2 DEF Validate, AnswerRepeated, StoreId, BumpRequest, Loaded
<1>3. CASE \/ \E k \in Key, c \in Class : SubmitBegin(k, c)
           \/ \E k \in Key : DisconnectBegin(k)
  BY <1>3 DEF SubmitBegin, DisconnectBegin, Loaded, ArbiterInv, TypeOK
<1>4. CASE SubmitCommit \/ SettlePending
  BY <1>4 DEF SubmitCommit, SettlePending, Idle1, Loaded
<1>5. CASE DisconnectCommit
  <2>1. arb'.applied = arb.applied
    BY <1>5, DepartEffect
  <2>2. core1'.pc # "idle" => core1'.req = core1.req
    BY <1>5 DEF DisconnectCommit, Idle1, ArbiterInv, TypeOK
  <2>3. QED
    BY <1>5, <2>1, <2>2 DEF DisconnectCommit, Loaded
<1>6. CASE ClearPending
  BY <1>6 DEF ClearPending, Loaded, ArbiterInv, TypeOK
<1>7. QED
  BY <1>1, <1>2, <1>3, <1>4, <1>5, <1>6 DEF RoutedStep

(* No step loses a selection: it is stored, counted, applied or taken back. *)
LEMMA SelectionNext == SelectionInv /\ [RoutedStep]_avars => SelectionInv'
<1> SUFFICES ASSUME SelectionInv, [RoutedStep]_avars
             PROVE  SelectionInv'
  OBVIOUS
<1> USE DEF SelectionInv
<1>0. /\ ArbiterInv /\ ArbiterInv' /\ Loaded'
      /\ arb \in ArbiterState /\ SoundRegistry(arb)
      /\ arb.nextId \in Nat /\ arb.applied \in Nat /\ arb.applied <= pend.req
      /\ pend \in [id : Nat, req : Nat] /\ core1.req \in Nat
      /\ core0 \in [pc : {"idle", "store", "bump"}, id : Nat, key : Key \cup {NoKey}]
      /\ chosen.id \in Nat /\ core0.id \in Nat
  BY AnyInvNext, LoadedNext DEF AnyStep, ArbiterInv, TypeOK, RegistrySound, ArbiterState
<1>1. \A id \in Choice : id \in Nat
  BY BoundAssumption DEF Choice, NONE
<1>2. \A id \in Nat : id = NONE \/ IsId(arb, id) => id <= arb.nextId
  BY <1>0 DEF IsId, SoundRegistry, NONE
<1>3. ASSUME NEW id \in Choice, Validate(id)
      PROVE  SelectionInv'
  <2>1. /\ core0'.pc = "store" /\ core0'.id = id /\ UNCHANGED <<arb, pend, core1, chosen>>
        /\ id \in Nat /\ id <= arb.nextId
    BY <1>1, <1>2, <1>3 DEF Validate
  <2>2. QED
    BY <1>0, <2>1 DEF Lasting, Withdrawn, Carried
<1>4. ASSUME NEW id \in Choice, AnswerRepeated(id)
      PROVE  SelectionInv'
  <2>1. /\ UNCHANGED <<arb, pend, core0, core1>>
        /\ id \in Nat /\ id <= arb.nextId
        /\ arb.explicit /\ arb.active = id /\ core1.pc = "idle"
    BY <1>1, <1>2, <1>4 DEF AnswerRepeated, Repeated, InWindow
  <2>2. CASE Undercut
    <3>1. ~chosen'.made
      BY <1>4, <2>2 DEF AnswerRepeated, NoChoice
    <3>2. QED
      BY <1>0, <2>1, <3>1 DEF Lasting, Withdrawn, Carried
  <2>3. CASE ~Undercut
    <3>1. chosen'.id = id /\ pend.req = arb.applied
      BY <1>4, <2>3 DEF AnswerRepeated, Undercut
    <3>2. QED
      BY <1>0, <2>1, <3>1 DEF Lasting, Withdrawn, Carried
  <2>4. QED
    BY <2>2, <2>3
<1>5. CASE StoreId
  <2>1. /\ UNCHANGED <<arb, core1, chosen>>
        /\ core0.pc = "store" /\ core0'.pc = "bump" /\ core0'.id = core0.id
        /\ pend'.req = pend.req
    BY <1>0, <1>5 DEF StoreId
  <2>2. QED
    BY <1>0, <2>1 DEF Lasting, Withdrawn, Carried
<1>6. CASE BumpRequest
  <2>1. /\ UNCHANGED <<arb, core1>>
        /\ core0.pc = "bump" /\ core0'.pc = "idle"
        /\ pend'.id = pend.id /\ pend'.req = pend.req + 1
    BY <1>0, <1>6 DEF BumpRequest, Idle0
  <2>2. pend'.req # arb.applied
    BY <1>0, <2>1
  <2>3. CASE Crossed
    <3>1. ~chosen'.made
      BY <1>6, <2>3 DEF BumpRequest, NoChoice
    <3>2. QED
      BY <1>0, <2>1, <3>1 DEF Lasting, Withdrawn, Carried
  <2>4. CASE ~Crossed
    <3>1. /\ chosen'.id = core0.id /\ pend.id = core0.id
          /\ core1.pc \notin {"clear", "settle"}
      BY <1>6, <2>4 DEF BumpRequest, Crossed
    <3>2. QED
      BY <1>0, <2>1, <2>2, <3>1 DEF Lasting, Withdrawn, Carried
  <2>5. QED
    BY <2>3, <2>4
<1>7. ASSUME NEW k \in Key, NEW c \in Class, SubmitBegin(k, c)
      PROVE  SelectionInv'
  BY <1>0, <1>7 DEF SubmitBegin, Lasting, Withdrawn, Carried, Stands, IsId, Present
<1>8. CASE SubmitCommit
  <2> DEFINE b == ApplyPending(arb, core1.req, pend.id)
  <2>1. /\ UNCHANGED <<pend, core0, chosen>> /\ core1.pc = "submit" /\ core1'.pc = "idle"
        /\ arb.applied <= core1.req /\ core1.req <= pend.req
        /\ core1.key \in Key /\ core1.class \in Class
    BY <1>8 DEF SubmitCommit, Idle1, Loaded, ArbiterInv, TypeOK
  <2>2. /\ arb'.nextId \in Nat /\ arb'.nextId >= arb.nextId
        /\ \A id \in Nat : id <= arb.nextId /\ IsId(arb', id) => IsId(arb, id)
        /\ arb'.applied = core1.req
    BY <1>0, <1>8, <2>1, SubmitEffect
  <2>3. b \in ArbiterState /\ SoundRegistry(b)
    BY <1>0, ApplyPendingSound
  <2>4. /\ core1.req = arb.applied => b.explicit = arb.explicit /\ b.active = arb.active
        /\ core1.req # arb.applied =>
             b.explicit /\ b.active = IF IsId(arb, pend.id) THEN pend.id ELSE NONE
    BY <1>0, <2>1 DEF ApplyPending, ArbiterState
  <2>5. arb' = Submitted(b, core1.key, core1.class)
    BY <1>8 DEF SubmitCommit
  <2> HIDE DEF b
  <2>6. arb'.explicit = b.explicit /\ (b.explicit => arb'.active = b.active)
    BY <2>1, <2>3, <2>5, SubmittedSound
  <2>7. Lasting'
    BY <1>0, <2>1, <2>2 DEF Lasting
  <2>8. Withdrawn'
    BY <2>1 DEF Withdrawn
  <2>9. Carried'
    <3>1. chosen.made /\ ~arb'.explicit => core1.req = arb.applied /\ pend.req # arb.applied
      BY <2>4, <2>6 DEF Carried
    <3>2. ASSUME core0.pc = "idle", chosen.made, Stands'
          PROVE  /\ pend.req = core1.req => arb'.active = chosen.id
                 /\ pend.req # core1.req => pend.id = chosen.id
      <4>1. Stands
        BY <1>0, <2>1, <2>2, <3>2 DEF Stands, Lasting
      <4>2. CASE core1.req = arb.applied
        <5>1. pend.req = core1.req => arb'.active = b.active
          BY <2>6, <3>1, <3>2, <4>2
        <5>2. QED
          BY <2>4, <3>2, <4>1, <4>2, <5>1 DEF Carried
      <4>3. CASE core1.req # arb.applied
        <5>1. pend.req # arb.applied
          BY <1>0, <2>1, <4>3
        <5>2. pend.id = chosen.id
          BY <3>2, <4>1, <5>1 DEF Carried
        <5>3. arb'.active = IF IsId(arb, pend.id) THEN pend.id ELSE NONE
          BY <2>4, <2>6, <4>3
        <5>4. QED
          BY <4>1, <5>2, <5>3 DEF Stands
      <4>4. QED
        BY <4>2, <4>3
    <3>3. QED
      BY <2>1, <2>2, <3>1, <3>2 DEF Carried, Stands
  <2>10. QED
    BY <1>0, <2>7, <2>8, <2>9
<1>9. ASSUME NEW k \in Key, DisconnectBegin(k)
      PROVE  SelectionInv'
  BY <1>0, <1>9 DEF DisconnectBegin, Lasting, Withdrawn, Carried, Stands, IsId, Present
<1>10. CASE DisconnectCommit
  <2> DEFINE s == SlotOfKey(arb, core1.key)
  <2>1. /\ UNCHANGED <<pend, core0, chosen>> /\ core1.pc = "disconnect"
        /\ arb.applied <= core1.req /\ core1.req <= pend.req
        /\ PendingTarget => core1' = [core1 EXCEPT !.pc = "clear"]
        /\ ~PendingTarget => core1' = Idle1
    BY <1>10 DEF DisconnectCommit, Loaded, ArbiterInv
  <2>2. /\ s \in Present(arb)
        /\ arb' = Removed(arb, s, PendingTarget)
        /\ arb'.nextId = arb.nextId /\ arb'.applied = arb.applied
        /\ \A id : IsId(arb', id) => IsId(arb, id) /\ id # arb.sources[s].id
    BY <1>0, <1>10, DepartEffect
  <2>3. /\ PendingTarget \in BOOLEAN
        /\ PendingTarget => pend.req # arb.applied /\ pend.id = arb.sources[s].id
    BY <1>0, <2>1 DEF PendingTarget
  <2> HIDE DEF s
  <2>4. /\ PendingTarget => arb'.explicit /\ arb'.active = NONE
        /\ arb.explicit => arb'.explicit
        /\ ~PendingTarget /\ arb.sources[s].id # arb.active => arb'.active = arb.active
        /\ ~PendingTarget /\ ~arb.explicit => ~arb'.explicit
    BY <1>0, <2>2, <2>3, RemovedOwner
  <2>5. core1'.pc \in {"idle", "clear"} /\ (core1'.pc = "clear" => PendingTarget)
    BY <2>1 DEF Idle1, ArbiterInv, TypeOK
  <2>6. Lasting'
    BY <2>1, <2>2 DEF Lasting
  <2>7. Withdrawn'
    BY <2>4, <2>5 DEF Withdrawn
  <2>8. Carried'
    <3>1. chosen.made /\ ~arb'.explicit => pend.req # arb.applied
      BY <2>4 DEF Carried
    <3>2. ASSUME core0.pc = "idle", chosen.made, Stands'
          PROVE  /\ core1'.pc \notin {"clear", "settle"}
                 /\ pend.req = arb.applied => arb'.active = chosen.id
                 /\ pend.req # arb.applied => pend.id = chosen.id
      <4>1. Stands /\ chosen.id # arb.sources[s].id
        BY <2>1, <2>2, <3>2 DEF Stands, Present
      <4>2. /\ pend.req = arb.applied => arb.active = chosen.id
            /\ pend.req # arb.applied => pend.id = chosen.id
        BY <3>2, <4>1 DEF Carried
      <4>3. ~PendingTarget
        BY <2>3, <4>1, <4>2
      <4>4. QED
        BY <2>4, <2>5, <4>1, <4>2, <4>3
    <3>3. QED
      BY <2>1, <2>2, <3>1, <3>2 DEF Carried, Stands
  <2>9. QED
    BY <1>0, <2>6, <2>7, <2>8
<1>11. CASE ClearPending
  <2>1. /\ UNCHANGED <<arb, core0, chosen>> /\ core1.pc = "clear" /\ core1'.pc = "settle"
        /\ pend'.req = pend.req
    BY <1>0, <1>11 DEF ClearPending, ArbiterInv, TypeOK
  <2>2. QED
    BY <1>0, <2>1 DEF Lasting, Withdrawn, Carried, Stands, IsId, Present
<1>12. CASE SettlePending
  <2>1. /\ UNCHANGED <<pend, core0, chosen>> /\ core1.pc = "settle" /\ core1'.pc = "idle"
        /\ arb'.sources = arb.sources /\ arb'.active = arb.active
        /\ arb'.explicit = arb.explicit /\ arb'.nextId = arb.nextId
        /\ arb'.applied = pend.req
    BY <1>0, <1>12 DEF SettlePending, Idle1, ArbiterState
  <2>2. \A id : IsId(arb', id) <=> IsId(arb, id)
    BY <2>1 DEF IsId, Present
  <2>3. QED
    BY <1>0, <2>1, <2>2 DEF Lasting, Withdrawn, Carried, Stands
<1>13. CASE UNCHANGED avars
  BY <1>0, <1>13 DEF avars, Lasting, Withdrawn, Carried, Stands, IsId, Present
<1>14. QED
  BY <1>3, <1>4, <1>5, <1>6, <1>7, <1>8, <1>9, <1>10, <1>11, <1>12, <1>13 DEF RoutedStep

(* A selection is never lost, however the two cores interleave: once        *)
(* nothing is outstanding, the source chosen last owns the console or has   *)
(* left, and a choice of none leaves it unowned.  Only the selection itself *)
(* that crosses a withdrawal, or is answered beside an outstanding "none",  *)
(* is exempt: a later one is not (apply_pending,                            *)
(* ns2_input_arbiter_disconnect).                                           *)
THEOREM SelectionAlwaysHonoured == Spec => []SelectionHonoured
<1>1. Init => SelectionInv
  BY InvInit
     DEF Init, AInit, SelectionInv, Loaded, Lasting, Withdrawn, Carried, Idle0, Idle1,
         NoChoice
<1>2. SelectionInv /\ [Next]_vars => SelectionInv'
  BY RoutingStep, SelectionNext DEF SelectionInv
<1>3. SelectionInv => SelectionHonoured
  BY DEF SelectionInv, Carried, Stands, SelectionHonoured, Settled, IsId, Present
<1>4. QED
  BY <1>1, <1>2, <1>3, PTL DEF Spec
-----------------------------------------------------------------------------
(* The console slot.                                                       *)

(* A source of unknown class that registers does not take the console from *)
(* an owner: it is the last of the lowest class.                           *)
LEMMA NewcomerWaits ==
  ASSUME NEW a \in ArbiterState, SoundRegistry(a), Grouped(a), OwnerBest(a),
         NEW k \in Key, a.active # NONE
  PROVE  Registered(a, k, UNKNOWN).active = a.active
<1> DEFINE e == Enrolled(a, k, UNKNOWN)
<1>0. UNKNOWN \in Class
  BY DEF Class
<1>1. /\ e \in ArbiterState /\ SoundRegistry(e)
      /\ e.active = a.active /\ e.explicit = a.explicit
  BY <1>0, EnrolledSound
<1>2. \A t \in Present(e) :
        \/ t \in Present(a)
        \/ /\ t \notin Present(a)
           /\ e.sources[t].id = a.nextId + 1
           /\ e.sources[t].class = UNKNOWN
           /\ \A u \in Slot : u # t => e.sources[u] = a.sources[u]
  BY <1>0, EnrolledSources
<1> HIDE DEF e
<1>3. CASE ~ReEvaluates(a, k, UNKNOWN)
  BY <1>1, <1>3 DEF Registered, e
<1>4. CASE ReEvaluates(a, k, UNKNOWN) /\ e.explicit
  BY <1>1, <1>4 DEF Registered, AutoPolicy, e
<1>5. CASE ReEvaluates(a, k, UNKNOWN) /\ ~e.explicit
  <2>1. ~Holds(a, k) /\ Present(a) # Slot
    BY <1>5 DEF ReEvaluates
  <2>2. PICK o \in Present(a) : a.sources[o].id = a.active
    BY DEF SoundRegistry, OwnerRegistered, IsId
  <2>3. IsPreferred(a, o)
    <3>1. a.sources[o].group = 0
      BY <2>2, StandaloneAssumption DEF Grouped, SoundRegistry
    <3>2. QED
      BY <1>1, <1>5, <2>2, <3>1 DEF OwnerBest
  <2>4. \E n \in Slot : /\ n \notin Present(a)
                        /\ e.sources[n].id = a.nextId + 1
                        /\ e.sources[n].class = UNKNOWN
                        /\ \A u \in Slot : u # n => e.sources[u] = a.sources[u]
    <3> DEFINE n == Lowest(Slot \ Present(a))
               new == [key |-> k, id |-> a.nextId + 1, class |-> UNKNOWN, group |-> GroupOf[k]]
    <3>1. n \in Slot /\ n \notin Present(a)
      <4>1. Slot \ Present(a) # {}
        BY <2>1 DEF Present
      <4>2. QED
        BY <4>1, LowestIn
    <3>2. e.sources = [a.sources EXCEPT ![n] = new]
      BY <2>1 DEF Enrolled, ArbiterState, e
    <3> HIDE DEF n
    <3>3. QED
      BY <3>1, <3>2 DEF ArbiterState
  <2>5. PICK n \in Slot : /\ n \notin Present(a)
                          /\ e.sources[n].id = a.nextId + 1
                          /\ e.sources[n].class = UNKNOWN
                          /\ \A u \in Slot : u # n => e.sources[u] = a.sources[u]
    BY <2>4
  <2>6. o \in Present(e) /\ e.sources[o] = a.sources[o] /\ o # n
    BY <2>5 DEF Present
  <2>7. ASSUME NEW t \in Present(e) \ {o}
        PROVE  Outranks(e.sources[o], e.sources[t])
    <3>1. CASE t = n
      <4>1. e.sources[o].class \in 0 .. 2 /\ e.sources[o].id \in Nat
        BY <1>1, <2>6 DEF Present, ArbiterState, Source, Class, UNKNOWN, BRIDGE, DIRECT
      <4>2. e.sources[o].id <= a.nextId /\ a.nextId \in Nat
        BY <2>6 DEF SoundRegistry, ArbiterState
      <4>3. QED
        BY <2>5, <3>1, <4>1, <4>2 DEF Outranks, UNKNOWN
    <3>2. CASE t # n
      <4>1. t \in Present(a) /\ e.sources[t] = a.sources[t]
        BY <2>5, <3>2 DEF Present
      <4>2. QED
        BY <2>3, <2>6, <4>1 DEF IsPreferred
    <3>3. QED
      BY <3>1, <3>2
  <2>8. IsPreferred(e, o)
    BY <2>6, <2>7 DEF IsPreferred
  <2>9. Wanted(e) = a.active
    <3>1. PICK p \in Present(e) : IsPreferred(e, p) /\ Wanted(e) = e.sources[p].id
      BY <1>1, <2>6, WantedIs DEF SoundRegistry
    <3>2. p = o
      BY <1>1, <2>8, <3>1, PreferredOne
    <3>3. QED
      BY <2>2, <2>6, <3>1, <3>2
  <2>10. AutoPolicy(e) = e
    BY <1>1, <2>9 DEF AutoPolicy
  <2>11. QED
    BY <1>1, <1>5, <2>10 DEF Registered, e
<1>6. QED
  BY <1>3, <1>4, <1>5

(* What core 1 owes the slot, and when.                                    *)
Owed ==
  /\ todo \in [neutral : BOOLEAN, publish : Nat]
  /\ core1.pc \in {"submit", "disconnect"} => todo = Nothing
  /\ core1.pc \in {"clear", "settle"} => todo.neutral = TRUE /\ todo.publish = NONE
  /\ todo.publish # NONE => core1.pc = "idle" /\ todo.publish = arb.active
  /\ core1.pc = "submit" /\ job.kind = "note" => core1.class = UNKNOWN

(* The slot is neutral or shows the owner, with no selection outstanding,   *)
(* unless one of the cores still owes it a neutral state or a selection was *)
(* queued between the last report's acceptance and its publication.         *)
Shown ==
  /\ overtaken \in BOOLEAN
  /\ owes0 = FALSE /\ todo.neutral = FALSE /\ overtaken = FALSE =>
       console = NONE \/ (console = arb.active /\ pend.req = arb.applied)

SlotInv == BestInv /\ Loaded /\ Owed /\ Shown

(* Without composites the router claims no class that ANext leaves out.     *)
LEMMA StandaloneStep == [RoutedStep]_avars => [ANext]_avars
<1>1. \A k \in Key : ClassOf(k) = Class
  BY StandaloneAssumption DEF ClassOf
<1>2. QED
  BY <1>1 DEF RoutedStep, ANext

(* A report that is submitted: what is owed, and that the slot stays right. *)
LEMMA DecideKeeps ==
  ASSUME SlotInv, BestInv', Decide
  PROVE  Owed' /\ Shown'
<1> DEFINE b == ApplyPending(arb, core1.req, pend.id)
           k == core1.key
           c == core1.class
           e == Enrolled(b, k, c)
           r == Registered(b, k, c)
           switched == ReEvaluates(b, k, c) /\ AutoSwitched(e)
           entry == IF Accepted(arb', k) THEN arb'.sources[SlotOfKey(arb', k)].id ELSE NONE
<1>1. /\ ArbiterInv /\ BestInv /\ Owed /\ Shown
      /\ core1.pc = "submit" /\ core1'.pc = "idle"
      /\ UNCHANGED <<pend, console, owes0, overtaken>>
      /\ todo = Nothing /\ arb.applied <= core1.req /\ core1.req <= pend.req
      /\ k \in Key /\ c \in Class
      /\ arb' = Submitted(b, k, c)
  BY DEF SlotInv, BestInv, Owed, Loaded, Decide, SubmitCommit, Idle1, ArbiterInv, TypeOK
<1>2. /\ arb \in ArbiterState /\ SoundRegistry(arb) /\ Grouped(arb) /\ OwnerBest(arb)
      /\ arb' \in ArbiterState /\ SoundRegistry(arb') /\ Grouped(arb')
      /\ pend.id \in Nat /\ pend.req \in Nat
  BY <1>1 DEF BestInv, ArbiterInv, TypeOK, RegistrySound
<1>3. arb'.applied = core1.req /\ core1.req \in Nat /\ arb.applied \in Nat
  BY <1>1, SubmitEffect DEF Decide, ArbiterInv, TypeOK, ArbiterState
<1>4. b \in ArbiterState /\ SoundRegistry(b) /\ (core1.req = arb.applied => b = arb)
  BY <1>1, <1>2, <1>3, ApplyPendingSound DEF ApplyPending
<1> HIDE DEF b
<1>5. arb'.active = r.active
  <2>1. r \in ArbiterState
    BY <1>1, <1>4, RegisteredSound
  <2> HIDE DEF r
  <2>2. arb' \in {r, [r EXCEPT !.awaiting = FALSE]}
    BY <1>1 DEF Submitted, r
  <2>3. QED
    BY <2>1, <2>2 DEF ArbiterState
<1>6. entry # NONE => entry = arb'.active
  <2>1. ASSUME Accepted(arb', k)
        PROVE  arb'.sources[SlotOfKey(arb', k)].id = arb'.active
    <3>1. SlotOfKey(arb', k) \in Present(arb')
      BY <1>2, <2>1, SlotOfKeyIn DEF Accepted
    <3>2. arb'.sources[SlotOfKey(arb', k)].group = 0
      BY <1>2, <3>1, StandaloneAssumption DEF Grouped, SoundRegistry
    <3>3. QED
      BY <2>1, <3>2 DEF Accepted, OwnsConsole
  <2>2. QED
    BY <2>1
<1>7. entry \in Nat
  BY <1>2, <1>6 DEF ArbiterState, NONE
<1>8. switched \in BOOLEAN
  OBVIOUS
<1>9. todo' = IF job.kind = "note" THEN Nothing ELSE [neutral |-> switched, publish |-> entry]
  BY <1>1 DEF Decide, b
<1>10. ASSUME console # NONE, owes0 = FALSE, todo'.neutral = FALSE, overtaken = FALSE
       PROVE  arb'.active = console /\ pend.req = arb'.applied
  <2>1. console = arb.active /\ pend.req = arb.applied
    BY <1>1, <1>10 DEF Shown, Nothing
  <2>2. core1.req = arb.applied /\ core1.req = pend.req
    BY <1>1, <1>2, <1>3, <2>1
  <2>b. b = arb
    BY <1>4, <2>2
  <2>3. CASE job.kind = "note"
    <3>1. c = UNKNOWN
      BY <1>1, <2>3 DEF Owed
    <3>2. QED
      BY <1>1, <1>2, <1>3, <1>5, <1>10, <2>1, <2>2, <2>b, <3>1, NewcomerWaits
  <2>4. CASE job.kind # "note"
    <3>1. ~switched
      BY <1>8, <1>9, <1>10, <2>4
    <3>2. e.active = arb.active
      BY <1>1, <1>2, <2>b, EnrolledSound
    <3>3. r = IF ReEvaluates(b, k, c) THEN AutoPolicy(e) ELSE e
      BY DEF Registered
    <3>4. r.active = e.active
      BY <1>10, <2>1, <3>1, <3>2, <3>3 DEF AutoSwitched
    <3>5. QED
      BY <1>3, <1>5, <2>1, <2>2, <3>2, <3>4
  <2>5. QED
    BY <2>3, <2>4
<1> HIDE DEF entry, switched, k, c
<1>11. Owed'
  <2>1. todo' \in [neutral : BOOLEAN, publish : Nat]
    BY <1>7, <1>8, <1>9 DEF Nothing, NONE
  <2>2. todo'.publish # NONE => todo'.publish = arb'.active
    BY <1>6, <1>9 DEF Nothing
  <2>3. QED
    BY <1>1, <2>1, <2>2 DEF Owed
<1>12. Shown'
  BY <1>1, <1>10 DEF Shown
<1>13. QED
  BY <1>11, <1>12

(* A departure: the slot is owed a neutral state if the owner left.         *)
LEMMA RemoveKeeps ==
  ASSUME SlotInv, Remove
  PROVE  Owed' /\ Shown'
<1> DEFINE s == SlotOfKey(arb, core1.key)
           was == WasActive(arb, s, PendingTarget)
<1>1. /\ ArbiterInv /\ BestInv /\ Owed /\ Shown
      /\ core1.pc = "disconnect" /\ UNCHANGED <<pend, console, owes0, overtaken>>
      /\ todo = Nothing /\ DisconnectCommit
      /\ PendingTarget => core1' = [core1 EXCEPT !.pc = "clear"]
      /\ ~PendingTarget => core1' = Idle1
      /\ todo' = [Nothing EXCEPT !.neutral = was]
  BY DEF SlotInv, BestInv, Owed, Remove, DisconnectCommit
<1>2. /\ s \in Present(arb) /\ arb' = Removed(arb, s, PendingTarget)
      /\ arb'.applied = arb.applied
  BY <1>1, DepartEffect
<1>3. /\ arb \in ArbiterState /\ SoundRegistry(arb) /\ Grouped(arb)
      /\ PendingTarget \in BOOLEAN
  BY <1>1 DEF BestInv, ArbiterInv, TypeOK, RegistrySound, PendingTarget
<1> HIDE DEF s
<1>4. arb.sources[s].group = 0
  BY <1>2, <1>3, StandaloneAssumption DEF Grouped, SoundRegistry
<1>5. was \in BOOLEAN /\ (was <=> PendingTarget \/ arb.sources[s].id = arb.active)
  BY <1>4 DEF WasActive, Survivors
<1> HIDE DEF was
<1>6. todo' \in [neutral : BOOLEAN, publish : Nat] /\ todo'.neutral = was /\ todo'.publish = NONE
  BY <1>1, <1>5 DEF Nothing, NONE
<1>7. core1'.pc \in {"idle", "clear"} /\ (core1'.pc = "clear" => PendingTarget)
  BY <1>1 DEF Idle1, ArbiterInv, TypeOK
<1>8. Owed'
  BY <1>5, <1>6, <1>7 DEF Owed
<1>9. ASSUME was = FALSE
      PROVE  arb'.active = arb.active
  BY <1>2, <1>3, <1>5, <1>9, RemovedOwner
<1>10. Shown'
  BY <1>1, <1>2, <1>5, <1>6, <1>9 DEF Shown, Nothing
<1>11. QED
  BY <1>8, <1>10

(* Every step of the two cores keeps the slot right.                        *)
LEMMA SlotNext == SlotInv /\ [Next]_vars => SlotInv'
<1> SUFFICES ASSUME SlotInv, [Next]_vars
             PROVE  SlotInv'
  OBVIOUS
<1>0. ArbiterInv /\ BestInv /\ Loaded /\ Owed /\ Shown
  BY DEF SlotInv, BestInv
<1>1. BestInv' /\ Loaded'
  BY <1>0, RoutingStep, StandaloneStep, BestNext, LoadedNext
<1> SUFFICES Owed' /\ Shown'
  BY <1>1 DEF SlotInv
<1>2. CASE Core0Next
  <2>1. UNCHANGED <<todo, core1, arb, job>>
    BY <1>2 DEF Core0Next, RequestValidate, RequestRepeated, RequestStore, RequestBump,
                RequestNeutralize, rvars, avars, Validate, AnswerRepeated, StoreId, BumpRequest
  <2>2. Owed'
    BY <1>0, <2>1 DEF Owed
  <2>3. CASE (\E id \in Choice : RequestValidate(id) \/ RequestRepeated(id)) \/ RequestStore
    <3>1. UNCHANGED <<arb, console, owes0, todo, overtaken>> /\ pend'.req = pend.req
      BY <1>0, <2>3 DEF RequestValidate, RequestRepeated, RequestStore, rvars, Validate,
                        AnswerRepeated, StoreId, ArbiterInv, TypeOK
    <3>2. QED
      BY <1>0, <2>2, <3>1 DEF Shown
  <2>4. CASE RequestBump
    BY <1>0, <2>2, <2>4 DEF RequestBump, Shown
  <2>5. CASE RequestNeutralize
    BY <2>2, <2>5 DEF RequestNeutralize, Show, Shown
  <2>6. QED
    BY <1>2, <2>3, <2>4, <2>5 DEF Core0Next
<1>3. ASSUME NEW k \in Key, Connect(k)
      PROVE  Owed' /\ Shown'
  BY <1>0, <1>3 DEF Connect, avars, Owed, Shown, Core1Free
<1>4. ASSUME NEW k \in Key, NEW c, SubmitBegin(k, c), todo = Nothing,
             UNCHANGED <<console, todo, owes0, overtaken>>,
             job'.kind = "note" => c = UNKNOWN
      PROVE  Owed' /\ Shown'
  BY <1>0, <1>4 DEF SubmitBegin, Owed, Shown, Nothing
<1>5. CASE Decide
  BY <1>1, <1>5, DecideKeeps
<1>6. CASE Neutralize
  <2>1. /\ UNCHANGED <<arb, pend, core1>> /\ console' = NONE /\ core1.pc = "idle"
        /\ overtaken' = FALSE
        /\ todo' = [todo EXCEPT !.neutral = FALSE]
    BY <1>6 DEF Neutralize, Show, avars
  <2>2. todo' \in [neutral : BOOLEAN, publish : Nat] /\ todo'.publish = todo.publish
    BY <1>0, <2>1 DEF Owed
  <2>3. QED
    BY <1>0, <2>1, <2>2 DEF Owed, Shown
<1>7. CASE Publish
  <2>1. /\ UNCHANGED <<arb, pend, core1>> /\ core1.pc = "idle" /\ todo' = Nothing
        /\ console' \in {todo.publish, NONE}
        /\ overtaken' = (console' # NONE /\ pend.req # arb.applied)
        /\ todo.publish = arb.active
    BY <1>0, <1>7 DEF Publish, Show, avars, Owed
  <2>2. QED
    BY <2>1 DEF Owed, Shown, Nothing, NONE
<1>8. CASE Remove
  BY <1>8, RemoveKeeps
<1>9. CASE RemoveClear \/ RemoveSettle
  <2>1. /\ UNCHANGED <<console, todo, owes0, overtaken>> /\ core1.pc \in {"clear", "settle"}
        /\ core1'.pc \in {"settle", "idle"}
    BY <1>0, <1>9 DEF RemoveClear, RemoveSettle, ClearPending, SettlePending, rvars, Idle1,
                      ArbiterInv, TypeOK
  <2>2. QED
    BY <1>0, <2>1 DEF Owed, Shown
<1>10. ASSUME NEW k \in Key, Unplug(k)
       PROVE  Owed' /\ Shown'
  <2>1. /\ UNCHANGED <<arb, pend, console, todo, owes0, overtaken>> /\ todo = Nothing
        /\ core1'.pc \in {"idle", "disconnect"}
    BY <1>10 DEF Unplug, DisconnectBegin, avars
  <2>2. QED
    BY <1>0, <2>1 DEF Owed, Shown, Nothing
<1>11. CASE UNCHANGED vars
  BY <1>0, <1>11 DEF vars, Owed, Shown
<1>12. CASE Core1Step
  BY <1>5, <1>6, <1>7, <1>8, <1>9, <1>12 DEF Core1Step
<1>13. CASE \E k \in Key : Note(k) \/ StopLink(k)
  BY <1>4, <1>13 DEF Note, StopLink, Core1Free
<1>14. CASE \E k \in Key, c \in {BRIDGE, DIRECT}, held \in BOOLEAN : Report(k, c, held)
  BY <1>4, <1>14 DEF Report, Core1Free
<1>15. QED
  BY <1>2, <1>3, <1>10, <1>11, <1>12, <1>13, <1>14 DEF Next

(* Whenever neither core is in the middle of something, slot 0 is neutral   *)
(* or shows the owner, and it is neutral while a selection waits, however   *)
(* the cores interleave; only a report that was accepted before a selection *)
(* and published after it stays, until the slot is next written             *)
(* (ns2_active_input_request, router_submit_input).                         *)
THEOREM ConsoleAlwaysOwners == Spec => []ConsoleShowsOwner
<1>1. Init => SlotInv
  <2>1. Init => BestInv
    BY BestInit DEF Init
  <2>2. Init => core1.pc = "idle" /\ console = NONE /\ todo = Nothing /\ overtaken = FALSE
    BY DEF Init, AInit, Idle1
  <2>3. Init => Loaded /\ Shown
    BY <2>2 DEF Loaded, Shown
  <2>4. Init => Owed
    <3>1. Nothing \in [neutral : BOOLEAN, publish : Nat] /\ Nothing.publish = NONE
      BY DEF Nothing, NONE
    <3>2. QED
      BY <2>2, <3>1 DEF Owed
  <2>5. QED
    BY <2>1, <2>3, <2>4 DEF SlotInv
<1>2. SlotInv => ConsoleShowsOwner
  BY DEF SlotInv, Shown, ConsoleShowsOwner, Quiet, Nothing
<1>3. SlotInv /\ [Next]_vars => SlotInv'
  BY SlotNext
<1>4. QED
  BY <1>1, <1>2, <1>3, PTL DEF Spec
=============================================================================
