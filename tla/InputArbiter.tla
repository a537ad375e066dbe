---------------------------- MODULE InputArbiter ----------------------------
(***************************************************************************)
(* Console ownership: firmware/src/input/ns2_input_arbiter.c, driven from  *)
(* two cores.                                                              *)
(*                                                                         *)
(* Core 1 (Bluetooth) is the only writer of the source registry.  Core 0   *)
(* (management, USB) only queues "make source N active" through two shared *)
(* words, pending_id and pending_request, and never looks at the registry  *)
(* except through a seqlock snapshot.  The operators below are the pure    *)
(* functions of the C file over one arbiter record; the actions are the    *)
(* loads and stores of the shared words, each on its own, so every order   *)
(* the two cores can produce is a behaviour.                               *)
(***************************************************************************)
EXTENDS Naturals, FiniteSets

CONSTANTS
  Key,          \* connection keys: transport, address, HID connection generation
  NoKey,        \* the key of an empty registry slot
  GroupOf,      \* composite handle a key registers with; 0 for a standalone source
  MaxSources,   \* registry capacity, NS2_INPUT_ARBITER_MAX_SOURCES
  MaxId,        \* bound on the ids handed out
  MaxRequest,   \* bound on the selections queued
  MaxReset      \* bound on ns2_active_input_reset() calls

ASSUME KeyAssumption == NoKey \notin Key
ASSUME GroupAssumption == GroupOf \in [Key -> Nat]
ASSUME BoundAssumption ==
  /\ MaxSources \in Nat \ {0}
  /\ MaxId \in Nat
  /\ MaxRequest \in Nat
  /\ MaxReset \in Nat

NONE == 0       \* NS2_INPUT_SOURCE_ID_NONE

UNKNOWN == 0    \* registered by a connection hook, no report seen yet
BRIDGE  == 1    \* the companion application
DIRECT  == 2    \* a controller paired with the adapter
Class == {UNKNOWN, BRIDGE, DIRECT}

Slot == 1 .. MaxSources
Empty == [key |-> NoKey, id |-> NONE, class |-> UNKNOWN, group |-> 0]
Source == [key : Key \cup {NoKey}, id : Nat, class : Class, group : Nat]
-----------------------------------------------------------------------------
(* The registry, as functions of one arbiter record a.                     *)

ArbiterInit ==
  [sources |-> [s \in Slot |-> Empty], nextId |-> 0, active |-> NONE,
   explicit |-> FALSE, awaiting |-> FALSE, applied |-> 0]

Present(a) == {s \in Slot : a.sources[s].id # NONE}
Holds(a, k) == \E s \in Present(a) : a.sources[s].key = k
SlotOfKey(a, k) == CHOOSE s \in Present(a) : a.sources[s].key = k
IsId(a, id) == \E s \in Present(a) : a.sources[s].id = id
SlotOfId(a, id) == CHOOSE s \in Present(a) : a.sources[s].id = id
Lowest(S) == CHOOSE s \in S : \A t \in S : s <= t

ActiveGroup(a) ==
  IF IsId(a, a.active) THEN a.sources[SlotOfId(a, a.active)].group ELSE 0

OwnsConsole(a, s) ==
  /\ s \in Present(a)
  /\ a.active # NONE
  /\ \/ a.sources[s].id = a.active
     \/ /\ a.sources[s].group # 0
        /\ a.sources[s].group = ActiveGroup(a)

\* Slip: registry order stands for the order of registration.
IsPreferredBySlot(a, s) ==
  /\ s \in Present(a)
  /\ \A t \in Present(a) \ {s} :
       \/ a.sources[s].class > a.sources[t].class
       \/ a.sources[s].class = a.sources[t].class /\ s < t

\* Higher class first, then the lower id: the earlier registration.
Outranks(x, y) == x.class > y.class \/ (x.class = y.class /\ x.id < y.id)

IsPreferred(a, s) ==
  /\ s \in Present(a)
  /\ \A t \in Present(a) \ {s} : Outranks(a.sources[s], a.sources[t])

Wanted(a) ==
  IF Present(a) = {} THEN NONE
  ELSE a.sources[CHOOSE s \in Slot : IsPreferred(a, s)].id

SameComposite(a, id) ==
  /\ id # NONE
  /\ a.sources[SlotOfId(a, id)].group # 0
  /\ a.sources[SlotOfId(a, id)].group = ActiveGroup(a)

\* Slip: the policy also runs against an explicit choice.
AutoPolicyAlways(a) ==
  LET w == Wanted(a) IN
  IF w = a.active \/ SameComposite(a, w) THEN a
  ELSE [a EXCEPT !.active = w, !.awaiting = a.active # NONE /\ w # NONE]

AutoPolicy(a) ==
  LET w == Wanted(a) IN
  IF a.explicit \/ w = a.active \/ SameComposite(a, w) THEN a
  ELSE [a EXCEPT !.active = w, !.awaiting = a.active # NONE /\ w # NONE]

\* apply_auto_policy() returned true: a live owner lost the console.
AutoSwitched(a) == a.active # NONE /\ AutoPolicy(a).active # a.active

\* Slip: the raw-report hook's UNKNOWN overwrites an established class.
EnrolledForgetful(a, k, c) ==
  IF Holds(a, k)
  THEN LET s == SlotOfKey(a, k) IN
       [a EXCEPT !.sources[s].group = GroupOf[k], !.sources[s].class = c]
  ELSE IF Present(a) = Slot THEN a
  ELSE [a EXCEPT !.sources[Lowest(Slot \ Present(a))] =
                   [key |-> k, id |-> a.nextId + 1, class |-> c, group |-> GroupOf[k]],
                 !.nextId = @ + 1]

\* Slip: the slot index serves as the id.
EnrolledBySlot(a, k, c) ==
  IF Holds(a, k)
  THEN LET s == SlotOfKey(a, k) IN
       [a EXCEPT !.sources[s].group = GroupOf[k],
                 !.sources[s].class = IF c = UNKNOWN THEN @ ELSE c]
  ELSE IF Present(a) = Slot THEN a
  ELSE LET s == Lowest(Slot \ Present(a)) IN
       [a EXCEPT !.sources[s] = [key |-> k, id |-> s, class |-> c, group |-> GroupOf[k]],
                 !.nextId = @ + 1]

\* register_source() up to the policy call.
Enrolled(a, k, c) ==
  IF Holds(a, k)
  THEN LET s == SlotOfKey(a, k) IN
       [a EXCEPT !.sources[s].group = GroupOf[k],
                 !.sources[s].class = IF c = UNKNOWN THEN @ ELSE c]
  ELSE IF Present(a) = Slot THEN a
  ELSE [a EXCEPT !.sources[Lowest(Slot \ Present(a))] =
                   [key |-> k, id |-> a.nextId + 1, class |-> c, group |-> GroupOf[k]],
                 !.nextId = @ + 1]

\* The policy runs for a new source and for a genuine change of class.
ReEvaluates(a, k, c) ==
  IF Holds(a, k)
  THEN c # UNKNOWN /\ a.sources[SlotOfKey(a, k)].class # c
  ELSE Present(a) # Slot

Registered(a, k, c) ==
  IF ReEvaluates(a, k, c) THEN AutoPolicy(Enrolled(a, k, c)) ELSE Enrolled(a, k, c)

\* Slip: the target may have disconnected since core 0 validated it.
ApplyUnchecked(a, req, id) ==
  IF req = a.applied THEN a
  ELSE [a EXCEPT !.active = id, !.awaiting = id # NONE,
                 !.explicit = TRUE, !.applied = req]

\* Slip: the request counts as applied and the owner stays.
ApplyCounted(a, req, id) ==
  IF req = a.applied THEN a ELSE [a EXCEPT !.explicit = TRUE, !.applied = req]

ApplyPending(a, req, id) ==
  IF req = a.applied THEN a
  ELSE [a EXCEPT !.active   = IF IsId(a, id) THEN id ELSE NONE,
                 !.awaiting = IsId(a, id),
                 !.explicit = TRUE,
                 !.applied  = req]

\* An accepted report is the fresh report the owner was waiting for.
Accepted(a, k) == Holds(a, k) /\ OwnsConsole(a, SlotOfKey(a, k))
Submitted(a, k, c) ==
  LET b == Registered(a, k, c) IN
  IF Accepted(b, k) THEN [b EXCEPT !.awaiting = FALSE] ELSE b

Survivors(a, g) == {s \in Present(a) : g # 0 /\ a.sources[s].group = g}

\* ns2_input_arbiter_disconnect() up to the final release of the request;
\* pending says the departing source is the selection still in flight.
Removed(a, s, pending) ==
  LET gone == a.sources[s]
      b == [a EXCEPT !.sources[s] = Empty]
      left == Survivors(b, gone.group)
      c == [b EXCEPT !.active = NONE, !.awaiting = FALSE]
  IN  IF gone.id # a.active /\ ~pending THEN b
      ELSE IF left # {} /\ ~pending THEN [b EXCEPT !.active = b.sources[Lowest(left)].id]
      ELSE IF pending THEN [c EXCEPT !.explicit = TRUE]
      ELSE AutoPolicy(c)

\* The was_active out-parameter: the caller owes the console a neutral state.
WasActive(a, s, pending) ==
  LET gone == a.sources[s] IN
  \/ pending
  \/ gone.id = a.active /\ Survivors([a EXCEPT !.sources[s] = Empty], gone.group) = {}
-----------------------------------------------------------------------------
VARIABLES
  arb,      \* the arbiter object but for its two shared words
  pend,     \* pending_id and pending_request, written by core 0
  core0,    \* where core 0 is in ns2_active_input_request()
  core1,    \* where core 1 is in submit or disconnect
  chosen,   \* history: the last selection core 0 answered, its id and source;
            \* NoChoice when that answer was Crossed or Undercut
  issued,   \* history: the ids handed out since boot
  resets    \* arbiter resets so far

avars == <<arb, pend, core0, core1, chosen, issued, resets>>

Idle0 == [pc |-> "idle", id |-> NONE, key |-> NoKey]
Idle1 == [pc |-> "idle", key |-> NoKey, class |-> UNKNOWN, req |-> 0]
NoChoice == [made |-> FALSE, id |-> NONE, key |-> NoKey]

Choice == {NONE} \cup 1 .. MaxId   \* "input active none" is a selection too

\* status_sequence is odd: a snapshot taken by core 0 spins.
InWindow == core1.pc # "idle"

AInit ==
  /\ arb = ArbiterInit
  /\ pend = [id |-> NONE, req |-> 0]
  /\ core0 = Idle0
  /\ core1 = Idle1
  /\ chosen = NoChoice
  /\ issued = {}
  /\ resets = 0
-----------------------------------------------------------------------------
(* Core 0.                                                                 *)

\* A choice of the settled explicit owner: nothing to queue.
Repeated(id) ==
  /\ arb.explicit
  /\ arb.active = id
  /\ pend.req = arb.applied \/ pend.id = NONE
  /\ ~arb.awaiting

TargetKey(id) == IF id = NONE THEN NoKey ELSE arb.sources[SlotOfId(arb, id)].key

\* A selection of none is outstanding: its pending_id is 0, which Repeated takes
\* for "nothing outstanding", so the repeat is answered and none applied later.
Undercut == pend.req # arb.applied

\* A repeated selection is answered at once.
AnswerRepeated(id) ==
  /\ core0.pc = "idle"
  /\ ~InWindow
  /\ id = NONE \/ IsId(arb, id)
  /\ Repeated(id)
  /\ chosen' = IF Undercut THEN NoChoice ELSE [made |-> TRUE, id |-> id, key |-> TargetKey(id)]
  /\ UNCHANGED <<arb, pend, core0, core1, issued, resets>>

\* The snapshot is stable; the id is none or names a registered source.
Validate(id) ==
  /\ core0.pc = "idle"
  /\ pend.req < MaxRequest
  /\ ~InWindow
  /\ id = NONE \/ IsId(arb, id)
  /\ ~Repeated(id)
  /\ core0' = [pc |-> "store", id |-> id, key |-> TargetKey(id)]
  /\ UNCHANGED <<arb, pend, core1, chosen, issued, resets>>

\* ns2_input_arbiter_queue_active(): the id first ...
StoreId ==
  /\ core0.pc = "store"
  /\ pend' = [pend EXCEPT !.id = core0.id]
  /\ core0' = [core0 EXCEPT !.pc = "bump"]
  /\ UNCHANGED <<arb, core1, chosen, issued, resets>>

\* Core 1 is taking an earlier selection back, or did between the two stores: it
\* clears pending_id, or counts the new request as applied.
Crossed == core1.pc \in {"clear", "settle"} \/ pend.id # core0.id

\* ... then the request counter, which is what core 1 looks at.
BumpRequest ==
  /\ core0.pc = "bump"
  /\ pend' = [pend EXCEPT !.req = @ + 1]
  /\ chosen' = IF Crossed THEN NoChoice ELSE [made |-> TRUE, id |-> core0.id, key |-> core0.key]
  /\ core0' = Idle0
  /\ UNCHANGED <<arb, core1, issued, resets>>
-----------------------------------------------------------------------------
(* Core 1.                                                                 *)

\* status_begin() and apply_pending()'s load of pending_request.
SubmitBegin(k, c) ==
  /\ core1.pc = "idle"
  /\ Holds(arb, k) \/ Present(arb) = Slot \/ arb.nextId < MaxId
  /\ core1' = [pc |-> "submit", key |-> k, class |-> c, req |-> pend.req]
  /\ UNCHANGED <<arb, pend, core0, chosen, issued, resets>>

\* The load of pending_id and the rest of ns2_input_arbiter_submit_group().
SubmitCommit ==
  /\ core1.pc = "submit"
  /\ arb' = Submitted(ApplyPending(arb, core1.req, pend.id), core1.key, core1.class)
  /\ issued' = issued \cup {arb'.sources[s].id : s \in Present(arb')}
  /\ core1' = Idle1
  /\ UNCHANGED <<pend, core0, chosen, resets>>

\* status_begin() and the load of pending_request; an unknown key returns.
DisconnectBegin(k) ==
  /\ core1.pc = "idle"
  /\ Holds(arb, k)
  /\ core1' = [pc |-> "disconnect", key |-> k, class |-> UNKNOWN, req |-> pend.req]
  /\ UNCHANGED <<arb, pend, core0, chosen, issued, resets>>

PendingTarget ==
  /\ core1.req # arb.applied
  /\ pend.id = arb.sources[SlotOfKey(arb, core1.key)].id

DisconnectCommit ==
  /\ core1.pc = "disconnect"
  /\ arb' = Removed(arb, SlotOfKey(arb, core1.key), PendingTarget)
  /\ core1' = IF PendingTarget THEN [core1 EXCEPT !.pc = "clear"] ELSE Idle1
  /\ UNCHANGED <<pend, core0, chosen, issued, resets>>

\* The lost selection is taken back: pending_id is cleared ...
ClearPending ==
  /\ core1.pc = "clear"
  /\ pend' = [pend EXCEPT !.id = NONE]
  /\ core1' = [core1 EXCEPT !.pc = "settle"]
  /\ UNCHANGED <<arb, core0, chosen, issued, resets>>

\* Slip: the counter is read ahead of core 0.
SettlePendingAhead ==
  /\ core1.pc = "settle"
  /\ arb' = [arb EXCEPT !.applied = pend.req + 1]
  /\ core1' = Idle1
  /\ UNCHANGED <<pend, core0, chosen, issued, resets>>

\* ... and whatever pending_request now holds counts as applied.
SettlePending ==
  /\ core1.pc = "settle"
  /\ arb' = [arb EXCEPT !.applied = pend.req]
  /\ core1' = Idle1
  /\ UNCHANGED <<pend, core0, chosen, issued, resets>>

\* ns2_active_input_reset(): memset of the whole object, shared words included.
Reset ==
  /\ core1.pc = "idle"
  /\ resets < MaxReset
  /\ arb' = ArbiterInit
  /\ pend' = [id |-> NONE, req |-> 0]
  /\ chosen' = NoChoice
  /\ resets' = resets + 1
  /\ UNCHANGED <<core0, core1, issued>>
-----------------------------------------------------------------------------
\* Composite members are keyboards and mice: they register on a report, as DIRECT.
ClassOf(k) == IF GroupOf[k] = 0 THEN Class ELSE {DIRECT}

ANext ==
  \/ \E id \in Choice : Validate(id)
  \/ \E id \in Choice : AnswerRepeated(id)
  \/ StoreId
  \/ BumpRequest
  \/ \E k \in Key : \E c \in ClassOf(k) : SubmitBegin(k, c)
  \/ SubmitCommit
  \/ \E k \in Key : DisconnectBegin(k)
  \/ DisconnectCommit
  \/ ClearPending
  \/ SettlePending
  \/ Reset

ASpec == AInit /\ [][ANext]_avars
-----------------------------------------------------------------------------
(* Properties.                                                             *)

ArbiterState ==
  [sources : [Slot -> Source], nextId : Nat, active : Nat,
   explicit : BOOLEAN, awaiting : BOOLEAN, applied : Nat]

(* Every variable has its type, and core 1 never claims to have applied a   *)
(* request that core 0 has not queued (pending_request, applied_request).   *)
TypeOK ==
  /\ arb \in ArbiterState
  /\ pend \in [id : Nat, req : Nat]
  /\ core0 \in [pc : {"idle", "store", "bump"}, id : Nat, key : Key \cup {NoKey}]
  /\ core1 \in [pc : {"idle", "submit", "disconnect", "clear", "settle"},
                key : Key \cup {NoKey}, class : Class, req : Nat]
  /\ chosen \in [made : BOOLEAN, id : Nat, key : Key \cup {NoKey}]
  /\ issued \in SUBSET Nat
  /\ resets \in Nat
  /\ arb.applied <= pend.req

(* Two registered sources never share an id or a connection key, so a       *)
(* selection names one source and a disconnect removes exactly one.         *)
UniqueSources(a) ==
  \A s, t \in Present(a) : s # t =>
    /\ a.sources[s].id # a.sources[t].id
    /\ a.sources[s].key # a.sources[t].key

(* The active id never dangles: whatever order selections and disconnects   *)
(* arrive in, the owner is a source that is still registered               *)
(* (docs/bluetooth/lifecycle-edge-case-matrix.md, I4).                      *)
OwnerRegistered(a) == a.active # NONE => IsId(a, a.active)

(* The two, and what they rest on: a neutral boundary waits for a fresh     *)
(* report only from an actual owner, a registered source has a real key,    *)
(* and the ids in the registry have been handed out by the counter.         *)
SoundRegistry(a) ==
  /\ UniqueSources(a)
  /\ OwnerRegistered(a)
  /\ a.awaiting => a.active # NONE
  /\ \A s \in Present(a) : a.sources[s].key \in Key /\ a.sources[s].id <= a.nextId

(* The registry core 1 works on is sound whatever core 0 queues meanwhile.  *)
RegistrySound == SoundRegistry(arb)

(* Until the user chooses, the console is never left idle while a source is *)
(* registered, and no registered source is of a higher class than the owner; *)
(* a standalone owner is the one of its class that registered first,        *)
(* wherever in the registry a later one found room                          *)
(* (preferred_index, apply_auto_policy: a direct controller reclaims it).   *)
AutoOwnerIsBest ==
  ~arb.explicit =>
    /\ arb.active = NONE => Present(arb) = {}
    /\ \A s \in Present(arb) :
         LET owner == arb.sources[SlotOfId(arb, arb.active)] IN
         /\ arb.sources[s].class <= owner.class
         /\ \/ arb.sources[s].class < owner.class
            \/ owner.id <= arb.sources[s].id
            \/ owner.group # 0

(* "Once the user selects a source explicitly, that choice is final and no  *)
(* arrival or departure overrides it" (ns2_input_arbiter.h): from then on   *)
(* the console changes hands only to the selection being applied, to the    *)
(* surviving half of the departing owner's composite, or to nobody.         *)
ExplicitIsFinal ==
  [][arb.explicit /\ arb.active # arb'.active =>
       \/ arb'.active = NONE
       \/ arb'.applied # arb.applied /\ arb'.active = pend.id
       \/ /\ ActiveGroup(arb) # 0
          /\ ActiveGroup(arb') = ActiveGroup(arb)
          /\ ~IsId(arb', arb.active)]_avars

(* Ignorance never overwrites knowledge: the raw-report hook re-registers   *)
(* every live source as UNKNOWN on every report, and a source whose class   *)
(* is known keeps a known class for as long as it stays registered.         *)
ClassKnowledgeKept ==
  [][\A s \in Present(arb) :
       /\ arb'.sources[s].id = arb.sources[s].id
       /\ arb.sources[s].class # UNKNOWN
       => arb'.sources[s].class # UNKNOWN]_avars

Settled == core0.pc = "idle" /\ core1.pc = "idle" /\ pend.req = arb.applied

(* A selection is never lost: once nothing is outstanding, the last source  *)
(* the user chose owns the console if it is still the registered source it  *)
(* was, and choosing "none" leaves the console unowned - however the two    *)
(* cores interleave, but for a selection that crosses the withdrawal of an  *)
(* earlier one or is answered beside an outstanding "none", and whatever    *)
(* became of those.                                                         *)
SelectionHonoured ==
  Settled /\ chosen.made =>
    /\ chosen.id = NONE => arb.active = NONE
    /\ \A s \in Present(arb) :
         arb.sources[s].id = chosen.id /\ arb.sources[s].key = chosen.key
         => arb.active = chosen.id

(* A source id is an "opaque UI/API handle; never reused in a boot"         *)
(* (ns2_input_arbiter.h:45): a source entering the registry gets an id that *)
(* no earlier source had.                                                   *)
IdNeverReused ==
  [][\A s \in Present(arb') :
       arb'.sources[s].key # arb.sources[s].key
       => arb'.sources[s].id \notin issued]_avars
=============================================================================
