---------------------------- MODULE InputRouting ----------------------------
(***************************************************************************)
(* What reaches console slot 0 in Controller mode: the arbiter composed    *)
(* with its two callers, ns2_active_input.c and ns2_seam.c, and with the   *)
(* slot itself (app/report.c).                                             *)
(*                                                                         *)
(* A report is arbitrated first and published afterwards, in a critical    *)
(* section of its own; a selection is queued first and the slot is         *)
(* neutralized afterwards.  Every one of these is a step here, conjoined   *)
(* with the InputArbiter step it performs, if any.                         *)
(***************************************************************************)
EXTENDS InputArbiter

CONSTANTS
  CompanionLink   \* keys of the companion's BLE carrier, which is no bthid device

ASSUME CompanionAssumption == CompanionLink \subseteq Key

\* The halves of a composite reach slot 0 through KeyboardMouse's path instead.
ASSUME StandaloneAssumption == \A k \in Key : GroupOf[k] = 0

VARIABLES
  link,      \* link[k]: "new", "live", "stopping" or "gone"
  console,   \* id of the source whose held input slot 0 shows; NONE when neutral
  job,       \* the report core 1 is arbitrating
  todo,      \* what core 1 owes the slot after the arbiter returned
  owes0,     \* core 0 has queued a selection and not yet neutralized the slot
  overtaken  \* history: slot 0 shows a report accepted before the selection that
             \* was queued when it was published

rvars == <<link, console, job, todo, owes0, overtaken>>
vars == <<arb, pend, core0, core1, chosen, issued, resets,
          link, console, job, todo, owes0, overtaken>>

NoJob == [kind |-> "none", held |-> FALSE]
Nothing == [neutral |-> FALSE, publish |-> NONE]

Init ==
  /\ AInit
  /\ link = [k \in Key |-> "new"]
  /\ console = NONE
  /\ job = NoJob
  /\ todo = Nothing
  /\ owes0 = FALSE
  /\ overtaken = FALSE

\* Core 1 runs one callback at a time, to completion.
Core1Free ==
  /\ core1.pc = "idle"
  /\ todo = Nothing
  /\ \A k \in Key : link[k] # "stopping"

\* What the slot holds from now on.
Show(id) == console' = id /\ overtaken' = (id # NONE /\ pend.req # arb.applied)
-----------------------------------------------------------------------------
(* Core 0: ns2_active_input_request().                                     *)

RequestValidate(id) ==
  /\ ~owes0
  /\ Validate(id)
  /\ UNCHANGED rvars

RequestRepeated(id) ==
  /\ ~owes0
  /\ AnswerRepeated(id)
  /\ UNCHANGED rvars

RequestStore ==
  /\ StoreId
  /\ UNCHANGED rvars

RequestBump ==
  /\ BumpRequest
  /\ owes0' = TRUE
  /\ UNCHANGED <<link, console, job, todo, overtaken>>

\* "Neutralize immediately on core 0 so a quiet old source cannot remain".
RequestNeutralize ==
  /\ owes0
  /\ Show(NONE)
  /\ owes0' = FALSE
  /\ UNCHANGED <<avars, link, job, todo>>
-----------------------------------------------------------------------------
(* Core 1: connections and reports.                                        *)

Connect(k) ==
  /\ Core1Free
  /\ link[k] = "new"
  /\ link' = [link EXCEPT ![k] = "live"]
  /\ UNCHANGED <<avars, console, job, todo, owes0, overtaken>>

\* ns2_active_input_note_connection(): HID ready, a rebind, every raw report.
Note(k) ==
  /\ Core1Free
  /\ link[k] = "live"
  /\ k \notin CompanionLink
  /\ SubmitBegin(k, UNKNOWN)
  /\ job' = [kind |-> "note", held |-> FALSE]
  /\ UNCHANGED <<link, console, todo, owes0, overtaken>>

\* router_submit_input(); a companion frame is a report of class BRIDGE, which
\* clink_publish() submits once itself and the router, if accepted, once more:
\* without a selection in between the second decision is the first.
Report(k, c, held) ==
  /\ Core1Free
  /\ link[k] = "live"
  /\ k \in CompanionLink => c = BRIDGE
  /\ SubmitBegin(k, c)
  /\ job' = [kind |-> "report", held |-> held]
  /\ UNCHANGED <<link, console, todo, owes0, overtaken>>

\* Slip: the neutral boundary of a policy switch is forgotten.
DecideNoBoundary ==
  /\ SubmitCommit
  /\ todo' = IF job.kind = "note" THEN Nothing
             ELSE [neutral |-> FALSE,
                   publish |-> IF Accepted(arb', core1.key)
                               THEN arb'.sources[SlotOfKey(arb', core1.key)].id
                               ELSE NONE]
  /\ job' = IF todo'.publish = NONE THEN NoJob ELSE job
  /\ UNCHANGED <<link, console, owes0, overtaken>>

\* The decision is used for a report and dropped for a note.
Decide ==
  LET b == ApplyPending(arb, core1.req, pend.id) IN
  /\ SubmitCommit
  /\ todo' = IF job.kind = "note" THEN Nothing
             ELSE [neutral |-> /\ ReEvaluates(b, core1.key, core1.class)
                               /\ AutoSwitched(Enrolled(b, core1.key, core1.class)),
                   publish |-> IF Accepted(arb', core1.key)
                               THEN arb'.sources[SlotOfKey(arb', core1.key)].id
                               ELSE NONE]
  /\ job' = IF todo'.publish = NONE THEN NoJob ELSE job
  /\ UNCHANGED <<link, console, owes0, overtaken>>

\* report_neutralize_slot() owed for a policy switch or for the lost owner.
Neutralize ==
  /\ core1.pc = "idle"
  /\ todo.neutral
  /\ Show(NONE)
  /\ todo' = [todo EXCEPT !.neutral = FALSE]
  /\ UNCHANGED <<avars, link, job, owes0>>

\* set_global_gamepad_input() with the accepted report.
Publish ==
  /\ core1.pc = "idle"
  /\ ~todo.neutral
  /\ todo.publish # NONE
  /\ Show(IF job.held THEN todo.publish ELSE NONE)
  /\ todo' = Nothing
  /\ job' = NoJob
  /\ UNCHANGED <<avars, link, owes0>>
-----------------------------------------------------------------------------
(* Core 1: departures.                                                     *)

\* btstack_host_companion_link_stop(): neutral first, through the same path.
StopLink(k) ==
  /\ Core1Free
  /\ k \in CompanionLink
  /\ link[k] = "live"
  /\ SubmitBegin(k, BRIDGE)
  /\ job' = [kind |-> "report", held |-> FALSE]
  /\ link' = [link EXCEPT ![k] = "stopping"]
  /\ UNCHANGED <<console, todo, owes0, overtaken>>

\* Slip: every departure looks its key up without a device.
DisconnectKeyNoDevice(k) == [k EXCEPT !.transport = "none"]

\* source_key_for_connection() with INPUT_TRANSPORT_NONE: the transport is taken
\* from the bthid device, and the companion's synthetic address has none.
DisconnectKey(k) ==
  IF k \in CompanionLink THEN [k EXCEPT !.transport = "none"] ELSE k

\* router_device_disconnected_with_generation(), or the end of StopLink.
Unplug(k) ==
  /\ core1.pc = "idle"
  /\ todo = Nothing
  /\ \/ k \in CompanionLink /\ link[k] = "stopping"
     \/ k \notin CompanionLink /\ link[k] = "live" /\ Core1Free
  /\ link' = [link EXCEPT ![k] = "gone"]
  /\ IF Holds(arb, DisconnectKey(k)) THEN DisconnectBegin(DisconnectKey(k))
     ELSE UNCHANGED avars
  /\ UNCHANGED <<console, job, todo, owes0, overtaken>>

Remove ==
  /\ DisconnectCommit
  /\ todo' = [Nothing EXCEPT !.neutral =
                WasActive(arb, SlotOfKey(arb, core1.key), PendingTarget)]
  /\ UNCHANGED <<link, console, job, owes0, overtaken>>

RemoveClear == ClearPending /\ UNCHANGED rvars
RemoveSettle == SettlePending /\ UNCHANGED rvars
-----------------------------------------------------------------------------
Core0Next ==
  \/ \E id \in Choice : RequestValidate(id)
  \/ \E id \in Choice : RequestRepeated(id)
  \/ RequestStore
  \/ RequestBump
  \/ RequestNeutralize

\* What a callback does once it has started.
Core1Step == Decide \/ Neutralize \/ Publish \/ Remove \/ RemoveClear \/ RemoveSettle

Next ==
  \/ Core0Next
  \/ Core1Step
  \/ \E k \in Key : Connect(k)
  \/ \E k \in Key : Note(k)
  \/ \E k \in Key, c \in {BRIDGE, DIRECT}, held \in BOOLEAN : Report(k, c, held)
  \/ \E k \in Key : StopLink(k)
  \/ \E k \in Key : Unplug(k)

Spec == Init /\ [][Next]_vars

(* Both cores run their loops; a controller whose button is held keeps      *)
(* reporting it, and the Bluetooth stack serves every connection in turn.    *)
Fairness ==
  /\ WF_vars(RequestStore) /\ WF_vars(RequestBump) /\ WF_vars(RequestNeutralize)
  /\ WF_vars(Core1Step)
  /\ \A k \in CompanionLink : WF_vars(Unplug(k))
  /\ \A k \in Key : SF_vars(Report(k, IF k \in CompanionLink THEN BRIDGE ELSE DIRECT, TRUE))

FairSpec == Spec /\ Fairness
-----------------------------------------------------------------------------
(* Properties.                                                             *)

(* Types; core 1 owes the slot something only between two callbacks' ends.  *)
RTypeOK ==
  /\ TypeOK
  /\ link \in [Key -> {"new", "live", "stopping", "gone"}]
  /\ console \in Nat
  /\ job \in [kind : {"none", "note", "report"}, held : BOOLEAN]
  /\ todo \in [neutral : BOOLEAN, publish : Nat]
  /\ owes0 \in BOOLEAN
  /\ overtaken \in BOOLEAN
  /\ core1.pc = "submit" => job # NoJob /\ todo = Nothing

Quiet == core0.pc = "idle" /\ ~owes0 /\ core1.pc = "idle" /\ todo = Nothing

(* When neither core is in the middle of something, slot 0 is neutral or    *)
(* shows the owner, and it is neutral while a selection waits for core 1:   *)
(* "neutralize immediately on core 0 so a quiet old source cannot remain on *)
(* the console while core 1 waits for its next report boundary"             *)
(* (ns2_active_input.c:225).  The exception is a report that was accepted   *)
(* before the selection and published after the slot was neutralized for it. *)
ConsoleShowsOwner ==
  Quiet => \/ console = NONE
           \/ overtaken
           \/ console = arb.active /\ pend.req = arb.applied

(* A controller leaves the registry with its connection: the console is     *)
(* never owned by a Bluetooth controller that is no longer there.           *)
PadsReleased ==
  core1.pc = "idle" =>
    \A s \in Present(arb) :
      arb.sources[s].key \notin CompanionLink => link[arb.sources[s].key] # "gone"

(* The same of every source, the companion link included: stopping it is    *)
(* "neutral BEFORE releasing the source" (btstack_host.c:4011), so once the *)
(* stop has run the source is released.                                     *)
OnlyLiveSources ==
  core1.pc = "idle" =>
    \A s \in Present(arb) : link[arb.sources[s].key] # "gone"

Selected(id) ==
  chosen.made /\ chosen.id = id /\ chosen.key \in Key /\ link[chosen.key] = "live"

(* The source the user selects ends up driving the console, as long as it   *)
(* stays connected and the user selects nothing else.                       *)
SelectionDrives ==
  \A id \in 1 .. MaxId : Selected(id) ~> console = id \/ ~Selected(id)
=============================================================================
