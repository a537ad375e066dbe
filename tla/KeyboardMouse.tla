--------------------------- MODULE KeyboardMouse ---------------------------
(***************************************************************************)
(* Keyboards and mice as one console source:                               *)
(* firmware/src/input/ns2_kbm_runtime.c over the pure rules of ns2_kbm.c,  *)
(* fed by the driver binding of hid_host/bt/bthid/bthid.c.                 *)
(*                                                                         *)
(* Core 1 binds a driver to every HID peer, re-binds it when a descriptor  *)
(* or a late identity arrives, admits keyboards and mice to the two roles  *)
(* of a composite source, and publishes what they hold.  Core 0 changes    *)
(* the input mode in three separate stores and the configuration in one.   *)
(* A report is two steps, admission and publication: core 0 may act        *)
(* between them.  What a core-1 callback does is a function of one record, *)
(* h, built up in the order of the code.                                   *)
(***************************************************************************)
EXTENDS Naturals

CONSTANTS
  MaxConn,        \* connection indices, in bthid slot order
  Peer,           \* HID devices a user owns
  Traits,         \* what each says of itself: link, class of device, descriptor
  Native,         \* TRUE: the personality has a pointer of its own (Joy-Con 2)
  MaxGeneration,  \* bound on connections
  Chosen,         \* the modes the user changes to
  MaxChanges      \* bound on mode and configuration changes

ASSUME KBoundAssumption ==
  /\ MaxConn \in Nat \ {0} /\ MaxGeneration \in Nat
  /\ MaxChanges \in Nat
  /\ Native \in BOOLEAN

\* cod: the Classic class of device.  known: the quirk table recognises it.
Trait == [ble : BOOLEAN, cod : {"none", "keyboard", "pointing", "combo"},
          keys : BOOLEAN, pointer : BOOLEAN, strong : BOOLEAN, known : BOOLEAN]
ASSUME TraitAssumption == Traits \in [Peer -> Trait]

\* What a peer can emit, by what it says of itself.
TypesKeys(t) == t.keys \/ (~t.ble /\ t.cod \in {"keyboard", "combo"})
Points(t) == t.pointer \/ (~t.ble /\ t.cod = "pointing")

Conn == 1 .. MaxConn
Nobody == 0
Composite == MaxConn + 1   \* the console shows the keyboard and mouse source
Mode == {"auto", "controller", "keyboard", "kbmouse"}
Primary == {"none", "keyboard", "mouse", "combo"}

ASSUME ChosenAssumption == Chosen \subseteq Mode

NoDevice == [gen |-> 0]
NoRole == [conn |-> Nobody, gen |-> 0]
NoRecord == [gen |-> 0, keys |-> FALSE, pointer |-> FALSE, primary |-> "none"]
NoSource == [class |-> "none", member |-> FALSE, since |-> 0]
Neutral == [src |-> Nobody, keys |-> FALSE, buttons |-> FALSE]
Idle == [conn |-> Nobody]

VARIABLES
  h,       \* everything core 1 writes: devices, peer records, roles, sources, console
  shared,  \* what core 0 writes: the mode override, its request counter, the generation
  core0k,  \* where core 0 is in ns2_kbm_runtime_set_mode()
  job,     \* the report core 1 has admitted and not yet published
  down,    \* what is physically held on each peer
  lost     \* history: what was let go of in a report that nobody published

kvars == <<h, shared, core0k, job, down, lost>>

Live(g, c) == g.dev[c] # NoDevice
KeyOf(g, c) == [conn |-> c, gen |-> g.dev[c].gen]
TraitOf(g, c) == Traits[g.dev[c].peer]
-----------------------------------------------------------------------------
(* What the console shows.                                                 *)

Silenced(g) == [g EXCEPT !.console = Neutral]

\* publish_locked(): the held set as it is, whoever owns the console.
Published(g) ==
  [g EXCEPT !.console = [src |-> Composite, keys |-> g.keys, buttons |-> g.buttons]]

KeysDropped(g) == [g EXCEPT !.keys = FALSE]
MouseDropped(g) == [g EXCEPT !.buttons = FALSE, !.motion = FALSE]

\* sync_config(): a newer configuration is adopted at a neutral boundary.
ConfigAdopted(g) ==
  IF g.adopted = shared.gen THEN g
  ELSE Silenced(MouseDropped(KeysDropped([g EXCEPT !.adopted = shared.gen])))
-----------------------------------------------------------------------------
(* Ordinary source ownership, as InputArbiter has it while nobody chooses:  *)
(* a source that has reported outranks one that has not, then the earlier.  *)

Standing(src) == {c \in Conn : src[c].class # "none"}
Known(src) == {c \in Conn : src[c].class = "direct"}
Members(src) == {c \in Conn : src[c].member}
Earliest(src, S) == CHOOSE c \in S : \A d \in S : src[c].since <= src[d].since
Latest(src) == CHOOSE n \in {0} \cup {src[c].since : c \in Conn} :
                 \A c \in Conn : src[c].since <= n
Best(src) ==
  CASE Known(src) # {} -> Earliest(src, Known(src))
    [] Known(src) = {} /\ Standing(src) # {} -> Earliest(src, Standing(src))
    [] OTHER -> Nobody

InComposite(g, c) == c \in Members(g.sources)
Owns(g, c) ==
  \/ g.owner = c
  \/ InComposite(g, c) /\ InComposite(g, g.owner)

OwnerSettled(g) ==
  LET b == Best(g.sources) IN
  IF InComposite(g, b) /\ InComposite(g, g.owner) THEN g ELSE [g EXCEPT !.owner = b]

\* register_source(): ignorance (unknown) never overwrites a known class.
Enrolled(g, c, class, member) ==
  LET known == c \in Standing(g.sources)
  IN  [g EXCEPT !.sources[c] =
         [class |-> IF known /\ class = "unknown" THEN @.class ELSE class,
          member |-> member,
          since |-> IF known THEN @.since ELSE Latest(g.sources) + 1]]

\* ns2_active_input_submit_group(): a live owner that loses the console
\* leaves a neutral state behind.
Submitted(g, c, member) ==
  LET e == OwnerSettled(Enrolled(g, c, "direct", member))
  IN  IF g.owner # Nobody /\ e.owner # g.owner THEN Silenced(e) ELSE e

Withdrawn(src, c) ==
  [d \in Conn |-> IF d = c THEN NoSource
                  ELSE [src[d] EXCEPT !.since = IF @ > src[c].since THEN @ - 1 ELSE @]]

\* Slip: the departed owner's state is left on the console.
DepartedShown(g, c) ==
  LET left == [g EXCEPT !.sources = Withdrawn(@, c)]
  IN  IF g.owner # c THEN left ELSE [left EXCEPT !.owner = Best(left.sources)]

\* ns2_active_input_disconnected_generation().
Departed(g, c) ==
  LET left == [g EXCEPT !.sources = IF c \in Standing(@) THEN Withdrawn(@, c) ELSE @]
      half == Members(left.sources)
  IN  IF g.owner # c THEN left
      ELSE IF InComposite(g, c) /\ half # {}
      THEN [left EXCEPT !.owner = Earliest(left.sources, half)]
      ELSE Silenced([left EXCEPT !.owner = Best(left.sources)])
-----------------------------------------------------------------------------
(* Peers: what each can emit, and which role it stands for.                *)

RecordOf(g, c) ==
  IF g.records[c].gen = g.dev[c].gen THEN g.records[c] ELSE [NoRecord EXCEPT !.gen = g.dev[c].gen]

\* caps_record(): capabilities accumulate within one connection.
CapsRecorded(g, c, keys, pointer) ==
  [g EXCEPT !.records[c] = [RecordOf(g, c) EXCEPT !.keys = @ \/ keys, !.pointer = @ \/ pointer]]

\* primary_record(): the first classification stands for the connection.
PrimaryRecorded(g, c, primary) ==
  IF RecordOf(g, c).primary = "none"
  THEN [g EXCEPT !.records[c] = [RecordOf(g, c) EXCEPT !.primary = primary]]
  ELSE g

\* Pointer wins: a gaming mouse with macro keys is a mouse.
PrimaryFromCaps(keys, pointer) ==
  IF pointer THEN "mouse" ELSE IF keys THEN "keyboard" ELSE "none"

PrimaryFromEvidence(keys, pointer, combo, strong) ==
  IF combo /\ keys /\ pointer THEN "combo"
  ELSE IF strong /\ keys THEN "keyboard"
  ELSE PrimaryFromCaps(keys, pointer)

\* ns2_kbm_runtime_note_classification(), from bthid_keyboard_set_descriptor().
Classified(g, c) ==
  LET t == TraitOf(g, c)
  IN  PrimaryRecorded(CapsRecorded(g, c, TRUE, t.pointer), c,
        PrimaryFromEvidence(TRUE, t.pointer, ~t.ble /\ t.cod = "combo", t.strong))

\* record_caps_from_driver(): only a Classic keyboard is one by its driver.
CapsFromDriver(g, c) ==
  CASE g.dev[c].driver = "keyboard" ->
         LET k == CapsRecorded(g, c, TRUE, FALSE)
         IN  IF TraitOf(g, c).ble THEN k ELSE PrimaryRecorded(k, c, "keyboard")
    [] g.dev[c].driver = "mouse" ->
         PrimaryRecorded(CapsRecorded(g, c, FALSE, TRUE), c, "mouse")
    [] OTHER -> g
-----------------------------------------------------------------------------
(* Roles.                                                                  *)

Policy(g) ==
  [keyboard |-> shared.mode # "controller",
   mouse |-> /\ shared.mode \notin {"controller", "keyboard"}
             /\ ~(shared.mode = "auto" /\ Native /\ g.kb = NoRole)]

\* ns2_kbm_effective_mode().
Effective(g) ==
  IF shared.mode = "controller" \/ (g.kb = NoRole /\ g.ms = NoRole) THEN "controller"
  ELSE IF g.ms # NoRole \/ shared.mode = "kbmouse" THEN "kbmouse"
  ELSE "keyboard"

\* ns2_kbm_roles_admit(): the roles the peer ends up with by this call.
\* A peer that holds a role keeps to it; only a combo may hold both.
Takes(g, c) ==
  LET r == RecordOf(g, c)
      me == KeyOf(g, c)
      allowed == Policy(g)
      offers == [keyboard |-> r.primary \in {"keyboard", "combo"} /\ r.keys,
                 mouse |-> r.primary \in {"mouse", "combo"} /\ r.pointer]
      stands == r.primary # "combo" /\ me \in {g.kb, g.ms}
      mayK == allowed.keyboard /\ IF stands THEN g.kb = me ELSE offers.keyboard
      mayM == allowed.mouse /\ IF stands THEN g.ms = me ELSE offers.mouse
      welcome == \E role \in {"keyboard", "mouse"} : offers[role] /\ allowed[role]
  IN  [keyboard |-> welcome /\ mayK /\ g.kb \in {NoRole, me},
       mouse |-> welcome /\ mayM /\ g.ms \in {NoRole, me}]

Admitted(g, c) ==
  LET t == Takes(g, c)
  IN  [g EXCEPT !.kb = IF t.keyboard THEN KeyOf(g, c) ELSE @,
                !.ms = IF t.mouse THEN KeyOf(g, c) ELSE @]

\* ns2_kbm_runtime_note_ready() after the pending mode change: a peer that
\* is not classified yet waits for its classification.
Offered(g, c) == IF RecordOf(g, c).primary = "none" THEN g ELSE Admitted(g, c)
NotedReady(g, c) == Offered(CapsFromDriver(g, c), c)

\* ns2_kbm_runtime_gates_connection(): not to be registered as an ordinary source.
Gated(g, c) ==
  CASE g.dev[c].driver = "keyboard" -> Policy(g).keyboard
    [] g.dev[c].driver = "mouse" -> Policy(g).mouse
    [] OTHER -> g.kb # NoRole \/ g.ms # NoRole

Registered(g, c) ==
  IF Gated(g, c) THEN g ELSE OwnerSettled(Enrolled(g, c, "unknown", FALSE))
Noted(g, c) == Registered(NotedReady(g, c), c)

\* ns2_active_input_reset(), and every connected peer is looked at again.
Rebuilt(g) ==
  LET empty == Silenced([g EXCEPT !.sources = [c \in Conn |-> NoSource], !.owner = Nobody])
      through[c \in 0 .. MaxConn] ==
        CASE c = 0 -> empty
          [] c > 0 /\ Live(through[c - 1], c) -> Noted(through[c - 1], c)
          [] OTHER -> through[c - 1]
  IN  through[MaxConn]

\* Slip: the roles survive the mode change.
ModeAppliedKeeping(g) ==
  IF g.applied = shared.req THEN g
  ELSE Rebuilt(MouseDropped(KeysDropped([g EXCEPT !.applied = shared.req, !.adopted = 0])))

\* apply_pending_mode_change().
ModeApplied(g) ==
  IF g.applied = shared.req THEN g
  ELSE Rebuilt(MouseDropped(KeysDropped(
         [g EXCEPT !.applied = shared.req, !.kb = NoRole, !.ms = NoRole, !.adopted = 0])))

\* ns2_active_input_note_connection().
NoteConnection(g, c) == Noted(ModeApplied(g), c)
-----------------------------------------------------------------------------
(* Driver binding.                                                         *)

MatchedDriver(t) ==
  CASE ~t.ble /\ t.cod \in {"keyboard", "combo"} -> "keyboard"
    [] ~t.ble /\ t.cod = "pointing" -> "mouse"
    [] OTHER -> "gamepad"

Rebound(g, c, driver) == [g EXCEPT !.dev[c].driver = driver, !.dev[c].mapped = FALSE]
Mapped(g, c) == [g EXCEPT !.dev[c].mapped = TRUE]

\* bthid_set_hid_descriptor(): cached, then the generic driver's unresolved
\* peers are classified by it, keyboard before mouse.
Described(g, c) ==
  LET t == TraitOf(g, c)
      k == [g EXCEPT !.cached = c]
      open == g.dev[c].driver = "gamepad" /\ ~t.known
  IN  CASE open /\ t.keys -> NoteConnection(Classified(Mapped(Rebound(k, c, "keyboard"), c), c), c)
        [] g.dev[c].driver = "keyboard" /\ t.keys -> Classified(Mapped(k, c), c)
        [] g.dev[c].driver = "keyboard" /\ ~t.keys -> NoteConnection(Rebound(k, c, "gamepad"), c)
        [] open /\ ~t.keys /\ t.pointer -> NoteConnection(Mapped(Rebound(k, c, "mouse"), c), c)
        [] OTHER -> k

\* bt_on_hid_ready().  A Classic descriptor was cached before, and a Classic
\* keyboard is not given it; a Low Energy one is delivered after.
Ready(g, c, p) ==
  LET t == Traits[p]
      k == [g EXCEPT !.dev[c] = [peer |-> p, gen |-> g.next, mapped |-> FALSE,
                                 driver |-> MatchedDriver(t)],
                     !.next = @ + 1,
                     !.cached = IF t.ble THEN @ ELSE c]
  IN  IF t.ble THEN Described(NoteConnection(k, c), c)
      ELSE IF MatchedDriver(t) = "keyboard" THEN NoteConnection(k, c)
      ELSE NoteConnection(Described(k, c), c)

\* bthid_update_device_info(): a driver that no longer matches is replaced by
\* the generic one, which gets the descriptor back only if it is still the
\* cached one.  The Classic caller then sends the descriptor again.
Identified(g, c) ==
  LET t == TraitOf(g, c)
      generic == Rebound(g, c, "gamepad")
  IN  IF t.ble /\ g.dev[c].driver = "keyboard"
      THEN NoteConnection(IF g.cached = c THEN Described(generic, c) ELSE generic, c)
      ELSE IF t.ble THEN g
      ELSE Described(g, c)

\* Slip: the roles of a departing peer are left for the next one.
RoleReleasedNot(g, c) == [g EXCEPT !.records[c] = NoRecord]

\* Slip: what the departed peer held stays held.
RoleReleasedLatched(g, c) ==
  LET me == KeyOf(g, c)
      k == [g EXCEPT !.kb = IF @ = me THEN NoRole ELSE @,
                     !.ms = IF @ = me THEN NoRole ELSE @,
                     !.records[c] = NoRecord]
  IN  IF me \notin {g.kb, g.ms} \/ (k.kb = NoRole /\ k.ms = NoRole) \/ k.adopted = 0
      THEN k ELSE Published(k)

\* ns2_kbm_runtime_disconnect(): what the departed role held is cleared, the
\* other half keeps publishing.
RoleReleased(g, c) ==
  LET me == KeyOf(g, c)
      k == [g EXCEPT !.kb = IF @ = me THEN NoRole ELSE @,
                     !.ms = IF @ = me THEN NoRole ELSE @,
                     !.records[c] = NoRecord]
      l == IF g.kb = me THEN KeysDropped(k) ELSE k
      m == IF g.ms = me THEN MouseDropped(l) ELSE l
  IN  IF me \notin {g.kb, g.ms} \/ (m.kb = NoRole /\ m.ms = NoRole) \/ m.adopted = 0
      THEN m ELSE Published(m)

\* bt_on_disconnect(): the cached descriptor, the role, the source, the device.
Gone(g, c) ==
  [Departed(RoleReleased([g EXCEPT !.cached = IF @ = c THEN Nobody ELSE @], c), c)
     EXCEPT !.dev[c] = NoDevice]
-----------------------------------------------------------------------------
(* Core 1.                                                                 *)

KInit ==
  /\ h = [dev |-> [c \in Conn |-> NoDevice], records |-> [c \in Conn |-> NoRecord],
          kb |-> NoRole, ms |-> NoRole, sources |-> [c \in Conn |-> NoSource], owner |-> Nobody,
          cached |-> Nobody, keys |-> FALSE, buttons |-> FALSE, motion |-> FALSE,
          console |-> Neutral, adopted |-> 0, applied |-> 0, next |-> 1]
  /\ shared = [mode |-> "auto", req |-> 0, gen |-> 1]
  /\ core0k = "idle"
  /\ job = Idle
  /\ down = [p \in Peer |-> [keys |-> FALSE, buttons |-> FALSE]]
  /\ lost = {}

Core1Free == job = Idle

Connect(c, p) ==
  /\ Core1Free
  /\ ~Live(h, c)
  /\ \A d \in Conn : Live(h, d) => h.dev[d].peer # p
  /\ h.next <= MaxGeneration
  /\ h' = Ready(h, c, p)
  /\ UNCHANGED <<shared, core0k, job, down, lost>>

\* The device information query or the SDP query answers.
Identify(c) ==
  /\ Core1Free
  /\ Live(h, c)
  /\ h' = Identified(h, c)
  /\ UNCHANGED <<shared, core0k, job, down, lost>>

Disconnect(c) ==
  /\ Core1Free
  /\ Live(h, c)
  /\ h' = Gone(h, c)
  /\ down' = [down EXCEPT ![h.dev[c].peer] = [keys |-> FALSE, buttons |-> FALSE]]
  /\ lost' = {x \in lost : x.conn # c}
  /\ UNCHANGED <<shared, core0k, job>>

\* admit_and_route() up to the admission; a report proves a capability and
\* never a role.  A Low Energy keyboard waits for its descriptor.
Considered(g, c, role) ==
  LET k == CapsRecorded(g, c, role = "keyboard", role = "mouse")
      r == RecordOf(k, c)
  IN  IF r.primary # "none" THEN k
      ELSE IF TraitOf(k, c).ble /\ k.dev[c].driver = "keyboard" THEN k
      ELSE PrimaryRecorded(k, c, PrimaryFromCaps(r.keys, r.pointer))

Reports(g, c, role) ==
  \/ g.dev[c].driver = role
  \/ role = "mouse" /\ g.dev[c].driver = "keyboard" /\ g.dev[c].mapped /\ TraitOf(g, c).pointer

\* The peer presses or lets go, and its report says so: heard or not.
What(role) == IF role = "mouse" THEN "buttons" ELSE "keys"
Moved(c, what, value, heard) ==
  LET it == [conn |-> c, what |-> what]
  IN  /\ down' = [down EXCEPT ![h.dev[c].peer][what] = value]
      /\ lost' = IF value \/ heard THEN lost \ {it} ELSE lost \cup {it}

\* admit_and_route() on h as the raw-report hook left it: g.
Routed(g, c, role, value) ==
  LET k == Considered(g, c, role)
      a == Admitted(k, c)
      takes == IF role = "keyboard" THEN Takes(k, c).keyboard ELSE Takes(k, c).mouse
      s == Submitted(a, c, TRUE)
  IN  /\ role = "mouse" => Effective(g) # "controller"
      /\ h' = IF takes THEN s ELSE a
      /\ job' = IF takes /\ Owns(s, c) THEN [conn |-> c, role |-> role, value |-> value] ELSE Idle

\* A keyboard report, or a mouse report while a keyboard or mouse role is
\* held: the raw-report hook, then admission and the source gate.
CompositeReport(c, role, value) ==
  /\ Core1Free
  /\ Live(h, c)
  /\ Reports(h, c, role)
  /\ Routed(NoteConnection(h, c), c, role, value)
  /\ Moved(c, What(role), value, job' # Idle)
  /\ UNCHANGED <<shared, core0k>>

\* The rest of submit_keyboard() and submit_mouse().
Publish ==
  /\ job # Idle
  /\ LET g == ConfigAdopted(h)
     IN  h' = Published(IF job.role = "keyboard"
                        THEN [g EXCEPT !.keys = job.value]
                        ELSE [g EXCEPT !.buttons = job.value, !.motion = TRUE])
  /\ job' = Idle
  /\ UNCHANGED <<shared, core0k, down, lost>>

\* router_submit_input() in Controller mode, for the reports of a pad and for
\* every pointer report, also one that the keyboard driver decoded; in any
\* other mode the report of a pad is dropped.
Forwarded(g, c, value) ==
  LET s == Submitted(g, c, FALSE)
  IN  /\ Reports(h, c, "mouse") => Effective(g) = "controller"
      /\ h' = IF Effective(g) # "controller" THEN g
              ELSE IF Owns(s, c)
              THEN [s EXCEPT !.console = [src |-> c, keys |-> FALSE, buttons |-> value]]
              ELSE s

OrdinaryReport(c, value) ==
  /\ Core1Free
  /\ Live(h, c)
  /\ h.dev[c].driver = "gamepad" \/ Reports(h, c, "mouse")
  /\ Forwarded(NoteConnection(h, c), c, value)
  /\ Moved(c, "buttons", value, h'.console = [src |-> c, keys |-> FALSE, buttons |-> value])
  /\ UNCHANGED <<shared, core0k, job>>

\* The peer lets go in a report that the bound driver cannot decode: only the
\* raw-report hook runs.  What was pressed unheard is never shown.
UndecodedRelease(c, role) ==
  /\ Core1Free
  /\ Live(h, c)
  /\ ~Reports(h, c, role)
  /\ down[h.dev[c].peer][What(role)]
  /\ h' = NoteConnection(h, c)
  /\ Moved(c, What(role), FALSE, FALSE)
  /\ UNCHANGED <<shared, core0k, job>>

\* ns2_kbm_runtime_service(), every 3 ms: the mode change, then the glide of
\* the translated stick until its gesture ends.
Service ==
  /\ Core1Free
  /\ LET g == ModeApplied(h)
         glides == Effective(g) = "kbmouse" /\ g.adopted # 0 /\ g.motion /\ ~Native
     IN  \/ ~glides /\ h' = g
         \/ glides /\ \E more \in BOOLEAN : h' = Published([g EXCEPT !.motion = more])
  /\ UNCHANGED <<shared, core0k, job, down, lost>>
-----------------------------------------------------------------------------
(* Core 0: ns2_kbm_runtime_set_mode() is three stores other cores can see. *)

SetMode(m) ==
  /\ core0k = "idle"
  /\ m # shared.mode
  /\ shared.gen <= MaxChanges
  /\ shared' = [shared EXCEPT !.mode = m, !.gen = @ + 1]
  /\ core0k' = "neutral"
  /\ UNCHANGED <<h, job, down, lost>>

SetModeNeutral ==
  /\ core0k = "neutral"
  /\ h' = Silenced(h)
  /\ core0k' = "request"
  /\ UNCHANGED <<shared, job, down, lost>>

SetModeRequest ==
  /\ core0k = "request"
  /\ shared' = [shared EXCEPT !.req = @ + 1]
  /\ core0k' = "idle"
  /\ UNCHANGED <<h, job, down, lost>>

\* A binding, profile or mouse setting changes.
EditConfig ==
  /\ core0k = "idle"
  /\ shared.gen <= MaxChanges
  /\ shared' = [shared EXCEPT !.gen = @ + 1]
  /\ UNCHANGED <<h, core0k, job, down, lost>>
-----------------------------------------------------------------------------
KNext ==
  \/ \E c \in Conn, p \in Peer : Connect(c, p)
  \/ \E c \in Conn : Identify(c)
  \/ \E c \in Conn : Disconnect(c)
  \/ \E c \in Conn, role \in {"keyboard", "mouse"}, v \in BOOLEAN : CompositeReport(c, role, v)
  \/ Publish
  \/ \E c \in Conn, v \in BOOLEAN : OrdinaryReport(c, v)
  \/ \E c \in Conn, role \in {"keyboard", "mouse"} : UndecodedRelease(c, role)
  \/ Service
  \/ \E m \in Chosen : SetMode(m)
  \/ SetModeNeutral
  \/ SetModeRequest
  \/ EditConfig

KSpec == KInit /\ [][KNext]_kvars
-----------------------------------------------------------------------------
(* Properties.                                                             *)

(* A role belongs to a live connection that can emit what the role needs,   *)
(* and one peer holds both roles only if it declared itself a combo: a      *)
(* mouse that survives its keyboard never becomes the keyboard              *)
(* (ns2_kbm_roles_admit, note_ready, peer_forget).                          *)
RolesSound ==
  /\ h.kb # NoRole =>
       /\ Live(h, h.kb.conn) /\ h.kb = KeyOf(h, h.kb.conn)
       /\ TypesKeys(TraitOf(h, h.kb.conn))
       /\ ~TraitOf(h, h.kb.conn).pointer \/ TraitOf(h, h.kb.conn).strong
                                        \/ ~TraitOf(h, h.kb.conn).ble
  /\ h.ms # NoRole =>
       /\ Live(h, h.ms.conn) /\ h.ms = KeyOf(h, h.ms.conn)
       /\ Points(TraitOf(h, h.ms.conn))
  /\ h.kb = h.ms => h.kb = NoRole \/ TraitOf(h, h.kb.conn).cod = "combo"

\* What c put on the console it still holds, or let go of unheard.
Excused(c, what) ==
  /\ c \in Conn /\ Live(h, c)
  /\ down[h.dev[c].peer][what] \/ [conn |-> c, what |-> what] \in lost

\* No report is being processed and no mode change is under way.
Settled == Core1Free /\ core0k = "idle" /\ h.applied = shared.req

(* No ghost input: whenever nothing is under way, whatever the console      *)
(* shows held is held by the connected peer that put it there, or that      *)
(* peer let go of it in a report which the mode, the driver or the source   *)
(* gate kept from the console: mode and configuration changes, lost roles,  *)
(* re-bound drivers and recycled connections leave nothing behind           *)
(* (sync_config, disconnect, apply_pending_mode_change).                    *)
NoGhost ==
  Settled =>
    /\ h.console.src = Composite =>
         /\ h.console.keys => Excused(h.kb.conn, "keys")
         /\ h.console.buttons => Excused(h.ms.conn, "buttons")
    /\ h.console.src \in Conn /\ h.console.buttons => Excused(h.console.src, "buttons")

(* Once core 1 has applied the last mode change, only the roles that mode   *)
(* allows are held, whichever peers are connected and whatever report was   *)
(* in flight while core 0 changed it.                                       *)
ModeObeyed ==
  core0k = "idle" /\ shared.req = h.applied =>
    /\ shared.mode = "controller" => h.kb = NoRole
    /\ shared.mode \in {"controller", "keyboard"} => h.ms = NoRole

(* The console shows only its owner: a half of the composite source while   *)
(* the keyboard or mouse shows, the pad whose state stands otherwise, also   *)
(* after the owner left, lost its role or was replaced                       *)
(* (ns2_active_input_submit_group, disconnected; the glide of                *)
(* ns2_kbm_runtime_service publishes without asking).                        *)
ConsoleOwned ==
  Settled =>
    /\ h.console.src = Composite /\ (h.console.keys \/ h.console.buttons)
         => InComposite(h, h.owner)
    /\ h.console.src \in Conn => h.owner = h.console.src
=============================================================================
