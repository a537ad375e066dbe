--------------------------- MODULE PairingWindow ---------------------------
(***************************************************************************)
(* Discovery, admission and the pairing window of core 1 for Low Energy    *)
(* peers: the button's gestures and the control tick (ns2_bt_host.c), the  *)
(* scan and connect state machine with its watchdog, the deferred close    *)
(* and the reconnect policy (btstack_host.c), the pairing operation of a   *)
(* management client, and power cycles.  Every handler runs to its end on  *)
(* the run loop, so a step is a handler: the host's state h is a record    *)
(* and a handler composes functions of it in the order of the code.  The   *)
(* passing of time is an action per deadline.                              *)
(***************************************************************************)
EXTENDS Naturals, FiniteSets

CONSTANTS
    Peers,       \* Low Energy peers, identified by their address
    None,
    MaxAttempts, \* NS2_BLE_RECONNECT_DIRECT_ATTEMPT_LIMIT
    RoleChoices, \* what the peers may be: functions from Peers
    MaxInputs,   \* bound on gestures, requests of a client and power cycles
    WipeInWindow \* may the wipe gesture come while a window or an operation is open?

ASSUME PairingAssumption ==
    /\ None \notin Peers
    /\ MaxAttempts \in Nat /\ MaxInputs \in Nat
    /\ RoleChoices \subseteq [Peers -> {"keyboard", "mouse", "controller"}]
    /\ WipeInWindow \in BOOLEAN

VARIABLES
    h,        \* the host's state, see Host
    role,     \* what each peer is
    byHand,   \* history: a window is open and the gesture opened it
    spared,   \* history: the peers whose admitted pairing the last wipe found unfinished
    inputs    \* counter of MaxInputs

vars == <<h, role, byHand, spared, inputs>>

KbmRoles == {"keyboard", "mouse"}
Peer == Peers \cup {None}

Host == [
    \* hid_state
    st : {"idle", "scanning", "connecting", "connected"}, scan : BOOLEAN,
    timer : {"off", "armed", "late"},  \* reconnect_attempt_time
    target : Peer, fresh : BOOLEAN,    \* pending_addr, pending_fresh_pairing_admitted
    last : Peer, tries : 0 .. MaxAttempts,
    link : [Peers -> {"none", "up", "pairing", "reencrypting", "secured", "ready"}],
    adm : SUBSET Peers,                \* fresh_pairing_admitted of the connections
    closing : SUBSET Peers,            \* a disconnection was requested
    \* the controller: the connection being created, a cancel sent for it
    hci : Peer, cancelled : BOOLEAN,
    \* trust: LE device DB, JPLK tag, pairing_lockout
    bonds : SUBSET Peers, jplk : BOOLEAN, locked : BOOLEAN,
    \* windows: hid_pairing_window_open, mgmt_bond_window_open, pairing_until_ms,
    \* pairing_wait_for_disconnect, pairing_close_deferred
    hid : BOOLEAN, mgmt : BOOLEAN, until : {"none", "ahead", "due"},
    wait : BOOLEAN, deferred : BOOLEAN,
    \* the pairing operation of a management client
    \* (btstack_host_pairing_active) and its requests to the control tick
    active : BOOLEAN, start : BOOLEAN, cancel : BOOLEAN,
    \* kbm_completion
    held : SUBSET KbmRoles, windowing : {"off", "on", "over"}]

Linked(x) == {p \in Peers : x.link[p] # "none"}
(* A window admitted them, and their bond is not stored yet. *)
Unfinished(x) == x.adm \cup {p \in Peers : x.link[p] = "pairing"}
Ready(x) == {p \in Peers : x.link[p] = "ready"}
Held(x) == {role[p] : p \in Ready(x)} \cap KbmRoles
Open(x) == x.until # "none"
(* ns2_kbm_logical_source_complete *)
Complete(x) == IF Held(x) = {} THEN Ready(x) # {} ELSE Held(x) = KbmRoles

Off == [
    st |-> "idle", scan |-> FALSE, timer |-> "off", target |-> None, fresh |-> FALSE,
    last |-> None, tries |-> 0, link |-> [p \in Peers |-> "none"], adm |-> {},
    closing |-> {}, hci |-> None, cancelled |-> FALSE,
    bonds |-> {}, jplk |-> TRUE, locked |-> TRUE,
    hid |-> FALSE, mgmt |-> FALSE, until |-> "none", wait |-> FALSE, deferred |-> FALSE,
    active |-> FALSE, start |-> FALSE, cancel |-> FALSE,
    held |-> {}, windowing |-> "off"]

-----------------------------------------------------------------------------
(* The scan and the connection attempt *)
StopScan(x) == [x EXCEPT !.st = "idle", !.scan = FALSE]
StartScan(x) == IF x.locked \/ x.scan THEN x
                ELSE [x EXCEPT !.st = "scanning", !.scan = TRUE]
(* gap_connect is refused while the controller creates another connection; *)
(* the host ignores the refusal                                            *)
Connect(x, p) ==
    [StopScan(x) EXCEPT !.st = "connecting", !.timer = "armed", !.target = p,
                        !.fresh = ~x.locked /\ x.hid,
                        !.hci = IF @ = None THEN p ELSE @]
(* ns2_ble_reconnect_select: the preferred peer, or nobody *)
Reconnectable(x) ==
    x.last \in x.bonds \ Linked(x) /\ ~x.hid /\ x.tries < MaxAttempts
Retry(x) == Connect([x EXCEPT !.tries = @ + 1], x.last)
DisconnectAll(x) == [x EXCEPT !.closing = Linked(x), !.last = None, !.tries = 0]

Close(x) == IF x.st = "connecting" THEN [x EXCEPT !.deferred = TRUE] ELSE StopScan(x)
ResolveDeferred(x) == IF x.deferred THEN StopScan([x EXCEPT !.deferred = FALSE]) ELSE x

(* bt_set_pairing_mode(false), and the end of the host's own window *)
CloseWindow(x) ==
    [Close([x EXCEPT !.hid = FALSE, !.mgmt = FALSE]) EXCEPT !.until = "none"]
OpenWindow(x, grant) ==
    IF x.deferred THEN x
    ELSE LET wait == Held(x) = {} /\ Ready(x) # {}
             y == IF wait THEN DisconnectAll(x) ELSE x
         IN [StartScan([y EXCEPT !.hid = TRUE, !.locked = FALSE, !.jplk = FALSE])
                EXCEPT !.mgmt = grant, !.until = "ahead", !.wait = wait]

(* wipe_all_devices.  A cancel is sent for an attempt in flight. *)
(* Slip: the lock is not written to flash. *)
WipedInRam(x) ==
    [DisconnectAll(StopScan(x)) EXCEPT
        !.locked = TRUE, !.deferred = FALSE, !.fresh = FALSE,
        !.cancelled = @ \/ (x.st = "connecting" /\ x.hci # None), !.timer = "off",
        !.bonds = {}, !.until = "none", !.wait = FALSE]
Wiped(x) ==
    [DisconnectAll(StopScan(x)) EXCEPT
        !.locked = TRUE, !.jplk = TRUE, !.deferred = FALSE, !.fresh = FALSE,
        !.cancelled = @ \/ (x.st = "connecting" /\ x.hci # None), !.timer = "off",
        !.bonds = {}, !.until = "none", !.wait = FALSE]

-----------------------------------------------------------------------------
(* The control tick, in the order of control_timer_handler *)
(* Slip: the over-the-air start leaves the grant of an earlier gesture. *)
RemoteStartKeeping(x) ==
    IF ~x.start THEN x
    ELSE LET y == OpenWindow([x EXCEPT !.start = FALSE], x.mgmt)
         IN [y EXCEPT !.active = Open(y)]
RemoteStart(x) ==
    IF ~x.start THEN x
    ELSE LET y == OpenWindow([x EXCEPT !.start = FALSE], FALSE)
         IN [y EXCEPT !.active = Open(y)]
RemoteCancel(x) ==
    IF x.cancel /\ Open(x)
    THEN [CloseWindow(x) EXCEPT !.cancel = FALSE, !.wait = FALSE, !.active = FALSE]
    ELSE [x EXCEPT !.cancel = FALSE]
Deadline(x) ==
    IF x.until = "due" THEN [CloseWindow(x) EXCEPT !.wait = FALSE, !.active = FALSE] ELSE x
WaitOver(x) == [x EXCEPT !.wait = @ /\ ~(Open(x) /\ Ready(x) = {})]
(* Slip: the operation of a fulfilled window is not concluded. *)
FulfilledSilently(x) == IF Open(x) /\ ~x.wait /\ Complete(x) THEN CloseWindow(x) ELSE x
Fulfilled(x) ==
    IF Open(x) /\ ~x.wait /\ Complete(x) THEN [CloseWindow(x) EXCEPT !.active = FALSE] ELSE x

(* ns2_kbm_completion_update *)
Tracked(x) ==
    LET now == Held(x)
    IN [x EXCEPT !.held = now,
                 !.windowing = IF Cardinality(now) # 1 THEN "off"
                               ELSE IF x.held # now THEN "on"
                               ELSE IF @ = "over" THEN "off" ELSE @]
(* ns2_kbm_discovery_policy *)
Seeks(x) ==
    IF Open(x) THEN ~Complete(x)
    ELSE ~Complete(x) /\ (Held(x) = {} \/ x.windowing = "on")
Retires(x) == ~Open(x) /\ ~Seeks(x)
Arm(x) == IF x.deferred \/ x.st = "connecting" THEN x ELSE StartScan(x)
Retire(x) == IF ~x.deferred /\ Ready(x) # {} /\ x.scan THEN StopScan(x) ELSE x
(* Slip: the policy is not run during a window. *)
DiscoveryOutside(x) ==
    LET y == Tracked(x)
    IN IF Open(y) THEN y ELSE IF Seeks(y) THEN Arm(y) ELSE Retire(y)
Discovery(x) ==
    LET y == Tracked(x)
    IN IF Seeks(y) THEN Arm(y) ELSE IF Retires(y) THEN Retire(y) ELSE y

(* btstack_host_process: watchdog, deferred close, safety net, resync *)
Watchdog(x) ==
    IF x.st = "connecting" /\ x.timer = "late"
    THEN [x EXCEPT !.st = "idle", !.timer = "off", !.cancelled = x.hci # None]
    ELSE x
(* Slip: only the controller's completion resolves a deferred close. *)
DeferralKept(x) == x
DeferralOver(x) == IF x.st # "connecting" THEN ResolveDeferred(x) ELSE x
SafetyNet(x) ==
    IF x.st = "idle" /\ x.timer = "off" /\ ~x.scan /\ Linked(x) = {} THEN StartScan(x) ELSE x
Resync(x) == IF x.scan /\ x.st = "idle" THEN [x EXCEPT !.st = "scanning"] ELSE x

(* What a tick makes of the host's state, one step after another *)
Ticks(x) ==
    {Resync(i) : i \in
    {SafetyNet(g) : g \in
    {DeferralOver(f) : f \in
    {Watchdog(e) : e \in
    {Discovery(d) : d \in
    {Fulfilled(WaitOver(c)) : c \in
    {Deadline(b) : b \in
    {RemoteCancel(a) : a \in {RemoteStart(x)}}}}}}}}}

-----------------------------------------------------------------------------
Input == inputs < MaxInputs /\ inputs' = inputs + 1
Kept == UNCHANGED <<role, byHand, spared, inputs>>

(* The gestures, polled by the tick and at every report *)
DoubleTap ==
    /\ Input
    /\ h' = OpenWindow(h, TRUE)
    /\ byHand' = ~h.deferred
    /\ spared' = IF h.deferred THEN spared ELSE {}
    /\ UNCHANGED role
TripleTap ==
    /\ Input
    /\ WipeInWindow \/ ~(Open(h) \/ h.start \/ h.active)
    /\ h' = Wiped(h)
    /\ byHand' = FALSE
    /\ spared' = Unfinished(h)
    /\ UNCHANGED role

Tick ==
    /\ h' \in Ticks(h)
    /\ byHand' = (byHand /\ ~h.start /\ Open(h'))
    /\ UNCHANGED <<role, spared, inputs>>
(* The periodic reconnect of btstack_host_process, 3 s to 20 s into a scan *)
TickReconnects ==
    /\ h.st = "scanning"
    /\ \E y \in Ticks(h) :
        y.st = "scanning" /\ Reconnectable(y) /\ h' = Connect(y, y.last)
    /\ byHand' = (byHand /\ ~h.start /\ Open(h'))
    /\ UNCHANGED <<role, spared, inputs>>

(* pairing_op_run *)
StartAllowed == ~h.active /\ ~h.locked
RequestStart ==
    /\ Input /\ StartAllowed
    /\ h' = [h EXCEPT !.start = TRUE, !.active = TRUE]
    /\ UNCHANGED <<role, byHand, spared>>
RequestCancel ==
    /\ Input /\ h.active
    /\ h' = [h EXCEPT !.cancel = TRUE, !.active = FALSE]
    /\ UNCHANGED <<role, byHand, spared>>

(* Deadlines pass *)
WindowExpires ==
    /\ h.until = "ahead" /\ h' = [h EXCEPT !.until = "due"] /\ Kept
CompletionExpires ==
    /\ h.windowing = "on" /\ h' = [h EXCEPT !.windowing = "over"] /\ Kept
AttemptExpires ==
    /\ h.st = "connecting" /\ h.timer = "armed" /\ h' = [h EXCEPT !.timer = "late"] /\ Kept

-----------------------------------------------------------------------------
(* The controller's and the peers' events *)
Advertised(p) ==
    /\ h.st = "scanning" /\ h.link[p] = "none"
    /\ ~h.locked /\ (p \in h.bonds \/ h.hid)
    /\ h' = Connect(h, p) /\ Kept

Forgotten(x) == [x EXCEPT !.hci = None, !.cancelled = FALSE, !.target = None, !.fresh = FALSE]
Lost(x) == [Forgotten(x) EXCEPT !.timer = "off"]
AttemptFails ==
    /\ h.hci # None
    /\ LET y == ResolveDeferred(Lost(h))
           bonded == h.last # None /\ h.target = h.last
       IN h' = IF h.deferred /\ ~bonded THEN [y EXCEPT !.st = "idle"]
               ELSE IF y.scan THEN [y EXCEPT !.st = "scanning"]
               ELSE IF Reconnectable(y) THEN Retry([y EXCEPT !.st = "idle"])
               ELSE StartScan([y EXCEPT !.st = "idle"])
    /\ Kept
(* The completion of a cancelled attempt may never come. *)
CompletionNeverComes ==
    /\ h.hci # None /\ h.cancelled
    /\ h' = Forgotten(h)
    /\ Kept
(* The host books the link under the address it asked for last and asks    *)
(* for security: a stored key is used, otherwise the peer pairs.           *)
Established(x) ==
    ResolveDeferred([Lost(x) EXCEPT
        !.st = "connected",
        !.link[x.target] = IF x.target \in x.bonds THEN "reencrypting" ELSE "up",
        !.adm = IF x.fresh THEN @ \cup {x.target} ELSE @ \ {x.target}])
(* Slip: a completion queued before the wipe is served. *)
BookedUnlocked(x) == Established(x)
Booked(x) ==
    IF x.locked THEN ResolveDeferred([Lost(x) EXCEPT !.st = "idle"]) ELSE Established(x)
AttemptSucceeds ==
    /\ h.hci # None
    /\ h' = Booked(h) /\ Kept

(* The security manager's events and HID readiness.  Their handlers look   *)
(* neither at the lock nor at a disconnection that was requested: only the *)
(* fresh_pairing_admitted latch of the connection decides a new pairing.   *)
Remembered(x, p) == [x EXCEPT !.link[p] = "secured", !.last = p, !.tries = 0]

JustWorks(p) ==
    /\ h.link[p] = "up" /\ p \in h.adm
    /\ h' = [h EXCEPT !.link[p] = "pairing", !.adm = @ \ {p}]
    /\ Kept
Declined(p) ==
    /\ h.link[p] = "up" /\ p \notin h.adm
    /\ h' = [h EXCEPT !.closing = @ \cup {p}]
    /\ Kept
PairingCompletes(p) ==
    /\ h.link[p] = "pairing"
    /\ h' = [Remembered(h, p) EXCEPT !.bonds = @ \cup {p}]
    /\ Kept
Reencrypted(p) ==
    /\ h.link[p] = "reencrypting"
    /\ h' = Remembered(h, p)
    /\ Kept
(* The bond is preserved; an admitted peer is asked to pair afresh. *)
ReencryptionFails(p) ==
    /\ h.link[p] = "reencrypting"
    /\ h' = IF p \in h.adm THEN [h EXCEPT !.link[p] = "up"]
                            ELSE [h EXCEPT !.closing = @ \cup {p}]
    /\ Kept
HidReady(p) ==
    /\ h.link[p] = "secured"
    /\ h' = StopScan([h EXCEPT !.link[p] = "ready"])
    /\ Kept
Disconnected(p) ==
    /\ h.link[p] # "none"
    /\ LET y == [h EXCEPT !.link[p] = "none", !.closing = @ \ {p}, !.adm = @ \ {p},
                          !.st = "idle"]
           otherwise == IF Linked(y) = {} THEN StartScan(y) ELSE y
       IN \/ h' = otherwise  \* the peer left on purpose
          \/ h' = IF Reconnectable(y) THEN Retry(y) ELSE otherwise
    /\ Kept

(* Power is lost and the adapter boots on what flash holds. *)
Booted(x, l) ==
    LET y == [Off EXCEPT !.bonds = x.bonds, !.jplk = x.jplk, !.locked = x.jplk]
    IN IF y.locked THEN y ELSE StartScan([y EXCEPT !.last = l])
Reboot ==
    /\ Input
    /\ \E l \in h.bonds \cup {None} : h' = Booted(h, l)
    /\ byHand' = FALSE
    /\ UNCHANGED <<role, spared>>

-----------------------------------------------------------------------------
(* A new firmware boots locked. *)
Init ==
    /\ h = Off
    /\ role \in RoleChoices
    /\ byHand = FALSE /\ spared = {} /\ inputs = 0

SecurityStep(p) ==
    \/ JustWorks(p) \/ Declined(p) \/ PairingCompletes(p)
    \/ Reencrypted(p) \/ ReencryptionFails(p) \/ HidReady(p)
PeerStep == \E p \in Peers : Advertised(p) \/ SecurityStep(p) \/ Disconnected(p)
Next ==
    \/ DoubleTap \/ TripleTap \/ Tick \/ TickReconnects
    \/ RequestStart \/ RequestCancel
    \/ WindowExpires \/ CompletionExpires \/ AttemptExpires
    \/ AttemptFails \/ CompletionNeverComes \/ AttemptSucceeds
    \/ PeerStep
    \/ Reboot

Spec == Init /\ [][Next]_vars
(* The control timer keeps firing and an attempt grows old; nothing is     *)
(* assumed of the controller, the peers or the user.                       *)
FairSpec ==
    /\ Spec
    /\ WF_vars(Tick) /\ WF_vars(AttemptExpires)

PTypeOK ==
    /\ h \in Host /\ role \in RoleChoices
    /\ byHand \in BOOLEAN /\ spared \subseteq Peers /\ inputs \in 0 .. MaxInputs

(* Management bonds are admitted only while a window is open that somebody *)
(* at the adapter opened: a window opened over the air never hands out     *)
(* management, whatever was open before (btstack_host.c:985-996).          *)
GrantAttended == h.mgmt => byHand

(* After a wipe nothing is searched for, no link stands that is not being  *)
(* torn down, and the only peer that may be bonded is one whose pairing a  *)
(* window had admitted before the wipe and that completed while its link   *)
(* was going down: whatever was in flight when the gesture came, nobody    *)
(* else gets in (14063-14091, 6046-6055, 7231-7270).                       *)
LockHolds ==
    h.locked => ~h.scan /\ Linked(h) \subseteq h.closing /\ h.bonds \subseteq spared

(* Only the gesture ends the lock: no request over the air and no power    *)
(* cycle does (bt_transport_cyw43.c:217-219, btstack_host.c:1900-1925).    *)
LockEndsByHand == [][h.locked /\ ~h'.locked => byHand']_vars

(* A close that waits for a candidate ends, also when the controller never *)
(* answers the cancel; until it does no window can be opened (4561-4583).  *)
DeferralEnds == []<>~h.deferred

(* An open window whose source is incomplete looks for a peer again,       *)
(* whatever stopped the scan, and not only because the window ends         *)
(* (ns2_bt_host.c:383-413).                                                *)
WindowSearches ==
    []<>(Open(h) /\ ~Complete(h) => h.scan \/ h.st = "connecting")

(* A pairing operation of a client is concluded although the client may    *)
(* be gone, as long as the window's time passes (ns2_bt_host.c:322-369).   *)
OperationConcludes == WF_vars(WindowExpires) => []<>~h.active
=============================================================================
