------------------------ MODULE PairingWindowProofs ------------------------
(***************************************************************************)
(* The lock of a wipe and the grant of a pairing window, for every set of  *)
(* peers, every bound on retries, and every order of events.  A step is a  *)
(* composition of functions on the host's record, so the proofs carry two  *)
(* facts through each function: Locks, and Keeps (what may only shrink).   *)
(***************************************************************************)
EXTENDS PairingWindow, TLAPS

(* The record's fields; its other types do not matter here. *)
Shape(x) == DOMAIN x = DOMAIN Off /\ DOMAIN x.link = Peers

(* While the lock holds there is no scan and no link but those being torn   *)
(* down, and whoever is bonded, or may still be by a pairing under way, is  *)
(* among those the wipe found unfinished; the tag in flash and the flag     *)
(* agree.                                                                   *)
Locks(x, s) ==
    /\ Shape(x)
    /\ x.locked \in BOOLEAN /\ x.jplk = x.locked
    /\ x.locked =>
         ~x.scan /\ Linked(x) \subseteq x.closing /\ x.bonds \cup Unfinished(x) \subseteq s

(* The fields of the host's record. *)
LEMMA Fields ==
  DOMAIN Off = {"st", "scan", "timer", "target", "fresh", "last", "tries", "link", "adm",
                "closing", "hci", "cancelled", "bonds", "jplk", "locked", "hid", "mgmt",
                "until", "wait", "deferred", "active", "start", "cancel", "held", "windowing"}
BY DEF Off

(* The scan never starts against the lock. *)
LEMMA ScanLocks ==
  ASSUME NEW x, NEW s, Locks(x, s)
  PROVE  Locks(StopScan(x), s) /\ Locks(StartScan(x), s) /\ Locks(ResolveDeferred(x), s) /\ Locks(Close(x), s)
BY Fields DEF Locks, Shape, StopScan, StartScan, ResolveDeferred, Close, Linked, Unfinished

(* An attempt admits nobody. *)
LEMMA ConnectLocks ==
  ASSUME NEW x, NEW s, Locks(x, s), NEW p
  PROVE  Locks(Connect(x, p), s) /\ Locks(Retry(x), s)
BY Fields DEF Shape, Locks, Connect, Retry, StopScan, Linked, Unfinished

(* The end of a window leaves the lock alone. *)
LEMMA CloseWindowLocks ==
  ASSUME NEW x, NEW s, Locks(x, s)
  PROVE  Locks(CloseWindow(x), s)
BY Fields DEF Locks, Shape, CloseWindow, Close, StopScan, Linked, Unfinished

(* A window that opens ends the lock and its tag together. *)
LEMMA OpenWindowLocks ==
  ASSUME NEW x, NEW s, Locks(x, s), NEW grant
  PROVE  Locks(OpenWindow(x, grant), s)
BY Fields DEF Locks, Shape, OpenWindow, StartScan, DisconnectAll, Linked, Unfinished

(* The wipe establishes the lock. *)
LEMMA WipedLocks ==
  ASSUME NEW x, NEW s, Locks(x, s)
  PROVE  Locks(Wiped(x), Unfinished(x))
BY Fields DEF Locks, Shape, Wiped, DisconnectAll, StopScan, Linked, Unfinished

(* A control tick keeps it, stage after stage (control_timer_handler). *)
LEMMA TickLocks ==
  ASSUME NEW x, NEW s, Locks(x, s), NEW y \in Ticks(x)
  PROVE  Locks(y, s)
<1>. DEFINE a == RemoteStart(x)
            b == RemoteCancel(a)
            c == Deadline(b)
            v == WaitOver(c)
            d == Fulfilled(v)
            e == Discovery(d)
            f == Watchdog(e)
            g == DeferralOver(f)
            i == SafetyNet(g)
<1>1. y = Resync(i)
  BY DEF Ticks
<1>2. Locks(a, s)
  <2>. DEFINE z == [x EXCEPT !.start = FALSE]
  <2>1. Locks(z, s)
    BY Fields DEF Locks, Shape, Linked, Unfinished
  <2>2. Locks(OpenWindow(z, FALSE), s)
    BY <2>1, OpenWindowLocks
  <2>. QED BY <2>2, Fields DEF RemoteStart, Locks, Shape, Linked, Unfinished
<1>3. Locks(b, s)
  <2>1. Locks(a, s) => Locks(CloseWindow(a), s)
    BY CloseWindowLocks
  <2>. HIDE DEF a
  <2>. QED BY <1>2, <2>1, Fields DEF RemoteCancel, Locks, Shape, Linked, Unfinished
<1>4. Locks(c, s)
  <2>1. Locks(CloseWindow(b), s)
    BY <1>3, CloseWindowLocks
  <2>. HIDE DEF b
  <2>. QED BY <1>3, <2>1, Fields DEF Deadline, Locks, Shape, Linked, Unfinished
<1>5. Locks(v, s)
  <2>. HIDE DEF c
  <2>. QED BY <1>4, Fields DEF WaitOver, Locks, Shape, Linked, Unfinished
<1>6. Locks(d, s)
  <2>1. Locks(CloseWindow(v), s)
    BY <1>5, CloseWindowLocks
  <2>. HIDE DEF v
  <2>. QED BY <1>5, <2>1, Fields DEF Fulfilled, Locks, Shape, Linked, Unfinished
<1>7. Locks(e, s)
  <2>1. Locks(Tracked(d), s)
    <3>. HIDE DEF d
    <3>. QED BY <1>6, Fields DEF Tracked, Locks, Shape, Linked, Unfinished
  <2>2. Locks(StartScan(Tracked(d)), s) /\ Locks(StopScan(Tracked(d)), s)
    BY <2>1, ScanLocks
  <2>. HIDE DEF d
  <2>. QED BY <2>1, <2>2 DEF Discovery, Arm, Retire
<1>8. Locks(f, s)
  <2>. HIDE DEF e
  <2>. QED BY <1>7, Fields DEF Watchdog, Locks, Shape, Linked, Unfinished
<1>9. Locks(g, s)
  <2>1. Locks(ResolveDeferred(f), s)
    BY <1>8, ScanLocks
  <2>. HIDE DEF f
  <2>. QED BY <1>8, <2>1 DEF DeferralOver
<1>10. Locks(i, s)
  <2>1. Locks(StartScan(g), s)
    BY <1>9, ScanLocks
  <2>. HIDE DEF g
  <2>. QED BY <1>9, <2>1 DEF SafetyNet
<1>. HIDE DEF i
<1>. QED BY <1>1, <1>10, Fields DEF Resync, Locks, Shape, Linked, Unfinished

(* A new firmware boots locked and empty. *)
LEMMA InitLocks == Init => Locks(h, spared)
BY Fields DEF Init, Locks, Shape, Linked, Unfinished, Off

(* A failed attempt retries or scans only unlocked. *)
LEMMA FailureLocks ==
  ASSUME Locks(h, spared), AttemptFails
  PROVE  Locks(h', spared')
<1>. DEFINE z == ResolveDeferred(Lost(h))
            w == [z EXCEPT !.st = "idle"]
<1>1. Locks(Lost(h), spared)
  BY Fields DEF Lost, Forgotten, Locks, Shape, Linked, Unfinished
<1>2. Locks(z, spared)
  BY <1>1, ScanLocks
<1>3. Locks(w, spared) /\ Locks([z EXCEPT !.st = "scanning"], spared)
  <2>. HIDE DEF z
  <2>. QED BY <1>2, Fields DEF Locks, Shape, Linked, Unfinished
<1>4. Locks(StartScan(w), spared)
  BY <1>3, ScanLocks
<1>5. Locks(Retry(w), spared)
  BY <1>3, ConnectLocks
<1>. QED BY <1>3, <1>4, <1>5 DEF AttemptFails, Kept

(* So does a lost link. *)
LEMMA LossLocks ==
  ASSUME Locks(h, spared), NEW p \in Peers, Disconnected(p)
  PROVE  Locks(h', spared')
<1>. DEFINE z == [h EXCEPT !.link[p] = "none", !.closing = @ \ {p}, !.adm = @ \ {p},
                           !.st = "idle"]
<1>1. Locks(z, spared)
  BY Fields DEF Locks, Shape, Linked, Unfinished
<1>2. Locks(StartScan(z), spared)
  BY <1>1, ScanLocks
<1>3. Locks(Retry(z), spared)
  BY <1>1, ConnectLocks
<1>. QED BY <1>1, <1>2, <1>3 DEF Disconnected, Kept

(* Every step keeps the lock. *)
LEMMA NextLocks ==
  ASSUME Locks(h, spared), [Next]_vars
  PROVE  Locks(h', spared')
<1>1. CASE DoubleTap
  <2>1. CASE h.deferred
    BY <1>1, <2>1 DEF DoubleTap, OpenWindow
  <2>2. CASE ~h.deferred
    <3>1. Locks(h', spared)
      BY <1>1, OpenWindowLocks DEF DoubleTap
    <3>2. ~h'.locked
      <4>. DEFINE wait == Held(h) = {} /\ Ready(h) # {}
                  y == IF wait THEN DisconnectAll(h) ELSE h
                  v == [y EXCEPT !.hid = TRUE, !.locked = FALSE, !.jplk = FALSE]
      <4>1. Shape(y)
        BY Fields DEF Locks, Shape, DisconnectAll
      <4>2. Shape(v) /\ ~v.locked
        <5>. HIDE DEF y
        <5>. QED BY <4>1, Fields DEF Shape
      <4>3. Shape(StartScan(v)) /\ ~StartScan(v).locked
        <5>. HIDE DEF v
        <5>. QED BY <4>2, Fields DEF Shape, StartScan
      <4>4. h' = [StartScan(v) EXCEPT !.mgmt = TRUE, !.until = "ahead", !.wait = wait]
        BY <1>1, <2>2 DEF DoubleTap, OpenWindow
      <4>. HIDE DEF v
      <4>. QED BY <4>3, <4>4, Fields DEF Shape
    <3>. QED BY <3>1, <3>2 DEF Locks
  <2>. QED BY <2>1, <2>2
<1>2. CASE TripleTap
  BY <1>2, WipedLocks DEF TripleTap
<1>3. CASE Tick
  BY <1>3, TickLocks DEF Tick
<1>4. CASE TickReconnects
  BY <1>4, TickLocks, ConnectLocks DEF TickReconnects
<1>5. CASE RequestStart \/ RequestCancel
  BY <1>5, Fields DEF RequestStart, RequestCancel, Locks, Shape, Linked, Unfinished
<1>6. CASE WindowExpires \/ CompletionExpires \/ AttemptExpires
  BY <1>6, Fields DEF WindowExpires, CompletionExpires, AttemptExpires, Kept, Locks, Shape, Linked,
     Unfinished
<1>7. CASE AttemptFails
  BY <1>7, FailureLocks
<1>8. CASE CompletionNeverComes
  BY <1>8, Fields DEF CompletionNeverComes, Kept, Forgotten, Locks, Shape, Linked, Unfinished
<1>9. CASE AttemptSucceeds
  BY <1>9, Fields DEF AttemptSucceeds, Kept, Booked, Established, ResolveDeferred, StopScan, Lost,
     Forgotten, Locks, Shape, Linked, Unfinished
<1>10. ASSUME NEW p \in Peers, Advertised(p)
       PROVE  Locks(h', spared')
  BY <1>10, ConnectLocks DEF Advertised, Kept
<1>11. ASSUME NEW p \in Peers, SecurityStep(p)
       PROVE  Locks(h', spared')
  <2>1. CASE JustWorks(p)
    BY <2>1, Fields DEF JustWorks, Kept, Locks, Shape, Linked, Unfinished
  <2>2. CASE Declined(p)
    BY <2>2, Fields DEF Declined, Kept, Locks, Shape, Linked, Unfinished
  <2>3. CASE PairingCompletes(p)
    BY <2>3, Fields DEF PairingCompletes, Remembered, Kept, Locks, Shape, Linked, Unfinished
  <2>4. CASE Reencrypted(p)
    BY <2>4, Fields DEF Reencrypted, Remembered, Kept, Locks, Shape, Linked, Unfinished
  <2>5. CASE ReencryptionFails(p)
    BY <2>5, Fields DEF ReencryptionFails, Kept, Locks, Shape, Linked, Unfinished
  <2>6. CASE HidReady(p)
    BY <2>6, Fields DEF HidReady, StopScan, Kept, Locks, Shape, Linked, Unfinished
  <2>. QED BY <1>11, <2>1, <2>2, <2>3, <2>4, <2>5, <2>6 DEF SecurityStep
<1>12. ASSUME NEW p \in Peers, Disconnected(p)
       PROVE  Locks(h', spared')
  BY <1>12, LossLocks
<1>13. CASE Reboot
  BY <1>13, Fields DEF Reboot, Booted, StartScan, Off, Locks, Shape, Linked, Unfinished
<1>14. CASE UNCHANGED vars
  BY <1>14 DEF vars, Locks, Shape, Linked, Unfinished
<1>. QED BY <1>1, <1>2, <1>3, <1>4, <1>5, <1>6, <1>7, <1>8, <1>9, <1>10, <1>11, <1>12, <1>13,
           <1>14 DEF Next, PeerStep

(* Locks of the host's state, as a formula of the specification. *)
LockInv == Locks(h, spared)

(* It holds always. *)
LEMMA LockInvariant == Spec => []LockInv
<1>1. Init => LockInv
  BY InitLocks DEF LockInv
<1>2. LockInv /\ [Next]_vars => LockInv'
  BY NextLocks DEF LockInv
<1>. QED BY <1>1, <1>2, PTL DEF Spec

(* After a wipe nothing is searched for, no link stands that is not being   *)
(* torn down, and no peer is bonded but one whose admitted pairing the wipe *)
(* found unfinished, whatever the controller, the peers and the clients do  *)
(* next and however often power is lost, until a window is opened           *)
(* (btstack_host_delete_all_bonds; the handlers of the security manager ask *)
(* for no lock).                                                            *)
THEOREM LockAlwaysHolds == Spec => []LockHolds
<1>1. LockInv => LockHolds
  BY DEF LockInv, Locks, LockHolds
<1>. QED BY LockInvariant, <1>1, PTL

-----------------------------------------------------------------------------
(* What happens between the opening of a window and the next can only take  *)
(* the grant away, never give it, and leaves the lock.                      *)
Keeps(x, y) ==
    /\ Shape(y) /\ y.locked = x.locked /\ y.start = x.start
    /\ y.mgmt => x.mgmt /\ y.until = x.until /\ (y.deferred => x.deferred)

(* Steps of that kind compose. *)
LEMMA KeepsTransitive ==
  ASSUME NEW x, NEW y, NEW z, Keeps(x, y), Keeps(y, z)
  PROVE  Keeps(x, z)
BY DEF Keeps

(* The scan is one. *)
LEMMA ScanKeeps ==
  ASSUME NEW x, Shape(x)
  PROVE  Keeps(x, x) /\ Keeps(x, StopScan(x)) /\ Keeps(x, StartScan(x))
         /\ Keeps(x, ResolveDeferred(x))
BY Fields DEF Keeps, Shape, StopScan, StartScan, ResolveDeferred

(* So is an attempt. *)
LEMMA ConnectKeeps ==
  ASSUME NEW x, Shape(x), NEW p
  PROVE  Keeps(x, Connect(x, p)) /\ Keeps(x, Retry(x))
BY Fields DEF Keeps, Shape, Connect, Retry, StopScan

(* So is the end of a window. *)
LEMMA CloseWindowKeeps ==
  ASSUME NEW x, Shape(x)
  PROVE  Keeps(x, CloseWindow(x))
BY Fields DEF Keeps, Shape, CloseWindow, Close, StopScan

(* After its remote start, so is the rest of a tick. *)
LEMMA TickKeeps ==
  ASSUME NEW x, Shape(RemoteStart(x)), NEW y \in Ticks(x)
  PROVE  Keeps(RemoteStart(x), y)
<1>. DEFINE a == RemoteStart(x)
            b == RemoteCancel(a)
            c == Deadline(b)
            v == WaitOver(c)
            d == Fulfilled(v)
            e == Discovery(d)
            f == Watchdog(e)
            g == DeferralOver(f)
            i == SafetyNet(g)
<1>1. y = Resync(i)
  BY DEF Ticks
<1>2. Keeps(a, b)
  <2>1. Keeps(a, CloseWindow(a))
    BY CloseWindowKeeps
  <2>2. Shape(a)
    OBVIOUS
  <2>. HIDE DEF a
  <2>. QED BY <2>1, <2>2, Fields DEF RemoteCancel, Keeps, Shape
<1>3. Shape(b) /\ Keeps(b, c)
  <2>1. Shape(b)
    BY <1>2 DEF Keeps
  <2>2. Keeps(b, CloseWindow(b))
    BY <2>1, CloseWindowKeeps
  <2>. HIDE DEF b
  <2>. QED BY <2>1, <2>2, Fields DEF Deadline, Keeps, Shape
<1>4. Shape(c) /\ Keeps(c, v)
  <2>1. Shape(c)
    BY <1>3 DEF Keeps
  <2>. HIDE DEF c
  <2>. QED BY <2>1, Fields DEF WaitOver, Keeps, Shape
<1>5. Shape(v) /\ Keeps(v, d)
  <2>1. Shape(v)
    BY <1>4 DEF Keeps
  <2>2. Keeps(v, CloseWindow(v))
    BY <2>1, CloseWindowKeeps
  <2>. HIDE DEF v
  <2>. QED BY <2>1, <2>2, Fields DEF Fulfilled, Keeps, Shape
<1>6. Shape(d) /\ Keeps(d, e)
  <2>1. Shape(d)
    BY <1>5 DEF Keeps
  <2>2. Shape(Tracked(d)) /\ Keeps(d, Tracked(d))
    <3>. HIDE DEF d
    <3>. QED BY <2>1, Fields DEF Tracked, Keeps, Shape
  <2>3. Keeps(Tracked(d), StartScan(Tracked(d))) /\ Keeps(Tracked(d), StopScan(Tracked(d)))
    BY <2>2, ScanKeeps
  <2>4. Keeps(d, StartScan(Tracked(d))) /\ Keeps(d, StopScan(Tracked(d)))
    BY <2>2, <2>3, KeepsTransitive
  <2>. HIDE DEF d
  <2>. QED BY <2>1, <2>2, <2>4 DEF Discovery, Arm, Retire
<1>7. Shape(e) /\ Keeps(e, f)
  <2>1. Shape(e)
    BY <1>6 DEF Keeps
  <2>. HIDE DEF e
  <2>. QED BY <2>1, Fields DEF Watchdog, Keeps, Shape
<1>8. Shape(f) /\ Keeps(f, g)
  <2>1. Shape(f)
    BY <1>7 DEF Keeps
  <2>. HIDE DEF f
  <2>. QED BY <2>1, ScanKeeps DEF DeferralOver
<1>9. Shape(g) /\ Keeps(g, i)
  <2>1. Shape(g)
    BY <1>8 DEF Keeps
  <2>. HIDE DEF g
  <2>. QED BY <2>1, ScanKeeps DEF SafetyNet
<1>10. Keeps(i, y)
  <2>1. Shape(i)
    BY <1>9 DEF Keeps
  <2>. HIDE DEF i
  <2>. QED BY <1>1, <2>1, Fields DEF Resync, Keeps, Shape
<1>. HIDE DEF a, b, c, d, e, f, g, i, v
<1>. QED BY <1>2, <1>3, <1>4, <1>5, <1>6, <1>7, <1>8, <1>9, <1>10 DEF Keeps, a

(* A grant lives in an open window, not beside a deferred close; a remote   *)
(* start waiting for the tick is one that was allowed.                      *)
Grants(x) == (x.mgmt => Open(x)) /\ (x.deferred => ~x.mgmt) /\ (x.start => ~x.locked)

(* Keeping steps keep it. *)
LEMMA KeepsGrants ==
  ASSUME NEW x, NEW y, Grants(x), Keeps(x, y)
  PROVE  Grants(y)
BY DEF Grants, Keeps, Open

(* The inductive invariant of the grant. *)
GrantInv == LockInv /\ Grants(h) /\ GrantAttended

(* The steps that open no window and wipe nothing. *)
KeepingStep ==
    \/ RequestCancel \/ WindowExpires \/ CompletionExpires \/ AttemptExpires
    \/ AttemptFails \/ CompletionNeverComes \/ AttemptSucceeds \/ PeerStep

(* They keep the grant and the lock (the deadline only marks the window due). *)
LEMMA OtherStepsKeep ==
  ASSUME LockInv, Grants(h), KeepingStep, ~WindowExpires
  PROVE  Keeps(h, h') /\ byHand' = byHand
<1>0. Shape(h)
  BY DEF LockInv, Locks
<1>1. CASE RequestCancel \/ CompletionExpires \/ AttemptExpires \/ CompletionNeverComes
  BY <1>0, <1>1, Fields DEF RequestCancel, CompletionExpires, AttemptExpires, Kept,
     CompletionNeverComes, Forgotten, Keeps, Shape
<1>2. CASE AttemptFails
  <2>. DEFINE z == ResolveDeferred(Lost(h))
              w == [z EXCEPT !.st = "idle"]
  <2>1. Shape(Lost(h)) /\ Keeps(h, Lost(h))
    BY <1>0, Fields DEF Lost, Forgotten, Keeps, Shape
  <2>2. Keeps(h, z) /\ Shape(z)
    BY <2>1, ScanKeeps, KeepsTransitive DEF Keeps
  <2>3. Keeps(h, w) /\ Shape(w) /\ Keeps(h, [z EXCEPT !.st = "scanning"])
    <3>. HIDE DEF z
    <3>. QED BY <2>2, Fields DEF Keeps, Shape
  <2>4. Keeps(h, Retry(w)) /\ Keeps(h, StartScan(w))
    BY <2>3, ScanKeeps, ConnectKeeps, KeepsTransitive
  <2>. QED BY <1>2, <2>3, <2>4 DEF AttemptFails, Kept
<1>3. CASE AttemptSucceeds
  BY <1>0, <1>3, Fields DEF AttemptSucceeds, Kept, Booked, Established, ResolveDeferred, StopScan, Lost,
     Forgotten, Keeps, Shape
<1>4. ASSUME NEW p \in Peers, Disconnected(p)
      PROVE  Keeps(h, h') /\ byHand' = byHand
  <2>. DEFINE z == [h EXCEPT !.link[p] = "none", !.closing = @ \ {p}, !.adm = @ \ {p},
                             !.st = "idle"]
  <2>1. Shape(z) /\ Keeps(h, z)
    BY <1>0, Fields DEF Keeps, Shape
  <2>2. Keeps(h, StartScan(z)) /\ Keeps(h, Retry(z))
    BY <2>1, ScanKeeps, ConnectKeeps, KeepsTransitive
  <2>. QED BY <1>4, <2>1, <2>2 DEF Disconnected, Kept
<1>5. ASSUME NEW p \in Peers, Advertised(p)
      PROVE  Keeps(h, h') /\ byHand' = byHand
  BY <1>0, <1>5, ConnectKeeps DEF Advertised, Kept
<1>6. ASSUME NEW p \in Peers, SecurityStep(p)
      PROVE  Keeps(h, h') /\ byHand' = byHand
  <2>1. CASE JustWorks(p) \/ Declined(p) \/ HidReady(p)
    BY <1>0, <2>1, Fields DEF JustWorks, Declined, HidReady, Kept, StopScan, Keeps, Shape
  <2>2. CASE PairingCompletes(p)
    BY <1>0, <2>2, Fields DEF PairingCompletes, Remembered, Kept, Keeps, Shape
  <2>3. CASE Reencrypted(p)
    BY <1>0, <2>3, Fields DEF Reencrypted, Remembered, Kept, Keeps, Shape
  <2>4. CASE ReencryptionFails(p)
    BY <1>0, <2>4, Fields DEF ReencryptionFails, Kept, Keeps, Shape
  <2>. QED BY <1>6, <2>1, <2>2, <2>3, <2>4 DEF SecurityStep
<1>. QED BY <1>1, <1>2, <1>3, <1>4, <1>5, <1>6 DEF KeepingStep, PeerStep

(* A tick hands out no grant, and a remote start takes an earlier one away. *)
LEMMA TickGrants ==
  ASSUME LockInv, Grants(h), GrantAttended, NEW y, NEW z \in Ticks(h),
         Keeps(z, y), byHand' = (byHand /\ ~h.start /\ Open(y)), h' = y
  PROVE  /\ Grants(h') /\ GrantAttended'
         /\ h.locked => h'.locked
<1>. DEFINE a == RemoteStart(h)
<1>0. Shape(h)
  BY DEF LockInv, Locks
<1>1. Shape(a) /\ Grants(a) /\ (a.mgmt => h.mgmt /\ ~h.start) /\ (h.locked => a.locked)
  <2>1. CASE h.start
    <3>. DEFINE q == [h EXCEPT !.start = FALSE]
                s == OpenWindow(q, FALSE)
    <3>1. Shape(q) /\ q.mgmt = h.mgmt /\ q.deferred = h.deferred /\ q.until = h.until
          /\ ~q.start /\ q.locked = h.locked
      BY <1>0, Fields DEF Shape
    <3>2. Shape(s) /\ ~s.mgmt /\ ~s.start
      <4>. HIDE DEF q
      <4>. QED BY <3>1, Fields DEF OpenWindow, StartScan, DisconnectAll, Shape, Grants
    <3>3. a = [s EXCEPT !.active = Open(s)] /\ ~h.locked
      BY <2>1 DEF RemoteStart, Grants
    <3>. HIDE DEF s
    <3>. QED BY <3>2, <3>3, Fields DEF Shape, Grants
  <2>2. CASE ~h.start
    BY <1>0, <2>2 DEF RemoteStart, Grants
  <2>. QED BY <2>1, <2>2
<1>2. Keeps(a, z)
  BY <1>1, TickKeeps
<1>3. Keeps(a, y)
  BY <1>2, KeepsTransitive
<1>4. Grants(y)
  BY <1>1, <1>3, KeepsGrants
<1>. HIDE DEF a
<1>. QED BY <1>1, <1>3, <1>4 DEF Keeps, Grants, GrantAttended

(* Nothing is granted at boot. *)
LEMMA GrantInit == Init => GrantInv
BY InitLocks, Fields DEF Init, GrantInv, LockInv, Grants, GrantAttended, Off

(* Every step keeps the invariant and ends the lock by hand only. *)
LEMMA GrantNext ==
  ASSUME ~WipeInWindow, GrantInv, [Next]_vars
  PROVE  GrantInv' /\ (h.locked /\ ~h'.locked => byHand')
<1>0. LockInv' /\ LockInv /\ Grants(h) /\ GrantAttended /\ Shape(h)
  BY NextLocks DEF GrantInv, LockInv, Locks
<1>. SUFFICES Grants(h') /\ GrantAttended' /\ (h.locked /\ ~h'.locked => byHand')
  BY <1>0 DEF GrantInv
<1>1. CASE DoubleTap
  BY <1>0, <1>1, Fields DEF DoubleTap, OpenWindow, StartScan, DisconnectAll, Shape, Grants, Open,
     GrantAttended
<1>2. CASE TripleTap
  BY <1>0, <1>2, Fields DEF TripleTap, Wiped, StopScan, DisconnectAll, Shape, Grants, Open,
     GrantAttended
<1>3. CASE Tick
  <2>1. Keeps(h', h')
    BY <1>0 DEF LockInv, Locks, Keeps
  <2>. QED BY <1>0, <1>3, <2>1, TickGrants DEF Tick
<1>4. CASE TickReconnects
  <2>1. PICK z \in Ticks(h) : h' = Connect(z, z.last)
    BY <1>4 DEF TickReconnects
  <2>2. Shape(z)
    BY <1>0, TickLocks DEF LockInv, Locks
  <2>3. Keeps(z, h')
    BY <2>1, <2>2, ConnectKeeps
  <2>. QED BY <1>0, <1>4, <2>3, TickGrants DEF TickReconnects
<1>5. CASE RequestStart
  BY <1>0, <1>5, Fields DEF RequestStart, StartAllowed, Shape, Grants, Open, GrantAttended
<1>6. CASE WindowExpires
  BY <1>0, <1>6, Fields DEF WindowExpires, Kept, Shape, Grants, Open, GrantAttended
<1>7. CASE KeepingStep /\ ~WindowExpires
  <2>1. Keeps(h, h') /\ byHand' = byHand
    BY <1>0, <1>7, OtherStepsKeep
  <2>. QED BY <1>0, <2>1, KeepsGrants DEF Keeps, GrantAttended
<1>8. CASE Reboot
  BY <1>0, <1>8, Fields DEF Reboot, Booted, StartScan, Off, Shape, Grants, Open, GrantAttended,
     LockInv, Locks
<1>9. CASE UNCHANGED vars
  BY <1>0, <1>9 DEF vars, Grants, Open, GrantAttended
<1>. QED BY <1>1, <1>2, <1>3, <1>4, <1>5, <1>6, <1>7, <1>8, <1>9 DEF Next, KeepingStep

(* The invariant holds always, if no wipe comes inside a window. *)
LEMMA GrantInvariant ==
  ASSUME ~WipeInWindow
  PROVE  Spec => []GrantInv
<1>1. GrantInv /\ [Next]_vars => GrantInv'
  BY GrantNext
<1>. QED BY <1>1, GrantInit, PTL DEF Spec

(* A grant of management belongs to a window opened by the gesture, never   *)
(* to one opened over the air (ns2_bt_host.c), if no wipe comes inside a    *)
(* window (pairing_wipe shows what happens then).                           *)
THEOREM GrantsAttended ==
  ASSUME ~WipeInWindow
  PROVE  Spec => []GrantAttended
<1>1. GrantInv => GrantAttended
  BY DEF GrantInv
<1>. QED BY <1>1, GrantInvariant, PTL

(* Under the same condition only the gesture at the adapter ends the lock   *)
(* of a wipe, for any number of requests and power cycles.                  *)
THEOREM LockEndsAttended ==
  ASSUME ~WipeInWindow
  PROVE  Spec => LockEndsByHand
<1>1. GrantInv /\ [Next]_vars => [h.locked /\ ~h'.locked => byHand']_vars
  BY GrantNext
<1>. QED BY <1>1, GrantInvariant, PTL DEF Spec, LockEndsByHand
=============================================================================
