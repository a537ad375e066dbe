----------------------------- MODULE ConfigSave -----------------------------
(***************************************************************************)
(* The adapter's settings (settings/config.c, config_persist.c,            *)
(* config_save_tracker.c): the live record, the numbered save requests of  *)
(* both cores, the deferred write of core 1 into one flash sector with no  *)
(* second copy, the reset of a newly installed firmware, and power losses  *)
(* between any two flash operations.  Contents are edition numbers; the    *)
(* companion table is a sequence, oldest first.                            *)
(***************************************************************************)
EXTENDS Naturals, Sequences, SequencesExt

CONSTANTS
    Companions,   \* addresses of management companions
    Slots,        \* CONFIG_MGMT_COMPANIONS_MAX
    Wrap,         \* modulus of the request counters, 2^32 in the code
    MaxEdits,     \* bound on the changes made to the settings
    MaxCrashes,   \* bound on power losses
    MaxInstalls   \* bound on firmware installs

ASSUME SettingsAssumption ==
    /\ Slots \in Nat \ {0} /\ Wrap \in Nat /\ Wrap > 1
    /\ {MaxEdits, MaxCrashes, MaxInstalls} \subseteq Nat

VARIABLES
    live,      \* cfg
    kbm,       \* the KB/M runtime's configuration, composed into the record
    flash,     \* the settings sector
    marker,    \* firmware_install_marker still carries its text
    saves,     \* save_tracker
    notBefore, \* save_not_before_ms: "none", "wait" (ahead) or "over"
    core0,     \* where core 0 is
    core1,     \* where core 1 is inside config_service_save
    job,       \* core 1's locals: completing_request, kbm_snapshot, record
    wanted,    \* the last save command's number until answered; history: what it covers
    spent      \* [edits, crashes, installs], the bounds' counters

vars == <<live, kbm, flash, marker, saves, notBefore, core0, core1, job, wanted, spent>>

Junk == "junk"
Settings == [user : 0..MaxEdits, wake : 0..MaxEdits, kbm : 0..MaxEdits,
             comps : SeqOf(Companions \cup {Junk}, Slots), install : 0..MaxInstalls]
Defaults == [user |-> 0, wake |-> 0, comps |-> <<>>]
Nothing == [user |-> 0, wake |-> 0, kbm |-> 0, comps |-> <<>>, install |-> 0]
Erased == [kind |-> "erased", rec |-> Nothing]
(* "head": the first page of the record is programmed, the rest is 0xFF *)
Sector == [kind : {"erased", "head", "whole"}, rec : Settings]

Composed == [user |-> live.user, wake |-> live.wake, kbm |-> kbm, comps |-> live.comps,
             install |-> spent.installs]

(* config_save_tracker *)
Pending == saves.requested # saves.completed
Plus1(n) == (n + 1) % Wrap
Reached(completed, id) == (completed + Wrap - id) % Wrap < Wrap \div 2
Outstanding == (saves.requested + Wrap - saves.completed) % Wrap
Room == Outstanding + 1 < Wrap \div 2
Request == saves' = [saves EXCEPT !.requested = Plus1(@)]

(* config_mgmt_companion_remember, _forget *)
Known(t, c) == \E i \in DOMAIN t : t[i] = c
Remembered(t, c) == IF Known(t, c) THEN t
                    ELSE IF Len(t) < Slots THEN Append(t, c) ELSE Append(Tail(t), c)
Forgotten(t, c) == SelectSeq(t, LAMBDA x : x # c)

NoJob == [request |-> 0, kbm |-> 0, rec |-> Nothing]
NoWant == [id |-> 0, rec |-> Nothing]

Init ==
    /\ live = Defaults /\ kbm = 0
    /\ flash = [kind |-> "whole", rec |-> Nothing]
    /\ marker = TRUE
    /\ saves = [requested |-> 0, completed |-> 0]
    /\ notBefore = "none"
    /\ core0 = "boot" /\ core1 = "off"
    /\ job = NoJob /\ wanted = NoWant
    /\ spent = [edits |-> 0, crashes |-> 0, installs |-> 1]

-----------------------------------------------------------------------------
(* Boot, on core 0 before core 1 starts: config_load *)
(* Slip: the marker is consumed before the sector is erased. *)
BootEraseLate ==
    /\ core0 = "boot" /\ marker
    /\ marker' = FALSE
    /\ core0' = "consume"
    /\ UNCHANGED <<live, kbm, flash, saves, notBefore, core1, job, wanted, spent>>
BootErase ==
    /\ core0 = "boot" /\ marker
    /\ flash' = Erased
    /\ core0' = "consume"
    /\ UNCHANGED <<live, kbm, marker, saves, notBefore, core1, job, wanted, spent>>
BootConsume ==
    /\ core0 = "consume"
    /\ marker' = FALSE
    /\ core0' = "load"
    /\ UNCHANGED <<live, kbm, flash, saves, notBefore, core1, job, wanted, spent>>
BootKeep ==
    /\ core0 = "boot" /\ ~marker
    /\ core0' = "load"
    /\ UNCHANGED <<live, kbm, flash, marker, saves, notBefore, core1, job, wanted, spent>>
(* config_persist_load: a record whose tail is unprogrammed has an unusable *)
(* KB/M block, which is repaired and saved, and companion rows of 0xFF      *)
BootLoad ==
    /\ core0 = "load"
    /\ LET r == flash.rec
       IN CASE flash.kind = "erased" -> live' = Defaults /\ kbm' = 0 /\ UNCHANGED saves
            [] flash.kind = "whole" ->
                 /\ live' = [user |-> r.user, wake |-> r.wake, comps |-> r.comps]
                 /\ kbm' = r.kbm /\ UNCHANGED saves
            [] flash.kind = "head" ->
                 /\ live' = [user |-> r.user, wake |-> r.wake,
                             comps |-> [i \in 1..Slots |-> Junk]]
                 /\ kbm' = 0 /\ Request
    /\ core0' = "run" /\ core1' = "idle"
    /\ UNCHANGED <<flash, marker, notBefore, job, wanted, spent>>

PowerOff(b) ==
    /\ live' = Defaults /\ kbm' = 0
    /\ saves' = [requested |-> 0, completed |-> 0] /\ notBefore' = "none"
    /\ core0' = "boot" /\ core1' = "off"
    /\ job' = NoJob /\ wanted' = NoWant
    /\ UNCHANGED flash
Crash ==
    /\ spent.crashes < MaxCrashes
    /\ spent' = [spent EXCEPT !.crashes = @ + 1]
    /\ PowerOff(marker) /\ UNCHANGED marker
(* flashing a UF2 restores the marker page and leaves the settings sector *)
Install ==
    /\ spent.installs < MaxInstalls
    /\ spent' = [spent EXCEPT !.installs = @ + 1]
    /\ PowerOff(TRUE) /\ marker' = TRUE

-----------------------------------------------------------------------------
(* Core 0.  The lockout parks it from the erase to the end of the program.  *)
Parked == core1 \in {"erased", "head"}
Free0 == core0 = "run" /\ ~Parked
Edit == spent.edits < MaxEdits /\ spent' = [spent EXCEPT !.edits = @ + 1]
Edition == spent.edits + 1

(* colour and KB/M commands change the live settings only *)
SetUser ==
    /\ Free0 /\ Edit
    /\ live' = [live EXCEPT !.user = Edition]
    /\ UNCHANGED <<kbm, flash, marker, saves, notBefore, core0, core1, job, wanted>>
SetKbm ==
    /\ Free0 /\ Edit
    /\ kbm' = Edition
    /\ UNCHANGED <<live, flash, marker, saves, notBefore, core0, core1, job, wanted>>

(* config_request_save, and the `save` command's answers.  Over the bridge  *)
(* the command is acknowledged as queued; over USB it waits.                *)
Save ==
    /\ Free0 /\ Room
    /\ notBefore' = "none"
    /\ core0' = "ask"
    /\ UNCHANGED <<live, kbm, flash, marker, saves, core1, job, wanted, spent>>
AskSave ==
    /\ core0 = "ask" /\ ~Parked
    /\ Request
    /\ wanted' = [id |-> saves'.requested, rec |-> Composed]
    /\ core0' \in {"run", "await"}
    /\ UNCHANGED <<live, kbm, flash, marker, notBefore, core1, job, spent>>
(* reached, or the two seconds are over *)
SaveAnswer(ok) ==
    /\ core0 = "await" /\ ~Parked
    /\ ok = Reached(saves.completed, wanted.id)
    /\ core0' = "run"
    /\ wanted' = IF ok THEN NoWant ELSE wanted
    /\ UNCHANGED <<live, kbm, flash, marker, saves, notBefore, core1, job, spent>>

(* config_store_wake_identity at the end of the USB pairing exchange *)
StoreWake ==
    /\ Free0 /\ Room /\ Edit
    /\ live' = [live EXCEPT !.wake = Edition]
    /\ core0' = "delay"
    /\ UNCHANGED <<kbm, flash, marker, saves, notBefore, core1, job, wanted>>
DelaySave ==
    /\ core0 = "delay" /\ ~Parked
    /\ notBefore' = "wait"
    /\ core0' = "askWake"
    /\ UNCHANGED <<live, kbm, flash, marker, saves, core1, job, wanted, spent>>
AskWake ==
    /\ core0 = "askWake" /\ ~Parked
    /\ Request
    /\ core0' = "run"
    /\ UNCHANGED <<live, kbm, flash, marker, notBefore, core1, job, wanted, spent>>

(* CONFIG_WAKE_SAVE_DELAY_MS have passed *)
(* Slip: the deadline is put off again at every look. *)
ElapseMissed ==
    /\ notBefore = "wait"
    /\ UNCHANGED vars
Elapse ==
    /\ notBefore = "wait"
    /\ notBefore' = "over"
    /\ UNCHANGED <<live, kbm, flash, marker, saves, core0, core1, job, wanted, spent>>

-----------------------------------------------------------------------------
(* Core 1 *)
(* Bluetooth callbacks: a companion authenticates, or is forgotten *)
Callback == core1 = "idle" /\ Room
NoteCompanion(c) ==
    /\ Callback /\ ~Known(live.comps, c) /\ Edit
    /\ live' = [live EXCEPT !.comps = Remembered(@, c)]
    /\ Request
    /\ UNCHANGED <<kbm, flash, marker, notBefore, core0, core1, job, wanted>>
ForgetCompanion(c) ==
    /\ Callback /\ Known(live.comps, c)
    /\ live' = [live EXCEPT !.comps = Forgotten(@, c)]
    /\ Request
    /\ UNCHANGED <<kbm, flash, marker, notBefore, core0, core1, job, wanted, spent>>

(* config_service_save: the delay, the request number, the two copies, the  *)
(* flash operations, the completion, and the delay's reset                  *)
ServiceSave ==
    /\ core1 = "idle" /\ Pending /\ notBefore # "wait"
    /\ core1' = "due"
    /\ UNCHANGED <<live, kbm, flash, marker, saves, notBefore, core0, job, wanted, spent>>
TakeRequest ==
    /\ core1 = "due"
    /\ job' = [job EXCEPT !.request = saves.requested]
    /\ core1' = "counted"
    /\ UNCHANGED <<live, kbm, flash, marker, saves, notBefore, core0, wanted, spent>>
CopyKbm ==
    /\ core1 = "counted"
    /\ job' = [job EXCEPT !.kbm = kbm]
    /\ core1' = "mapped"
    /\ UNCHANGED <<live, kbm, flash, marker, saves, notBefore, core0, wanted, spent>>
CopyLive ==
    /\ core1 = "mapped"
    /\ job' = [job EXCEPT !.rec = [Composed EXCEPT !.kbm = job.kbm]]
    /\ core1' = "copied"
    /\ UNCHANGED <<live, kbm, flash, marker, saves, notBefore, core0, wanted, spent>>
EraseSector ==
    /\ core1 = "copied"
    /\ flash' = Erased
    /\ core1' = "erased"
    /\ UNCHANGED <<live, kbm, marker, saves, notBefore, core0, job, wanted, spent>>
ProgramHead ==
    /\ core1 = "erased"
    /\ flash' = [kind |-> "head", rec |-> job.rec]
    /\ core1' = "head"
    /\ UNCHANGED <<live, kbm, marker, saves, notBefore, core0, job, wanted, spent>>
ProgramRest ==
    /\ core1 = "head"
    /\ flash' = [kind |-> "whole", rec |-> job.rec]
    /\ core1' = "written"
    /\ UNCHANGED <<live, kbm, marker, saves, notBefore, core0, job, wanted, spent>>
(* Slip: whatever has been requested by now counts as written. *)
CompleteSaveNewest ==
    /\ core1 = "written"
    /\ saves' = [saves EXCEPT !.completed = saves.requested]
    /\ core1' = "undelay"
    /\ UNCHANGED <<live, kbm, flash, marker, notBefore, core0, job, wanted, spent>>
CompleteSave ==
    /\ core1 = "written"
    /\ saves' = [saves EXCEPT !.completed = job.request]
    /\ core1' = "undelay"
    /\ UNCHANGED <<live, kbm, flash, marker, notBefore, core0, job, wanted, spent>>
ClearDelay ==
    /\ core1 = "undelay"
    /\ notBefore' = "none"
    /\ job' = NoJob
    /\ core1' = "idle"
    /\ wanted' = IF core0 # "await" /\ Reached(saves.completed, wanted.id) THEN NoWant ELSE wanted
    /\ UNCHANGED <<live, kbm, flash, marker, saves, core0, spent>>

Write1 == \/ ServiceSave \/ TakeRequest \/ CopyKbm \/ CopyLive \/ EraseSector
          \/ ProgramHead \/ ProgramRest \/ CompleteSave \/ ClearDelay
Boot == BootErase \/ BootConsume \/ BootKeep \/ BootLoad
Finish0 == AskSave \/ DelaySave \/ AskWake \/ \E ok \in BOOLEAN : SaveAnswer(ok)
Next ==
    \/ Boot \/ Crash \/ Install
    \/ SetUser \/ SetKbm \/ Save \/ StoreWake \/ Finish0 \/ Elapse
    \/ \E c \in Companions : NoteCompanion(c) \/ ForgetCompanion(c)
    \/ Write1

(* core 1's 30 ms control tick, core 0's main loop and the clock keep going *)
Spec == Init /\ [][Next]_vars
        /\ WF_vars(Write1) /\ WF_vars(Finish0) /\ WF_vars(Boot) /\ WF_vars(Elapse)

-----------------------------------------------------------------------------
(* Properties *)

(* Types of the variables. *)
CTypeOK ==
    /\ live \in [user : 0..MaxEdits, wake : 0..MaxEdits,
                 comps : SeqOf(Companions \cup {Junk}, Slots)]
    /\ kbm \in 0..MaxEdits
    /\ flash \in Sector
    /\ marker \in BOOLEAN
    /\ saves \in [requested : 0..(Wrap - 1), completed : 0..(Wrap - 1)]
    /\ notBefore \in {"none", "wait", "over"}
    /\ core0 \in {"boot", "consume", "load", "run", "ask", "await", "delay", "askWake"}
    /\ core1 \in {"off", "idle", "due", "counted", "mapped", "copied", "erased", "head",
                  "written", "undelay"}
    /\ job.request \in 0..(Wrap - 1) /\ job.kbm \in 0..MaxEdits /\ job.rec \in Settings
    /\ wanted.id \in 0..(Wrap - 1) /\ wanted.rec \in Settings
    /\ spent \in [edits : 0..MaxEdits, crashes : 0..MaxCrashes, installs : 1..MaxInstalls]

(* A save that is reported done is in flash: once `completed` has reached   *)
(* the number a save command was given, the sector holds every change made  *)
(* before that command, whatever core 1 was writing when it came ("completed*)
(* advances only after the actual settings-sector erase/program finishes"). *)
Covers(s, r) == s.kind = "whole" /\ s.rec.user >= r.user /\ s.rec.wake >= r.wake
                                 /\ s.rec.kbm >= r.kbm
SavedIsWritten ==
    (wanted # NoWant /\ Reached(saves.completed, wanted.id) /\ ~Parked)
        => Covers(flash, wanted.rec)

(* A new firmware starts from erased settings exactly once: while the       *)
(* marker stands, flash holds nothing this firmware wrote (so the reset can *)
(* be repeated after a power loss), and once it is consumed nothing an      *)
(* older firmware wrote.                                                    *)
InstallResetOnce ==
    flash.kind # "erased" => (flash.rec.install < spent.installs) = marker

(* Every requested save is answered by a write: with a request pending, a   *)
(* write that covers the newest request completes, unless power is lost.    *)
SavesComplete == Pending ~> (~Pending \/ core1 = "undelay")
=============================================================================
