---------------------------- MODULE AmiiboStore ----------------------------
(***************************************************************************)
(* The virtual amiibo store (nfc/virtual_amiibo_store.c, virtual_amiibo.c) *)
(* with its two-bank flash journal.  Core 0 runs the management commands   *)
(* and the console's NFC commands; core 1 writes the journal from its      *)
(* config-service point, parking core 0 for each flash operation.  Power   *)
(* may be lost at every step.  A tag's contents are an edition number: a   *)
(* new one for every upload and every console write.                       *)
(***************************************************************************)
EXTENDS Naturals, FiniteSets

CONSTANTS
    MaxEdits,    \* bound on the editions created
    MaxChanges,  \* bound on downloads, selections and `persist` commands
    MaxClears,   \* bound on `amiibo clear` commands
    MaxCrashes,  \* bound on power losses
    MaxBad,      \* bound on program operations that do not verify
    CommitInsideSave, \* may an upload commit overlap a journal write?
    ReplaceUnsaved    \* may a 540 image replace a 2 KB one not saved yet?

ASSUME BoundsAssumption == /\ {MaxEdits, MaxChanges, MaxClears, MaxCrashes, MaxBad} \subseteq Nat
                           /\ {CommitInsideSave, ReplaceUnsaved} \subseteq BOOLEAN

VARIABLES
    tag,      \* the 540/572-byte tag, `tag`
    v3,       \* the 2048-byte slot: v3_slot_loaded, v3_image, v3_generation, ...
    up,       \* uploads: up.v2 (tag.upload_*) and up.v3 (v3_upload_*)
    shown,    \* presented_snapshot
    ask,      \* [persist, clear]: persist_requested, clear_requested
    bank,     \* the two flash banks
    active,   \* active_bank, 2 standing for -1
    buf,      \* record_buffer
    core0,    \* where core 0 is inside a store call
    core1,    \* where core 1 is inside service_save
    promised, \* history: the last tag known saved and not given up since
    erased,   \* history: a clear has completed and nothing was loaded since
    used      \* history: [edits, changes, clears, crashes, bad], the bounds' counters

storeVars == <<tag, v3, up, shown, ask, bank, active, buf, core0, core1, promised, erased, used>>

Edition == 0..MaxEdits
Gen == Nat
Format == {"v1", "v2", "v3", "none"}
Record == [fmt : Format, gen : Gen, clean : Edition, used : Edition, using : BOOLEAN, dirty : BOOLEAN]
Blank == [fmt |-> "none", gen |-> 0, clean |-> 0, used |-> 0, using |-> FALSE, dirty |-> FALSE]
NoTag == [loaded |-> FALSE, clean |-> 0, used |-> 0, using |-> FALSE,
          dirty |-> FALSE, persisted |-> FALSE, gen |-> 0]
Banks == {0, 1}
NoBank == 2

(* the journal record of a 540/572 tag, and of the 2 KB slot *)
RecordV2(t) == [fmt |-> "v2", gen |-> t.gen, clean |-> t.clean, used |-> t.used,
                using |-> t.using, dirty |-> t.dirty]
RecordV3(s) == [fmt |-> "v3", gen |-> s.gen, clean |-> s.image, used |-> 0,
                using |-> FALSE, dirty |-> s.dirty]

(* what boot picks: the newest valid 2 KB record, else the newest 540 one, *)
(* else the migrated version-1 record of bank 0; bank 0 wins a tie         *)
Of(b, f) == {i \in Banks : b[i].fmt = f}
Newest(b, f) == IF Of(b, f) = Banks
                  THEN IF b[1].gen > b[0].gen THEN 1 ELSE 0
                  ELSE CHOOSE i \in Of(b, f) : TRUE
BootBank(b) == IF Of(b, "v3") # {} THEN Newest(b, "v3")
               ELSE IF Of(b, "v2") # {} THEN Newest(b, "v2") ELSE NoBank
Booted(b) == IF BootBank(b) # NoBank THEN b[BootBank(b)]
             ELSE IF b[0].fmt = "v1" THEN b[0] ELSE Blank

TagOf(r) == IF r.fmt \in {"v1", "v2"}
              THEN [loaded |-> TRUE, clean |-> r.clean, used |-> r.used, using |-> r.using,
                    dirty |-> r.dirty, persisted |-> TRUE, gen |-> r.gen]
              ELSE NoTag
SlotOf(r) == IF r.fmt = "v3"
               THEN [loaded |-> TRUE, image |-> r.clean, gen |-> r.gen, dirty |-> r.dirty,
                     persisted |-> TRUE]
               ELSE [loaded |-> FALSE, image |-> 0, gen |-> 0, dirty |-> FALSE, persisted |-> FALSE]

(* virtual_amiibo_store_init: RAM is rebuilt from the banks *)
Boot(b) ==
    /\ tag' = TagOf(Booted(b))
    /\ v3' = SlotOf(Booted(b))
    /\ up' = [v2 |-> FALSE, v3 |-> FALSE]
    /\ shown' = (Booted(b).fmt # "none")
    /\ ask' = [persist |-> FALSE, clear |-> FALSE]
    /\ active' = BootBank(b)
    /\ buf' = Blank
    /\ core0' = "idle" /\ core1' = "idle"
    /\ promised' = Booted(b)

StoreInit ==
    /\ bank \in {[i \in Banks |-> Blank],
                 [i \in Banks |-> IF i = 0 THEN [Blank EXCEPT !.fmt = "v1", !.gen = 1, !.clean = 1]
                                  ELSE Blank]}
    /\ tag = TagOf(Booted(bank)) /\ v3 = SlotOf(Booted(bank))
    /\ up = [v2 |-> FALSE, v3 |-> FALSE]
    /\ shown = (Booted(bank).fmt # "none")
    /\ ask = [persist |-> FALSE, clear |-> FALSE]
    /\ active = BootBank(bank)
    /\ buf = Blank /\ core0 = "idle" /\ core1 = "idle"
    /\ promised = Booted(bank) /\ erased = FALSE
    /\ used = [edits |-> 1, changes |-> 0, clears |-> 0, crashes |-> 0, bad |-> 0]

-----------------------------------------------------------------------------
(* Core 0.  multicore_lockout parks it while core 1 has the flash: between  *)
(* the first and the last flash operation of one lockout.                   *)
Locked == core1 \in {"wipe1", "program"}
Core0Free == core0 = "idle" /\ ~Locked
Inside == {"commit2", "commit3"}
MayCommit == CommitInsideSave \/ core1 = "idle"

Fresh == used.edits < MaxEdits
NextEdition == used.edits + 1
Spend(k) == used' = [used EXCEPT ![k] = @ + 1]

flash == <<bank, active, buf, core1>>

(* amiibo begin: refused over an unsaved console write of this format *)
BeginV2 ==
    /\ Core0Free /\ ~(tag.loaded /\ tag.dirty)
    /\ up' = [up EXCEPT !.v2 = TRUE]
    /\ UNCHANGED <<tag, v3, shown, ask, flash, core0, promised, erased, used>>
BeginV3 ==
    /\ Core0Free /\ ~v3.dirty /\ ~tag.dirty
    /\ up' = [up EXCEPT !.v3 = TRUE]
    /\ UNCHANGED <<tag, v3, shown, ask, flash, core0, promised, erased, used>>

(* `chunk` only fills the upload buffer, and a commit that finds it          *)
(* incomplete changes nothing; both go to the 2 KB upload while it is open  *)
(* amiibo commit of a 540/572 image, under tag_lock; the slot of the other  *)
(* format and the save request follow outside it                            *)
CommitV2 ==
    /\ Core0Free /\ MayCommit /\ Fresh
    /\ up.v2 /\ ~up.v3
    /\ ReplaceUnsaved \/ (v3.loaded => v3.persisted)
    /\ tag' = [loaded |-> TRUE, clean |-> NextEdition, used |-> 0, using |-> FALSE,
               dirty |-> FALSE, persisted |-> FALSE, gen |-> tag.gen + 1]
    /\ up' = [up EXCEPT !.v2 = FALSE]
    /\ shown' = TRUE
    /\ core0' = "commit2"
    /\ promised' = IF promised.fmt = "v3" THEN Blank ELSE promised
    /\ erased' = FALSE
    /\ Spend("edits")
    /\ UNCHANGED <<v3, ask, flash>>
FinishV2 ==
    /\ core0 = "commit2" /\ ~Locked
    /\ v3' = [v3 EXCEPT !.loaded = FALSE]
    /\ core0' = "persist"
    /\ UNCHANGED <<tag, up, shown, ask, flash, promised, erased, used>>

(* amiibo commit of a 2 KB image: tag_lock, then the snapshot flags *)
CommitV3 ==
    /\ Core0Free /\ MayCommit /\ Fresh
    /\ up.v3
    /\ v3' = [v3 EXCEPT !.image = NextEdition, !.gen = @ + 1, !.dirty = FALSE, !.persisted = FALSE]
    /\ tag' = NoTag
    /\ up' = [v2 |-> FALSE, v3 |-> FALSE]
    /\ core0' = "commit3"
    /\ promised' = IF promised.fmt = "v3" THEN promised ELSE Blank
    /\ erased' = FALSE
    /\ Spend("edits")
    /\ UNCHANGED <<shown, ask, flash>>
FinishV3 ==
    /\ core0 = "commit3" /\ ~Locked
    /\ v3' = [v3 EXCEPT !.loaded = TRUE]
    /\ shown' = TRUE
    /\ core0' = "persist"
    /\ UNCHANGED <<tag, up, ask, flash, promised, erased, used>>

(* the store persist_requested = true that ends every changing command *)
AskPersist ==
    /\ core0 = "persist" /\ ~Locked
    /\ ask' = [ask EXCEPT !.persist = TRUE]
    /\ core0' = "idle"
    /\ UNCHANGED <<tag, v3, up, shown, flash, promised, erased, used>>

(* amiibo commit save2: the upload becomes the written copy of the same tag *)
CommitUsed ==
    /\ Core0Free /\ MayCommit /\ Fresh
    /\ tag.loaded /\ up.v2
    /\ tag' = [tag EXCEPT !.used = NextEdition, !.using = TRUE, !.dirty = FALSE,
                          !.persisted = FALSE, !.gen = @ + 1]
    /\ up' = [up EXCEPT !.v2 = FALSE]
    /\ core0' = "persist"
    /\ Spend("edits")
    /\ UNCHANGED <<v3, shown, ask, flash, promised, erased>>

Cancel ==
    /\ Core0Free
    /\ up' = [v2 |-> FALSE, v3 |-> FALSE]
    /\ UNCHANGED <<tag, v3, shown, ask, flash, core0, promised, erased, used>>

(* amiibo downloaded: the client has stored the console's write *)
Downloaded ==
    /\ Core0Free /\ used.changes < MaxChanges
    /\ IF v3.loaded
         THEN /\ v3.dirty
              /\ v3' = [v3 EXCEPT !.dirty = FALSE, !.persisted = FALSE, !.gen = @ + 1]
              /\ UNCHANGED tag
         ELSE /\ tag.loaded /\ tag.dirty
              /\ tag' = [tag EXCEPT !.dirty = FALSE, !.persisted = FALSE, !.gen = @ + 1]
              /\ UNCHANGED v3
    /\ core0' = "persist"
    /\ Spend("changes")
    /\ UNCHANGED <<up, shown, ask, flash, promised, erased>>

(* amiibo select save1 | save2; with a 2 KB tag the 540 store is empty *)
SelectUsed(u) ==
    /\ Core0Free /\ used.changes < MaxChanges
    /\ tag.loaded /\ (u => tag.used # 0) /\ tag.using # u
    /\ tag' = [tag EXCEPT !.using = u, !.persisted = FALSE, !.gen = @ + 1]
    /\ core0' = "persist"
    /\ Spend("changes")
    /\ UNCHANGED <<v3, up, shown, ask, flash, promised, erased>>

(* amiibo present | eject *)
Present(p) ==
    /\ Core0Free /\ shown # p
    /\ p => (v3.loaded \/ tag.loaded)
    /\ shown' = p
    /\ UNCHANGED <<tag, v3, up, ask, flash, core0, promised, erased, used>>

(* amiibo persist *)
RequestPersist ==
    /\ Core0Free /\ used.changes < MaxChanges
    /\ (tag.loaded \/ v3.loaded) /\ ~ask.persist
    /\ ask' = [ask EXCEPT !.persist = TRUE]
    /\ Spend("changes")
    /\ UNCHANGED <<tag, v3, up, shown, flash, core0, promised, erased>>

(* amiibo clear: under tag_lock, then the snapshot flags, then the request *)
RequestClear ==
    /\ Core0Free /\ used.clears < MaxClears
    /\ tag' = NoTag
    /\ v3' = [v3 EXCEPT !.dirty = FALSE, !.persisted = FALSE, !.gen = 0]
    /\ up' = [up EXCEPT !.v2 = FALSE]
    /\ ask' = [ask EXCEPT !.persist = FALSE]
    /\ core0' = "clearFlags"
    /\ promised' = Blank
    /\ Spend("clears")
    /\ UNCHANGED <<shown, flash, erased>>
ClearFlags ==
    /\ core0 = "clearFlags" /\ ~Locked
    /\ v3' = [v3 EXCEPT !.loaded = FALSE]
    /\ up' = [up EXCEPT !.v3 = FALSE]
    /\ shown' = FALSE
    /\ core0' = "clearAsk"
    /\ UNCHANGED <<tag, ask, flash, promised, erased, used>>
ClearAsk ==
    /\ core0 = "clearAsk" /\ ~Locked
    /\ ask' = [ask EXCEPT !.clear = TRUE]
    /\ core0' = "idle"
    /\ UNCHANGED <<tag, v3, up, shown, flash, promised, erased, used>>

(* virtual_amiibo_store_apply_console_write and its 2 KB twin: refused when *)
(* the store moved on since `expected`                                      *)
WriteV2(expected) ==
    /\ Fresh /\ tag.loaded /\ tag.gen = expected
    /\ tag' = [tag EXCEPT !.used = NextEdition, !.using = TRUE, !.dirty = TRUE,
                          !.persisted = FALSE, !.gen = @ + 1]
    /\ core0' = "persist"
    /\ Spend("edits")
    /\ UNCHANGED <<v3, up, shown, ask, flash, promised, erased>>
WriteV3(expected, visible) ==
    /\ Fresh /\ v3.loaded /\ v3.gen = expected
    /\ v3' = [v3 EXCEPT !.image = NextEdition, !.dirty = TRUE, !.persisted = FALSE, !.gen = @ + 1]
    /\ shown' = visible
    /\ core0' = "persist"
    /\ Spend("edits")
    /\ UNCHANGED <<tag, up, ask, flash, promised, erased>>
ConsoleWrite == Core0Free /\ (WriteV2(tag.gen) \/ WriteV3(v3.gen, shown))

ram == <<tag, v3, up, shown, core0>>

-----------------------------------------------------------------------------
(* Core 1: virtual_amiibo_store_service_save                                *)
SaveStart ==
    /\ core1 = "idle" /\ (CommitInsideSave \/ core0 \notin Inside)
    /\ ask.clear \/ ask.persist
    /\ core1' = IF ask.clear THEN "clear0" ELSE "check"
    /\ UNCHANGED <<ram, ask, bank, active, buf, promised, erased, used>>

(* one lockout per bank: core 0 runs between the two *)
ClearBank0 ==
    /\ core1 = "clear0"
    /\ bank' = [bank EXCEPT ![0] = Blank]
    /\ core1' = "clear1"
    /\ UNCHANGED <<ram, ask, active, buf, promised, erased, used>>
(* Slip: only the first bank is erased. *)
ClearBank1Skipped ==
    /\ core1 = "clear1"
    /\ core1' = "cleared"
    /\ UNCHANGED <<ram, ask, bank, active, buf, promised, erased, used>>
ClearBank1 ==
    /\ core1 = "clear1"
    /\ bank' = [bank EXCEPT ![1] = Blank]
    /\ core1' = "cleared"
    /\ UNCHANGED <<ram, ask, active, buf, promised, erased, used>>
ClearDone ==
    /\ core1 = "cleared"
    /\ active' = NoBank
    /\ ask' = [ask EXCEPT !.clear = FALSE]
    /\ core1' = IF ask.persist THEN "check" ELSE "idle"
    /\ erased' = (~tag.loaded /\ ~v3.loaded /\ core0 # "commit3")
    /\ UNCHANGED <<ram, bank, buf, promised, used>>

(* which format to write is read outside tag_lock *)
Check ==
    /\ core1 = "check"
    /\ core1' = IF v3.loaded THEN "snap3" ELSE "snap2"
    /\ UNCHANGED <<ram, ask, bank, active, buf, promised, erased, used>>

NeedsWipe(f) == Of(bank, f) # {}
SnapV3 ==
    /\ core1 = "snap3"
    /\ buf' = RecordV3(v3)
    /\ core1' = IF NeedsWipe("v2") THEN "wipe0" ELSE "erase"
    /\ UNCHANGED <<ram, ask, bank, active, promised, erased, used>>
SnapV2 ==
    /\ core1 = "snap2" /\ tag.loaded
    /\ buf' = RecordV2(tag)
    /\ core1' = IF NeedsWipe("v3") THEN "wipe0" ELSE "erase"
    /\ UNCHANGED <<ram, ask, bank, active, promised, erased, used>>
SnapNothing ==
    /\ core1 = "snap2" /\ ~tag.loaded
    /\ ask' = [ask EXCEPT !.persist = FALSE]
    /\ core1' = "idle"
    /\ UNCHANGED <<ram, bank, active, buf, promised, erased, used>>

(* a change of format erases both banks in one lockout *)
Wipe0 ==
    /\ core1 = "wipe0"
    /\ bank' = [bank EXCEPT ![0] = Blank]
    /\ core1' = "wipe1"
    /\ UNCHANGED <<ram, ask, active, buf, promised, erased, used>>
Wipe1 ==
    /\ core1 = "wipe1"
    /\ bank' = [bank EXCEPT ![1] = Blank]
    /\ active' = NoBank
    /\ core1' = "erase"
    /\ UNCHANGED <<ram, ask, buf, promised, erased, used>>

(* Slip: the record is rewritten in place. *)
DestinationSame == IF active = NoBank THEN IF buf.fmt = "v3" THEN 0 ELSE 1 ELSE active

(* the banks alternate; with none active a version-1 record in bank 0 is    *)
(* spared by a 540 record                                                   *)
Destination == CASE active = NoBank -> IF buf.fmt = "v3" THEN 0 ELSE 1
                 [] active = 0 -> 1
                 [] active = 1 -> 0
Erase ==
    /\ core1 = "erase"
    /\ bank' = [bank EXCEPT ![Destination] = Blank]
    /\ core1' = "program"
    /\ UNCHANGED <<ram, ask, active, buf, promised, erased, used>>
Program(ok) ==
    /\ core1 = "program"
    /\ bank' = [bank EXCEPT ![Destination] = IF ok THEN buf ELSE Blank]
    /\ core1' = "settle"
    /\ IF ok THEN UNCHANGED used ELSE used.bad < MaxBad /\ Spend("bad")
    /\ UNCHANGED <<ram, ask, active, buf, promised, erased>>

(* verification, then under tag_lock: has the tag moved on meanwhile? *)
Verified == bank[Destination] = buf
StillLoaded == IF buf.fmt = "v3" THEN v3.loaded ELSE tag.loaded
(* Slip: a tag that changed during the write counts as saved. *)
StillCurrentAnyGen == StillLoaded
StillCurrent == StillLoaded /\ buf.gen = (IF buf.fmt = "v3" THEN v3.gen ELSE tag.gen)
(* Slip: a write overtaken by a change is not repeated. *)
RetriedNever(saved) == FALSE
Retried(saved) == ~saved /\ StillLoaded
Settle ==
    /\ core1 = "settle"
    /\ active' = IF Verified THEN Destination ELSE active
    /\ LET saved == Verified /\ StillCurrent
       IN /\ tag' = IF saved /\ buf.fmt = "v2" THEN [tag EXCEPT !.persisted = TRUE] ELSE tag
          /\ v3' = IF saved /\ buf.fmt = "v3" THEN [v3 EXCEPT !.persisted = TRUE] ELSE v3
          /\ ask' = [ask EXCEPT !.persist = Retried(saved)]
          /\ promised' = IF saved /\ core0 # "clearFlags" THEN buf ELSE promised
    /\ core1' = "idle"
    /\ UNCHANGED <<up, shown, core0, bank, buf, erased, used>>

Crash ==
    /\ used.crashes < MaxCrashes
    /\ Spend("crashes")
    /\ Boot(bank)
    /\ UNCHANGED <<bank, erased>>

Save1 == \/ SaveStart \/ ClearBank0 \/ ClearBank1 \/ ClearDone
         \/ Check \/ SnapV3 \/ SnapV2 \/ SnapNothing \/ Wipe0 \/ Wipe1
         \/ Erase \/ \E ok \in BOOLEAN : Program(ok)
         \/ Settle
Finish0 == FinishV2 \/ FinishV3 \/ AskPersist \/ ClearFlags \/ ClearAsk
Command == \/ BeginV2 \/ BeginV3 \/ CommitV2 \/ CommitV3 \/ CommitUsed
           \/ Cancel \/ Downloaded \/ RequestPersist
           \/ \E b \in BOOLEAN : SelectUsed(b) \/ Present(b)
StoreNext == Save1 \/ Finish0 \/ Command \/ RequestClear \/ ConsoleWrite \/ Crash
StoreSpec == StoreInit /\ [][StoreNext]_storeVars /\ WF_storeVars(Save1) /\ WF_storeVars(Finish0)

-----------------------------------------------------------------------------
(* Properties *)

(* Types of the variables; the active bank holds a record, unless a flash   *)
(* operation has just erased it.                                            *)
AmTypeOK ==
    /\ tag \in [loaded : BOOLEAN, clean : Edition, used : Edition, using : BOOLEAN,
                dirty : BOOLEAN, persisted : BOOLEAN, gen : Gen]
    /\ v3 \in [loaded : BOOLEAN, image : Edition, gen : Gen, dirty : BOOLEAN, persisted : BOOLEAN]
    /\ up \in [v2 : BOOLEAN, v3 : BOOLEAN]
    /\ shown \in BOOLEAN /\ erased \in BOOLEAN
    /\ ask \in [persist : BOOLEAN, clear : BOOLEAN]
    /\ bank \in [Banks -> Record] /\ buf \in Record /\ promised \in Record
    /\ active \in Banks \cup {NoBank}
    /\ (active # NoBank /\ core1 \notin {"clear1", "cleared", "wipe1", "program", "settle"})
         => bank[active].fmt \in {"v2", "v3"}
    /\ core0 \in {"idle", "persist", "clearFlags", "clearAsk"} \cup Inside
    /\ core1 \in {"idle", "clear0", "clear1", "cleared", "check", "snap2", "snap3",
                  "wipe0", "wipe1", "erase", "program", "settle"}
    /\ used \in [edits : Edition, changes : 0..MaxChanges, clears : 0..MaxClears,
                 crashes : 0..MaxCrashes, bad : 0..MaxBad]

(* A tag reported persisted is what a reboot loads, at every moment: also   *)
(* while a re-save or a change of format is half done (a clear in progress  *)
(* reports nothing).                                                        *)
SavedSurvives ==
  core0 # "clearFlags" =>
    /\ (tag.loaded /\ tag.persisted) => TagOf(Booted(bank)) = tag
    /\ (v3.loaded /\ v3.persisted) => SlotOf(Booted(bank)) = v3

(* While newer changes of the same tag format wait or are being written, a  *)
(* power loss falls back to the last saved generation or a newer one, never *)
(* to nothing and never to an older one (the banks alternate).              *)
Class(f) == IF f = "v1" THEN "v2" ELSE f
PriorSurvives ==
    promised # Blank =>
        LET r == Booted(bank)
        IN /\ Class(r.fmt) = Class(promised.fmt)
           /\ r.gen >= promised.gen
           /\ r.gen = promised.gen => [r EXCEPT !.fmt = promised.fmt] = promised

(* Once a clear has completed, and until something is loaded again, a power *)
(* cycle cannot bring the discarded tag back.                               *)
ClearedStays == erased => Booted(bank) = Blank

Unsaved == IF v3.loaded THEN ~v3.persisted ELSE tag.loaded /\ ~tag.persisted

(* Under fair scheduling of core 1's service point, every change reaches    *)
(* flash, unless the tag is cleared or replaced or power is lost first.     *)
SavesComplete == Unsaved ~> ~Unsaved
=============================================================================
