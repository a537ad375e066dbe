----------------------------- MODULE NfcSession -----------------------------
(***************************************************************************)
(* The console's NFC sessions over the virtual amiibo store: the 540-byte  *)
(* reader (nfc/ns2_virtual_nfc_runtime.c), the 2048-byte one               *)
(* (nfc/ns2_amiibo_v3_runtime.c) and the glue of console/pro2/switch_pro2.c*)
(* that picks one, gives it the store's current image and applies its      *)
(* writes.  All of it runs on core 0, between the management commands.     *)
(* The report-event counter and the response bytes are left out; time is   *)
(* the end of the cooldown and of the extended sequence's deadline.        *)
(***************************************************************************)
EXTENDS AmiiboStore

CONSTANTS
    ClearDuringOp,   \* may `amiibo clear` arrive inside a 2 KB console operation?
    ClearBeforeStop  \* may it arrive between a 2 KB console write and the stop after it?
ASSUME ClearAssumption == {ClearDuringOp, ClearBeforeStop} \subseteq BOOLEAN

VARIABLES
    n540,   \* ns2_virtual_nfc_runtime, with its operation's generation
    n2k,    \* ns2_v3_runtime
    edge,   \* ns2_virtual_nfc_presented_last
    due     \* a management command ran: ns2_task comes before the next NFC command

nfcVars == <<n540, n2k, edge, due>>
allVars == <<storeVars, nfcVars>>

Ready540 == [op |-> "none", status |-> "ready", committed |-> FALSE,
             durable |-> TRUE, wait |-> FALSE, out |-> FALSE,
             gen |-> 0, base |-> 0]
Reset2k(seen) == [op |-> FALSE, mode |-> "none", staged |-> FALSE,
                  status |-> "ready", committed |-> FALSE, durable |-> TRUE, wait |-> FALSE,
                  out |-> FALSE, await |-> FALSE,
                  gen |-> 0, base |-> 0, seen |-> seen]
Unseen == MaxEdits + MaxChanges + 2
Fresh2k == Reset2k(Unseen)

(* the edition the reader serves: `active` of a 540 tag, v3_image *)
Served540 == IF tag.using /\ tag.used # 0 THEN tag.used ELSE tag.clean
Shown540 == tag.loaded /\ shown

NfcInit == /\ StoreInit
           /\ n540 = Ready540 /\ n2k = Fresh2k /\ edge = Shown540 /\ due = FALSE

-----------------------------------------------------------------------------
(* 540-byte reader: one action per command that changes its state *)
Error540(s) == [s EXCEPT !.status = "error", !.op = "none"]
Present540 == ~n540.out

Eject540(s) == [s EXCEPT !.wait = FALSE, !.committed = FALSE, !.out = TRUE,
                         !.status = "error"]

Scan540(cooled) ==
    LET s == IF n540.out /\ cooled THEN [n540 EXCEPT !.out = FALSE] ELSE n540
    IN n540' = IF ~s.out /\ s.op # "write" /\ ~s.committed
                 THEN [s EXCEPT !.status = "ready"] ELSE s
(* Slip: a stop ejects at once, whatever became of the save. *)
Stop540Hasty ==
    LET s == [n540 EXCEPT !.op = "none"]
    IN n540' = IF s.committed THEN Eject540(s)
                 ELSE IF Present540 THEN [s EXCEPT !.status = "ready"] ELSE s
Stop540 ==
    LET s == [n540 EXCEPT !.op = "none"]
    IN n540' = IF s.committed
                 THEN IF s.durable THEN Eject540(s) ELSE [s EXCEPT !.wait = TRUE]
                 ELSE IF Present540 THEN [s EXCEPT !.status = "ready"] ELSE s

(* 0x06: a descriptor with a zero UID reads, one with the tag's UID writes *)
Begin540(mode) ==
    n540' = IF Present540
              THEN [n540 EXCEPT !.op = mode, !.status = "active",
                                !.committed = FALSE, !.wait = FALSE,
                                !.gen = tag.gen, !.base = Served540]
              ELSE Error540(n540)
(* 0x14: a read operation is promoted by the first staging block *)
Stage540 ==
    LET promoted == n540.op = "read" /\ n540.status = "active"
        s == IF promoted THEN [n540 EXCEPT !.op = "write", !.committed = FALSE] ELSE n540
    IN n540' = IF Present540 /\ s.op = "write" /\ s.status = "active"
                 THEN s ELSE Error540(s)
Malformed540 == n540' = Error540(n540)

(* 0x08: the staged records, if `whole`, go on the image as it is now, and  *)
(* the store takes the result only on the operation's generation            *)
Complete540(whole) == Present540 /\ n540.op = "write" /\ n540.status = "active" /\ whole
Written540 == [n540 EXCEPT !.status = "written", !.op = "none",
                           !.committed = TRUE, !.durable = FALSE]
(* Slip: the staged write goes on whatever the store holds by then. *)
Commit540Blind(whole) ==
    \/ /\ ~Complete540(whole)
       /\ n540' = Error540(n540) /\ UNCHANGED storeVars
    \/ /\ Complete540(whole)
       /\ WriteV2(tag.gen)
       /\ n540' = Written540
Commit540(whole) ==
    \/ /\ ~Complete540(whole)
       /\ n540' = Error540(n540) /\ UNCHANGED storeVars
    \/ /\ Complete540(whole) /\ tag.gen = n540.gen
       /\ WriteV2(n540.gen)
       /\ n540' = Written540
    \/ /\ Complete540(whole) /\ tag.gen # n540.gen
       /\ n540' = [Error540(Written540) EXCEPT !.committed = FALSE]
       /\ UNCHANGED storeVars

Nfc540 ==
    /\ Core0Free /\ ~due /\ ~v3.loaded /\ Shown540
    /\ \/ \E whole \in BOOLEAN : Commit540(whole)
       \/ /\ \/ Stop540 \/ Stage540 \/ Malformed540
             \/ \E m \in {"read", "write"} : Begin540(m)
             \/ \E cooled \in BOOLEAN : Scan540(cooled)
          /\ UNCHANGED storeVars
    /\ UNCHANGED <<n2k, edge, due>>

-----------------------------------------------------------------------------
(* 2048-byte reader *)
Error2k(s) == [s EXCEPT !.op = FALSE, !.status = "error", !.staged = FALSE, !.mode = "none",
                        !.await = FALSE, !.committed = FALSE]
Eject2k(s) == [s EXCEPT !.wait = FALSE, !.committed = FALSE, !.out = TRUE,
                        !.await = FALSE, !.op = FALSE, !.status = "error"]

(* tick: the end of the save lets a waiting eject go *)
Settles(s) == s.committed /\ ~s.durable /\ ~ask.persist
Ticked(s) == IF Settles(s)
               THEN IF s.wait THEN Eject2k([s EXCEPT !.durable = TRUE])
                              ELSE [s EXCEPT !.durable = TRUE]
               ELSE s
TickHides(s) == Settles(s) /\ s.wait

(* every command first looks for fresh media by its generation, then ticks *)
FreshMedia == n2k.seen # Unseen /\ n2k.seen # v3.gen
Observed == IF n2k.seen = Unseen THEN [n2k EXCEPT !.seen = v3.gen]
            ELSE IF FreshMedia THEN Reset2k(v3.gen) ELSE n2k
Entry == Ticked(Observed)
EntryShown == IF TickHides(Observed) THEN FALSE ELSE FreshMedia \/ shown

Ended(s) == [s EXCEPT !.mode = "none"]
Scan2k(s, cooled) ==
    LET back == s.out /\ cooled
        e == [Ended(s) EXCEPT !.op = FALSE, !.out = s.out /\ ~cooled]
    IN /\ n2k' = IF e.committed THEN e ELSE [e EXCEPT !.status = "ready"]
       /\ shown' = (EntryShown \/ back)
Stop2k(s) ==
    LET e == [Ended(s) EXCEPT !.op = FALSE, !.staged = FALSE]
        goesOn == s.committed /\ s.await
        ejects == s.committed /\ ~goesOn /\ s.durable
    IN /\ n2k' = CASE goesOn -> [e EXCEPT !.committed = FALSE, !.wait = FALSE, !.status = "ready"]
                   [] ejects -> Eject2k(e)
                   [] s.committed /\ ~goesOn /\ ~s.durable -> [e EXCEPT !.wait = TRUE]
                   [] ~s.committed /\ ~s.out -> [e EXCEPT !.status = "ready"]
                   [] OTHER -> e
       /\ shown' = IF goesOn THEN TRUE ELSE IF ejects THEN FALSE ELSE EntryShown
Read2k(s) ==
    n2k' = IF s.out THEN Error2k(s)
           ELSE [Ended(s) EXCEPT !.op = TRUE, !.status = "active", !.committed = FALSE,
                                 !.wait = FALSE, !.gen = v3.gen, !.base = v3.image]
SectorRead2k(s) ==
    n2k' = IF s.out THEN Error2k(s)
           ELSE [Ended(s) EXCEPT !.op = TRUE, !.status = "result",
                                 !.gen = v3.gen, !.base = v3.image]
StageDevice2k(s) == n2k' = IF s.out THEN Error2k(s) ELSE [s EXCEPT !.staged = TRUE]
RunDevice2k(s) == n2k' = IF s.staged
                           THEN [s EXCEPT !.op = TRUE, !.status = "result", !.staged = FALSE]
                           ELSE s
(* 0x14: the first block of a plain write, or of a 355- or 167-byte one *)
Stage2k(s, kind) ==
    LET starts == s.mode = "none" /\ s.op /\ s.status = "active"
        t == IF starts THEN [s EXCEPT !.mode = kind, !.gen = v3.gen,
                                      !.committed = @ /\ kind # "write"] ELSE s
    IN n2k' = IF ~s.out /\ t.op /\ t.mode # "none" /\ t.status = "active"
                THEN t ELSE Error2k(t)
Malformed2k(s) == n2k' = Error2k(s)

(* 0x08 closes a plain write, 0x20 an extended one *)
Open2k(s, modes) == ~s.out /\ s.op /\ s.mode \in modes /\ s.status = "active"
Written2k(s) == [Ended(s) EXCEPT !.seen = s.gen + 1, !.status = "written", !.op = FALSE,
                                 !.committed = TRUE, !.durable = FALSE, !.wait = FALSE]
Extended2k(s) == [Ended(s) EXCEPT !.seen = s.gen + 1, !.status = "extended", !.op = FALSE,
                                  !.committed = FALSE, !.wait = FALSE,
                                  !.await = (s.mode = "clear")]
Commit2k(s, modes, whole) ==
    \/ /\ Open2k(s, modes) /\ whole
       /\ WriteV3(s.gen, EntryShown)
       /\ n2k' = IF s.mode = "write" THEN Written2k(s) ELSE Extended2k(s)
    \/ /\ ~Open2k(s, modes) \/ ~whole \/ v3.gen # s.gen
       /\ n2k' = Error2k(s)
       /\ shown' = EntryShown /\ UNCHANGED <<v3, core0, used>>

Nfc2k ==
    /\ Core0Free /\ ~due /\ v3.loaded
    /\ \/ \E m \in {{"write"}, {"clear", "update"}}, whole \in BOOLEAN : Commit2k(Entry, m, whole)
       \/ /\ Stop2k(Entry) \/ \E cooled \in BOOLEAN : Scan2k(Entry, cooled)
          /\ UNCHANGED <<v3, core0, used>>
       \/ /\ \/ Read2k(Entry) \/ SectorRead2k(Entry) \/ StageDevice2k(Entry)
             \/ RunDevice2k(Entry) \/ Malformed2k(Entry)
             \/ \E k \in {"write", "clear", "update"} : Stage2k(Entry, k)
          /\ shown' = EntryShown /\ UNCHANGED <<v3, core0, used>>
    /\ UNCHANGED <<tag, up, ask, flash, promised, erased, n540, edge, due>>

-----------------------------------------------------------------------------
(* ns2_task: the tick of the 2 KB reader, the presentation edge, and the    *)
(* news of the save for the 540 one                                         *)
Synced(now) == IF now # edge THEN Ready540 ELSE n540
(* Slip: the end of the save is noted and the waiting eject forgotten. *)
InformedOnly(s) == [s EXCEPT !.durable = ~ask.persist]
Informed(s) == IF ~ask.persist /\ s.wait THEN Eject540([s EXCEPT !.durable = TRUE])
                                         ELSE [s EXCEPT !.durable = ~ask.persist]
Ns2Task ==
    /\ Core0Free
    /\ n2k' = IF v3.loaded THEN Ticked(n2k) ELSE n2k
    /\ shown' = (shown /\ ~(v3.loaded /\ TickHides(n2k)))
    /\ n540' = IF Shown540 THEN Informed(Synced(TRUE)) ELSE Synced(FALSE)
    /\ edge' = Shown540
    /\ due' = FALSE
    /\ UNCHANGED <<tag, v3, up, ask, flash, core0, promised, erased, used>>

(* the deadline of the extended sequence passes *)
Elapse ==
    /\ n2k.await /\ n2k' = [n2k EXCEPT !.await = FALSE]
    /\ UNCHANGED <<storeVars, n540, edge, due>>

(* SET_CONFIGURATION: a new host session *)
Mount ==
    /\ Core0Free
    /\ n540' = Ready540 /\ n2k' = Fresh2k /\ edge' = Shown540
    /\ UNCHANGED <<storeVars, due>>

Management ==
    /\ ~due
    /\ \/ Command
       \/ /\ RequestClear
          /\ ClearDuringOp \/ ~n2k.op
          /\ ClearBeforeStop \/ ~n2k.committed
    /\ due' = TRUE
    /\ UNCHANGED <<n540, n2k, edge>>

StoreStep == (Save1 \/ Finish0) /\ UNCHANGED nfcVars

NfcNext == StoreStep \/ Management \/ Nfc540 \/ Nfc2k \/ Ns2Task \/ Elapse \/ Mount
NfcSpec == /\ NfcInit /\ [][NfcNext]_allVars
           /\ WF_allVars(Save1 /\ UNCHANGED nfcVars) /\ WF_allVars(Finish0 /\ UNCHANGED nfcVars)
           /\ WF_allVars(Ns2Task)

-----------------------------------------------------------------------------
(* Properties *)

(* Types of the sessions and of the store under them; an ejected tag waits  *)
(* for no save.                                                             *)
NTypeOK ==
    /\ AmTypeOK
    /\ n540 \in [op : {"none", "read", "write"},
                 status : {"ready", "active", "error", "written"}, committed : BOOLEAN,
                 durable : BOOLEAN, wait : BOOLEAN, out : BOOLEAN,
                 gen : Gen, base : Edition]
    /\ n2k \in [op : BOOLEAN, mode : {"none", "write", "clear", "update"},
                staged : BOOLEAN,
                status : {"ready", "active", "error", "written", "result", "extended"},
                committed : BOOLEAN, durable : BOOLEAN, wait : BOOLEAN, out : BOOLEAN,
                await : BOOLEAN, gen : Gen, base : Edition, seen : Gen]
    /\ (n540.out => ~n540.wait) /\ (n2k.out => ~n2k.wait)
    /\ edge \in BOOLEAN /\ due \in BOOLEAN

(* A console write is accepted only on the image its operation read: an     *)
(* upload, a clear, an eject or a selected copy in between makes it fail    *)
(* ("Never overwrite that newer image with a transaction begun against an   *)
(* older generation").  Only a console write leaves a new edition dirty.    *)
NoBlindWrite ==
    [][/\ (tag'.dirty /\ tag'.used # tag.used) => n540.base = Served540
       /\ (v3'.dirty /\ v3'.image # v3.image) => n2k.base = v3.image]_allVars

(* The console is told that the written tag was removed only when a power   *)
(* cycle would load the tag as it now is, console write included.           *)
DurableEject ==
    [][/\ (~n540.out /\ n540'.out) => TagOf(Booted(bank)) = tag
       /\ (~n2k.out /\ n2k'.out) => SlotOf(Booted(bank)) = v3]_allVars

(* A finished write whose stop waits for the save is not left waiting: the  *)
(* tag is ejected, or the console or the user takes the wait back.          *)
Waiting540 == n540.wait /\ n540.committed /\ Shown540
Waiting2k == n2k.wait /\ n2k.committed /\ v3.loaded
EjectFollows == (Waiting540 ~> ~Waiting540) /\ (Waiting2k ~> ~Waiting2k)
=============================================================================
