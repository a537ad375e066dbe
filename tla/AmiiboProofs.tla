---------------------------- MODULE AmiiboProofs ----------------------------
(***************************************************************************)
(* The virtual amiibo, for every number of edits, clears, power losses and *)
(* bad writes.                                                             *)
(*                                                                         *)
(* The journal: a tag reported saved is what a reboot loads, a promised    *)
(* one is never lost nor replaced by an older one, and a cleared one never *)
(* comes back.                                                             *)
(*                                                                         *)
(* The console's sessions: a write never lands on an image its operation   *)
(* did not read, although generations start again at zero, and a written   *)
(* tag is taken away from the console only when it is on flash.            *)
(***************************************************************************)
EXTENDS NfcSession, TLAPS

-----------------------------------------------------------------------------
(* The store and its journal. *)

(* A console write, whatever it does to the presentation. *)
AnyWrite == Core0Free /\ (WriteV2(tag.gen) \/ \E p : WriteV3(v3.gen, p))


(* A clear has been asked for and the banks are not erased yet. *)
Pending == core0 \in {"clearFlags", "clearAsk"} \/ ask.clear = TRUE
Writing == core1 \in {"wipe0", "wipe1", "erase", "program", "settle"}
Saving == Writing \/ core1 \in {"check", "snap2", "snap3"}

(* What a reboot would load.                                               *)
Live == Booted(bank)
Saved(r) == r.fmt \in {"v2", "v3"}

RecordFields == {"fmt", "gen", "clean", "used", "using", "dirty"}
IsRecord(r) ==
    /\ r = [k \in RecordFields |-> r[k]]
    /\ r.fmt \in Format /\ r.gen \in Nat
    /\ r.fmt = "v3" => r.used = 0 /\ r.using = FALSE
IsTag(t) == t = [k \in DOMAIN NoTag |-> t[k]] /\ t.gen \in Nat
IsSlot(s) ==
    s = [k \in {"loaded", "image", "gen", "dirty", "persisted"} |-> s[k]] /\ s.gen \in Nat

(* The same contents, whatever the format. *)
Like(r, s) ==
    /\ r.gen = s.gen /\ r.clean = s.clean /\ r.used = s.used
    /\ r.using = s.using /\ r.dirty = s.dirty
(* r is not newer than s, and of the same contents if as new. *)
Behind(r, s) == r.gen <= s.gen /\ (r.gen = s.gen => Like(r, s))

Shape ==
    /\ bank = [i \in Banks |-> bank[i]] /\ bank[1].fmt # "v1"
    /\ \A i \in Banks : IsRecord(bank[i])
    /\ IsRecord(buf) /\ IsRecord(promised) /\ IsTag(tag) /\ IsSlot(v3)
    /\ active \in Banks \cup {NoBank}
    /\ DOMAIN ask = {"persist", "clear"}

(* Between the two cores: commits keep out of journal writes, the formats   *)
(* exclude each other but inside a commit, and nothing counts as saved      *)
(* while a clear is pending.                                                *)
Turns ==
    /\ core1 # "idle" => core0 \notin Inside
    /\ core1 \in {"clear0", "clear1", "cleared"} => ask.clear = TRUE
    /\ tag.loaded = TRUE /\ v3.loaded = TRUE => core0 = "commit2"
    /\ core0 = "commit2" => tag.loaded = TRUE /\ tag.persisted = FALSE
    /\ core0 = "commit3" => tag.loaded = FALSE /\ v3.persisted = FALSE
    /\ core0 \in {"clearFlags", "clearAsk"} => tag.loaded = FALSE
    /\ core0 = "clearAsk" => v3.loaded = FALSE
    /\ Pending =>
         /\ promised = Blank
         /\ tag.loaded = TRUE => tag.persisted = FALSE
         /\ v3.loaded = TRUE /\ core0 # "clearFlags" => v3.persisted = FALSE
         /\ Saving => tag.loaded = FALSE /\ (v3.loaded = TRUE => core0 = "clearFlags")

(* The banks never mix the two formats, and the record being written is of  *)
(* the format of the records left standing.                                 *)
Formats ==
    /\ \A i, j \in Banks : bank[i].fmt = "v2" => bank[j].fmt # "v3"
    /\ Writing => Saved(buf)
    /\ core1 \in {"wipe0", "wipe1"} => \A i \in Banks : bank[i].fmt # buf.fmt
    /\ core1 = "wipe0" => \E i \in Banks : Saved(bank[i])
    /\ core1 = "wipe1" => bank[0] = Blank
    /\ core1 \in {"erase", "program", "settle"} =>
         \A i \in Banks : Saved(bank[i]) => bank[i].fmt = buf.fmt
    /\ core1 = "program" => bank[Destination] = Blank
    /\ core1 = "settle" => bank[Destination] \in {buf, Blank}
    /\ core1 \in {"clear1", "cleared"} => bank[0] = Blank
    /\ core1 = "cleared" => bank[1] = Blank

(* The active bank is the one a reboot loads. *)
Backed == IF active = NoBank THEN \A i \in Banks : ~Saved(bank[i])
          ELSE bank[active] = Live /\ Saved(bank[active])

(* Where the write is, the live record still stands, or the new one does. *)
Standing ==
    /\ core1 \in {"idle", "check", "snap2", "snap3", "wipe0", "erase", "program"} => Backed
    /\ core1 = "settle" => IF bank[Destination] = buf THEN Live = buf ELSE Backed

(* The live record is no newer than the tag in RAM, nor is the record being *)
(* written, and the live record is no newer than that one.                  *)
Ordered ==
    /\ tag.loaded # TRUE /\ v3.loaded # TRUE /\ core0 # "commit3" => Live.fmt = "none"
    /\ core1 = "snap3" => v3.loaded = TRUE
    /\ core1 = "snap2" => v3.loaded # TRUE
    /\ core1 # "wipe1" /\ Live.fmt = "v3" => Behind(Live, RecordV3(v3))
    /\ core1 # "wipe1" /\ Live.fmt \in {"v1", "v2"} /\ tag.loaded = TRUE =>
         Behind(Live, RecordV2(tag))
    /\ Writing /\ buf.fmt = "v3" => v3.loaded = TRUE /\ Behind(buf, RecordV3(v3))
    /\ Writing /\ buf.fmt = "v2" =>
         tag.loaded = TRUE /\ v3.loaded # TRUE /\ Behind(buf, RecordV2(tag))
    /\ Writing /\ Class(Live.fmt) = buf.fmt => Behind(Live, buf)

SavedNow ==
    /\ tag.loaded = TRUE /\ tag.persisted = TRUE => TagOf(Live) = tag
    /\ v3.loaded = TRUE /\ v3.persisted = TRUE => SlotOf(Live) = v3

(* The promised record: its tag is loaded, and what boots is no older. *)
Kept ==
    promised # Blank =>
        /\ promised.fmt = "v3" => v3.loaded = TRUE /\ tag.loaded # TRUE
        /\ promised.fmt \in {"v1", "v2"} => tag.loaded = TRUE
        /\ promised.fmt # "none"
        /\ Class(Live.fmt) = Class(promised.fmt)
        /\ Behind(promised, Live)

StoreInv == Shape /\ Turns /\ Formats /\ (~Pending => Standing /\ Ordered /\ SavedNow /\ Kept)
-----------------------------------------------------------------------------
(* The fields of the empty tag.                                            *)
LEMMA Fields ==
    /\ DOMAIN NoTag = {"loaded", "clean", "used", "using", "dirty", "persisted", "gen"}
    /\ NoTag.loaded = FALSE /\ NoTag.persisted = FALSE /\ NoTag.gen = 0
    /\ IsTag(NoTag)
BY DEF NoTag, IsTag

(* An erased bank is a record of no format.                                *)
LEMMA BlankRecord == Blank.fmt = "none" /\ IsRecord(Blank)
BY DEF Blank, IsRecord, RecordFields, Format

(* Two records of one format with the same contents are equal.             *)
LEMMA SameRecord ==
  ASSUME NEW r, NEW s, IsRecord(r), IsRecord(s), r.fmt = s.fmt, Like(r, s)
  PROVE  r = s
BY DEF IsRecord, RecordFields, Like

(* Snapshotting a 540/572 tag yields a version-2 record of its generation  *)
(* ...                                                                     *)
LEMMA RecordOfTag ==
  ASSUME NEW t, IsTag(t)
  PROVE  /\ IsRecord(RecordV2(t)) /\ RecordV2(t).fmt = "v2" /\ RecordV2(t).gen = t.gen
BY DEF IsRecord, RecordFields, RecordV2, Format, IsTag

(* ... and snapshotting the 2 KB slot a version-3 record of its own.       *)
LEMMA RecordOfSlot ==
  ASSUME NEW s, IsSlot(s)
  PROVE  /\ IsRecord(RecordV3(s)) /\ RecordV3(s).fmt = "v3" /\ RecordV3(s).gen = s.gen
BY DEF IsRecord, RecordFields, RecordV3, Format, IsSlot

(* With neither bank valid, boot falls back to the version-1 record.       *)
LEMMA BootNone ==
  ASSUME NEW b, \A i \in Banks : b[i].fmt \notin {"v2", "v3"}
  PROVE  BootBank(b) = NoBank /\ Booted(b) = IF b[0].fmt = "v1" THEN b[0] ELSE Blank
<1>1. Of(b, "v2") = {} /\ Of(b, "v3") = {}
  BY DEF Of
<1>. QED BY <1>1 DEF BootBank, Booted

(* A single record of a format is its newest one.                          *)
LEMMA NewestLone ==
  ASSUME NEW b, NEW f, NEW i \in Banks, b[i].fmt = f, \A j \in Banks : j # i => b[j].fmt # f
  PROVE  Newest(b, f) = i /\ Of(b, f) # {}
<1>1. Of(b, f) = {i}
  BY DEF Of
<1>2. Of(b, f) # Banks
  BY <1>1 DEF Banks
<1>3. (CHOOSE k \in Of(b, f) : TRUE) \in Of(b, f)
  BY <1>1
<1>. QED BY <1>1, <1>2, <1>3 DEF Newest

(* A single valid bank is the one that boots.                              *)
LEMMA BootLone ==
  ASSUME NEW b, NEW i \in Banks, b[i].fmt \in {"v2", "v3"},
         \A j \in Banks : j # i => b[j].fmt \notin {"v2", "v3"}
  PROVE  BootBank(b) = i /\ Booted(b) = b[i]
<1>0. i # NoBank
  BY DEF Banks, NoBank
<1>1. CASE b[i].fmt = "v3"
  <2>1. Newest(b, "v3") = i /\ Of(b, "v3") # {}
    BY <1>1, NewestLone
  <2>. QED BY <1>0, <2>1 DEF BootBank, Booted
<1>2. CASE b[i].fmt = "v2"
  <2>1. Newest(b, "v2") = i /\ Of(b, "v2") # {}
    BY <1>2, NewestLone
  <2>2. Of(b, "v3") = {}
    BY <1>2 DEF Of
  <2>. QED BY <1>0, <2>1, <2>2 DEF BootBank, Booted
<1>. QED BY <1>1, <1>2

(* Of two valid banks of one format the newer boots, bank 0 on a tie.      *)
LEMMA BootPair ==
  ASSUME NEW b, NEW f \in {"v2", "v3"}, b[0].fmt = f, b[1].fmt = f
  PROVE  /\ BootBank(b) = (IF b[1].gen > b[0].gen THEN 1 ELSE 0)
         /\ Booted(b) = IF b[1].gen > b[0].gen THEN b[1] ELSE b[0]
<1>1. Of(b, f) = Banks /\ Banks # {}
  BY DEF Of, Banks
<1>2. f = "v2" => Of(b, "v3") = {}
  BY DEF Of, Banks
<1>3. BootBank(b) = Newest(b, f)
  BY <1>1, <1>2 DEF BootBank
<1>4. BootBank(b) = IF b[1].gen > b[0].gen THEN 1 ELSE 0
  BY <1>1, <1>3 DEF Newest
<1>. QED BY <1>4 DEF Booted, NoBank

(* Without mixed formats, what boots is the record of a bank or none. *)
LEMMA BootAny ==
  ASSUME NEW b, \A i \in Banks : IsRecord(b[i]), b[1].fmt # "v1",
         \A i, j \in Banks : b[i].fmt = "v2" => b[j].fmt # "v3"
  PROVE  /\ BootBank(b) \in Banks \cup {NoBank}
         /\ IsRecord(Booted(b))
         /\ BootBank(b) = NoBank =>
              (\A i \in Banks : b[i].fmt \notin {"v2", "v3"}) /\ Booted(b).fmt \in {"v1", "none"}
         /\ BootBank(b) # NoBank => Booted(b) = b[BootBank(b)] /\ Booted(b).fmt \in {"v2", "v3"}
         /\ Booted(b).fmt = "none" => Booted(b) = Blank
<1>0. 0 \in Banks /\ 1 \in Banks /\ (\A i \in Banks : i = 0 \/ i = 1) /\ NoBank \notin Banks
  BY DEF Banks, NoBank
<1>1. CASE \A i \in Banks : b[i].fmt \notin {"v2", "v3"}
  <2>1. BootBank(b) = NoBank /\ Booted(b) = IF b[0].fmt = "v1" THEN b[0] ELSE Blank
    BY <1>1, BootNone
  <2>. QED BY <1>0, <1>1, <2>1, BlankRecord
<1>2. CASE \E i \in Banks : /\ b[i].fmt \in {"v2", "v3"}
                          /\ \A j \in Banks : j # i => b[j].fmt \notin {"v2", "v3"}
  <2>1. PICK i \in Banks : /\ b[i].fmt \in {"v2", "v3"}
                           /\ \A j \in Banks : j # i => b[j].fmt \notin {"v2", "v3"}
    BY <1>2
  <2>2. BootBank(b) = i /\ Booted(b) = b[i]
    BY <2>1, BootLone
  <2>. QED BY <1>0, <2>1, <2>2
<1>3. CASE b[0].fmt \in {"v2", "v3"} /\ b[1].fmt \in {"v2", "v3"}
  <2>1. b[1].fmt = b[0].fmt
    BY <1>0, <1>3
  <2>2. /\ BootBank(b) = (IF b[1].gen > b[0].gen THEN 1 ELSE 0)
        /\ Booted(b) = IF b[1].gen > b[0].gen THEN b[1] ELSE b[0]
    BY <1>3, <2>1, BootPair
  <2>. QED BY <1>0, <1>3, <2>2
<1>. QED BY <1>0, <1>1, <1>2, <1>3

(* What depends on the banks and on core 1 alone does not notice core 0.   *)
LEMMA FlashStays ==
  ASSUME UNCHANGED flash
  PROVE  /\ Live' = Live /\ (Formats => Formats') /\ (Standing => Standing')
         /\ (Writing' <=> Writing) /\ (Saving' <=> Saving)
BY DEF flash, Live, Formats, Standing, Backed, Writing, Saving, Destination

(* An upload commit leaves well-formed records,                            *)
LEMMA CommitV2Shape == ASSUME Shape, CommitV2 PROVE Shape'
<1>1. IsTag(tag')
  <2>1. /\ tag' = [loaded |-> TRUE, clean |-> NextEdition, used |-> 0, using |-> FALSE,
                   dirty |-> FALSE, persisted |-> FALSE, gen |-> tag.gen + 1]
        /\ tag.gen + 1 \in Nat
    BY DEF CommitV2, Shape, IsTag
  <2>. QED BY <2>1, Fields DEF IsTag
<1>2. IsRecord(promised') /\ UNCHANGED <<bank, buf, active, v3, ask>>
  BY BlankRecord DEF CommitV2, Shape, flash
<1>. QED BY <1>1, <1>2 DEF Shape

(* and so does the commit of a 2 KB image,                                 *)
LEMMA CommitV3Shape == ASSUME Shape, CommitV3 PROVE Shape'
<1>2. IsSlot(v3')
  <2>0. DOMAIN v3 = {"loaded", "image", "gen", "dirty", "persisted"} /\ v3.gen + 1 \in Nat
    BY DEF Shape, IsSlot
  <2>1. v3'.gen = v3.gen + 1
    BY <2>0 DEF CommitV3
  <2>2. v3' = [k \in {"loaded", "image", "gen", "dirty", "persisted"} |-> v3'[k]]
    BY <2>0 DEF CommitV3
  <2>. QED BY <2>0, <2>1, <2>2 DEF IsSlot
<1>3. IsRecord(promised') /\ UNCHANGED <<bank, buf, active, ask>> /\ tag' = NoTag
  BY BlankRecord DEF CommitV3, Shape, flash
<1>. QED BY <1>2, <1>3, Fields DEF Shape

(* a clear request, which resets the 2 KB slot's generation,               *)
LEMMA RequestClearShape == ASSUME Shape, RequestClear PROVE Shape'
<1>2. IsSlot(v3')
  <2>0. DOMAIN v3 = {"loaded", "image", "gen", "dirty", "persisted"} /\ 0 \in Nat
    BY DEF Shape, IsSlot
  <2>1. v3'.gen = 0
    BY <2>0 DEF RequestClear
  <2>2. v3' = [k \in {"loaded", "image", "gen", "dirty", "persisted"} |-> v3'[k]]
    BY <2>0 DEF RequestClear
  <2>. QED BY <2>0, <2>1, <2>2 DEF IsSlot
<1>3. /\ IsRecord(promised') /\ UNCHANGED <<bank, buf, active>>
      /\ tag' = NoTag /\ DOMAIN ask' = DOMAIN ask
  BY BlankRecord DEF RequestClear, Shape, flash
<1>. QED BY <1>2, <1>3, Fields DEF Shape

(* the commit of a written copy, a new generation of the tag,              *)
LEMMA CommitUsedShape == ASSUME Shape, CommitUsed PROVE Shape'
<1>1. IsTag(tag')
  <2>0. DOMAIN tag = DOMAIN NoTag /\ tag.gen + 1 \in Nat
    BY DEF Shape, IsTag
  <2>1. tag'.gen = tag.gen + 1
    BY <2>0, Fields DEF CommitUsed
  <2>2. tag' = [k \in DOMAIN NoTag |-> tag'[k]]
    BY <2>0 DEF CommitUsed
  <2>. QED BY <2>0, <2>1, <2>2 DEF IsTag
<1>2. UNCHANGED <<bank, buf, active, v3, ask, promised>>
  BY DEF CommitUsed, flash
<1>. QED BY <1>1, <1>2 DEF Shape

(* the selection of the original or of the written copy,                   *)
LEMMA SelectUsedShape == ASSUME NEW u \in BOOLEAN, Shape, SelectUsed(u) PROVE Shape'
<1>1. IsTag(tag')
  <2>0. DOMAIN tag = DOMAIN NoTag /\ tag.gen + 1 \in Nat
    BY DEF Shape, IsTag
  <2>1. tag'.gen = tag.gen + 1
    BY <2>0, Fields DEF SelectUsed
  <2>2. tag' = [k \in DOMAIN NoTag |-> tag'[k]]
    BY <2>0 DEF SelectUsed
  <2>. QED BY <2>0, <2>1, <2>2 DEF IsTag
<1>2. UNCHANGED <<bank, buf, active, v3, ask, promised>>
  BY DEF SelectUsed, flash
<1>. QED BY <1>1, <1>2 DEF Shape

(* a console write to a 540/572 tag, or                                    *)
LEMMA WriteV2Shape == ASSUME NEW e, Shape, WriteV2(e) PROVE Shape'
<1>1. IsTag(tag')
  <2>0. DOMAIN tag = DOMAIN NoTag /\ tag.gen + 1 \in Nat
    BY DEF Shape, IsTag
  <2>1. tag'.gen = tag.gen + 1
    BY <2>0, Fields DEF WriteV2
  <2>2. tag' = [k \in DOMAIN NoTag |-> tag'[k]]
    BY <2>0 DEF WriteV2
  <2>. QED BY <2>0, <2>1, <2>2 DEF IsTag
<1>2. UNCHANGED <<bank, buf, active, v3, ask, promised>>
  BY DEF WriteV2, flash
<1>. QED BY <1>1, <1>2 DEF Shape

(* to a 2 KB one, each a new generation,                                   *)
LEMMA WriteV3Shape == ASSUME NEW e, NEW p, Shape, WriteV3(e, p) PROVE Shape'
<1>2. IsSlot(v3')
  <2>0. DOMAIN v3 = {"loaded", "image", "gen", "dirty", "persisted"} /\ v3.gen + 1 \in Nat
    BY DEF Shape, IsSlot
  <2>1. v3'.gen = v3.gen + 1
    BY <2>0 DEF WriteV3
  <2>2. v3' = [k \in {"loaded", "image", "gen", "dirty", "persisted"} |-> v3'[k]]
    BY <2>0 DEF WriteV3
  <2>. QED BY <2>0, <2>1, <2>2 DEF IsSlot
<1>3. UNCHANGED <<bank, buf, active, tag, ask, promised>>
  BY DEF WriteV3, flash
<1>. QED BY <1>2, <1>3 DEF Shape

(* and a completed download, which is one too.                             *)
LEMMA DownloadedShape == ASSUME Shape, Downloaded PROVE Shape'
<1>0. UNCHANGED <<bank, buf, active, ask, promised>>
  BY DEF Downloaded, flash
<1>1. CASE v3.loaded = TRUE
  <2>2. IsSlot(v3')
    <3>0. DOMAIN v3 = {"loaded", "image", "gen", "dirty", "persisted"} /\ v3.gen + 1 \in Nat
      BY DEF Shape, IsSlot
    <3>1. v3'.gen = v3.gen + 1
      BY <1>1, <3>0 DEF Downloaded
    <3>2. v3' = [k \in {"loaded", "image", "gen", "dirty", "persisted"} |-> v3'[k]]
      BY <1>1, <3>0 DEF Downloaded
    <3>. QED BY <3>0, <3>1, <3>2 DEF IsSlot
  <2>. QED BY <1>0, <1>1, <2>2 DEF Shape, Downloaded
<1>2. CASE v3.loaded # TRUE
  <2>1. IsTag(tag')
    <3>0. DOMAIN tag = DOMAIN NoTag /\ tag.gen + 1 \in Nat
      BY DEF Shape, IsTag
    <3>1. tag'.gen = tag.gen + 1
      BY <1>2, <3>0, Fields DEF Downloaded
    <3>2. tag' = [k \in DOMAIN NoTag |-> tag'[k]]
      BY <1>2, <3>0 DEF Downloaded
    <3>. QED BY <3>0, <3>1, <3>2 DEF IsTag
  <2>. QED BY <1>0, <1>2, <2>1 DEF Shape, Downloaded
<1>. QED BY <1>1, <1>2

(* Every step of core 0 leaves well-formed records.                        *)
LEMMA Core0Shape ==
  ASSUME Shape, Finish0 \/ Command \/ RequestClear \/ AnyWrite
  PROVE  Shape'
<1>1. CASE BeginV2
  BY <1>1 DEF BeginV2, flash, Shape, IsTag, IsSlot
<1>2. CASE BeginV3
  BY <1>2 DEF BeginV3, flash, Shape, IsTag, IsSlot
<1>3. CASE FinishV2
  BY <1>3 DEF FinishV2, flash, Shape, IsTag, IsSlot
<1>4. CASE FinishV3
  BY <1>4 DEF FinishV3, flash, Shape, IsTag, IsSlot
<1>5. CASE AskPersist
  BY <1>5 DEF AskPersist, flash, Shape, IsTag, IsSlot
<1>6. CASE Cancel
  BY <1>6 DEF Cancel, flash, Shape, IsTag, IsSlot
<1>7. CASE RequestPersist
  BY <1>7 DEF RequestPersist, flash, Shape, IsTag, IsSlot
<1>8. CASE ClearFlags
  BY <1>8 DEF ClearFlags, flash, Shape, IsTag, IsSlot
<1>9. CASE ClearAsk
  BY <1>9 DEF ClearAsk, flash, Shape, IsTag, IsSlot
<1>10. CASE \E b \in BOOLEAN : Present(b)
  BY <1>10 DEF Present, flash, Shape, IsTag, IsSlot
<1>. QED BY <1>1, <1>2, <1>3, <1>4, <1>5, <1>6, <1>7, <1>8, <1>9, <1>10, CommitV2Shape,
       CommitV3Shape, RequestClearShape,
            CommitUsedShape, SelectUsedShape, WriteV2Shape, WriteV3Shape, DownloadedShape
         DEF Finish0, Command, AnyWrite

(* No step of core 0 breaks the turns of the two cores; this is where      *)
(* commits must keep out of journal writes.                                *)
LEMMA Core0Turns ==
  ASSUME Shape, Turns, ~CommitInsideSave, Finish0 \/ Command \/ RequestClear \/ AnyWrite
  PROVE  Turns'
<1>. USE Fields DEF Core0Free, Shape, IsTag, IsSlot, flash, Turns, Pending, Saving, Writing, Inside,
         MayCommit
<1>1. CASE BeginV2
  BY <1>1 DEF BeginV2
<1>2. CASE BeginV3
  BY <1>2 DEF BeginV3
<1>3. CASE CommitV2
  BY <1>3 DEF CommitV2
<1>4. CASE FinishV2
  BY <1>4 DEF FinishV2
<1>5. CASE CommitV3
  BY <1>5 DEF CommitV3
<1>6. CASE FinishV3
  BY <1>6 DEF FinishV3
<1>7. CASE AskPersist
  BY <1>7 DEF AskPersist
<1>8. CASE CommitUsed
  BY <1>8 DEF CommitUsed
<1>9. CASE Cancel
  BY <1>9 DEF Cancel
<1>10. CASE Downloaded
  BY <1>10 DEF Downloaded
<1>11. CASE RequestPersist
  BY <1>11 DEF RequestPersist
<1>12. CASE RequestClear
  BY <1>12 DEF RequestClear
<1>13. CASE ClearFlags
  BY <1>13 DEF ClearFlags
<1>14. CASE ClearAsk
  BY <1>14 DEF ClearAsk
<1>15. CASE \E b \in BOOLEAN : SelectUsed(b) \/ Present(b)
  BY <1>15 DEF SelectUsed, Present
<1>16. CASE AnyWrite
  BY <1>16 DEF AnyWrite, WriteV2, WriteV3
<1>. QED BY <1>1, <1>2, <1>3, <1>4, <1>5, <1>6, <1>7, <1>8, <1>9, <1>10, <1>11, <1>12, <1>13,
            <1>14, <1>15, <1>16 DEF Finish0, Command

(* A record not newer than s stays so when s moves to a new generation.    *)
LEMMA Newer ==
  ASSUME NEW r, NEW s, NEW t, IsRecord(r), IsRecord(s), Behind(r, s), t.gen = s.gen + 1
  PROVE  Behind(r, t)
<1>1. r.gen \in Nat /\ s.gen \in Nat
  BY DEF IsRecord
<1>2. r.gen < t.gen
  BY <1>1 DEF Behind
<1>. QED BY <1>1, <1>2 DEF Behind

(* What is reported saved says which format boots.                         *)
LEMMA NotBothSaved ==
  ASSUME SavedNow
  PROVE  /\ tag.loaded = TRUE /\ tag.persisted = TRUE => Live.fmt \in {"v1", "v2"}
         /\ v3.loaded = TRUE /\ v3.persisted = TRUE => Live.fmt = "v3"
BY DEF SavedNow, TagOf, SlotOf, NoTag

(* The live record is well formed.                                         *)
LEMMA LiveRecord ==
  ASSUME Shape, Formats
  PROVE  IsRecord(Live) /\ (Live.fmt = "none" => Live = Blank) /\ Live.fmt \in Format
<1>1. IsRecord(Live) /\ (Live.fmt = "none" => Live = Blank)
  BY BootAny DEF Shape, Formats, Live
<1>. QED BY <1>1 DEF IsRecord

Promises == Ordered /\ SavedNow /\ Kept

(* The tag in RAM moves to a newer generation, not saved. *)
TagMoves ==
  /\ UNCHANGED <<v3, promised, bank, active, buf, core1>>
  /\ core0 \notin Inside /\ core0' \notin Inside
  /\ tag.loaded = TRUE /\ tag'.loaded = TRUE /\ tag'.persisted = FALSE /\ tag'.gen = tag.gen + 1
SlotMoves ==
  /\ UNCHANGED <<tag, promised, bank, active, buf, core1>>
  /\ core0 \notin Inside /\ core0' \notin Inside
  /\ v3.loaded = TRUE /\ v3'.loaded = TRUE /\ v3'.persisted = FALSE /\ v3'.gen = v3.gen + 1

(* A newer, unsaved generation of the 540/572 tag keeps every promise.     *)
LEMMA TagMovesKeeps ==
  ASSUME Shape, Shape', Formats, Promises, TagMoves
  PROVE  Promises'
<1>1. IsRecord(Live) /\ Live' = Live /\ (Writing' <=> Writing) /\ IsRecord(buf)
  BY LiveRecord, FlashStays DEF TagMoves, flash, Shape
<1>2. /\ IsRecord(RecordV2(tag)) /\ RecordV2(tag').gen = RecordV2(tag).gen + 1
  BY RecordOfTag DEF Shape, TagMoves
<1>3. /\ Behind(Live, RecordV2(tag)) => Behind(Live, RecordV2(tag'))
      /\ Behind(buf, RecordV2(tag)) => Behind(buf, RecordV2(tag'))
  BY <1>1, <1>2, Newer
<1>4. Ordered'
  BY <1>1, <1>3 DEF Promises, Ordered, TagMoves, Inside
<1>5. SavedNow'
  BY <1>1 DEF Promises, SavedNow, TagMoves
<1>6. Kept'
  BY <1>1 DEF Promises, Kept, TagMoves
<1>. QED BY <1>4, <1>5, <1>6 DEF Promises

(* So does one of the 2 KB slot.                                           *)
LEMMA SlotMovesKeeps ==
  ASSUME Shape, Shape', Formats, Promises, SlotMoves
  PROVE  Promises'
<1>1. IsRecord(Live) /\ Live' = Live /\ (Writing' <=> Writing) /\ IsRecord(buf)
  BY LiveRecord, FlashStays DEF SlotMoves, flash, Shape
<1>2. /\ IsRecord(RecordV3(v3)) /\ RecordV3(v3').gen = RecordV3(v3).gen + 1
  BY RecordOfSlot DEF Shape, SlotMoves
<1>3. /\ Behind(Live, RecordV3(v3)) => Behind(Live, RecordV3(v3'))
      /\ Behind(buf, RecordV3(v3)) => Behind(buf, RecordV3(v3'))
  BY <1>1, <1>2, Newer
<1>4. Ordered'
  BY <1>1, <1>3 DEF Promises, Ordered, SlotMoves, Inside
<1>5. SavedNow'
  BY <1>1 DEF Promises, SavedNow, SlotMoves
<1>6. Kept'
  BY <1>1 DEF Promises, Kept, SlotMoves
<1>. QED BY <1>4, <1>5, <1>6 DEF Promises

(* The commands that edit a loaded tag are such moves.                     *)
LEMMA ChangesMove ==
  ASSUME Shape, CommitUsed \/ Downloaded \/ AnyWrite \/ \E u \in BOOLEAN : SelectUsed(u)
  PROVE  TagMoves \/ SlotMoves
<1>. USE DEF TagMoves, SlotMoves, Core0Free, flash, Inside
<1>0. DOMAIN tag = DOMAIN NoTag /\ DOMAIN v3 = {"loaded", "image", "gen", "dirty", "persisted"}
  BY DEF Shape, IsTag, IsSlot
<1>1. CASE CommitUsed
  BY <1>0, <1>1, Fields DEF CommitUsed
<1>2. CASE Downloaded /\ v3.loaded = TRUE
  BY <1>0, <1>2 DEF Downloaded
<1>3. CASE Downloaded /\ v3.loaded # TRUE
  BY <1>0, <1>3, Fields DEF Downloaded
<1>4. CASE \E u \in BOOLEAN : SelectUsed(u)
  <2>1. PICK u \in BOOLEAN : SelectUsed(u)
    BY <1>4
  <2>. QED BY <1>0, <2>1, Fields DEF SelectUsed
<1>5. CASE AnyWrite /\ WriteV2(tag.gen)
  BY <1>0, <1>5, Fields DEF AnyWrite, WriteV2
<1>6. CASE AnyWrite /\ \E p : WriteV3(v3.gen, p)
  BY <1>0, <1>6 DEF AnyWrite, WriteV3
<1>. QED BY <1>1, <1>2, <1>3, <1>4, <1>5, <1>6 DEF AnyWrite

(* A step that touches neither tag nor journal keeps every promise.        *)
LEMMA QuietKeeps ==
  ASSUME Promises, UNCHANGED <<tag, v3, promised, bank, active, buf, core1>>,
         core0 \notin Inside, core0' \notin Inside
  PROVE  Promises'
BY FlashStays DEF flash, Promises, Ordered, SavedNow, Kept, Writing, Live, Inside

(* The commands that only open, cancel, present or ask are such steps.     *)
LEMMA QuietCommands ==
  ASSUME \/ BeginV2 \/ BeginV3 \/ AskPersist \/ Cancel \/ RequestPersist
         \/ \E p \in BOOLEAN : Present(p)
  PROVE  /\ UNCHANGED <<tag, v3, promised, bank, active, buf, core1>>
         /\ core0 \notin Inside /\ core0' \notin Inside
BY DEF BeginV2, BeginV3, AskPersist, Cancel, RequestPersist, Present, Core0Free, Inside, flash

(* A commit keeps every promise at each of its steps: the tag it gives up  *)
(* is either the same format, an older generation, or no longer promised.  *)
LEMMA CommitKeeps ==
  ASSUME Shape, Shape', Turns, Formats, Promises, ~CommitInsideSave, ~ReplaceUnsaved,
         CommitV2 \/ FinishV2 \/ CommitV3 \/ FinishV3
  PROVE  Promises'
<1>0. /\ DOMAIN tag = DOMAIN NoTag /\ DOMAIN v3 = {"loaded", "image", "gen", "dirty", "persisted"}
      /\ tag.gen \in Nat /\ v3.gen \in Nat /\ IsRecord(Live) /\ Live.gen \in Nat
  BY LiveRecord DEF Shape, IsTag, IsSlot, IsRecord
<1>1. Live' = Live /\ core1 = "idle" /\ core1' = "idle" /\ ~Writing /\ ~Writing'
  <2>1. UNCHANGED flash /\ core1 = "idle"
    BY DEF CommitV2, FinishV2, CommitV3, FinishV3, MayCommit, Turns, Inside
  <2>. QED BY <2>1, FlashStays DEF flash, Writing
<1>2. CASE CommitV2
  <2>1. /\ v3' = v3 /\ tag'.loaded = TRUE /\ tag'.persisted = FALSE /\ tag'.gen = tag.gen + 1
        /\ core0 = "idle" /\ core0' = "commit2"
        /\ v3.loaded = TRUE => v3.persisted = TRUE
        /\ promised' = IF promised.fmt = "v3" THEN Blank ELSE promised
    BY <1>2 DEF CommitV2, Core0Free
  <2>2. Live.fmt \in {"v1", "v2"} => tag.loaded = TRUE
    <3>1. v3.loaded = TRUE => Live.fmt = "v3"
      BY <2>1, NotBothSaved DEF Promises
    <3>2. tag.loaded = TRUE \/ v3.loaded = TRUE \/ Live.fmt = "none"
      BY <2>1 DEF Promises, Ordered
    <3>. QED BY <3>1, <3>2
  <2>3. Live.fmt \in {"v1", "v2"} => Behind(Live, RecordV2(tag'))
    BY <1>0, <1>1, <2>1, <2>2, RecordOfTag, Newer DEF Shape, Promises, Ordered
  <2>4. Ordered'
    BY <1>1, <2>1, <2>3 DEF Promises, Ordered
  <2>5. SavedNow'
    BY <1>1, <2>1 DEF Promises, SavedNow
  <2>6. Kept'
    BY <1>1, <2>1 DEF Promises, Kept
  <2>. QED BY <2>4, <2>5, <2>6 DEF Promises
<1>3. CASE FinishV2
  <2>1. /\ tag' = tag /\ v3'.loaded = FALSE /\ v3'.gen = v3.gen /\ v3'.image = v3.image
        /\ v3'.dirty = v3.dirty
        /\ core0 = "commit2" /\ core0' = "persist" /\ promised' = promised
    BY <1>0, <1>3 DEF FinishV2
  <2>2. RecordV3(v3') = RecordV3(v3)
    BY <2>1 DEF RecordV3
  <2>3. tag.loaded = TRUE /\ (promised.fmt # "v3" \/ promised = Blank)
    BY <2>1 DEF Turns, Promises, Kept
  <2>4. Ordered'
    BY <1>1, <2>1, <2>2, <2>3 DEF Promises, Ordered, Turns
  <2>5. SavedNow'
    BY <1>1, <2>1 DEF Promises, SavedNow
  <2>6. Kept'
    BY <1>1, <2>1, <2>3 DEF Promises, Kept
  <2>. QED BY <2>4, <2>5, <2>6 DEF Promises
<1>4. CASE CommitV3
  <2>1. /\ v3'.loaded = v3.loaded /\ v3'.persisted = FALSE /\ v3'.gen = v3.gen + 1
        /\ core0 = "idle" /\ core0' = "commit3" /\ tag' = NoTag
        /\ promised' = IF promised.fmt = "v3" THEN promised ELSE Blank
    BY <1>0, <1>4 DEF CommitV3, Core0Free
  <2>2. Live.fmt = "v3" => Behind(Live, RecordV3(v3'))
    BY <1>0, <1>1, <2>1, RecordOfSlot, Newer DEF Shape, Promises, Ordered
  <2>3. tag'.loaded = FALSE
    BY <2>1, Fields
  <2>4. Ordered'
    BY <1>1, <2>1, <2>2, <2>3 DEF Promises, Ordered
  <2>5. SavedNow'
    BY <1>1, <2>1, <2>3 DEF Promises, SavedNow
  <2>6. Kept'
    BY <1>1, <2>1, <2>3 DEF Promises, Kept
  <2>. QED BY <2>4, <2>5, <2>6 DEF Promises
<1>5. CASE FinishV3
  <2>1. /\ tag' = tag /\ v3'.loaded = TRUE /\ v3'.gen = v3.gen /\ v3'.image = v3.image
        /\ v3'.dirty = v3.dirty
        /\ v3'.persisted = v3.persisted
        /\ core0 = "commit3" /\ core0' = "persist" /\ promised' = promised
    BY <1>0, <1>5 DEF FinishV3
  <2>2. RecordV3(v3') = RecordV3(v3)
    BY <2>1 DEF RecordV3
  <2>3. tag.loaded = FALSE /\ v3.persisted = FALSE
    BY <2>1 DEF Turns
  <2>4. Ordered'
    BY <1>1, <2>1, <2>2, <2>3 DEF Promises, Ordered
  <2>5. SavedNow'
    BY <1>1, <2>1, <2>3 DEF Promises, SavedNow
  <2>6. Kept'
    BY <1>1, <2>1, <2>3 DEF Promises, Kept
  <2>. QED BY <2>4, <2>5, <2>6 DEF Promises
<1>. QED BY <1>2, <1>3, <1>4, <1>5

(* No step of core 0 breaks a promise.                                     *)
LEMMA Core0Promises ==
  ASSUME Shape, Turns, Formats, ~Pending => Standing /\ Promises, ~CommitInsideSave,
         ~ReplaceUnsaved,
         Finish0 \/ Command \/ RequestClear \/ AnyWrite, ~Pending'
  PROVE  Standing' /\ Promises'
<1>1. ~(RequestClear \/ ClearFlags \/ ClearAsk)
  BY DEF RequestClear, ClearFlags, ClearAsk, Pending, Shape
<1>2. UNCHANGED flash /\ (~Pending)
  BY <1>1
   DEF Finish0, Command, AnyWrite, BeginV2, BeginV3, CommitV2, CommitV3, CommitUsed,
          Cancel, Downloaded,
     SelectUsed, Present, RequestPersist, WriteV2, WriteV3, FinishV2, FinishV3, AskPersist, Pending,
     Shape, Core0Free
<1>3. Shape'
  BY Core0Shape
<1>4. Promises'
  <2>1. CASE CommitUsed \/ Downloaded \/ AnyWrite \/ \E u \in BOOLEAN : SelectUsed(u)
    BY <1>2, <1>3, <2>1, ChangesMove, TagMovesKeeps, SlotMovesKeeps
  <2>2. CASE \/ BeginV2 \/ BeginV3 \/ AskPersist \/ Cancel \/ RequestPersist
             \/ \E p \in BOOLEAN : Present(p)
    BY <1>2, <2>2, QuietCommands, QuietKeeps
  <2>3. CASE CommitV2 \/ FinishV2 \/ CommitV3 \/ FinishV3
    BY <1>2, <1>3, <2>3, CommitKeeps
  <2>. QED BY <1>1, <2>1, <2>2, <2>3 DEF Finish0, Command
<1>. QED BY <1>2, <1>4, FlashStays

(* Writing one bank leaves the other alone.                                *)
LEMMA BankSet ==
  ASSUME Shape, NEW i \in Banks, NEW r, IsRecord(r), r.fmt # "v1", bank' = [bank EXCEPT ![i] = r]
  PROVE  /\ bank' = [j \in Banks |-> bank'[j]] /\ bank'[1].fmt # "v1"
         /\ \A j \in Banks : IsRecord(bank'[j])
         /\ bank'[i] = r /\ \A j \in Banks : j # i => bank'[j] = bank[j]
<1>1. DOMAIN bank = Banks /\ 1 \in Banks
  BY DEF Shape, Banks
<1>2. bank'[i] = r /\ \A j \in Banks : j # i => bank'[j] = bank[j]
  BY <1>1
<1>3. bank' = [j \in Banks |-> bank'[j]]
  BY <1>1
<1>. QED BY <1>1, <1>2, <1>3 DEF Shape

(* There are two banks.                                                    *)
LEMMA TwoBanks ==
  0 \in Banks /\ 1 \in Banks /\ (\A i \in Banks : i = 0 \/ i = 1) /\ NoBank \notin Banks
BY DEF Banks, NoBank

(* A record never goes where the active one is.                            *)
LEMMA DestinationBank ==
  ASSUME Shape
  PROVE  /\ Destination \in Banks /\ Destination # active
         /\ active = NoBank => Destination = IF buf.fmt = "v3" THEN 0 ELSE 1
         /\ active # NoBank => active \in Banks
<1>1. active = 0 \/ active = 1 \/ active = NoBank
  BY DEF Shape, Banks
<1>2. CASE active = NoBank
  BY <1>2 DEF Destination, Banks, NoBank
<1>3. CASE active = 0
  BY <1>3 DEF Destination, Banks, NoBank
<1>4. CASE active = 1
  BY <1>4 DEF Destination, Banks, NoBank
<1>. QED BY <1>1, <1>2, <1>3, <1>4

(* The flash operations of core 1: which bank each one changes. *)
FlashOp(i, r) ==
  /\ bank' = [bank EXCEPT ![i] = r]
  /\ UNCHANGED <<tag, v3, core0, ask, buf, promised, erased>>

(* Every flash operation of core 1 is of that kind.                        *)
LEMMA FlashOps ==
  ASSUME Shape, Formats
  PROVE  /\ ClearBank0 => FlashOp(0, Blank) /\ active' = active
         /\ ClearBank1 => FlashOp(1, Blank) /\ active' = active
         /\ Wipe0 => FlashOp(0, Blank) /\ active' = active
         /\ Wipe1 => FlashOp(1, Blank) /\ active' = NoBank
         /\ Erase => FlashOp(Destination, Blank) /\ active' = active
         /\ \A ok \in BOOLEAN : Program(ok) =>
              FlashOp(Destination, IF ok THEN buf ELSE Blank) /\ active' = active
BY DEF ClearBank0, ClearBank1, Wipe0, Wipe1, Erase, Program, FlashOp, ram

(* Writing a well-formed record leaves the banks well formed.              *)
LEMMA FlashOpShape ==
  ASSUME Shape, NEW i \in Banks, NEW r, IsRecord(r), r.fmt # "v1", FlashOp(i, r),
         active' = active \/ active' = NoBank
  PROVE  Shape'
<1>1. /\ bank' = [j \in Banks |-> bank'[j]] /\ bank'[1].fmt # "v1"
      /\ \A j \in Banks : IsRecord(bank'[j])
  BY BankSet DEF FlashOp
<1>. QED BY <1>1 DEF Shape, FlashOp

(* What the end of a save does: it marks the tag saved only if the record  *)
(* verifies and the tag is still the one that was written.                 *)
LEMMA SettleEffect ==
  ASSUME Shape, Formats, Settle
  PROVE  /\ core1 = "settle" /\ core1' = "idle" /\ UNCHANGED <<core0, bank, buf>>
         /\ active' = (IF bank[Destination] = buf THEN Destination ELSE active)
         /\ IsTag(tag') /\ IsSlot(v3')
         /\ RecordV2(tag') = RecordV2(tag) /\ RecordV3(v3') = RecordV3(v3)
         /\ tag'.loaded = tag.loaded /\ v3'.loaded = v3.loaded
         /\ DOMAIN ask' = DOMAIN ask /\ ask'.clear = ask.clear
         /\ \/ UNCHANGED <<tag, v3, promised>>
            \/ /\ bank[Destination] = buf /\ buf.fmt = "v2" /\ tag.loaded /\ tag.gen = buf.gen
               /\ v3' = v3 /\ tag' = [tag EXCEPT !.persisted = TRUE]
               /\ promised' = (IF core0 # "clearFlags" THEN buf ELSE promised)
            \/ /\ bank[Destination] = buf /\ buf.fmt = "v3" /\ v3.loaded /\ v3.gen = buf.gen
               /\ tag' = tag /\ v3' = [v3 EXCEPT !.persisted = TRUE]
               /\ promised' = (IF core0 # "clearFlags" THEN buf ELSE promised)
<1>0. /\ DOMAIN tag = DOMAIN NoTag /\ DOMAIN v3 = {"loaded", "image", "gen", "dirty", "persisted"}
      /\ DOMAIN ask = {"persist", "clear"}
  BY DEF Shape, IsTag, IsSlot
<1>. DEFINE saved == Verified /\ StillCurrent
<1>1. /\ tag' = IF saved /\ buf.fmt = "v2" THEN [tag EXCEPT !.persisted = TRUE] ELSE tag
      /\ v3' = IF saved /\ buf.fmt = "v3" THEN [v3 EXCEPT !.persisted = TRUE] ELSE v3
      /\ ask' = [ask EXCEPT !.persist = Retried(saved)]
      /\ promised' = IF saved /\ core0 # "clearFlags" THEN buf ELSE promised
  BY DEF Settle
<1>2. DOMAIN ask' = DOMAIN ask /\ ask'.clear = ask.clear
  BY <1>0, <1>1
<1>3. /\ core1 = "settle" /\ core1' = "idle" /\ UNCHANGED <<core0, bank, buf>>
      /\ active' = (IF bank[Destination] = buf THEN Destination ELSE active)
  BY DEF Settle, Verified
<1>4. buf.fmt = "v2" \/ buf.fmt = "v3"
  BY <1>3 DEF Formats, Writing, Saved
<1>5. CASE ~saved
  <2>1. UNCHANGED <<tag, v3, promised>>
    BY <1>1, <1>5
  <2>. QED BY <1>2, <1>3, <2>1 DEF Shape
<1>6. CASE saved /\ buf.fmt = "v2"
  <2>1. /\ tag' = [tag EXCEPT !.persisted = TRUE] /\ v3' = v3
        /\ promised' = IF core0 # "clearFlags" THEN buf ELSE promised
    BY <1>1, <1>6
  <2>2. bank[Destination] = buf /\ tag.loaded /\ tag.gen = buf.gen
    BY <1>6 DEF Verified, StillCurrent, StillLoaded
  <2>3. /\ tag'.gen = tag.gen /\ tag'.clean = tag.clean /\ tag'.used = tag.used
        /\ tag'.using = tag.using /\ tag'.dirty = tag.dirty /\ tag'.loaded = tag.loaded
    BY <1>0, <2>1, Fields
  <2>4. tag' = [k \in DOMAIN NoTag |-> tag'[k]]
    BY <1>0, <2>1
  <2>5. IsTag(tag') /\ RecordV2(tag') = RecordV2(tag)
    BY <2>3, <2>4 DEF Shape, IsTag, RecordV2
  <2>. QED BY <1>2, <1>3, <1>6, <2>1, <2>2, <2>3, <2>5 DEF Shape
<1>7. CASE saved /\ buf.fmt = "v3"
  <2>1. /\ v3' = [v3 EXCEPT !.persisted = TRUE] /\ tag' = tag
        /\ promised' = IF core0 # "clearFlags" THEN buf ELSE promised
    BY <1>1, <1>7
  <2>2. bank[Destination] = buf /\ v3.loaded /\ v3.gen = buf.gen
    BY <1>7 DEF Verified, StillCurrent, StillLoaded
  <2>3. /\ v3'.gen = v3.gen /\ v3'.image = v3.image /\ v3'.dirty = v3.dirty
        /\ v3'.loaded = v3.loaded
    BY <1>0, <2>1
  <2>4. v3' = [k \in {"loaded", "image", "gen", "dirty", "persisted"} |-> v3'[k]]
    BY <1>0, <2>1
  <2>5. IsSlot(v3') /\ RecordV3(v3') = RecordV3(v3)
    BY <2>3, <2>4 DEF Shape, IsSlot, RecordV3
  <2>. QED BY <1>2, <1>3, <1>7, <2>1, <2>2, <2>3, <2>5 DEF Shape
<1>. QED BY <1>4, <1>5, <1>6, <1>7

(* Every step of core 1 leaves well-formed records.                        *)
LEMMA Core1Shape ==
  ASSUME Shape, Formats, Save1
  PROVE  Shape'
<1>1. CASE SaveStart \/ Check \/ SnapNothing \/ ClearDone
  BY <1>1 DEF SaveStart, Check, SnapNothing, ClearDone, ram, Shape
<1>2. CASE SnapV3
  <2>1. IsRecord(buf')
    BY <1>2, RecordOfSlot DEF SnapV3, Shape
  <2>. QED BY <1>2, <2>1 DEF SnapV3, ram, Shape
<1>3. CASE SnapV2
  <2>1. IsRecord(buf')
    BY <1>3, RecordOfTag DEF SnapV2, Shape
  <2>. QED BY <1>3, <2>1 DEF SnapV2, ram, Shape
<1>4. CASE ClearBank0 \/ Wipe0
  BY <1>4, FlashOps, FlashOpShape, BlankRecord, TwoBanks
<1>5. CASE ClearBank1 \/ Wipe1
  BY <1>5, FlashOps, FlashOpShape, BlankRecord, TwoBanks
<1>6. CASE Erase
  BY <1>6, FlashOps, FlashOpShape, BlankRecord, DestinationBank
<1>7. CASE \E ok \in BOOLEAN : Program(ok)
  <2>1. PICK ok \in BOOLEAN : Program(ok)
    BY <1>7
  <2>. DEFINE r == IF ok THEN buf ELSE Blank
  <2>2. IsRecord(r) /\ r.fmt # "v1"
    BY <2>1, BlankRecord DEF Program, Shape, Formats, Writing, Saved
  <2>. QED BY <2>1, <2>2, FlashOps, FlashOpShape, DestinationBank
<1>8. CASE Settle
  BY <1>8, SettleEffect, DestinationBank DEF Shape
<1>. QED BY <1>1, <1>2, <1>3, <1>4, <1>5, <1>6, <1>7, <1>8 DEF Save1

(* No step of core 1 breaks the turns of the two cores.                    *)
LEMMA Core1Turns ==
  ASSUME Shape, Turns, Formats, ~CommitInsideSave, Save1
  PROVE  Turns'
<1>. USE DEF Turns, Pending, Saving, Writing, ram
<1>1. CASE SaveStart
  BY <1>1 DEF SaveStart
<1>2. CASE Check \/ SnapNothing
  BY <1>2 DEF Check, SnapNothing, Shape
<1>3. CASE ClearDone
  BY <1>3 DEF ClearDone, Shape
<1>4. CASE SnapV3 \/ SnapV2
  BY <1>4 DEF SnapV3, SnapV2
<1>5. CASE ClearBank0 \/ ClearBank1 \/ Wipe0 \/ Wipe1 \/ Erase \/ \E ok \in BOOLEAN : Program(ok)
  BY <1>5 DEF ClearBank0, ClearBank1, Wipe0, Wipe1, Erase, Program
<1>6. CASE Settle
  <2>1. /\ core1 = "settle" /\ core1' = "idle" /\ core0' = core0 /\ ask'.clear = ask.clear
        /\ tag'.loaded = tag.loaded /\ v3'.loaded = v3.loaded
        /\ \/ UNCHANGED <<tag, v3, promised>>
           \/ tag.loaded = TRUE /\ v3' = v3
           \/ v3.loaded = TRUE /\ tag' = tag
        /\ promised' = promised \/ core0 # "clearFlags"
    BY <1>6, SettleEffect
  <2>. QED BY <2>1 DEF Inside
<1>. QED BY <1>1, <1>2, <1>3, <1>4, <1>5, <1>6 DEF Save1

(* No step of core 1 lets the banks mix formats.                           *)
LEMMA Core1Formats ==
  ASSUME Shape, Turns, Formats, ~CommitInsideSave, Save1
  PROVE  Formats'
<1>0. Blank.fmt = "none"
  BY BlankRecord
<1>. USE DEF Formats, Writing, Saved
<1>1. CASE SaveStart \/ Check \/ SnapNothing \/ ClearDone
  BY <1>1 DEF SaveStart, Check, SnapNothing, ClearDone, ram
<1>2. CASE SnapV3
  <2>1. /\ buf'.fmt = "v3" /\ bank' = bank
        /\ core1' = IF Of(bank, "v2") # {} THEN "wipe0" ELSE "erase"
    BY <1>2 DEF SnapV3, RecordV3, NeedsWipe
  <2>. QED BY <2>1 DEF Of
<1>3. CASE SnapV2
  <2>1. /\ buf'.fmt = "v2" /\ bank' = bank
        /\ core1' = IF Of(bank, "v3") # {} THEN "wipe0" ELSE "erase"
    BY <1>3 DEF SnapV2, RecordV2, NeedsWipe
  <2>. QED BY <2>1 DEF Of
<1>4. CASE ClearBank0 \/ Wipe0
  <2>1. bank'[0] = Blank /\ bank'[1] = bank[1] /\ buf' = buf
    BY <1>4, FlashOps, BankSet, BlankRecord, TwoBanks DEF FlashOp
  <2>. QED BY <1>0, <1>4, <2>1, TwoBanks DEF ClearBank0, Wipe0
<1>5. CASE ClearBank1 \/ Wipe1
  <2>1. bank'[1] = Blank /\ bank'[0] = bank[0] /\ buf' = buf
    BY <1>5, FlashOps, BankSet, BlankRecord, TwoBanks DEF FlashOp
  <2>. QED BY <1>0, <1>5, <2>1, TwoBanks DEF ClearBank1, Wipe1
<1>6. CASE Erase
  <2>1. /\ bank'[Destination] = Blank /\ (\A j \in Banks : j # Destination => bank'[j] = bank[j])
        /\ buf' = buf /\ Destination \in Banks /\ Destination' = Destination
    BY <1>6, FlashOps, BankSet, BlankRecord, DestinationBank DEF FlashOp, Destination
  <2>2. core1 = "erase" /\ core1' = "program"
    BY <1>6 DEF Erase
  <2>. QED BY <1>0, <2>1, <2>2
<1>7. CASE \E ok \in BOOLEAN : Program(ok)
  <2>0. PICK ok \in BOOLEAN : Program(ok)
    BY <1>7
  <2>. DEFINE r == IF ok THEN buf ELSE Blank
  <2>r. IsRecord(r) /\ r.fmt # "v1" /\ r \in {buf, Blank}
    BY <2>0, BlankRecord DEF Program, Shape, Formats, Writing, Saved
  <2>f. FlashOp(Destination, r) /\ active' = active /\ Destination \in Banks
    BY <2>0, FlashOps, DestinationBank
  <2>d. buf' = buf /\ Destination' = Destination
    BY <2>f DEF FlashOp, Destination
  <2>1. /\ bank'[Destination] = r /\ (\A j \in Banks : j # Destination => bank'[j] = bank[j])
        /\ buf' = buf /\ Destination \in Banks /\ Destination' = Destination
    BY <2>f, <2>d, <2>r, BankSet DEF FlashOp
  <2>2. core1 = "program" /\ core1' = "settle"
    BY <2>0 DEF Program
  <2>. QED BY <1>0, <2>1, <2>2, <2>r
<1>8. CASE Settle
  <2>1. core1' = "idle" /\ bank' = bank
    BY <1>8, SettleEffect
  <2>. QED BY <2>1
<1>. QED BY <1>1, <1>2, <1>3, <1>4, <1>5, <1>6, <1>7, <1>8 DEF Save1

(* The order of records is reflexive.                                      *)
LEMMA BehindSelf ==
  ASSUME NEW r, IsRecord(r)
  PROVE  Behind(r, r)
BY DEF IsRecord, Behind, Like

(* It is transitive, and a tie of the ends is a tie in the middle.         *)
LEMMA BehindAll ==
  ASSUME NEW r, NEW s, NEW t, IsRecord(r), IsRecord(s), IsRecord(t), Behind(r, s), Behind(s, t)
  PROVE  Behind(r, t) /\ (r.gen = t.gen => s.gen = t.gen)
<1>1. r.gen \in Nat /\ s.gen \in Nat /\ t.gen \in Nat /\ r.gen <= s.gen /\ s.gen <= t.gen
  BY DEF IsRecord, Behind
<1>2. r.gen <= t.gen /\ (r.gen = t.gen => s.gen = t.gen)
  BY <1>1
<1>. QED BY <1>2 DEF Behind, Like

(* What keeps the promises: the same live record and the same tag. *)
LEMMA SameLiveKeeps ==
  ASSUME Promises, Live' = Live, UNCHANGED <<tag, v3, promised, core0>>,
         Writing' => Writing /\ buf' = buf, core1' \notin {"snap2", "snap3"}, core1 # "wipe1"
  PROVE  Promises'
<1>1. Ordered'
  BY DEF Promises, Ordered
<1>2. SavedNow' /\ Kept'
  BY DEF Promises, SavedNow, Kept
<1>. QED BY <1>1, <1>2 DEF Promises

(* Nothing counts as saved and nothing is promised. *)
Unkept ==
    /\ ~(tag.loaded = TRUE /\ tag.persisted = TRUE)
    /\ ~(v3.loaded = TRUE /\ v3.persisted = TRUE)
    /\ promised = Blank

(* While core 1 writes the journal, one format at most is loaded.          *)
LEMMA LoadedOne ==
  ASSUME Turns, core1 # "idle"
  PROVE  ~(tag.loaded = TRUE /\ v3.loaded = TRUE)
BY DEF Turns, Inside

(* The migrated version-1 record counts as a 540/572 one.                  *)
LEMMA ClassOf ==
  /\ Class("v1") = "v2" /\ Class("v2") = "v2" /\ Class("v3") = "v3" /\ Class("none") = "none"
BY DEF Class

(* With the other format's record live, or none, nothing is at stake. *)
LEMMA OtherFormatUnkept ==
  ASSUME Shape, Turns, Formats, Promises, Writing,
         \/ buf.fmt = "v3" /\ Live.fmt \in {"v1", "v2", "none"}
         \/ buf.fmt = "v2" /\ Live.fmt \in {"v3", "none"}
  PROVE  Unkept
<1>1. ~(tag.loaded = TRUE /\ v3.loaded = TRUE)
  BY LoadedOne DEF Writing
<1>2. /\ tag.loaded = TRUE /\ tag.persisted = TRUE => Live.fmt \in {"v1", "v2"}
      /\ v3.loaded = TRUE /\ v3.persisted = TRUE => Live.fmt = "v3"
  BY NotBothSaved DEF Promises
<1>3. /\ buf.fmt = "v3" => v3.loaded = TRUE
      /\ buf.fmt = "v2" => tag.loaded = TRUE /\ v3.loaded # TRUE
  BY DEF Promises, Ordered
<1>4. promised = Blank
  <2>1. promised.fmt \in Format
    BY DEF Shape, IsRecord
  <2>. QED BY <1>1, <1>3, <2>1, ClassOf DEF Promises, Kept, Format
<1>. QED BY <1>1, <1>2, <1>3, <1>4 DEF Unkept

(* Then no change of the banks can break a promise.                        *)
LEMMA UnkeptKeeps ==
  ASSUME Unkept, UNCHANGED <<tag, v3, promised>>
  PROVE  SavedNow' /\ Kept'
BY DEF Unkept, SavedNow, Kept

(* A change of format may erase both banks: nothing was promised any more. *)
LEMMA WipeKeeps ==
  ASSUME Shape, Turns, Formats, Formats', Standing, Promises, Wipe0 \/ Wipe1
  PROVE  Standing' /\ Promises'
<1>1. /\ core1 \in {"wipe0", "wipe1"} /\ Writing /\ Writing'
      /\ UNCHANGED <<tag, v3, promised, buf, core0>>
  BY DEF Wipe0, Wipe1, Writing, ram
<1>2. Live.fmt # buf.fmt /\ Live.fmt # "v1" /\ Live.fmt \in Format /\ Saved(buf)
  <2>1. CASE BootBank(bank) = NoBank
    <3>1. core1 = "wipe1" /\ bank[0] = Blank
      BY <1>1, <2>1, BootAny DEF Formats, Shape, Saved
    <3>2. Live = Blank
      BY <2>1, <3>1, BlankRecord DEF Live, Booted
    <3>. QED BY <1>1, <3>2, BlankRecord DEF Formats, Saved, Format
  <2>2. CASE BootBank(bank) # NoBank
    <3>1. BootBank(bank) \in Banks /\ Live = bank[BootBank(bank)] /\ Live.fmt \in {"v2", "v3"}
      BY <2>2, BootAny DEF Shape, Formats, Live
    <3>. QED BY <1>1, <3>1 DEF Formats, Format
  <2>. QED BY <2>1, <2>2
<1>3. Unkept
  BY <1>1, <1>2, OtherFormatUnkept DEF Saved, Format
<1>4. /\ Live'.fmt # buf'.fmt /\ Class(Live'.fmt) # buf'.fmt
      /\ core1' # "wipe1" => Live'.fmt = "none"
  <2>1. CASE Wipe0
    <3>0. FlashOp(0, Blank) /\ core1' = "wipe1"
      BY <2>1, FlashOps DEF Wipe0
    <3>b. bank' = [bank EXCEPT ![0] = Blank] /\ DOMAIN bank = {0, 1}
      BY <3>0 DEF FlashOp, Shape, Banks
    <3>1. /\ bank'[0] = Blank /\ bank'[1] = bank[1] /\ core1' = "wipe1"
      BY <3>0, <3>b
    <3>2. bank[1].fmt # buf.fmt /\ bank[1].fmt # "v1"
      BY <1>1, TwoBanks DEF Formats, Shape
    <3>3. Live' = Blank \/ Live' = bank[1]
      <4>1. CASE bank[1].fmt \in {"v2", "v3"}
        <5>1. Booted(bank') = bank'[1]
          BY <3>1, <4>1, TwoBanks, BootLone, BlankRecord
        <5>. QED BY <3>1, <5>1 DEF Live
      <4>2. CASE bank[1].fmt \notin {"v2", "v3"}
        <5>1. Booted(bank') = IF bank'[0].fmt = "v1" THEN bank'[0] ELSE Blank
          BY <3>1, <4>2, TwoBanks, BootNone, BlankRecord
        <5>. QED BY <3>1, <5>1, BlankRecord DEF Live
      <4>. QED BY <4>1, <4>2
    <3>. QED BY <1>1, <1>2, <3>1, <3>2, <3>3, BlankRecord, ClassOf DEF Saved, Class
  <2>2. CASE Wipe1
    <3>1. /\ bank'[1] = Blank /\ bank'[0] = Blank
      BY <2>2, FlashOps, BankSet, BlankRecord, TwoBanks DEF FlashOp, Wipe1, Formats
    <3>2. Live' = Blank
      <4>1. Booted(bank') = IF bank'[0].fmt = "v1" THEN bank'[0] ELSE Blank
        BY <3>1, TwoBanks, BootNone, BlankRecord
      <4>. QED BY <3>1, <4>1, BlankRecord DEF Live
    <3>. QED BY <1>1, <1>2, <3>2, BlankRecord, ClassOf DEF Saved
  <2>. QED BY <2>1, <2>2
<1>5. Ordered'
  BY <1>1, <1>2, <1>4 DEF Promises, Ordered, Saved, Writing
<1>6. Standing'
  <2>1. CASE Wipe0
    BY <2>1 DEF Wipe0, Standing
  <2>2. CASE Wipe1
    <3>1. /\ bank'[1] = Blank /\ bank'[0] = Blank /\ active' = NoBank /\ core1' = "erase"
      BY <2>2, FlashOps, BankSet, BlankRecord, TwoBanks DEF FlashOp, Wipe1, Formats
    <3>. QED BY <3>1, TwoBanks, BlankRecord DEF Standing, Backed, Saved
  <2>. QED BY <2>1, <2>2
<1>. QED BY <1>1, <1>3, <1>5, <1>6, UnkeptKeeps DEF Promises

(* Erasing the destination spares the live record, unless it is a          *)
(* version-1 record that a 2 KB tag has already replaced.                  *)
LEMMA EraseKeeps ==
  ASSUME Shape, Turns, Formats, Standing, Promises, Erase
  PROVE  Standing' /\ Promises'
<1>1. /\ core1 = "erase" /\ core1' = "program" /\ Writing /\ Writing' /\ Backed
      /\ UNCHANGED <<tag, v3, promised, buf, core0, active>>
  BY DEF Erase, Writing, ram, Standing
<1>2. /\ bank'[Destination] = Blank /\ (\A j \in Banks : j # Destination => bank'[j] = bank[j])
      /\ Destination \in Banks /\ Destination # active
  <2>1. FlashOp(Destination, Blank) /\ Destination \in Banks /\ Destination # active
    BY FlashOps, DestinationBank
  <2>. QED BY <2>1, BankSet, BlankRecord DEF FlashOp
<1>3. CASE active # NoBank
  <2>1. /\ active \in Banks /\ bank'[active] = Live /\ bank[active].fmt \in {"v2", "v3"}
        /\ \A j \in Banks : j # active => j = Destination
    BY <1>1, <1>2, <1>3, DestinationBank, TwoBanks DEF Backed, Saved
  <2>2. /\ bank'[active] = bank[active]
        /\ \A j \in Banks : j # active => bank'[j].fmt \notin {"v2", "v3"}
    BY <1>2, <2>1, BlankRecord
  <2>3. Live' = Live
    <3>1. Booted(bank') = bank'[active]
      BY <2>1, <2>2, BootLone
    <3>. QED BY <2>1, <3>1 DEF Live
  <2>4. Standing'
    BY <1>1, <1>3, <2>1, <2>2, <2>3 DEF Standing, Backed, Saved
  <2>. QED BY <1>1, <2>3, <2>4, SameLiveKeeps
<1>4. CASE active = NoBank
  <2>1. \A i \in Banks : bank[i].fmt \notin {"v2", "v3"} /\ bank'[i].fmt \notin {"v2", "v3"}
    BY <1>1, <1>2, <1>4, BlankRecord DEF Backed, Saved
  <2>2. /\ Live = IF bank[0].fmt = "v1" THEN bank[0] ELSE Blank
        /\ Live' = IF bank'[0].fmt = "v1" THEN bank'[0] ELSE Blank
    <3>1. Booted(bank) = IF bank[0].fmt = "v1" THEN bank[0] ELSE Blank
      BY <2>1, BootNone
    <3>2. Booted(bank') = IF bank'[0].fmt = "v1" THEN bank'[0] ELSE Blank
      BY <2>1, BootNone
    <3>. QED BY <3>1, <3>2 DEF Live
  <2>3. Standing'
    BY <1>1, <1>4, <2>1 DEF Standing, Backed, Saved
  <2>4. CASE buf.fmt = "v3"
    <3>1. Destination = 0
      BY <1>4, <2>4, DestinationBank DEF Shape
    <3>2. Live' = Blank
      BY <1>2, <2>2, <3>1, BlankRecord
    <3>3. Unkept
      BY <1>1, <2>2, <2>4, BlankRecord, OtherFormatUnkept
    <3>4. Ordered'
      BY <1>1, <2>4, <3>2, BlankRecord, ClassOf DEF Promises, Ordered, Writing
    <3>. QED BY <1>1, <2>3, <3>3, <3>4, UnkeptKeeps DEF Promises
  <2>5. CASE buf.fmt # "v3"
    <3>1. Destination = 1
      BY <1>4, <2>5, DestinationBank DEF Shape
    <3>2. Live' = Live
      BY <1>2, <2>2, <3>1, TwoBanks
    <3>. QED BY <1>1, <2>3, <3>2, SameLiveKeeps
  <2>. QED BY <2>4, <2>5
<1>. QED BY <1>3, <1>4

(* A verified record becomes the live one. *)
LEMMA ProgramLive ==
  ASSUME Shape, Formats, Formats', Standing, Promises, Program(TRUE)
  PROVE  Live' = buf /\ bank'[Destination] = buf
<1>1. core1 = "program" /\ Writing /\ Backed /\ IsRecord(buf) /\ buf.fmt \in {"v2", "v3"}
  BY DEF Program, Writing, Standing, Formats, Shape, Saved
<1>2. /\ bank'[Destination] = buf /\ (\A j \in Banks : j # Destination => bank'[j] = bank[j])
      /\ Destination \in Banks /\ Destination # active
  <2>1. FlashOp(Destination, buf) /\ Destination \in Banks /\ Destination # active
    BY FlashOps, DestinationBank
  <2>. QED BY <1>1, <2>1, BankSet DEF FlashOp
<1>3. CASE active = NoBank
  <2>1. \A j \in Banks : j # Destination => bank'[j].fmt \notin {"v2", "v3"}
    BY <1>1, <1>2, <1>3 DEF Backed, Saved
  <2>2. Booted(bank') = bank'[Destination]
    BY <1>1, <1>2, <2>1, BootLone
  <2>. QED BY <1>2, <2>2 DEF Live
<1>4. CASE active # NoBank
  <2>1. /\ active \in Banks /\ bank'[active] = Live /\ Live.fmt \in {"v2", "v3"}
        /\ Live.fmt = buf.fmt
        /\ IsRecord(Live)
    BY <1>1, <1>2, <1>4, DestinationBank DEF Backed, Saved, Formats, Shape
  <2>2. Behind(Live, buf)
    BY <1>1, <2>1, ClassOf DEF Promises, Ordered
  <2>3. ~(Live.gen > buf.gen) /\ (~(buf.gen > Live.gen) => Live = buf)
    <3>1. Live.gen \in Nat /\ buf.gen \in Nat /\ Live.gen <= buf.gen
      BY <1>1, <2>1, <2>2 DEF IsRecord, Behind
    <3>2. ~(Live.gen > buf.gen) /\ (~(buf.gen > Live.gen) => Live.gen = buf.gen)
      BY <3>1
    <3>. QED BY <1>1, <2>1, <2>2, <3>2, SameRecord DEF Behind
  <2>4. /\ \/ Destination = 0 /\ active = 1
           \/ Destination = 1 /\ active = 0
    BY <1>2, <2>1, TwoBanks
  <2>5. Booted(bank') = IF bank'[1].gen > bank'[0].gen THEN bank'[1] ELSE bank'[0]
    BY <1>1, <1>2, <2>1, <2>4, BootPair
  <2>6. Booted(bank') = buf
    BY <1>2, <2>1, <2>3, <2>4, <2>5
  <2>. QED BY <1>2, <2>6 DEF Live
<1>. QED BY <1>3, <1>4

(* Programming keeps every promise, whether or not the record verifies.    *)
LEMMA ProgramKeeps ==
  ASSUME Shape, Turns, Formats, Formats', Standing, Promises, NEW ok \in BOOLEAN, Program(ok)
  PROVE  Standing' /\ Promises'
<1>1. /\ core1 = "program" /\ core1' = "settle" /\ Writing /\ Writing' /\ Backed
      /\ UNCHANGED <<tag, v3, promised, buf, core0, active>> /\ Destination' = Destination
      /\ IsRecord(buf) /\ Saved(buf) /\ Destination \in Banks
  BY DestinationBank DEF Program, Writing, ram, Standing, Destination, Formats, Shape
<1>2. CASE ok = FALSE
  <2>1. bank' = bank
    <3>1. bank' = [bank EXCEPT ![Destination] = Blank] /\ bank[Destination] = Blank
      BY <1>2 DEF Program, Formats
    <3>2. DOMAIN bank = Banks /\ bank = [i \in Banks |-> bank[i]]
      BY DEF Shape
    <3>. QED BY <3>1, <3>2
  <2>2. Live' = Live /\ bank'[Destination'] # buf
    BY <1>1, <2>1, BlankRecord DEF Live, Saved, Formats
  <2>3. Standing'
    BY <1>1, <2>1, <2>2 DEF Standing, Backed
  <2>. QED BY <1>1, <2>2, <2>3, SameLiveKeeps
<1>3. CASE ok = TRUE
  <2>1. Live' = buf /\ bank'[Destination'] = buf'
    BY <1>1, <1>3, ProgramLive
  <2>2. Standing'
    BY <1>1, <2>1 DEF Standing
  <2>3. ~(tag.loaded = TRUE /\ v3.loaded = TRUE)
    BY <1>1, LoadedOne
  <2>4. /\ buf.fmt = "v3" => v3.loaded = TRUE /\ Behind(buf, RecordV3(v3))
        /\ buf.fmt = "v2" => tag.loaded = TRUE /\ v3.loaded # TRUE /\ Behind(buf, RecordV2(tag))
        /\ Class(Live.fmt) = buf.fmt => Behind(Live, buf)
        /\ IsRecord(Live) /\ IsRecord(RecordV3(v3)) /\ IsRecord(RecordV2(tag)) /\ IsRecord(promised)
    BY <1>1, LiveRecord, RecordOfTag, RecordOfSlot DEF Promises, Ordered, Shape
  <2>5. Ordered'
    BY <1>1, <2>1, <2>4, BehindSelf, ClassOf DEF Ordered, Saved, Writing
  <2>6. SavedNow'
    <3>1. ASSUME tag.loaded = TRUE, tag.persisted = TRUE PROVE TagOf(buf) = tag
      <4>1. TagOf(Live) = tag /\ Live.fmt \in {"v1", "v2"} /\ buf.fmt = "v2"
        BY <1>1, <2>3, <2>4, <3>1, NotBothSaved DEF Promises, SavedNow, Saved
      <4>2. Live.gen = tag.gen
        BY <4>1 DEF TagOf
      <4>3. Behind(Live, buf) /\ Behind(buf, RecordV2(tag)) /\ RecordV2(tag).gen = tag.gen
        BY <2>4, <4>1, ClassOf DEF RecordV2
      <4>4. Live.gen = buf.gen
        BY <1>1, <2>4, <4>2, <4>3, BehindAll
      <4>5. Like(Live, buf)
        BY <4>3, <4>4 DEF Behind
      <4>. QED BY <4>1, <4>5 DEF TagOf, Like
    <3>2. ASSUME v3.loaded = TRUE, v3.persisted = TRUE PROVE SlotOf(buf) = v3
      <4>1. SlotOf(Live) = v3 /\ Live.fmt = "v3" /\ buf.fmt = "v3"
        BY <1>1, <2>3, <2>4, <3>2, NotBothSaved DEF Promises, SavedNow, Saved
      <4>2. Live.gen = v3.gen
        BY <4>1 DEF SlotOf
      <4>3. Behind(Live, buf) /\ Behind(buf, RecordV3(v3)) /\ RecordV3(v3).gen = v3.gen
        BY <2>4, <4>1, ClassOf DEF RecordV3
      <4>4. Live.gen = buf.gen
        BY <1>1, <2>4, <4>2, <4>3, BehindAll
      <4>5. Like(Live, buf)
        BY <4>3, <4>4 DEF Behind
      <4>. QED BY <4>1, <4>5 DEF SlotOf, Like
    <3>. QED BY <1>1, <2>1, <3>1, <3>2 DEF SavedNow
  <2>7. Kept'
    <3>1. ASSUME promised # Blank PROVE Class(promised.fmt) = buf.fmt /\ Behind(promised, buf)
      <4>1. promised.fmt \in Format /\ promised.fmt # "none"
        BY <2>4, <3>1 DEF IsRecord, Promises, Kept
      <4>2. Class(promised.fmt) = buf.fmt
        BY <1>1, <2>3, <2>4, <3>1, <4>1, ClassOf DEF Promises, Kept, Format, Saved
      <4>3. Behind(promised, Live) /\ Class(Live.fmt) = Class(promised.fmt)
        BY <3>1 DEF Promises, Kept
      <4>. QED BY <1>1, <2>4, <4>2, <4>3, BehindAll
    <3>2. Class(buf.fmt) = buf.fmt
      BY <1>1, ClassOf DEF Saved
    <3>. QED BY <1>1, <2>1, <3>1, <3>2 DEF Promises, Kept
  <2>. QED BY <2>2, <2>5, <2>6, <2>7 DEF Promises
<1>. QED BY <1>2, <1>3

(* A tag is marked saved only over the record that boots.                  *)
LEMMA SettleKeeps ==
  ASSUME Shape, Turns, Formats, Standing, Promises, ~Pending, Settle
  PROVE  Standing' /\ Promises'
<1>1. /\ core1 = "settle" /\ core1' = "idle" /\ UNCHANGED <<core0, bank, buf>>
      /\ active' = (IF bank[Destination] = buf THEN Destination ELSE active)
      /\ RecordV2(tag') = RecordV2(tag) /\ RecordV3(v3') = RecordV3(v3)
      /\ tag'.loaded = tag.loaded /\ v3'.loaded = v3.loaded
      /\ \/ UNCHANGED <<tag, v3, promised>>
         \/ /\ bank[Destination] = buf /\ buf.fmt = "v2" /\ tag.loaded /\ tag.gen = buf.gen
            /\ v3' = v3 /\ tag' = [tag EXCEPT !.persisted = TRUE]
            /\ promised' = (IF core0 # "clearFlags" THEN buf ELSE promised)
         \/ /\ bank[Destination] = buf /\ buf.fmt = "v3" /\ v3.loaded /\ v3.gen = buf.gen
            /\ tag' = tag /\ v3' = [v3 EXCEPT !.persisted = TRUE]
            /\ promised' = (IF core0 # "clearFlags" THEN buf ELSE promised)
  BY SettleEffect
<1>2. /\ core0 # "clearFlags" /\ Live' = Live /\ Writing /\ ~Writing' /\ Saved(buf)
      /\ IsRecord(buf) /\ Destination \in Banks /\ ~(tag.loaded = TRUE /\ v3.loaded = TRUE)
  BY <1>1, LoadedOne, DestinationBank DEF Pending, Live, Writing, Formats, Shape
<1>3. Standing'
  <2>1. CASE bank[Destination] = buf
    <3>1. Live = buf /\ active' = Destination /\ Destination # NoBank
      BY <1>1, <1>2, <2>1, TwoBanks DEF Standing
    <3>. QED BY <1>1, <1>2, <2>1, <3>1 DEF Standing, Backed, Saved
  <2>2. CASE bank[Destination] # buf
    <3>1. Backed /\ active' = active
      BY <1>1, <2>2 DEF Standing
    <3>. QED BY <1>1, <1>2, <3>1 DEF Standing, Backed
  <2>. QED BY <2>1, <2>2
<1>4. Ordered'
  BY <1>1, <1>2 DEF Promises, Ordered
<1>5. CASE UNCHANGED <<tag, v3, promised>>
  BY <1>1, <1>2, <1>3, <1>4, <1>5 DEF Promises, SavedNow, Kept
<1>6. CASE /\ bank[Destination] = buf /\ buf.fmt = "v2" /\ tag.loaded /\ tag.gen = buf.gen
           /\ v3' = v3 /\ tag' = [tag EXCEPT !.persisted = TRUE] /\ promised' = buf
  <2>1. Live = buf /\ Behind(buf, RecordV2(tag)) /\ v3.loaded # TRUE
    BY <1>1, <1>2, <1>6 DEF Standing, Promises, Ordered
  <2>2. Like(buf, RecordV2(tag))
    BY <1>6, <2>1 DEF Behind, RecordV2
  <2>3. TagOf(buf) = tag'
    <3>1. tag = [k \in {"loaded", "clean", "used", "using", "dirty", "persisted", "gen"} |-> tag[k]]
      BY Fields DEF Shape, IsTag
    <3>2. /\ buf.clean = tag.clean /\ buf.used = tag.used /\ buf.using = tag.using
          /\ buf.dirty = tag.dirty /\ buf.gen = tag.gen /\ tag.loaded = TRUE
      BY <1>6, <2>2 DEF Like, RecordV2
    <3>3. TagOf(buf) = [loaded |-> TRUE, clean |-> tag.clean, used |-> tag.used,
              using |-> tag.using, dirty |-> tag.dirty, persisted |-> TRUE, gen |-> tag.gen]
      BY <1>6, <3>2 DEF TagOf
    <3>4. tag' = [k \in {"loaded", "clean", "used", "using", "dirty", "persisted", "gen"} |->
                    tag'[k]]
      BY <1>6, <3>1
    <3>5. /\ tag'.loaded = TRUE /\ tag'.clean = tag.clean /\ tag'.used = tag.used
          /\ tag'.using = tag.using /\ tag'.dirty = tag.dirty /\ tag'.gen = tag.gen
          /\ tag'.persisted = TRUE
      BY <1>6, <3>1, <3>2
    <3>. QED BY <3>3, <3>4, <3>5
  <2>4. SavedNow'
    BY <1>2, <1>6, <2>1, <2>3 DEF SavedNow
  <2>5. Kept'
    BY <1>2, <1>1, <1>6, <2>1, BehindSelf, ClassOf DEF Kept
  <2>. QED BY <1>3, <1>4, <2>4, <2>5 DEF Promises
<1>7. CASE /\ bank[Destination] = buf /\ buf.fmt = "v3" /\ v3.loaded /\ v3.gen = buf.gen
           /\ tag' = tag /\ v3' = [v3 EXCEPT !.persisted = TRUE] /\ promised' = buf
  <2>1. Live = buf /\ Behind(buf, RecordV3(v3)) /\ tag.loaded # TRUE
    BY <1>1, <1>2, <1>7 DEF Standing, Promises, Ordered
  <2>2. Like(buf, RecordV3(v3))
    BY <1>7, <2>1 DEF Behind, RecordV3
  <2>3. SlotOf(buf) = v3'
    <3>1. v3 = [k \in {"loaded", "image", "gen", "dirty", "persisted"} |-> v3[k]]
      BY DEF Shape, IsSlot
    <3>2. buf.clean = v3.image /\ buf.dirty = v3.dirty /\ buf.gen = v3.gen /\ v3.loaded = TRUE
      BY <1>7, <2>2 DEF Like, RecordV3
    <3>3. SlotOf(buf) = [loaded |-> TRUE, image |-> v3.image, gen |-> v3.gen,
                         dirty |-> v3.dirty, persisted |-> TRUE]
      BY <1>7, <3>2 DEF SlotOf
    <3>4. v3' = [k \in {"loaded", "image", "gen", "dirty", "persisted"} |-> v3'[k]]
      BY <1>7, <3>1
    <3>5. /\ v3'.loaded = TRUE /\ v3'.image = v3.image /\ v3'.gen = v3.gen
          /\ v3'.dirty = v3.dirty /\ v3'.persisted = TRUE
      BY <1>7, <3>1, <3>2
    <3>. QED BY <3>3, <3>4, <3>5
  <2>4. SavedNow'
    BY <1>2, <1>7, <2>1, <2>3 DEF SavedNow
  <2>5. Kept'
    BY <1>2, <1>1, <1>7, <2>1, BehindSelf, ClassOf DEF Kept
  <2>. QED BY <1>3, <1>4, <2>4, <2>5 DEF Promises
<1>. QED BY <1>1, <1>2, <1>5, <1>6, <1>7

(* A snapshot of the tag is no older than the live record.                 *)
LEMMA SnapKeeps ==
  ASSUME Shape, Turns, Formats, Standing, Promises, SnapV3 \/ SnapV2
  PROVE  Standing' /\ Promises'
<1>1. /\ core1 \in {"snap2", "snap3"} /\ core1' \in {"wipe0", "erase"}
      /\ UNCHANGED <<tag, v3, promised, core0, bank, active>> /\ Live' = Live
      /\ IsRecord(RecordV3(v3)) /\ IsRecord(RecordV2(tag)) /\ IsRecord(Live)
  BY RecordOfTag, RecordOfSlot, LiveRecord DEF SnapV3, SnapV2, ram, Live, Shape
<1>2. Standing'
  BY <1>1 DEF Standing, Backed
<1>3. Ordered'
  <2>1. CASE SnapV3
    <3>1. buf' = RecordV3(v3) /\ RecordV3(v3).fmt = "v3" /\ v3.loaded = TRUE
      BY <1>1, <2>1 DEF SnapV3, RecordV3, Promises, Ordered
    <3>2. Behind(buf', RecordV3(v3))
      BY <1>1, <3>1, BehindSelf
    <3>3. Class(Live.fmt) = "v3" => Behind(Live, buf')
      BY <1>1, <3>1, ClassOf DEF Promises, Ordered, Class
    <3>. QED BY <1>1, <3>1, <3>2, <3>3 DEF Promises, Ordered
  <2>2. CASE SnapV2
    <3>1. /\ buf' = RecordV2(tag) /\ RecordV2(tag).fmt = "v2"
          /\ tag.loaded = TRUE /\ v3.loaded # TRUE
      BY <1>1, <2>2 DEF SnapV2, RecordV2, Promises, Ordered
    <3>2. Behind(buf', RecordV2(tag))
      BY <1>1, <3>1, BehindSelf
    <3>3. Class(Live.fmt) = "v2" => Behind(Live, buf')
      BY <1>1, <3>1, ClassOf DEF Promises, Ordered, Class
    <3>. QED BY <1>1, <3>1, <3>2, <3>3 DEF Promises, Ordered
  <2>. QED BY <2>1, <2>2
<1>4. SavedNow' /\ Kept'
  BY <1>1 DEF Promises, SavedNow, Kept
<1>. QED BY <1>2, <1>3, <1>4 DEF Promises

(* When a clear completes, the banks are blank and nothing counts as       *)
(* saved.                                                                  *)
LEMMA ClearDoneKeeps ==
  ASSUME Shape, Turns, Formats, ClearDone, ~Pending'
  PROVE  Standing' /\ Promises'
<1>1. /\ core1 = "cleared" /\ core1' \in {"check", "idle"} /\ bank' = bank /\ active' = NoBank
      /\ UNCHANGED <<tag, v3, promised, core0>> /\ core0 # "clearFlags" /\ ask.clear = TRUE
  BY DEF ClearDone, ram, Pending, Turns
<1>2. bank'[0] = Blank /\ bank'[1] = Blank
  BY <1>1 DEF Formats
<1>3. Live'.fmt = "none"
  <2>1. Booted(bank') = IF bank'[0].fmt = "v1" THEN bank'[0] ELSE Blank
    BY <1>2, TwoBanks, BootNone, BlankRecord
  <2>. QED BY <1>2, <2>1, BlankRecord DEF Live
<1>4. /\ promised = Blank /\ (tag.loaded = TRUE => tag.persisted = FALSE)
      /\ (v3.loaded = TRUE => v3.persisted = FALSE)
  BY <1>1 DEF Turns, Pending
<1>5. Standing'
  BY <1>1, <1>2, TwoBanks, BlankRecord DEF Standing, Backed, Saved
<1>6. Ordered'
  BY <1>1, <1>3, ClassOf DEF Ordered, Writing
<1>7. SavedNow' /\ Kept'
  BY <1>1, <1>4 DEF SavedNow, Kept
<1>. QED BY <1>5, <1>6, <1>7 DEF Promises

(* No step of core 1 breaks a promise.                                     *)
LEMMA Core1Promises ==
  ASSUME Shape, Turns, Formats, Formats', ~Pending => Standing /\ Promises, Save1, ~Pending'
  PROVE  Standing' /\ Promises'
<1>1. CASE ClearDone
  BY <1>1, ClearDoneKeeps
<1>2. CASE ~ClearDone
  <2>1. ~Pending /\ ~ClearBank0 /\ ~ClearBank1
    <3>1. core0' = core0 /\ ask'.clear = ask.clear
      BY <1>2, SettleEffect DEF Save1, SaveStart, ClearBank0, ClearBank1, Check, SnapV3, SnapV2,
         SnapNothing, Wipe0, Wipe1, Erase, Program, ram, Shape
    <3>. QED BY <3>1 DEF Pending, Turns, ClearBank0, ClearBank1
  <2>2. CASE SaveStart \/ Check \/ SnapNothing
    <3>1. /\ Live' = Live /\ UNCHANGED <<tag, v3, promised, core0, bank, active>> /\ ~Writing'
          /\ core1 \in {"idle", "check", "snap2"} /\ core1' \in {"idle", "check", "snap2", "snap3"}
          /\ core1' = "snap3" => v3.loaded = TRUE
          /\ core1' = "snap2" => v3.loaded # TRUE
      BY <2>1, <2>2 DEF SaveStart, Check, SnapNothing, ram, Live, Writing, Pending
    <3>2. Standing'
      BY <2>1, <3>1 DEF Standing, Backed
    <3>3. Ordered' /\ SavedNow' /\ Kept'
      BY <2>1, <3>1 DEF Promises, Ordered, SavedNow, Kept
    <3>. QED BY <3>2, <3>3 DEF Promises
  <2>3. CASE SnapV3 \/ SnapV2
    BY <2>1, <2>3, SnapKeeps
  <2>4. CASE Wipe0 \/ Wipe1
    BY <2>1, <2>4, WipeKeeps
  <2>5. CASE Erase
    BY <2>1, <2>5, EraseKeeps
  <2>6. CASE \E ok \in BOOLEAN : Program(ok)
    BY <2>1, <2>6, ProgramKeeps
  <2>7. CASE Settle
    BY <2>1, <2>7, SettleKeeps
  <2>. QED BY <1>2, <2>1, <2>2, <2>3, <2>4, <2>5, <2>6, <2>7 DEF Save1
<1>. QED BY <1>1, <1>2

(* What power-on leaves: RAM holds what the banks hold. *)
Rebooted ==
    /\ bank = [i \in Banks |-> bank[i]] /\ bank[1].fmt # "v1"
    /\ \A i \in Banks : IsRecord(bank[i])
    /\ \A i, j \in Banks : bank[i].fmt = "v2" => bank[j].fmt # "v3"
    /\ tag = TagOf(Live) /\ v3 = SlotOf(Live) /\ promised = Live /\ buf = Blank
    /\ ask = [persist |-> FALSE, clear |-> FALSE] /\ active = BootBank(bank)
    /\ core0 = "idle" /\ core1 = "idle"

(* Whatever the banks hold, a boot establishes the invariant.              *)
LEMMA RebootedIsSound == Rebooted => StoreInv
<1>. SUFFICES ASSUME Rebooted PROVE StoreInv
  OBVIOUS
<1>1. /\ BootBank(bank) \in Banks \cup {NoBank}
      /\ IsRecord(Live)
      /\ BootBank(bank) = NoBank =>
           (\A i \in Banks : bank[i].fmt \notin {"v2", "v3"}) /\ Live.fmt \in {"v1", "none"}
      /\ BootBank(bank) # NoBank => Live = bank[BootBank(bank)] /\ Live.fmt \in {"v2", "v3"}
      /\ Live.fmt = "none" => Live = Blank
  BY BootAny DEF Rebooted, Live
<1>2. Shape
  <2>1. IsTag(tag)
    <3>1. Live.gen \in Nat /\ tag = TagOf(Live)
      BY <1>1 DEF Rebooted, IsRecord
    <3>. QED BY <3>1, Fields DEF TagOf, IsTag
  <2>2. IsSlot(v3)
    <3>1. Live.gen \in Nat /\ v3 = SlotOf(Live)
      BY <1>1 DEF Rebooted, IsRecord
    <3>. QED BY <3>1 DEF SlotOf, IsSlot
  <2>. QED BY <1>1, <2>1, <2>2, BlankRecord DEF Rebooted, Shape
<1>3. ~Pending /\ ~Saving /\ ~Writing /\ core1 = "idle" /\ core0 = "idle"
  BY DEF Rebooted, Pending, Saving, Writing
<1>4. /\ tag.loaded = TRUE => Live.fmt \in {"v1", "v2"}
      /\ v3.loaded = TRUE => Live.fmt = "v3"
      /\ Live.fmt \in {"v1", "v2"} => tag.loaded = TRUE
      /\ Live.fmt = "v3" => v3.loaded = TRUE
  BY Fields DEF Rebooted, TagOf, SlotOf
<1>5. Turns
  BY <1>3, <1>4 DEF Turns
<1>6. Formats
  BY <1>3 DEF Rebooted, Formats
<1>7. Standing
  BY <1>1, <1>3 DEF Rebooted, Standing, Backed, Saved
<1>8. Ordered
  <2>1. Live.fmt = "v3" => Behind(Live, RecordV3(v3))
    <3>1. ASSUME Live.fmt = "v3" PROVE Live.used = 0 /\ Live.using = FALSE /\ Live.gen \in Nat
      BY <1>1, <3>1 DEF IsRecord
    <3>2. ASSUME Live.fmt = "v3"
          PROVE  v3.gen = Live.gen /\ v3.image = Live.clean /\ v3.dirty = Live.dirty
      BY <3>2 DEF Rebooted, SlotOf
    <3>3. ASSUME Live.fmt = "v3" PROVE Behind(Live, RecordV3(v3))
      <4>1. /\ RecordV3(v3).gen = Live.gen /\ RecordV3(v3).clean = Live.clean
            /\ RecordV3(v3).used = 0 /\ RecordV3(v3).using = FALSE
            /\ RecordV3(v3).dirty = Live.dirty
        BY <3>2, <3>3 DEF RecordV3
      <4>2. Live.gen <= RecordV3(v3).gen
        BY <3>1, <3>3, <4>1
      <4>. QED BY <3>1, <3>3, <4>1, <4>2 DEF Behind, Like
    <3>. QED BY <3>3
  <2>2. Live.fmt \in {"v1", "v2"} => Behind(Live, RecordV2(tag))
    BY <1>1 DEF Rebooted, IsRecord, TagOf, RecordV2, Behind, Like
  <2>3. Live.fmt \in Format
    BY <1>1 DEF IsRecord
  <2>. QED BY <1>3, <1>4, <2>1, <2>2, <2>3 DEF Ordered, Format
<1>9. SavedNow /\ Kept
  <2>1. Behind(Live, Live)
    BY <1>1, BehindSelf
  <2>. QED BY <1>1, <1>4, <2>1 DEF Rebooted, SavedNow, Kept
<1>. QED BY <1>2, <1>5, <1>6, <1>7, <1>8, <1>9 DEF StoreInv

(* So does the first one.                                                  *)
LEMMA FirstBoot == StoreInit => StoreInv
<1>1. StoreInit => Rebooted
  <2>. SUFFICES ASSUME StoreInit PROVE Rebooted
    OBVIOUS
  <2>1. /\ bank = [i \in Banks |-> bank[i]] /\ bank[1].fmt = "none"
        /\ \A i \in Banks : IsRecord(bank[i]) /\ bank[i].fmt \in {"v1", "none"}
    <3>1. CASE bank = [i \in Banks |-> Blank]
      BY <3>1, BlankRecord, TwoBanks
    <3>2. CASE bank = [i \in Banks |->
                         IF i = 0 THEN [Blank EXCEPT !.fmt = "v1", !.gen = 1, !.clean = 1]
                         ELSE Blank]
      <4>. DEFINE old == [Blank EXCEPT !.fmt = "v1", !.gen = 1, !.clean = 1]
      <4>1. IsRecord(old) /\ old.fmt = "v1"
        BY DEF Blank, IsRecord, RecordFields, Format
      <4>2. bank[0] = old /\ bank[1] = Blank /\ bank = [i \in Banks |-> bank[i]]
        BY <3>2, TwoBanks
      <4>. QED BY <4>1, <4>2, TwoBanks, BlankRecord
    <3>. QED BY <3>1, <3>2 DEF StoreInit
  <2>. QED BY <2>1 DEF StoreInit, Rebooted, Live
<1>. QED BY <1>1, RebootedIsSound

(* A step that only changes the presentation or an upload preserves the    *)
(* invariant ...                                                           *)
LEMMA StoreStays ==
  ASSUME StoreInv, UNCHANGED flash, UNCHANGED <<tag, v3, ask, promised, core0, core1>>
  PROVE  StoreInv'
<1>1. Shape'
  BY DEF StoreInv, Shape, flash
<1>2. Turns' /\ (Pending' <=> Pending)
  BY DEF StoreInv, Turns, Pending, Saving, Writing
<1>3. Live' = Live /\ Formats' /\ (Standing => Standing')
  BY FlashStays DEF StoreInv
<1>4. (Ordered => Ordered') /\ (SavedNow => SavedNow') /\ (Kept => Kept')
  BY <1>3 DEF Ordered, SavedNow, Kept, Writing, flash
<1>. QED BY <1>1, <1>2, <1>3, <1>4 DEF StoreInv

(* ... and so does every step of either core.                              *)
LEMMA CoresKeep ==
  ASSUME ~CommitInsideSave, ~ReplaceUnsaved, StoreInv,
         Save1 \/ Finish0 \/ Command \/ RequestClear \/ AnyWrite
  PROVE  StoreInv'
<1>. USE DEF StoreInv
<1>1. CASE Save1
  <2>1. Shape' /\ Turns' /\ Formats'
    BY <1>1, Core1Shape, Core1Turns, Core1Formats
  <2>. QED BY <1>1, <2>1, Core1Promises DEF Promises
<1>2. CASE Finish0 \/ Command \/ RequestClear \/ AnyWrite
  <2>1. UNCHANGED flash
    BY <1>2 DEF Finish0, Command, AnyWrite, BeginV2, BeginV3, CommitV2, CommitV3, CommitUsed,
       Cancel, Downloaded, SelectUsed, Present, RequestPersist, WriteV2, WriteV3, FinishV2,
       FinishV3, AskPersist, RequestClear, ClearFlags, ClearAsk
  <2>2. Shape' /\ Turns' /\ Formats'
    BY <1>2, <2>1, Core0Shape, Core0Turns, FlashStays
  <2>. QED BY <1>2, <2>2, Core0Promises DEF Promises
<1>. QED BY <1>1, <1>2

(* Every step preserves the invariant, a power loss at any point included. *)
LEMMA StoreInvInductive ==
  ASSUME ~CommitInsideSave, ~ReplaceUnsaved
  PROVE  StoreInv /\ [StoreNext]_storeVars => StoreInv'
<1>. SUFFICES ASSUME StoreInv, [StoreNext]_storeVars PROVE StoreInv'
  OBVIOUS
<1>1. CASE Save1 \/ Finish0 \/ Command \/ RequestClear
  BY <1>1, CoresKeep
<1>2. CASE ConsoleWrite
  BY <1>2, CoresKeep DEF ConsoleWrite, AnyWrite
<1>3. CASE Crash
  <2>1. Rebooted'
    BY <1>3 DEF Crash, Boot, Rebooted, Live, StoreInv, Shape, Formats
  <2>2. Rebooted' => StoreInv'
    BY RebootedIsSound, PTL
  <2>. QED BY <2>1, <2>2
<1>4. CASE UNCHANGED storeVars
  BY <1>4, StoreStays DEF storeVars, flash
<1>. QED BY <1>1, <1>2, <1>3, <1>4 DEF StoreNext

(* Hence it always holds.                                                  *)
LEMMA StoreInvHolds ==
  ASSUME ~CommitInsideSave, ~ReplaceUnsaved
  PROVE  StoreSpec => []StoreInv
BY FirstBoot, StoreInvInductive, PTL DEF StoreSpec

(* A tag the store reports persisted is what the boot-time scan of the two *)
(* banks loads, at every step of service_save(), for tags of both formats. *)
THEOREM SavedTagSurvives ==
  ASSUME ~CommitInsideSave, ~ReplaceUnsaved
  PROVE  StoreSpec => []SavedSurvives
<1>1. StoreInv => SavedSurvives
  <2>. SUFFICES ASSUME StoreInv, core0 # "clearFlags" PROVE SavedSurvives
    BY DEF SavedSurvives
  <2>1. CASE Pending
    BY <2>1 DEF StoreInv, Turns, SavedSurvives
  <2>2. CASE ~Pending
    BY <2>2 DEF StoreInv, SavedNow, SavedSurvives, Live
  <2>. QED BY <2>1, <2>2
<1>. QED BY <1>1, StoreInvHolds, PTL

(* While service_save() writes a newer generation, a power loss falls back *)
(* to the last saved one or to a newer one, and never to nothing.          *)
THEOREM PriorTagSurvives ==
  ASSUME ~CommitInsideSave, ~ReplaceUnsaved
  PROVE  StoreSpec => []PriorSurvives
<1>1. StoreInv => PriorSurvives
  <2>. SUFFICES ASSUME StoreInv, promised # Blank PROVE PriorSurvives
    BY DEF PriorSurvives
  <2>1. Shape /\ Formats /\ Kept
    BY DEF StoreInv, Turns
  <2>2. IsRecord(Live) /\ IsRecord(promised) /\ Behind(promised, Live)
    BY <2>1, LiveRecord DEF Kept, Shape
  <2>3. Live.gen >= promised.gen /\ Class(Live.fmt) = Class(promised.fmt)
    BY <2>1, <2>2 DEF Behind, Kept, IsRecord
  <2>4. ASSUME Live.gen = promised.gen PROVE [Live EXCEPT !.fmt = promised.fmt] = promised
    <3>1. Like(promised, Live)
      BY <2>2, <2>4 DEF Behind
    <3>. QED BY <2>2, <3>1 DEF Like, IsRecord, RecordFields
  <2>. QED BY <2>3, <2>4 DEF PriorSurvives, Live
<1>. QED BY <1>1, StoreInvHolds, PTL

-----------------------------------------------------------------------------
(* The erased store, whatever commits and saves overlap. *)
Empty == bank[0] = Blank /\ bank[1] = Blank
EraseInv ==
    /\ DOMAIN bank = Banks /\ DOMAIN v3 = {"loaded", "image", "gen", "dirty", "persisted"}
    /\ core1 \in {"clear1", "cleared"} => bank[0] = Blank
    /\ core1 = "cleared" => bank[1] = Blank
    /\ erased = TRUE =>
         /\ Empty /\ tag.loaded # TRUE /\ v3.loaded # TRUE /\ core0 # "commit3"
         /\ core1 \in {"idle", "clear0", "clear1", "cleared", "check", "snap2"}

(* Blank banks boot into an empty store.                                   *)
LEMMA EmptyBoots ==
  ASSUME Empty
  PROVE  Booted(bank) = Blank
<1>1. Booted(bank) = IF bank[0].fmt = "v1" THEN bank[0] ELSE Blank
  BY TwoBanks, BootNone, BlankRecord DEF Empty
<1>. QED BY <1>1 DEF Empty

(* Every step preserves it, with no restriction on the overlap of the      *)
(* cores.                                                                  *)
LEMMA EraseInvInductive == EraseInv /\ [StoreNext]_storeVars => EraseInv'
<1>. SUFFICES ASSUME EraseInv, [StoreNext]_storeVars PROVE EraseInv'
  OBVIOUS
<1>. USE DEF EraseInv, Empty
<1>0. 0 \in Banks /\ 1 \in Banks /\ NoTag.loaded = FALSE
  BY TwoBanks, Fields
<1>1. CASE Save1
  <2>1. CASE SaveStart \/ Check \/ SnapV3 \/ SnapV2 \/ SnapNothing \/ ClearDone
    BY <2>1 DEF SaveStart, Check, SnapV3, SnapV2, SnapNothing, ClearDone, ram
  <2>2. CASE ClearBank0 \/ ClearBank1
    <3>1. DOMAIN bank' = Banks /\ UNCHANGED <<tag, v3, core0, erased>>
      BY <2>2 DEF ClearBank0, ClearBank1, ram
    <3>2. CASE ClearBank0
      <4>1. bank'[0] = Blank /\ bank'[1] = bank[1] /\ core1 = "clear0" /\ core1' = "clear1"
        BY <1>0, <3>2 DEF ClearBank0
      <4>. QED BY <3>1, <4>1
    <3>3. CASE ClearBank1
      <4>1. bank'[1] = Blank /\ bank'[0] = bank[0] /\ core1 = "clear1" /\ core1' = "cleared"
        BY <1>0, <3>3 DEF ClearBank1
      <4>. QED BY <3>1, <4>1
    <3>. QED BY <2>2, <3>2, <3>3
  <2>3. CASE Wipe0 \/ Wipe1 \/ Erase \/ \E ok \in BOOLEAN : Program(ok)
    <3>1. /\ DOMAIN bank' = DOMAIN bank /\ UNCHANGED <<v3, erased>>
          /\ core1 \in {"wipe0", "wipe1", "erase", "program"}
          /\ core1' \in {"wipe1", "erase", "program", "settle"}
      BY <2>3 DEF Wipe0, Wipe1, Erase, Program, ram
    <3>. QED BY <3>1
  <2>4. CASE Settle
    <3>1. /\ UNCHANGED <<bank, erased>> /\ core1 = "settle" /\ core1' = "idle"
          /\ DOMAIN v3' = DOMAIN v3
      BY <2>4 DEF Settle
    <3>. QED BY <3>1
  <2>. QED BY <1>1, <2>1, <2>2, <2>3, <2>4 DEF Save1
<1>2. CASE Finish0
  BY <1>2 DEF Finish0, FinishV2, FinishV3, AskPersist, ClearFlags, ClearAsk, flash
<1>3. CASE RequestClear
  BY <1>0, <1>3 DEF RequestClear, flash
<1>4. CASE ConsoleWrite
  BY <1>4 DEF ConsoleWrite, WriteV2, WriteV3, Core0Free, flash
<1>5. CASE Command
  <2>1. CASE CommitV2 \/ CommitV3
    BY <2>1 DEF CommitV2, CommitV3, flash
  <2>2. CASE CommitUsed \/ Downloaded \/ \E u \in BOOLEAN : SelectUsed(u)
    BY <2>2 DEF CommitUsed, Downloaded, SelectUsed, flash
  <2>3. CASE BeginV2 \/ BeginV3 \/ Cancel \/ RequestPersist \/ \E p \in BOOLEAN : Present(p)
    BY <2>3 DEF BeginV2, BeginV3, Cancel, RequestPersist, Present, flash
  <2>. QED BY <1>5, <2>1, <2>2, <2>3 DEF Command
<1>6. CASE Crash
  <2>1. /\ UNCHANGED <<bank, erased>> /\ core0' = "idle" /\ core1' = "idle"
        /\ tag' = TagOf(Booted(bank)) /\ v3' = SlotOf(Booted(bank))
    BY <1>6 DEF Crash, Boot
  <2>2. erased = TRUE => tag' = TagOf(Blank) /\ v3' = SlotOf(Blank)
    BY <2>1, EmptyBoots
  <2>3. DOMAIN v3' = {"loaded", "image", "gen", "dirty", "persisted"}
    BY <2>1 DEF SlotOf
  <2>. QED BY <1>0, <2>1, <2>2, <2>3, BlankRecord DEF TagOf, SlotOf
<1>7. CASE UNCHANGED storeVars
  BY <1>7 DEF storeVars
<1>. QED BY <1>1, <1>2, <1>3, <1>4, <1>5, <1>6, <1>7 DEF StoreNext

(* Once service_save() has completed a clear, and until something is       *)
(* loaded, no power cycle brings the tag back: even if commits and saves   *)
(* overlap.                                                                *)
THEOREM ClearedTagStays == StoreSpec => []ClearedStays
<1>1. StoreInit => EraseInv
  BY DEF StoreInit, EraseInv, SlotOf
<1>2. EraseInv => ClearedStays
  <2>. SUFFICES ASSUME EraseInv, erased = TRUE PROVE Booted(bank) = Blank
    BY DEF ClearedStays
  <2>. QED BY EmptyBoots DEF EraseInv
<1>. QED BY <1>1, <1>2, EraseInvInductive, PTL DEF StoreSpec

-----------------------------------------------------------------------------
(* The console's sessions: no blind write. *)

Shapes ==
    /\ DOMAIN tag = DOMAIN NoTag
    /\ DOMAIN v3 = {"loaded", "image", "gen", "dirty", "persisted"}
    /\ DOMAIN n540 = DOMAIN Ready540 /\ DOMAIN n2k = DOMAIN Fresh2k
    /\ DOMAIN used = {"edits", "changes", "clears", "crashes", "bad"}

(* The generations and the counters that bound them. *)
Numbers ==
    /\ tag.gen \in Nat /\ v3.gen \in Nat
    /\ used.edits \in Nat /\ used.edits <= MaxEdits + 1
    /\ used.changes \in Nat /\ used.changes <= MaxChanges
    /\ v3.gen <= used.edits + used.changes

(* Core 0 between the commands: the two formats exclude each other but      *)
(* inside a commit, and the presentation edge is current outside the gap    *)
(* between a command and the ns2_task that follows it.                      *)
Between ==
    /\ tag.loaded /\ v3.loaded => core0 = "commit2"
    /\ core0 = "commit3" => ~tag.loaded
    /\ ~due => core0 \in {"idle", "persist"} /\ edge = Shown540
    /\ n540.op # "none" => edge

(* A 540-byte operation under way read the image its generation names, or   *)
(* the tag is gone and the next ns2_task forgets the operation.             *)
Honest540 ==
    n540.op # "none" /\ n540.status = "active" =>
        \/ /\ tag.loaded /\ n540.gen \in Nat /\ n540.gen <= tag.gen
           /\ n540.gen = tag.gen => n540.base = Served540
        \/ ~tag.loaded /\ due

(* So did a 2048-byte one, unless its next command sees fresh media. *)
Honest2k ==
    n2k.op /\ n2k.status = "active" =>
        /\ n2k.gen = n2k.seen /\ n2k.seen \in Nat /\ n2k.seen <= v3.gen
        /\ n2k.gen = v3.gen => n2k.base = v3.image

BlindInv == Shapes /\ Numbers /\ Between /\ Honest540 /\ Honest2k

(* The fields of the records. *)
LEMMA ReaderFields ==
    /\ DOMAIN NoTag = {"loaded", "clean", "used", "using", "dirty", "persisted", "gen"}
    /\ DOMAIN Ready540 = {"op", "status", "committed", "durable", "wait", "out", "gen", "base"}
    /\ DOMAIN Fresh2k = {"op", "mode", "staged", "status", "committed", "durable", "wait", "out",
                         "await", "gen", "base", "seen"}
BY DEF NoTag, Ready540, Fresh2k, Reset2k

(* What boot makes of a record is one format's tag or none. *)
LEMMA BootedTag ==
  ASSUME NEW r
  PROVE  /\ DOMAIN TagOf(r) = DOMAIN NoTag
         /\ DOMAIN SlotOf(r) = {"loaded", "image", "gen", "dirty", "persisted"}
         /\ ~(TagOf(r).loaded /\ SlotOf(r).loaded)
         /\ r.fmt # "v3" => SlotOf(r).gen = 0
         /\ TagOf(r).gen \in {0, r.gen}
BY DEF TagOf, SlotOf, NoTag

(* The adapter starts with no operation under way. *)
LEMMA BlindInit == NfcInit => BlindInv
<1>. SUFFICES ASSUME NfcInit
              PROVE  BlindInv
  OBVIOUS
<1>. DEFINE b0 == [i \in Banks |-> Blank]
            b1 == [i \in Banks |-> IF i = 0 THEN [Blank EXCEPT !.fmt = "v1", !.gen = 1, !.clean = 1]
                                   ELSE Blank]
<1>1. /\ bank \in {b0, b1}
      /\ tag = TagOf(Booted(bank)) /\ v3 = SlotOf(Booted(bank)) /\ core0 = "idle"
      /\ used = [edits |-> 1, changes |-> 0, clears |-> 0, crashes |-> 0, bad |-> 0]
      /\ n540 = Ready540 /\ n2k = Fresh2k /\ edge = Shown540 /\ due = FALSE
  BY DEF NfcInit, StoreInit
<1>2. Booted(bank).fmt # "v3" /\ Booted(bank).gen \in Nat
  <2>1. Of(b0, "v3") = {} /\ Of(b0, "v2") = {} /\ b0[0] = Blank
    BY DEF Of, Banks, Blank
  <2>2. b1[0] = [Blank EXCEPT !.fmt = "v1", !.gen = 1, !.clean = 1] /\ b1[1] = Blank
    BY DEF Banks
  <2>3. DOMAIN Blank = {"fmt", "gen", "clean", "used", "using", "dirty"}
        /\ Blank.fmt = "none" /\ Blank.gen = 0
    BY DEF Blank
  <2>4. b1[0].fmt = "v1" /\ b1[0].gen = 1
    <3>. HIDE DEF b1
    <3>. QED BY <2>2, <2>3
  <2>5. Of(b1, "v3") = {} /\ Of(b1, "v2") = {}
    <3>. HIDE DEF b1
    <3>. QED BY <2>2, <2>3, <2>4 DEF Of, Banks
  <2>6. BootBank(b0) = NoBank /\ BootBank(b1) = NoBank
    <3>. HIDE DEF b0, b1
    <3>. QED BY <2>1, <2>5 DEF BootBank
  <2>7. Booted(b0) = Blank /\ Booted(b1) = b1[0]
    <3>. HIDE DEF b0, b1
    <3>. QED BY <2>1, <2>3, <2>4, <2>6 DEF Booted
  <2>. HIDE DEF b0, b1
  <2>. QED BY <1>1, <2>3, <2>4, <2>7
<1>3. Shapes
  BY <1>1, BootedTag DEF Shapes
<1>4. Numbers
  <2>1. tag.gen \in Nat /\ v3.gen = 0
    <3>1. tag.gen \in {0, Booted(bank).gen}
      BY <1>1, BootedTag
    <3>2. v3.gen = 0
      BY <1>1, <1>2, BootedTag
    <3>. QED BY <1>2, <3>1, <3>2
  <2>2. used.edits = 1 /\ used.changes = 0 /\ MaxEdits \in Nat /\ MaxChanges \in Nat
    BY <1>1, BoundsAssumption
  <2>. QED BY <2>1, <2>2 DEF Numbers
<1>5. Between
  BY <1>1, BootedTag DEF Between, Ready540
<1>. QED BY <1>1, <1>3, <1>4, <1>5 DEF BlindInv, Honest540, Honest2k, Ready540, Fresh2k, Reset2k

-----------------------------------------------------------------------------
(* At most one format is loaded outside a commit. *)
Exclusion ==
    /\ tag.loaded /\ v3.loaded => core0 = "commit2"
    /\ core0 = "commit3" => ~tag.loaded

(* The journal writer only marks a tag persisted. *)
LEMMA SaveStep ==
  ASSUME BlindInv, Save1, UNCHANGED nfcVars
  PROVE  BlindInv' /\ UNCHANGED <<tag.used, v3.image>>
<1>1. /\ UNCHANGED <<n540, n2k, edge, due, shown, core0>>
      /\ DOMAIN used' = DOMAIN used /\ UNCHANGED <<used.edits, used.changes>>
      /\ tag' = tag \/ tag' = [tag EXCEPT !.persisted = TRUE]
      /\ v3' = v3 \/ v3' = [v3 EXCEPT !.persisted = TRUE]
  BY DEF Save1, SaveStart, ClearBank0, ClearBank1, ClearDone, Check, SnapV3, SnapV2, SnapNothing,
         Wipe0, Wipe1, Erase, Program, Settle, ram, nfcVars, Spend, BlindInv, Shapes
<1>2. /\ DOMAIN tag' = DOMAIN tag /\ DOMAIN v3' = DOMAIN v3
      /\ UNCHANGED <<tag.loaded, tag.gen, tag.using, tag.used, tag.clean>>
      /\ UNCHANGED <<v3.loaded, v3.gen, v3.image>>
  BY <1>1, ReaderFields DEF BlindInv, Shapes
<1>. QED BY <1>1, <1>2 DEF BlindInv, Shapes, Numbers, Between, Honest540, Honest2k, Served540,
            Shown540

(* The ends of the commands set flags. *)
LEMMA FinishStep ==
  ASSUME BlindInv, Finish0, UNCHANGED nfcVars
  PROVE  BlindInv' /\ UNCHANGED <<tag.used, v3.image>>
<1>1. CASE AskPersist
  BY <1>1 DEF AskPersist, flash, nfcVars, BlindInv, Shapes, Numbers, Between, Honest540, Honest2k,
         Served540, Shown540
<1>2. CASE FinishV2
  BY <1>2, ReaderFields DEF FinishV2, flash, nfcVars, BlindInv, Shapes, Numbers, Between, Honest540,
         Honest2k, Served540
<1>3. CASE FinishV3
  BY <1>3, ReaderFields DEF FinishV3, flash, nfcVars, BlindInv, Shapes, Numbers, Between, Honest540,
         Honest2k, Served540
<1>4. CASE ClearFlags
  BY <1>4, ReaderFields DEF ClearFlags, flash, nfcVars, BlindInv, Shapes, Numbers, Between, Honest540,
         Honest2k, Served540
<1>5. CASE ClearAsk
  BY <1>5, ReaderFields DEF ClearAsk, flash, nfcVars, BlindInv, Shapes, Numbers, Between, Honest540,
         Honest2k, Served540
<1>. QED BY <1>1, <1>2, <1>3, <1>4, <1>5 DEF Finish0

(* A command either leaves a format's tag alone, or makes its next          *)
(* generation, or empties it.                                               *)
TagRenewed ==
    \/ UNCHANGED tag
    \/ tag'.loaded /\ tag'.gen = tag.gen + 1
    \/ ~tag'.loaded /\ tag'.gen = 0
SlotRenewed ==
    \/ UNCHANGED <<v3.gen, v3.image>>
    \/ v3'.gen = v3.gen + 1
    \/ v3'.gen = 0 /\ ~n2k.op
Moves ==
    /\ Shapes' /\ Numbers' /\ Exclusion'
    /\ TagRenewed /\ SlotRenewed
    /\ (tag'.dirty => tag'.used = tag.used) /\ (v3'.dirty => v3'.image = v3.image)

(* Such a move leaves no operation that mistakes another image for its own. *)
LEMMA MovesKeep ==
  ASSUME BlindInv, Moves, ~due, due' = TRUE, UNCHANGED <<n540, n2k, edge>>
  PROVE  BlindInv'
<1>1. Between'
  BY DEF Moves, Exclusion, Between, BlindInv
<1>2. Honest540'
  BY DEF Moves, TagRenewed, BlindInv, Honest540, Numbers, Served540
<1>3. Honest2k'
  BY DEF Moves, SlotRenewed, BlindInv, Honest2k, Numbers
<1>. QED BY <1>1, <1>2, <1>3 DEF Moves, BlindInv

(* Every command but `amiibo clear` moves the tags so. *)
LEMMA CommandMoves ==
  ASSUME BlindInv, ~due, Command, UNCHANGED <<n540, n2k>>
  PROVE  Moves
<1>1. CASE BeginV2 \/ BeginV3 \/ Cancel \/ \E p \in BOOLEAN : Present(p)
  BY <1>1 DEF BeginV2, BeginV3, Cancel, Present, flash, BlindInv, Shapes, Numbers, Between,
     Core0Free, Moves, TagRenewed, SlotRenewed, Exclusion
<1>2. CASE RequestPersist
  BY <1>2, BoundsAssumption DEF RequestPersist, flash, Spend, BlindInv, Shapes, Numbers, Between, Core0Free, Moves,
     TagRenewed, SlotRenewed, Exclusion
<1>3. CASE CommitV2
  BY <1>3, ReaderFields, BoundsAssumption DEF CommitV2, flash, Spend, Fresh, BlindInv, Shapes, Numbers,
     Moves, TagRenewed, SlotRenewed, Exclusion
<1>4. CASE CommitV3
  <2>1. DOMAIN NoTag = DOMAIN tag /\ ~NoTag.loaded /\ NoTag.gen = 0 /\ ~NoTag.dirty
    BY DEF NoTag, BlindInv, Shapes
  <2>. QED BY <1>4, <2>1, BoundsAssumption DEF CommitV3, flash, Spend, Fresh, BlindInv, Shapes,
       Numbers, Moves, TagRenewed, SlotRenewed, Exclusion
<1>5. CASE CommitUsed
  BY <1>5, ReaderFields, BoundsAssumption DEF CommitUsed, Core0Free, flash, Spend, Fresh, BlindInv,
     Shapes, Numbers, Between, Moves, TagRenewed, SlotRenewed, Exclusion
<1>6. CASE Downloaded
  <2>1. /\ core0 = "idle" /\ core0' = "persist" /\ MaxChanges \in Nat
        /\ DOMAIN used' = DOMAIN used /\ used'.edits = used.edits
        /\ used.changes < MaxChanges /\ used'.changes = used.changes + 1
    BY <1>6, BoundsAssumption DEF Downloaded, Core0Free, Spend, BlindInv, Shapes
  <2>2. CASE v3.loaded
    <3>1. /\ DOMAIN v3' = DOMAIN v3 /\ v3'.gen = v3.gen + 1 /\ v3'.loaded = v3.loaded
          /\ ~v3'.dirty /\ UNCHANGED tag
      BY <1>6, <2>2 DEF Downloaded, BlindInv, Shapes
    <3>. QED BY <2>1, <3>1 DEF BlindInv, Shapes, Numbers, Between, Moves, TagRenewed, SlotRenewed,
                Exclusion
  <2>3. CASE ~v3.loaded
    <3>1. /\ DOMAIN tag' = DOMAIN tag /\ tag'.gen = tag.gen + 1 /\ tag'.loaded
          /\ ~tag'.dirty /\ UNCHANGED v3
      BY <1>6, <2>3, ReaderFields DEF Downloaded, BlindInv, Shapes
    <3>. QED BY <2>1, <2>3, <3>1 DEF BlindInv, Shapes, Numbers, Between, Moves, TagRenewed, SlotRenewed,
                Exclusion
  <2>. QED BY <2>2, <2>3
<1>7. ASSUME NEW u \in BOOLEAN, SelectUsed(u)
      PROVE  Moves
  BY <1>7, ReaderFields, BoundsAssumption DEF SelectUsed, Core0Free, flash, Spend, BlindInv, Shapes,
     Numbers, Between, Moves, TagRenewed, SlotRenewed, Exclusion
<1>. QED BY <1>1, <1>2, <1>3, <1>4, <1>5, <1>6, <1>7 DEF Command

(* So does `amiibo clear`, outside a 2 KB operation. *)
LEMMA ClearMoves ==
  ASSUME BlindInv, ~due, RequestClear, ~n2k.op, UNCHANGED <<n540, n2k>>
  PROVE  Moves
<1>1. DOMAIN NoTag = DOMAIN tag /\ ~NoTag.loaded /\ NoTag.gen = 0 /\ ~NoTag.dirty
  BY DEF NoTag, BlindInv, Shapes
<1>. QED BY <1>1 DEF RequestClear, flash, Spend, BlindInv, Shapes, Numbers, Moves, TagRenewed,
            SlotRenewed, Exclusion

(* Hence every management command keeps the invariant. *)
LEMMA ManagementStep ==
  ASSUME ~ClearDuringOp, BlindInv, Management
  PROVE  BlindInv' /\ Moves
BY CommandMoves, ClearMoves, MovesKeep DEF Management

-----------------------------------------------------------------------------
(* The 540-byte reader. *)
Commands540 ==
    \/ Stop540 \/ Stage540 \/ Malformed540
    \/ \E m \in {"read", "write"} : Begin540(m)
    \/ \E cooled \in BOOLEAN : Scan540(cooled)

(* A reader command other than the commit keeps what the operation read,    *)
(* or begins one on the image of the moment.                                *)
LEMMA Command540Keeps ==
  ASSUME BlindInv, Commands540, Shown540
  PROVE  /\ DOMAIN n540' = DOMAIN n540
         /\ n540'.op # "none" /\ n540'.status = "active" =>
              \/ /\ n540.op # "none" /\ n540.status = "active"
                 /\ UNCHANGED <<n540.gen, n540.base>>
              \/ n540'.gen = tag.gen /\ n540'.base = Served540
<1>1. CASE Stop540
  BY <1>1, ReaderFields DEF Stop540, Eject540, Present540, BlindInv, Shapes
<1>2. CASE Stage540
  BY <1>2, ReaderFields DEF Stage540, Error540, Present540, BlindInv, Shapes
<1>3. CASE Malformed540
  BY <1>3, ReaderFields DEF Malformed540, Error540, BlindInv, Shapes
<1>4. ASSUME NEW m \in {"read", "write"}, Begin540(m)
      PROVE  /\ DOMAIN n540' = DOMAIN n540
             /\ n540'.op # "none" /\ n540'.status = "active" =>
                  n540'.gen = tag.gen /\ n540'.base = Served540
  BY <1>4, ReaderFields DEF Begin540, Error540, Present540, BlindInv, Shapes
<1>5. ASSUME NEW cooled \in BOOLEAN, Scan540(cooled)
      PROVE  /\ DOMAIN n540' = DOMAIN n540
             /\ n540'.op # "none" /\ n540'.status = "active" =>
                  /\ n540.op # "none" /\ n540.status = "active"
                  /\ UNCHANGED <<n540.gen, n540.base>>
  BY <1>5, ReaderFields DEF Scan540, BlindInv, Shapes
<1>. QED BY <1>1, <1>2, <1>3, <1>4, <1>5 DEF Commands540

(* The commit writes on the image the operation read, or fails. *)
LEMMA Commit540Step ==
  ASSUME BlindInv, NEW whole \in BOOLEAN, Commit540(whole), Core0Free, ~due, Shown540,
         UNCHANGED <<n2k, edge, due>>
  PROVE  /\ BlindInv' /\ UNCHANGED v3
         /\ tag'.used # tag.used => n540.base = Served540
<1>1. CASE ~Complete540(whole) \/ tag.gen # n540.gen
  <2>1. UNCHANGED storeVars /\ DOMAIN n540' = DOMAIN n540 /\ n540'.op = "none"
    BY <1>1, ReaderFields DEF Commit540, Error540, Written540, BlindInv, Shapes
  <2>. QED BY <2>1 DEF storeVars, BlindInv, Shapes, Numbers, Between, Honest540, Honest2k, Shown540
<1>2. CASE Complete540(whole) /\ tag.gen = n540.gen
  <2>1. WriteV2(n540.gen) /\ n540' = Written540
    BY <1>2 DEF Commit540
  <2>2. n540.base = Served540
    BY <1>2 DEF Complete540, BlindInv, Honest540
  <2>3. DOMAIN n540' = DOMAIN n540 /\ n540'.op = "none"
    BY <2>1, ReaderFields DEF Written540, BlindInv, Shapes
  <2>4. /\ UNCHANGED <<v3, shown>> /\ core0' = "persist" /\ DOMAIN tag' = DOMAIN tag
        /\ tag'.gen = tag.gen + 1 /\ tag'.loaded = tag.loaded
        /\ DOMAIN used' = DOMAIN used /\ used.edits < MaxEdits
        /\ used'.edits = used.edits + 1 /\ used'.changes = used.changes
    BY <2>1, ReaderFields DEF WriteV2, Fresh, Spend, BlindInv, Shapes
  <2>5. Numbers'
    BY <2>4, BoundsAssumption DEF BlindInv, Numbers
  <2>. QED BY <2>2, <2>3, <2>4, <2>5 DEF BlindInv, Shapes, Between, Honest540, Honest2k, Shown540,
              Core0Free
<1>. QED BY <1>1, <1>2

(* Every step of the 540-byte reader keeps the invariant. *)
LEMMA Nfc540Step ==
  ASSUME BlindInv, Nfc540
  PROVE  /\ BlindInv' /\ UNCHANGED v3
         /\ tag'.used # tag.used => n540.base = Served540
<1>1. CASE Commands540 /\ UNCHANGED storeVars
  <2>1. Core0Free /\ ~due /\ Shown540 /\ UNCHANGED <<n2k, edge, due>>
    BY DEF Nfc540
  <2>2. tag.loaded /\ tag.gen \in Nat /\ edge = TRUE
    BY <2>1 DEF Shown540, BlindInv, Between, Numbers
  <2>3. Honest540'
    BY <1>1, <2>1, <2>2, Command540Keeps DEF storeVars, BlindInv, Honest540, Served540
  <2>4. UNCHANGED <<tag, v3, shown, core0, used>> /\ DOMAIN n540' = DOMAIN n540
    BY <1>1, <2>1, Command540Keeps DEF storeVars
  <2>5. Shapes' /\ Numbers' /\ Between' /\ Honest2k'
    BY <2>1, <2>2, <2>4 DEF BlindInv, Shapes, Numbers, Between, Honest2k, Shown540
  <2>. QED BY <2>3, <2>4, <2>5 DEF BlindInv
<1>2. ASSUME NEW whole \in BOOLEAN, Commit540(whole)
      PROVE  /\ BlindInv' /\ UNCHANGED v3
             /\ tag'.used # tag.used => n540.base = Served540
  BY <1>2, Commit540Step DEF Nfc540
<1>. QED BY <1>1, <1>2 DEF Nfc540, Commands540

-----------------------------------------------------------------------------
(* The 2048-byte reader: what a command finds after it has looked for fresh *)
(* media, and what it leaves.                                               *)
Good(s) ==
    /\ DOMAIN s = DOMAIN Fresh2k
    /\ s.seen = v3.gen
    /\ s.op /\ s.status = "active" => s.gen = v3.gen /\ s.base = v3.image

(* Fresh media end an operation. *)
LEMMA ResetGood == Good(Reset2k(v3.gen)) /\ ~Reset2k(v3.gen).op
BY ReaderFields DEF Good, Reset2k

(* The tick ends an operation or leaves it as it is. *)
LEMMA TickedShape ==
  ASSUME NEW s, DOMAIN s = DOMAIN Fresh2k
  PROVE  /\ DOMAIN Ticked(s) = DOMAIN Fresh2k
         /\ Ticked(s).seen = s.seen /\ Ticked(s).gen = s.gen /\ Ticked(s).base = s.base
         /\ Ticked(s).op /\ Ticked(s).status = "active" => s.op /\ s.status = "active"
BY ReaderFields DEF Ticked, Eject2k

(* An operation that survives the look for fresh media is on the current image. *)
LEMMA EntryGood ==
  ASSUME BlindInv
  PROVE  /\ Good(Entry)
         /\ Entry.op /\ Entry.status = "active" => n2k.base = v3.image
<1>1. n2k.op /\ n2k.status = "active" => n2k.seen # Unseen
  <2>1. v3.gen < Unseen /\ v3.gen \in Nat /\ Unseen \in Nat
    BY BoundsAssumption DEF BlindInv, Numbers, Unseen
  <2>. QED BY <2>1 DEF BlindInv, Honest2k
<1>2. /\ Good(Observed)
      /\ Observed.op /\ Observed.status = "active" => n2k.base = v3.image
  <2>1. CASE n2k.seen = Unseen
    BY <1>1, <2>1, ReaderFields DEF Observed, BlindInv, Shapes, Good
  <2>2. CASE n2k.seen # Unseen /\ FreshMedia
    BY <2>2, ResetGood DEF Observed
  <2>3. CASE n2k.seen # Unseen /\ ~FreshMedia
    BY <2>3 DEF Observed, FreshMedia, Good, BlindInv, Shapes, Honest2k
  <2>. QED BY <2>1, <2>2, <2>3
<1>. HIDE DEF Observed
<1>. QED BY <1>2, TickedShape DEF Entry, Good

Commands2k(s) ==
    \/ Stop2k(s) \/ \E cooled \in BOOLEAN : Scan2k(s, cooled)
    \/ Read2k(s) \/ SectorRead2k(s) \/ StageDevice2k(s) \/ RunDevice2k(s) \/ Malformed2k(s)
    \/ \E k \in {"write", "clear", "update"} : Stage2k(s, k)

(* Every command but a commit keeps it there. *)
LEMMA Command2kGood ==
  ASSUME NEW s, Good(s), Commands2k(s)
  PROVE  Good(n2k')
<1>1. CASE Stop2k(s)
  BY <1>1, ReaderFields DEF Stop2k, Ended, Eject2k, Good
<1>2. ASSUME NEW cooled \in BOOLEAN, Scan2k(s, cooled)
      PROVE  Good(n2k')
  BY <1>2, ReaderFields DEF Scan2k, Ended, Good
<1>3. CASE Read2k(s)
  BY <1>3, ReaderFields DEF Read2k, Ended, Error2k, Good
<1>4. CASE SectorRead2k(s)
  BY <1>4, ReaderFields DEF SectorRead2k, Ended, Error2k, Good
<1>5. CASE StageDevice2k(s) \/ RunDevice2k(s) \/ Malformed2k(s)
  BY <1>5, ReaderFields DEF StageDevice2k, RunDevice2k, Malformed2k, Error2k, Good
<1>6. ASSUME NEW k \in {"write", "clear", "update"}, Stage2k(s, k)
      PROVE  Good(n2k')
  BY <1>6, ReaderFields DEF Stage2k, Error2k, Good
<1>. QED BY <1>1, <1>2, <1>3, <1>4, <1>5, <1>6 DEF Commands2k

(* Every step of the 2048-byte reader keeps the invariant. *)
LEMMA Nfc2kStep ==
  ASSUME BlindInv, Nfc2k
  PROVE  /\ BlindInv' /\ UNCHANGED tag
         /\ v3'.image # v3.image => n2k.base = v3.image
<1>1. /\ core0 = "idle" /\ ~due /\ ~due' /\ v3.loaded /\ ~tag.loaded
      /\ UNCHANGED <<tag, n540, edge, due>>
  BY DEF Nfc2k, Core0Free, BlindInv, Between
<1>2. /\ Good(Entry)
      /\ Entry.op /\ Entry.status = "active" => n2k.base = v3.image
  BY EntryGood
<1>. HIDE DEF Entry
<1>3. CASE UNCHANGED <<v3, core0, used>> /\ Good(n2k')
  <2>1. Shapes' /\ Numbers' /\ Between' /\ Honest540'
    BY <1>1, <1>3 DEF BlindInv, Shapes, Numbers, Between, Honest540, Good, Shown540
  <2>2. Honest2k'
    BY <1>3 DEF BlindInv, Honest2k, Good, Numbers
  <2>. QED BY <1>1, <1>3, <2>1, <2>2 DEF BlindInv
<1>4. CASE UNCHANGED <<v3, core0, used>> /\ Commands2k(Entry)
  BY <1>2, <1>3, <1>4, Command2kGood
<1>5. ASSUME NEW modes, NEW whole \in BOOLEAN, Commit2k(Entry, modes, whole)
      PROVE  /\ BlindInv' /\ UNCHANGED tag
             /\ v3'.image # v3.image => n2k.base = v3.image
  <2>1. CASE n2k' = Error2k(Entry) /\ UNCHANGED <<v3, core0, used>>
    <3>1. Good(n2k')
      BY <1>2, <2>1, ReaderFields DEF Error2k, Good
    <3>. QED BY <1>3, <2>1, <3>1
  <2>2. CASE /\ Open2k(Entry, modes) /\ WriteV3(Entry.gen, EntryShown)
             /\ n2k' \in {Written2k(Entry), Extended2k(Entry)}
    <3>1. n2k.base = v3.image
      BY <1>2, <2>2 DEF Open2k, WriteV3
    <3>2. DOMAIN n2k' = DOMAIN n2k /\ ~n2k'.op
      BY <1>2, <2>2, ReaderFields DEF Written2k, Extended2k, Ended, Good, BlindInv, Shapes
    <3>3. /\ DOMAIN v3' = DOMAIN v3 /\ v3'.gen = v3.gen + 1 /\ v3'.loaded = v3.loaded
          /\ DOMAIN used' = DOMAIN used /\ used'.changes = used.changes
          /\ used.edits < MaxEdits /\ used'.edits = used.edits + 1
      BY <2>2 DEF BlindInv, Shapes, WriteV3, Fresh, Spend
    <3>4. Numbers'
      BY <1>1, <3>3, BoundsAssumption DEF BlindInv, Numbers
    <3>5. Shapes' /\ Between' /\ Honest540' /\ Honest2k'
      BY <1>1, <2>2, <3>2, <3>3 DEF BlindInv, Shapes, Between, Honest540, Honest2k, Shown540,
         WriteV3
    <3>. QED BY <1>1, <3>1, <3>4, <3>5 DEF BlindInv
  <2>. QED BY <1>5, <2>1, <2>2 DEF Commit2k
<1>. QED BY <1>4, <1>5 DEF Nfc2k, Commands2k

(* ns2_task forgets an operation whose tag has gone. *)
LEMMA TaskStep ==
  ASSUME BlindInv, Ns2Task
  PROVE  BlindInv'
<1>1. core0 = "idle" /\ ~due' /\ edge' = Shown540 /\ UNCHANGED <<tag, v3, core0, used>>
  BY DEF Ns2Task, Core0Free
<1>2. Shown540' = Shown540
  BY <1>1 DEF Ns2Task, Shown540, BlindInv, Between
<1>3. n540' = IF Shown540 THEN Informed(Synced(TRUE)) ELSE Synced(FALSE)
  BY DEF Ns2Task
<1>4. /\ DOMAIN Synced(Shown540) = DOMAIN Ready540
      /\ Synced(Shown540) = n540 \/ Synced(Shown540).op = "none"
  BY DEF Synced, BlindInv, Shapes, Ready540
<1>5. /\ DOMAIN n540' = DOMAIN Ready540
      /\ n540'.op # "none" /\ n540'.status = "active" =>
           /\ n540.op # "none" /\ n540.status = "active"
           /\ UNCHANGED <<n540.gen, n540.base>>
      /\ n540'.op # "none" => n540.op # "none" /\ edge = Shown540
  <2>1. Shown540 \in BOOLEAN
    BY DEF Shown540
  <2>2. (Synced(Shown540) = n540 /\ edge = Shown540) \/ Synced(Shown540).op = "none"
    BY DEF Synced, Ready540
  <2>3. CASE Shown540
    <3>. DEFINE z == Synced(TRUE)
    <3>1. n540' = Informed(z) /\ DOMAIN z = DOMAIN Ready540
          /\ ((z = n540 /\ edge = Shown540) \/ z.op = "none")
      BY <1>3, <1>4, <2>2, <2>3 DEF Synced, Ready540
    <3>. HIDE DEF z
    <3>. QED BY <3>1, ReaderFields DEF Informed, Eject540
  <2>4. CASE ~Shown540
    <3>1. Shown540 = FALSE
      BY <2>1, <2>4
    <3>2. n540' = Synced(FALSE)
      BY <1>3, <2>4
    <3>3. DOMAIN n540' = DOMAIN Ready540 /\ ((n540' = n540 /\ edge = FALSE) \/ n540'.op = "none")
      BY <1>4, <2>2, <3>1, <3>2
    <3>. QED BY <3>1, <3>3
  <2>. QED BY <2>3, <2>4
<1>6. n2k' = IF v3.loaded THEN Ticked(n2k) ELSE n2k
  BY DEF Ns2Task
<1>7. Shapes' /\ Numbers' /\ Honest2k'
  BY <1>1, <1>5, <1>6, TickedShape DEF BlindInv, Shapes, Numbers, Honest2k
<1>8. Between'
  BY <1>1, <1>2, <1>5 DEF BlindInv, Between
<1>9. Honest540'
  BY <1>1, <1>5 DEF BlindInv, Honest540, Shown540, Between, Served540
<1>. QED BY <1>7, <1>8, <1>9 DEF BlindInv

(* A new host session begins with no operation. *)
LEMMA MountStep ==
  ASSUME BlindInv, Mount
  PROVE  BlindInv'
BY ReaderFields DEF Mount, Core0Free, storeVars, BlindInv, Shapes, Numbers, Between, Honest540, Honest2k,
   Shown540, Ready540, Fresh2k, Reset2k

(* The deadline of the extended sequence touches no image. *)
LEMMA ElapseStep ==
  ASSUME BlindInv, Elapse
  PROVE  BlindInv'
BY ReaderFields DEF Elapse, storeVars, BlindInv, Shapes, Numbers, Between, Honest540, Honest2k, Shown540,
   Served540

(* Every step keeps the invariant, and a console write lands where it read. *)
LEMMA BlindNext ==
  ASSUME ~ClearDuringOp, BlindInv, [NfcNext]_allVars
  PROVE  /\ BlindInv'
         /\ (tag'.dirty /\ tag'.used # tag.used) => n540.base = Served540
         /\ (v3'.dirty /\ v3'.image # v3.image) => n2k.base = v3.image
<1>1. CASE StoreStep
  BY <1>1, SaveStep, FinishStep DEF StoreStep
<1>2. CASE Management
  BY <1>2, ManagementStep DEF Moves
<1>3. CASE Nfc540
  BY <1>3, Nfc540Step
<1>4. CASE Nfc2k
  BY <1>4, Nfc2kStep
<1>5. CASE Ns2Task
  BY <1>5, TaskStep DEF Ns2Task
<1>6. CASE Elapse \/ Mount
  BY <1>6, ElapseStep, MountStep DEF Elapse, Mount, storeVars
<1>7. CASE UNCHANGED allVars
  BY <1>7 DEF allVars, storeVars, nfcVars, BlindInv, Shapes, Numbers, Between, Honest540, Honest2k,
     Shown540, Served540
<1>. QED BY <1>1, <1>2, <1>3, <1>4, <1>5, <1>6, <1>7 DEF NfcNext

(* For every bound, a console write is accepted only on the image its       *)
(* operation read, as long as `amiibo clear` does not arrive inside a 2 KB  *)
(* operation (virtual_amiibo_store_apply_console_write and its 2 KB twin).  *)
THEOREM NoBlindWriteAlways ==
  ASSUME ~ClearDuringOp
  PROVE  NfcSpec => NoBlindWrite
<1>1. BlindInv /\ [NfcNext]_allVars => BlindInv'
  BY BlindNext
<1>2. BlindInv /\ [NfcNext]_allVars =>
        [/\ (tag'.dirty /\ tag'.used # tag.used) => n540.base = Served540
         /\ (v3'.dirty /\ v3'.image # v3.image) => n2k.base = v3.image]_allVars
  BY BlindNext
<1>. QED BY <1>1, <1>2, BlindInit, PTL DEF NfcSpec, NoBlindWrite

-----------------------------------------------------------------------------
(* The console's sessions: no eject before the save. *)

(* A tag not on flash is about to be saved: its command has not ended, or   *)
(* the save is asked for.                                                   *)
Owed ==
    /\ tag.loaded /\ ~tag.persisted => core0 \in {"persist", "commit2"} \/ ask.persist
    /\ v3.loaded /\ ~v3.persisted =>
         core0 \in {"persist", "commit2", "commit3", "clearFlags"} \/ ask.persist

(* A write the 540-byte reader calls durable is on flash, unless a command  *)
(* has changed the tag since and ns2_task is still to come.                 *)
Done540 == n540.committed /\ n540.durable /\ Shown540 /\ ~due => tag.persisted

(* So is one of the 2048-byte reader on media it has not seen change.       *)
Done(s) ==
    s.committed =>
        /\ s.seen \in Nat /\ s.seen <= v3.gen
        /\ s.durable /\ s.seen = v3.gen => v3.persisted

EjectInv == StoreInv /\ Owed /\ Done540 /\ Done(n2k)

(* What the journal says it holds, it boots.                                *)
LEMMA SavedBoots ==
  ASSUME StoreInv
  PROVE  /\ tag.loaded /\ tag.persisted => TagOf(Booted(bank)) = tag
         /\ v3.loaded /\ v3.persisted /\ core0 = "idle" => SlotOf(Booted(bank)) = v3
BY DEF StoreInv, Turns, SavedNow, Live, Pending

(* Every step of core 1 honours what is owed: a save that was overtaken is  *)
(* repeated.                                                                *)
LEMMA OwedSave ==
  ASSUME StoreInv, Owed, Save1
  PROVE  Owed'
<1>1. CASE SaveStart \/ ClearBank0 \/ ClearBank1 \/ Check \/ SnapV3 \/ SnapV2 \/ Wipe0 \/ Wipe1
           \/ Erase \/ \E ok \in BOOLEAN : Program(ok)
  BY <1>1 DEF SaveStart, ClearBank0, ClearBank1, Check, SnapV3, SnapV2, Wipe0, Wipe1, Erase, Program,
         ram, Owed
<1>2. CASE ClearDone
  BY <1>2 DEF ClearDone, ram, Owed, StoreInv, Shape
<1>3. CASE SnapNothing
  <2>1. UNCHANGED <<tag, v3, core0>> /\ ~tag.loaded /\ core1 = "snap2"
    BY <1>3 DEF SnapNothing, ram
  <2>2. v3.loaded => core0 = "clearFlags"
    BY <2>1 DEF StoreInv, Turns, Ordered, Saving
  <2>. QED BY <2>1, <2>2 DEF Owed
<1>4. CASE Settle
  <2>. DEFINE saved == Verified /\ StillCurrent
  <2>1. /\ core1 = "settle" /\ Writing /\ core0' = core0
        /\ tag' = IF saved /\ buf.fmt = "v2" THEN [tag EXCEPT !.persisted = TRUE] ELSE tag
        /\ v3' = IF saved /\ buf.fmt = "v3" THEN [v3 EXCEPT !.persisted = TRUE] ELSE v3
        /\ ask' = [ask EXCEPT !.persist = Retried(saved)]
    BY <1>4 DEF Settle, Writing
  <2>2. buf.fmt \in {"v2", "v3"}
    BY <2>1 DEF StoreInv, Formats, Saved
  <2>3. DOMAIN tag = DOMAIN NoTag /\ DOMAIN v3 = {"loaded", "image", "gen", "dirty", "persisted"}
        /\ "persist" \in DOMAIN ask
    BY DEF StoreInv, Shape, IsTag, IsSlot
  <2>4. tag'.loaded = tag.loaded /\ v3'.loaded = v3.loaded /\ ask'.persist = Retried(saved)
    BY <2>1, <2>3, Fields
  <2>5. ~(tag.loaded /\ v3.loaded)
    BY <2>1, LoadedOne DEF StoreInv
  <2>6. CASE Pending
    <3>1. ~tag.loaded /\ (v3.loaded => core0 = "clearFlags")
      BY <2>1, <2>6 DEF StoreInv, Turns, Saving
    <3>. QED BY <2>1, <2>4, <3>1 DEF Owed
  <2>7. CASE ~Pending
    <3>1. StillLoaded
      BY <2>1, <2>2, <2>7 DEF StoreInv, Ordered, StillLoaded
    <3>2. CASE saved
      <4>1. buf.fmt = "v2" => tag'.persisted /\ ~v3'.loaded
        BY <2>1, <2>3, <2>4, <2>5, <3>1, <3>2, Fields DEF StillLoaded
      <4>2. buf.fmt = "v3" => v3'.persisted /\ ~tag'.loaded
        BY <2>1, <2>3, <2>4, <2>5, <3>1, <3>2 DEF StillLoaded
      <4>. QED BY <2>2, <4>1, <4>2 DEF Owed
    <3>3. CASE ~saved
      <4>1. ask'.persist
        BY <2>4, <3>1, <3>3 DEF Retried
      <4>. QED BY <4>1 DEF Owed
    <3>. QED BY <3>2, <3>3
  <2>. QED BY <2>6, <2>7
<1>. QED BY <1>1, <1>2, <1>3, <1>4 DEF Save1

(* Every change of a tag ends by asking for its save; only a clear takes    *)
(* the request back, with the tag.                                          *)
LEMMA OwedCore0 ==
  ASSUME StoreInv, Owed, Finish0 \/ Command \/ RequestClear \/ AnyWrite
  PROVE  Owed'
<1>0. /\ DOMAIN tag = DOMAIN NoTag /\ DOMAIN v3 = {"loaded", "image", "gen", "dirty", "persisted"}
      /\ DOMAIN ask = {"persist", "clear"}
      /\ core0 \in {"clearFlags", "clearAsk"} => ~tag.loaded
      /\ core0 = "clearAsk" => ~v3.loaded
  BY DEF StoreInv, Shape, IsTag, IsSlot, Turns
<1>. USE <1>0, Fields DEF Owed, flash, Core0Free
<1>1. CASE BeginV2 \/ BeginV3 \/ Cancel \/ RequestPersist \/ \E p \in BOOLEAN : Present(p)
  BY <1>1 DEF BeginV2, BeginV3, Cancel, RequestPersist, Present
<1>2. CASE CommitV2 \/ FinishV2
  BY <1>2 DEF CommitV2, FinishV2
<1>3. CASE CommitV3 \/ FinishV3
  BY <1>3 DEF CommitV3, FinishV3
<1>4. CASE AskPersist
  BY <1>4 DEF AskPersist
<1>5. CASE CommitUsed \/ AnyWrite \/ \E u \in BOOLEAN : SelectUsed(u)
  BY <1>5 DEF CommitUsed, AnyWrite, WriteV2, WriteV3, SelectUsed
<1>6. CASE Downloaded
  BY <1>6 DEF Downloaded
<1>7. CASE RequestClear
  BY <1>7 DEF RequestClear
<1>8. CASE ClearFlags \/ ClearAsk
  BY <1>8 DEF ClearFlags, ClearAsk
<1>. QED BY <1>1, <1>2, <1>3, <1>4, <1>5, <1>6, <1>7, <1>8 DEF Finish0, Command

-----------------------------------------------------------------------------
(* The sessions change the store only by its own operations.                *)
LEMMA SessionStores ==
  ASSUME NfcNext
  PROVE  \/ Save1 \/ Finish0 \/ Command \/ RequestClear \/ AnyWrite
         \/ UNCHANGED flash /\ UNCHANGED <<tag, v3, ask, promised, core0, core1>>
<1>1. CASE StoreStep \/ Management
  BY <1>1 DEF StoreStep, Management
<1>2. CASE Nfc540
  BY <1>2 DEF Nfc540, Commit540, AnyWrite, storeVars, flash
<1>3. CASE Nfc2k
  <2>1. Core0Free /\ UNCHANGED <<tag, ask, flash, promised>>
    BY <1>3 DEF Nfc2k
  <2>2. CASE UNCHANGED <<v3, core0, used>>
    BY <2>1, <2>2 DEF flash
  <2>3. ASSUME NEW modes, NEW whole \in BOOLEAN, Commit2k(Entry, modes, whole)
        PROVE  AnyWrite \/ UNCHANGED <<v3, core0, used>>
    BY <2>1, <2>3 DEF Commit2k, AnyWrite, WriteV3
  <2>. QED BY <1>3, <2>1, <2>2, <2>3 DEF Nfc2k, flash
<1>4. CASE Ns2Task \/ Elapse \/ Mount
  BY <1>4 DEF Ns2Task, Elapse, Mount, storeVars, flash
<1>. QED BY <1>1, <1>2, <1>3, <1>4 DEF NfcNext

(* The sessions keep the store's invariant, and what is owed. *)
LEMMA OwedNext ==
  ASSUME ~CommitInsideSave, ~ReplaceUnsaved, StoreInv, Owed, NfcNext
  PROVE  StoreInv' /\ Owed'
<1>1. CASE Save1
  BY <1>1, OwedSave, CoresKeep
<1>2. CASE Finish0 \/ Command \/ RequestClear \/ AnyWrite
  BY <1>2, OwedCore0, CoresKeep
<1>3. CASE UNCHANGED flash /\ UNCHANGED <<tag, v3, ask, promised, core0, core1>>
  BY <1>3, StoreStays DEF Owed
<1>. QED BY <1>1, <1>2, <1>3, SessionStores

(* The tick takes a save for done when none is asked for any more. *)
LEMMA TickDone ==
  ASSUME NEW s, DOMAIN s = DOMAIN Fresh2k, Done(s), Owed, core0 = "idle", v3.loaded
  PROVE  /\ Done(Ticked(s))
         /\ Ticked(s).out => s.out \/ v3.persisted
BY ReaderFields DEF Ticked, Settles, Eject2k, Done, Owed

(* So a command of the 2048-byte reader finds it. *)
LEMMA EntryDone ==
  ASSUME BlindInv, Done(n2k), Owed, core0 = "idle", v3.loaded
  PROVE  /\ Done(Entry)
         /\ Entry.out => n2k.out \/ v3.persisted
<1>1. v3.gen < Unseen /\ v3.gen \in Nat /\ Unseen \in Nat
  BY BoundsAssumption DEF BlindInv, Numbers, Unseen
<1>2. DOMAIN Observed = DOMAIN Fresh2k /\ Done(Observed) /\ (Observed.out => n2k.out)
  <2>1. CASE n2k.seen = Unseen
    <3>1. ~n2k.committed
      BY <1>1, <2>1 DEF Done
    <3>. QED BY <2>1, <3>1, ReaderFields DEF Observed, Done, BlindInv, Shapes
  <2>2. CASE n2k.seen # Unseen /\ FreshMedia
    BY <2>2, ReaderFields DEF Observed, Done, Reset2k
  <2>3. CASE n2k.seen # Unseen /\ ~FreshMedia
    BY <2>3 DEF Observed, FreshMedia, BlindInv, Shapes
  <2>. QED BY <2>1, <2>2, <2>3
<1>. HIDE DEF Observed
<1>. QED BY <1>2, TickDone DEF Entry

(* Only a stop ejects, and only after the save. *)
LEMMA Command2kDone ==
  ASSUME NEW s, Good(s), Done(s), Commands2k(s)
  PROVE  /\ Done(n2k')
         /\ n2k'.out => s.out \/ v3.persisted
<1>1. CASE Stop2k(s)
  BY <1>1, ReaderFields DEF Stop2k, Ended, Eject2k, Good, Done
<1>2. ASSUME NEW cooled \in BOOLEAN, Scan2k(s, cooled)
      PROVE  Done(n2k') /\ (n2k'.out => s.out)
  BY <1>2, ReaderFields DEF Scan2k, Ended, Good, Done
<1>3. CASE Read2k(s) \/ SectorRead2k(s)
  BY <1>3, ReaderFields DEF Read2k, SectorRead2k, Ended, Error2k, Good, Done
<1>4. CASE StageDevice2k(s) \/ RunDevice2k(s) \/ Malformed2k(s)
  BY <1>4, ReaderFields DEF StageDevice2k, RunDevice2k, Malformed2k, Error2k, Good, Done
<1>5. ASSUME NEW k \in {"write", "clear", "update"}, Stage2k(s, k)
      PROVE  Done(n2k') /\ (n2k'.out => s.out)
  BY <1>5, ReaderFields DEF Stage2k, Error2k, Good, Done
<1>. QED BY <1>1, <1>2, <1>3, <1>4, <1>5 DEF Commands2k

Ejects ==
    /\ n540'.out => n540.out \/ (tag.loaded /\ tag.persisted)
    /\ n2k'.out => n2k.out \/ (v3.loaded /\ v3.persisted /\ core0 = "idle")

(* Every step of the 2048-byte reader ejects a saved tag only. *)
LEMMA Nfc2kEjects ==
  ASSUME BlindInv, EjectInv, Nfc2k
  PROVE  Ejects /\ Done540' /\ Done(n2k)'
<1>1. /\ core0 = "idle" /\ ~due /\ v3.loaded /\ ~tag.loaded
      /\ UNCHANGED <<tag, n540, due>>
  BY DEF Nfc2k, Core0Free, BlindInv, Between
<1>2. Done540'
  BY <1>1 DEF Done540, Shown540
<1>3. Good(Entry) /\ Done(Entry) /\ (Entry.out => n2k.out \/ v3.persisted)
  BY <1>1, EntryGood, EntryDone DEF EjectInv
<1>4. v3.gen \in Nat
  BY DEF BlindInv, Numbers
<1>. HIDE DEF Entry
<1>5. CASE Commands2k(Entry) /\ UNCHANGED v3
  BY <1>1, <1>2, <1>3, <1>5, Command2kDone DEF Ejects, Done
<1>6. ASSUME NEW modes, NEW whole \in BOOLEAN, Commit2k(Entry, modes, whole)
      PROVE  Done(n2k)' /\ (n2k'.out => Entry.out)
  <2>1. CASE n2k' = Error2k(Entry)
    BY <1>3, <2>1, ReaderFields DEF Error2k, Good, Done
  <2>2. CASE WriteV3(Entry.gen, EntryShown) /\ n2k' = Written2k(Entry)
    <3>1. n2k'.durable = FALSE /\ n2k'.seen = v3.gen + 1 /\ n2k'.out = Entry.out
      BY <1>3, <2>2, ReaderFields DEF Written2k, Ended, Good, WriteV3
    <3>2. v3'.gen = v3.gen + 1
      BY <2>2 DEF WriteV3, BlindInv, Shapes
    <3>. QED BY <1>4, <3>1, <3>2 DEF Done
  <2>3. CASE n2k' = Extended2k(Entry)
    BY <1>3, <2>3, ReaderFields DEF Extended2k, Ended, Good, Done
  <2>. QED BY <1>6, <2>1, <2>2, <2>3 DEF Commit2k
<1>. QED BY <1>1, <1>2, <1>3, <1>5, <1>6 DEF Nfc2k, Commands2k, Ejects

(* So does every step of the 540-byte one. *)
LEMMA Nfc540Ejects ==
  ASSUME BlindInv, EjectInv, Nfc540
  PROVE  Ejects /\ Done540' /\ Done(n2k)'
<1>1. Core0Free /\ ~due /\ Shown540 /\ UNCHANGED <<n2k, edge, due>>
  BY DEF Nfc540
<1>2. UNCHANGED <<v3, shown>>
  BY DEF Nfc540, Commit540, WriteV2, storeVars
<1>3. Done(n2k)'
  BY <1>1, <1>2 DEF EjectInv, Done
<1>4. CASE Commands540 /\ UNCHANGED storeVars
  <2>1. UNCHANGED <<tag, shown>> /\ tag.loaded
    BY <1>1, <1>4 DEF storeVars, Shown540
  <2>2. n540.committed /\ n540.durable => tag.persisted
    BY <1>1 DEF EjectInv, Done540
  <2>. DEFINE kept == /\ n540'.committed /\ n540'.durable => n540.committed /\ n540.durable
                      /\ n540'.out => n540.out \/ (n540.committed /\ n540.durable)
  <2>3. kept
    <3>1. CASE Stop540
      BY <3>1, ReaderFields DEF Stop540, Eject540, Present540, BlindInv, Shapes
    <3>2. CASE Stage540 \/ Malformed540
      BY <3>2, ReaderFields DEF Stage540, Malformed540, Error540, Present540, BlindInv, Shapes
    <3>3. ASSUME NEW m \in {"read", "write"}, Begin540(m)
          PROVE  kept
      BY <3>3, ReaderFields DEF Begin540, Error540, Present540, BlindInv, Shapes
    <3>4. ASSUME NEW cooled \in BOOLEAN, Scan540(cooled)
          PROVE  kept
      BY <3>4, ReaderFields DEF Scan540, BlindInv, Shapes
    <3>. QED BY <1>4, <3>1, <3>2, <3>3, <3>4 DEF Commands540
  <2>. HIDE DEF kept
  <2>4. Ejects /\ Done540'
    BY <1>1, <2>1, <2>2, <2>3 DEF Ejects, Done540, kept
  <2>. QED BY <1>3, <2>4
<1>5. ASSUME NEW whole \in BOOLEAN, Commit540(whole)
      PROVE  Ejects /\ Done540'
  <2>1. CASE n540' = Error540(n540) /\ UNCHANGED storeVars
    BY <1>1, <2>1, ReaderFields DEF Error540, storeVars, BlindInv, Shapes, EjectInv, Done540,
       Ejects, Shown540
  <2>2. CASE n540' = Written540
    BY <1>1, <2>2, ReaderFields DEF Written540, BlindInv, Shapes, Done540, Ejects
  <2>3. CASE n540' = [Error540(Written540) EXCEPT !.committed = FALSE]
    BY <1>1, <2>3, ReaderFields DEF Error540, Written540, BlindInv, Shapes, Done540, Ejects
  <2>. QED BY <1>5, <2>1, <2>2, <2>3 DEF Commit540
<1>. QED BY <1>3, <1>4, <1>5 DEF Nfc540, Commands540

(* And ns2_task lets a waiting eject go when the save is over. *)
LEMMA TaskEjects ==
  ASSUME BlindInv, EjectInv, Ns2Task
  PROVE  Ejects /\ Done540' /\ Done(n2k)'
<1>1. core0 = "idle" /\ UNCHANGED <<tag, v3, ask>>
  BY DEF Ns2Task, Core0Free
<1>2. n2k' = IF v3.loaded THEN Ticked(n2k) ELSE n2k
  BY DEF Ns2Task
<1>3. Done(n2k') /\ (n2k'.out => n2k.out \/ (v3.loaded /\ v3.persisted))
  BY <1>1, <1>2, TickDone DEF EjectInv, BlindInv, Shapes
<1>4. Done(n2k)'
  BY <1>1, <1>3 DEF Done
<1>5. tag.loaded => ~v3.loaded
  BY <1>1 DEF BlindInv, Between
<1>6. Shown540' = Shown540
  BY <1>1, <1>5 DEF Ns2Task, Shown540
<1>7. DOMAIN Synced(TRUE) = DOMAIN Ready540 /\ (Synced(TRUE).out => n540.out)
      /\ DOMAIN Synced(FALSE) = DOMAIN Ready540 /\ (Synced(FALSE).out => n540.out)
  BY ReaderFields DEF Synced, Ready540, BlindInv, Shapes
<1>8. CASE Shown540
  <2>. DEFINE z == Synced(TRUE)
  <2>1. n540' = Informed(z) /\ DOMAIN z = DOMAIN Ready540 /\ (z.out => n540.out)
    BY <1>7, <1>8 DEF Ns2Task
  <2>2. ask.persist \/ tag.persisted
    BY <1>1, <1>8 DEF EjectInv, Owed, Shown540
  <2>. HIDE DEF z
  <2>3. /\ n540'.out => n540.out \/ (tag.loaded /\ tag.persisted)
        /\ n540'.committed /\ n540'.durable => tag.persisted
    BY <1>8, <2>1, <2>2, ReaderFields DEF Informed, Eject540, Shown540
  <2>. QED BY <1>1, <1>3, <1>4, <2>3 DEF Ejects, Done540
<1>9. CASE ~Shown540
  BY <1>1, <1>3, <1>4, <1>6, <1>7, <1>9 DEF Ns2Task, Ejects, Done540
<1>. QED BY <1>8, <1>9

(* A management command leaves ns2_task to come, and a finished write of    *)
(* the 2048-byte reader either on a later generation or as it was.          *)
LEMMA ManagementEjects ==
  ASSUME ~ClearBeforeStop, BlindInv, EjectInv, Management
  PROVE  Ejects /\ Done540' /\ Done(n2k)'
<1>1. due' = TRUE /\ UNCHANGED <<n540, n2k>>
  BY DEF Management
<1>2. Ejects /\ Done540'
  BY <1>1 DEF Ejects, Done540
<1>3. v3.gen \in Nat /\ DOMAIN v3 = {"loaded", "image", "gen", "dirty", "persisted"}
  BY DEF BlindInv, Shapes, Numbers
<1>4. CASE v3' = v3 \/ v3'.gen = v3.gen + 1
  <2>1. Done(n2k)'
    BY <1>1, <1>3, <1>4 DEF EjectInv, Done
  <2>. QED BY <1>2, <2>1
<1>5. CASE Command
  <2>1. CASE BeginV2 \/ BeginV3 \/ CommitV2 \/ CommitUsed \/ Cancel \/ RequestPersist
             \/ \E b \in BOOLEAN : SelectUsed(b) \/ Present(b)
    BY <1>2, <1>4, <2>1 DEF BeginV2, BeginV3, CommitV2, CommitUsed, Cancel, RequestPersist,
       SelectUsed, Present
  <2>2. CASE CommitV3 \/ Downloaded
    BY <1>2, <1>3, <1>4, <2>2 DEF CommitV3, Downloaded
  <2>. QED BY <1>5, <2>1, <2>2 DEF Command
<1>6. CASE RequestClear
  BY <1>1, <1>2, <1>6, <1>5 DEF Management, Done
<1>. QED BY <1>5, <1>6 DEF Management

(* The journal writer and the ends of the commands eject nothing, and mark  *)
(* as saved at most.                                                        *)
LEMMA StoreEjects ==
  ASSUME BlindInv, EjectInv, StoreStep
  PROVE  Ejects /\ Done540' /\ Done(n2k)'
<1>1. UNCHANGED <<n540, n2k, edge, due>>
  BY DEF StoreStep, nfcVars
<1>2. CASE Save1
  <2>1. /\ UNCHANGED shown
        /\ tag' = tag \/ tag' = [tag EXCEPT !.persisted = TRUE]
        /\ v3' = v3 \/ v3' = [v3 EXCEPT !.persisted = TRUE]
    BY <1>2 DEF Save1, SaveStart, ClearBank0, ClearBank1, ClearDone, Check, SnapV3, SnapV2,
         SnapNothing, Wipe0, Wipe1, Erase, Program, Settle, ram
  <2>2. /\ tag'.loaded = tag.loaded /\ (tag.persisted => tag'.persisted)
        /\ v3'.gen = v3.gen /\ (v3.persisted => v3'.persisted)
    BY <2>1, ReaderFields DEF BlindInv, Shapes
  <2>. QED BY <1>1, <2>1, <2>2 DEF Ejects, EjectInv, Done540, Done, Shown540
<1>3. CASE Finish0
  <2>1. /\ UNCHANGED tag /\ (Shown540' /\ ~due => Shown540)
        /\ v3'.gen = v3.gen /\ v3'.persisted = v3.persisted
    BY <1>1, <1>3 DEF Finish0, FinishV2, FinishV3, AskPersist, ClearFlags, ClearAsk, Shown540,
         BlindInv, Between, Shapes
  <2>. QED BY <1>1, <2>1 DEF Ejects, EjectInv, Done540, Done
<1>. QED BY <1>2, <1>3 DEF StoreStep

(* Every step of the adapter. *)
LEMMA EjectNext ==
  ASSUME ~CommitInsideSave, ~ReplaceUnsaved, ~ClearDuringOp, ~ClearBeforeStop,
         BlindInv, EjectInv, [NfcNext]_allVars
  PROVE  /\ BlindInv' /\ EjectInv'
         /\ ~n540.out /\ n540'.out => TagOf(Booted(bank)) = tag
         /\ ~n2k.out /\ n2k'.out => SlotOf(Booted(bank)) = v3
<1>1. BlindInv'
  BY BlindNext
<1>2. CASE NfcNext
  <2>1. ASSUME Elapse
        PROVE  Ejects /\ Done540' /\ Done(n2k)'
    <3>1. /\ UNCHANGED <<n540, tag, v3, shown, due>>
          /\ n2k'.out = n2k.out /\ n2k'.committed = n2k.committed
          /\ n2k'.durable = n2k.durable /\ n2k'.seen = n2k.seen
      BY <2>1, ReaderFields DEF Elapse, storeVars, BlindInv, Shapes
    <3>. QED BY <3>1 DEF Ejects, EjectInv, Done540, Done, Shown540
  <2>2. ASSUME Mount
        PROVE  Ejects /\ Done540' /\ Done(n2k)'
    BY <2>2, ReaderFields DEF Mount, storeVars, Ejects, Done540, Done, Ready540, Fresh2k, Reset2k
  <2>3. Ejects /\ Done540' /\ Done(n2k)'
    BY <1>2, <2>1, <2>2, StoreEjects, ManagementEjects, Nfc540Ejects, Nfc2kEjects, TaskEjects
       DEF NfcNext
  <2>4. StoreInv' /\ Owed'
    BY <1>2, OwedNext DEF EjectInv
  <2>. QED BY <1>1, <2>3, <2>4, SavedBoots DEF EjectInv, Ejects
<1>3. CASE UNCHANGED allVars
  <2>1. UNCHANGED <<tag, v3, ask, promised, core0, core1, n540, n2k, due, shown>> /\ UNCHANGED flash
    BY <1>3 DEF allVars, storeVars, nfcVars, flash
  <2>2. StoreInv'
    BY <2>1, StoreStays DEF EjectInv
  <2>. QED BY <1>1, <2>1, <2>2 DEF EjectInv, Owed, Done540, Done, Shown540
<1>. QED BY <1>2, <1>3

(* For every bound, the console is told that the written tag was removed    *)
(* only when a power cycle would load the tag as it now is                  *)
(* (ns2_virtual_nfc_runtime.c, ns2_amiibo_v3_runtime.c), provided uploads   *)
(* end outside a journal write, a 540-byte image replaces a saved 2 KB one  *)
(* only, and `amiibo clear` comes neither inside a 2 KB operation nor       *)
(* between a 2 KB write and its stop: each is refuted by a counterexample   *)
(* otherwise.                                                               *)
THEOREM DurableEjectAlways ==
  ASSUME ~CommitInsideSave, ~ReplaceUnsaved, ~ClearDuringOp, ~ClearBeforeStop
  PROVE  NfcSpec => DurableEject
<1>1. NfcInit => BlindInv /\ EjectInv
  <2>. SUFFICES ASSUME NfcInit PROVE BlindInv /\ EjectInv
    OBVIOUS
  <2>1. BlindInv
    BY BlindInit
  <2>2. StoreInv
    BY FirstBoot DEF NfcInit
  <2>3. Done540 /\ Done(n2k)
    BY DEF NfcInit, Ready540, Fresh2k, Reset2k, Done540, Done
  <2>4. Owed
    BY DEF NfcInit, StoreInit, TagOf, SlotOf, NoTag, Owed
  <2>. QED BY <2>1, <2>2, <2>3, <2>4 DEF EjectInv
<1>2. BlindInv /\ EjectInv /\ [NfcNext]_allVars => (BlindInv /\ EjectInv)'
  BY EjectNext
<1>3. BlindInv /\ EjectInv /\ [NfcNext]_allVars =>
        [/\ (~n540.out /\ n540'.out) => TagOf(Booted(bank)) = tag
         /\ (~n2k.out /\ n2k'.out) => SlotOf(Booted(bank)) = v3]_allVars
  BY EjectNext
<1>. QED BY <1>1, <1>2, <1>3, PTL DEF NfcSpec, DurableEject
=============================================================================
