-------------------------- MODULE ConfigSaveProofs --------------------------
(***************************************************************************)
(* Two promises of the settings, for every number of companions, slots,    *)
(* edits, power losses and installs and every width of the save counters.  *)
(* A newly installed firmware starts from erased settings, exactly once;   *)
(* and a save command that has been answered is in flash.                  *)
(***************************************************************************)
EXTENDS ConfigSave, TLAPS

(* Where the cores are while the marker stands, and what core 1 carries.    *)
Booting == core0 \in {"boot", "consume", "load"}
Holding == core1 \in {"copied", "erased", "head", "written", "undelay"}

InstallInv ==
    /\ InstallResetOnce
    /\ marker \in BOOLEAN /\ spent.installs \in Nat /\ flash.rec.install \in Nat
    /\ flash.kind # "erased" => flash.rec.install <= spent.installs
    /\ DOMAIN spent = {"edits", "crashes", "installs"}
    /\ DOMAIN job = {"request", "kbm", "rec"}
    (* core 1 starts after the marker is dealt with *)
    /\ Booting => core1 = "off"
    /\ core0 \notin {"boot", "consume"} => ~marker
    (* the marker is consumed only once the sector is erased *)
    /\ core0 = "consume" => flash.kind = "erased"
    (* what core 1 writes was composed by this firmware *)
    /\ Holding => job.rec.install = spent.installs

(* The adapter comes out of the factory with the marker and no record of    *)
(* this firmware (firmware_install_marker, config.c).                       *)
LEMMA InstallInit == Init => InstallInv
<1>. SUFFICES ASSUME Init
              PROVE  InstallInv
  OBVIOUS
<1>1. flash.kind = "whole" /\ flash.rec.install = 0 /\ marker = TRUE
  BY DEF Init, Nothing
<1>2. spent.installs = 1 /\ DOMAIN spent = {"edits", "crashes", "installs"}
      /\ DOMAIN job = {"request", "kbm", "rec"}
  BY DEF Init, NoJob
<1>3. core0 = "boot" /\ core1 = "off"
  BY DEF Init
<1>4. flash.rec.install < spent.installs
  BY <1>1, <1>2
<1>5. InstallResetOnce
  BY <1>1, <1>4 DEF InstallResetOnce
<1>. QED BY <1>1, <1>2, <1>3, <1>5 DEF InstallInv, Booting, Holding

(* The boot sequence of config_load keeps the marker and the erasure in     *)
(* step.                                                                    *)
LEMMA BootStep == InstallInv /\ Boot => InstallInv'
<1>1. InstallInv /\ BootErase => InstallInv'
  BY DEF BootErase, InstallInv, InstallResetOnce, Booting, Holding, Erased, Nothing
<1>2. InstallInv /\ BootConsume => InstallInv'
  BY DEF BootConsume, InstallInv, InstallResetOnce, Booting, Holding
<1>3. InstallInv /\ BootKeep => InstallInv'
  BY DEF BootKeep, InstallInv, InstallResetOnce, Booting, Holding
<1>4. BootLoad => core0 = "load" /\ core0' = "run" /\ core1' = "idle"
                  /\ UNCHANGED <<flash, marker, job, spent>>
  BY DEF BootLoad
<1>5. InstallInv /\ BootLoad => InstallInv'
  BY <1>4 DEF InstallInv, InstallResetOnce, Booting, Holding
<1>. QED BY <1>1, <1>2, <1>3, <1>5 DEF Boot

(* A power loss forgets what the cores were doing and keeps flash; a new    *)
(* firmware brings its own marker and makes every record an older one's.    *)
LEMMA PowerStep == InstallInv /\ (Crash \/ Install) => InstallInv'
<1>1. Crash \/ Install => core0' = "boot" /\ core1' = "off" /\ job' = NoJob /\ UNCHANGED flash
  BY DEF Crash, Install, PowerOff
<1>2. DOMAIN NoJob = {"request", "kbm", "rec"}
  BY DEF NoJob
<1>3. InstallInv /\ Crash => spent'.installs = spent.installs /\ DOMAIN spent' = DOMAIN spent
                            /\ UNCHANGED marker
  BY DEF Crash, InstallInv
<1>4. InstallInv /\ Install => spent'.installs = spent.installs + 1
                              /\ DOMAIN spent' = DOMAIN spent /\ marker' = TRUE
  BY DEF Install, InstallInv
<1>5. InstallInv /\ Crash => InstallInv'
  BY <1>1, <1>2, <1>3 DEF InstallInv, InstallResetOnce, Booting, Holding
<1>6. ASSUME InstallInv, Install
      PROVE  InstallInv'
  <2>1. flash'.kind # "erased" => flash'.rec.install < spent'.installs
    BY <1>1, <1>4, <1>6 DEF InstallInv
  <2>2. InstallResetOnce'
    BY <2>1, <1>4, <1>6 DEF InstallResetOnce
  <2>3. /\ spent'.installs \in Nat /\ flash'.rec.install \in Nat
        /\ flash'.kind # "erased" => flash'.rec.install <= spent'.installs
    BY <1>1, <1>4, <1>6, <2>1 DEF InstallInv
  <2>4. /\ DOMAIN spent' = {"edits", "crashes", "installs"}
        /\ DOMAIN job' = {"request", "kbm", "rec"}
    BY <1>1, <1>2, <1>4, <1>6 DEF InstallInv
  <2>5. marker' = TRUE /\ core0' = "boot" /\ core1' = "off"
    BY <1>1, <1>4, <1>6
  <2>. QED BY <2>2, <2>3, <2>4, <2>5 DEF InstallInv, Booting, Holding
<1>. QED BY <1>5, <1>6

(* Commands, answers and callbacks change only what is in memory.           *)
LEMMA MemoryStep ==
  ASSUME InstallInv,
         SetUser \/ SetKbm \/ Save \/ StoreWake \/ Finish0 \/ Elapse
         \/ \E c \in Companions : NoteCompanion(c) \/ ForgetCompanion(c)
  PROVE  InstallInv'
<1>1. UNCHANGED <<flash, marker, core1, job, spent.installs>> /\ DOMAIN spent' = DOMAIN spent
  BY DEF SetUser, SetKbm, Save, StoreWake, Finish0, AskSave, DelaySave, AskWake, SaveAnswer,
         Elapse, NoteCompanion, ForgetCompanion, Edit, InstallInv
<1>2. \/ core0 \notin {"boot", "consume", "load"} /\ core0' \notin {"boot", "consume", "load"}
      \/ core0' = core0
  BY DEF SetUser, SetKbm, Save, StoreWake, Finish0, AskSave, DelaySave, AskWake, SaveAnswer,
         Elapse, NoteCompanion, ForgetCompanion, Edit, Free0
<1>. QED BY <1>1, <1>2 DEF InstallInv, InstallResetOnce, Booting, Holding

(* The write of core 1: the record it composes is this firmware's.          *)
LEMMA WriteStep == InstallInv /\ Write1 => InstallInv'
BY DEF Write1, ServiceSave, TakeRequest, CopyKbm, CopyLive, EraseSector, ProgramHead, ProgramRest,
       CompleteSave, ClearDelay, InstallInv, InstallResetOnce, Booting, Holding, Erased, Nothing,
       Composed, NoJob

(* The inductive invariant holds always.                                    *)
LEMMA InstallInvariant == Spec => []InstallInv
<1>1. InstallInv /\ UNCHANGED vars => InstallInv'
  BY DEF vars, InstallInv, InstallResetOnce, Booting, Holding
<1>2. InstallInv /\ [Next]_vars => InstallInv'
  BY <1>1, BootStep, PowerStep, MemoryStep, WriteStep DEF Next
<1>. QED BY <1>2, InstallInit, PTL DEF Spec

(* No settings of an older firmware survive the reset of an installed one,  *)
(* and the reset happens only once, for any number of power losses between  *)
(* its two flash operations (config_load).                                  *)
THEOREM ResetOnceAlways == Spec => []InstallResetOnce
<1>1. InstallInv => InstallResetOnce
  BY DEF InstallInv
<1>. QED BY <1>1, InstallInvariant, PTL

-----------------------------------------------------------------------------
(* The numbers of the save requests, counted backwards from the newest one. *)
Back(a, b) == (a + Wrap - b) % Wrap
Lag(id) == Back(saves.requested, id)
Numbers == 0 .. (Wrap - 1)
Counted == core1 \in {"counted", "mapped", "copied", "erased", "head", "written"}

(* Nothing is of a later edition than the last one made.                    *)
Past(r) == r.user \in 0 .. spent.edits /\ r.wake \in 0 .. spent.edits
           /\ r.kbm \in 0 .. spent.edits
Holds(r, s) == r.user >= s.user /\ r.wake >= s.wake /\ r.kbm >= s.kbm

SaveShapes ==
    /\ DOMAIN live = {"user", "wake", "comps"}
    /\ DOMAIN saves = {"requested", "completed"}
    /\ DOMAIN job = {"request", "kbm", "rec"}
    /\ DOMAIN spent = {"edits", "crashes", "installs"}
    /\ spent.edits \in Nat /\ flash.kind \in {"erased", "head", "whole"}
    /\ Past(Composed) /\ Past(flash.rec)
    /\ core1 = "mapped" => job.kbm \in 0 .. spent.edits
    /\ Holding => Past(job.rec)
    /\ wanted # NoWant => Past(wanted.rec)

(* Half the numbers at most are outstanding, and the one being written is   *)
(* among them.                                                              *)
Numbered ==
    /\ saves.requested \in Numbers /\ saves.completed \in Numbers
    /\ Outstanding <= Wrap \div 2
    /\ core0 \in {"ask", "delay", "askWake"} => Outstanding < Wrap \div 2
    /\ Booting => saves = [requested |-> 0, completed |-> 0] /\ wanted = NoWant /\ core1 = "off"
    /\ Counted => job.request \in Numbers /\ Lag(job.request) <= Outstanding
    /\ wanted # NoWant => wanted.id \in Numbers

(* What core 1 has copied so far holds r.                                   *)
Copied(r) ==
    /\ core1 = "mapped" => job.kbm >= r.kbm
    /\ core1 \in {"copied", "erased", "head", "written"} => Holds(job.rec, r)

(* The contents a save command asked for are not newer than the live ones;  *)
(* either they still wait, and a write that took its number after the       *)
(* command carries them, or they are in flash or about to be again.         *)
Carried ==
    wanted # NoWant =>
        /\ Holds(Composed, wanted.rec)
        /\ \/ /\ Lag(wanted.id) < Outstanding
              /\ Counted /\ Lag(job.request) <= Lag(wanted.id) => Copied(wanted.rec)
           \/ /\ ~Parked => Covers(flash, wanted.rec)
              /\ Copied(wanted.rec)
Written == core1 = "written" => flash = [kind |-> "whole", rec |-> job.rec]

SaveInv == SaveShapes /\ Numbered /\ Carried /\ Written

(* Subtraction modulo Wrap.                                                 *)
LEMMA Distance ==
  ASSUME NEW a \in Numbers, NEW b \in Numbers
  PROVE  Back(a, b) \in Numbers /\ Back(a, b) = IF a >= b THEN a - b ELSE a + Wrap - b
<1>1. Wrap \in Nat /\ Wrap > 1
  BY SettingsAssumption
<1>2. CASE a >= b
  <2>1. a - b \in Nat /\ a - b < Wrap /\ a + Wrap - b = (a - b) + Wrap
    BY <1>1, <1>2 DEF Numbers
  <2>2. ((a - b) + Wrap) % Wrap = a - b
    BY <1>1, <2>1
  <2>. QED BY <1>1, <1>2, <2>1, <2>2 DEF Numbers, Back
<1>3. CASE ~(a >= b)
  <2>1. a + Wrap - b \in Nat /\ a + Wrap - b < Wrap
    BY <1>1, <1>3 DEF Numbers
  <2>2. (a + Wrap - b) % Wrap = a + Wrap - b
    BY <1>1, <2>1
  <2>. QED BY <1>1, <1>3, <2>1, <2>2 DEF Numbers, Back
<1>. QED BY <1>2, <1>3

(* The next number.                                                         *)
LEMMA NextNumber ==
  ASSUME NEW a \in Numbers
  PROVE  Plus1(a) \in Numbers /\ Plus1(a) = IF a = Wrap - 1 THEN 0 ELSE a + 1
<1>1. Wrap \in Nat /\ Wrap > 1
  BY SettingsAssumption
<1>2. CASE a = Wrap - 1
  <2>1. (0 + Wrap) % Wrap = 0
    BY <1>1
  <2>2. a + 1 = 0 + Wrap
    BY <1>1, <1>2
  <2>. QED BY <1>1, <1>2, <2>1, <2>2 DEF Plus1, Numbers
<1>3. CASE a # Wrap - 1
  <2>1. a + 1 \in Nat /\ a + 1 < Wrap
    BY <1>1, <1>3 DEF Numbers
  <2>2. (a + 1) % Wrap = a + 1
    BY <1>1, <2>1
  <2>. QED BY <1>1, <1>3, <2>1, <2>2 DEF Plus1, Numbers
<1>. QED BY <1>2, <1>3

(* Half the modulus.                                                        *)
LEMMA HalfWrap ==
  /\ Wrap \in Nat /\ Wrap > 1
  /\ Wrap \div 2 \in Nat /\ 1 <= Wrap \div 2 /\ Wrap \div 2 < Wrap
  /\ Wrap \div 2 + Wrap \div 2 <= Wrap
BY SettingsAssumption

(* The next request pushes a number one further back, until it wraps.       *)
LEMMA FurtherBack ==
  ASSUME NEW a \in Numbers, NEW id \in Numbers
  PROVE  /\ Back(a, id) < Wrap - 1 => Back(Plus1(a), id) = Back(a, id) + 1
         /\ Back(a, a) = 0
<1>1. Plus1(a) \in Numbers /\ Plus1(a) = IF a = Wrap - 1 THEN 0 ELSE a + 1
  BY NextNumber
<1>2. /\ Back(a, id) = IF a >= id THEN a - id ELSE a + Wrap - id
      /\ Back(Plus1(a), id) = IF Plus1(a) >= id THEN Plus1(a) - id ELSE Plus1(a) + Wrap - id
      /\ Back(a, a) = IF a >= a THEN a - a ELSE a + Wrap - a
  BY <1>1, Distance
<1>. QED BY <1>1, <1>2, HalfWrap DEF Numbers

(* A number still waiting is not reached.                                   *)
LEMMA WaitingNotReached ==
  ASSUME Numbered, NEW id \in Numbers, Lag(id) < Outstanding
  PROVE  ~Reached(saves.completed, id)
<1>. DEFINE r == saves.requested
            c == saves.completed
            half == Wrap \div 2
<1>1. /\ r \in Numbers /\ c \in Numbers /\ Back(r, c) <= half /\ Back(r, id) < Back(r, c)
  BY DEF Numbered, Outstanding, Lag, Back
<1>2. /\ Back(r, id) = IF r >= id THEN r - id ELSE r + Wrap - id
      /\ Back(r, c) = IF r >= c THEN r - c ELSE r + Wrap - c
      /\ Back(c, id) = IF c >= id THEN c - id ELSE c + Wrap - id
  BY <1>1, Distance
<1>3. /\ Wrap \in Nat /\ half \in Nat /\ half + half <= Wrap
  BY HalfWrap
<1>4. ~(Back(c, id) < half)
  <2>. HIDE DEF r, c, half
  <2>. QED BY <1>1, <1>2, <1>3 DEF Numbers
<1>. QED BY <1>4 DEF Reached, Back

(* A request made while fewer than half the numbers are outstanding moves   *)
(* every outstanding one a step back.                                       *)
LEMMA RequestNumbers ==
  ASSUME SaveShapes, Numbered, Request, Outstanding < Wrap \div 2
  PROVE  /\ DOMAIN saves' = DOMAIN saves /\ saves'.completed = saves.completed
         /\ saves'.requested \in Numbers /\ saves'.requested = Plus1(saves.requested)
         /\ Outstanding' = Outstanding + 1 /\ Outstanding \in Nat
         /\ \A id \in Numbers : Lag(id) <= Outstanding =>
              Back(saves'.requested, id) = Lag(id) + 1 /\ Lag(id) \in Nat
         /\ Back(saves'.requested, saves'.requested) = 0
<1>1. /\ DOMAIN saves' = DOMAIN saves /\ saves'.completed = saves.completed
      /\ saves'.requested = Plus1(saves.requested)
  BY DEF SaveShapes, Request
<1>2. saves.requested \in Numbers /\ saves.completed \in Numbers
  BY DEF Numbered
<1>3. saves'.requested \in Numbers
  BY <1>1, <1>2, NextNumber
<1>4. Outstanding = Back(saves.requested, saves.completed) /\ Outstanding \in Numbers
  BY <1>2, Distance DEF Outstanding, Back
<1>5. ASSUME NEW id \in Numbers, Lag(id) <= Outstanding
      PROVE  Back(saves'.requested, id) = Lag(id) + 1 /\ Lag(id) \in Nat
  <2>1. Lag(id) \in Numbers
    BY <1>2, Distance DEF Lag
  <2>2. Lag(id) < Wrap - 1
    BY <1>4, <1>5, <2>1, HalfWrap DEF Numbers
  <2>. QED BY <1>1, <1>2, <2>1, <2>2, FurtherBack DEF Lag, Numbers
<1>6. Outstanding' = Back(saves'.requested, saves.completed)
  BY <1>1 DEF Outstanding, Back
<1>7. Outstanding <= Outstanding /\ Outstanding = Lag(saves.completed) /\ Outstanding \in Nat
  BY <1>4, HalfWrap DEF Lag, Numbers
<1>8. Outstanding' = Outstanding + 1
  BY <1>2, <1>5, <1>6, <1>7
<1>9. Back(saves'.requested, saves'.requested) = 0
  BY <1>3, FurtherBack
<1>. QED BY <1>1, <1>3, <1>5, <1>7, <1>8, <1>9

(* A request keeps the save invariant, whatever else it changes in memory:  *)
(* contents only become newer.                                              *)
LEMMA RequestKeeps ==
  ASSUME SaveInv, SaveShapes', Request, Outstanding < Wrap \div 2,
         UNCHANGED <<flash, core1, job, wanted>>,
         Booting => FALSE, Booting' => FALSE,
         core0' \in {"ask", "delay", "askWake"} => Outstanding + 1 < Wrap \div 2,
         wanted # NoWant => Holds(Composed', wanted.rec)
  PROVE  SaveInv'
<1>1. /\ DOMAIN saves' = DOMAIN saves /\ saves'.completed = saves.completed
      /\ saves'.requested \in Numbers
      /\ Outstanding' = Outstanding + 1 /\ Outstanding \in Nat
      /\ \A id \in Numbers : Lag(id) <= Outstanding =>
           Back(saves'.requested, id) = Lag(id) + 1 /\ Lag(id) \in Nat
  BY RequestNumbers DEF SaveInv
<1>2. Counted => /\ job.request \in Numbers /\ Lag(job.request) <= Outstanding
                 /\ Lag(job.request)' = Lag(job.request) + 1 /\ Lag(job.request) \in Nat
  <2>1. Counted => job.request \in Numbers /\ Lag(job.request) <= Outstanding
    BY DEF SaveInv, Numbered
  <2>2. Lag(job.request)' = Back(saves'.requested, job.request)
    BY DEF Lag
  <2>. QED BY <1>1, <2>1, <2>2
<1>3. Numbered'
  <2>1. (Counted' <=> Counted) /\ saves.completed \in Numbers
    BY DEF Counted, SaveInv, Numbered
  <2>2. Outstanding' <= Wrap \div 2
    BY <1>1, HalfWrap
  <2>3. Counted' => job'.request \in Numbers /\ Lag(job.request)' <= Outstanding'
    BY <1>1, <1>2, <2>1
  <2>4. wanted' # NoWant => wanted'.id \in Numbers
    BY DEF SaveInv, Numbered
  <2>. QED BY <1>1, <2>1, <2>2, <2>3, <2>4 DEF Numbered
<1>4. Carried'
  <2>. SUFFICES ASSUME wanted # NoWant
                PROVE  /\ Holds(Composed', wanted.rec)
                       /\ \/ /\ Back(saves'.requested, wanted.id) < Outstanding'
                             /\ Counted' /\ Lag(job.request)' <= Back(saves'.requested, wanted.id)
                                  => Copied(wanted.rec)'
                          \/ /\ ~Parked => Covers(flash, wanted.rec)
                             /\ Copied(wanted.rec)'
    BY DEF Carried, Lag, Parked
  <2>0. Copied(wanted.rec)' <=> Copied(wanted.rec)
    BY DEF Copied
  <2>1. CASE Lag(wanted.id) < Outstanding
             /\ (Counted /\ Lag(job.request) <= Lag(wanted.id) => Copied(wanted.rec))
    <3>1. wanted.id \in Numbers
      BY DEF SaveInv, Numbered
    <3>w. Lag(wanted.id) \in Numbers
      BY <3>1, Distance DEF Lag, SaveInv, Numbered
    <3>2. Lag(wanted.id) <= Outstanding
      BY <1>1, <2>1, <3>w, HalfWrap DEF Numbers
    <3>3. Back(saves'.requested, wanted.id) = Lag(wanted.id) + 1 /\ Lag(wanted.id) \in Nat
      BY <1>1, <3>1, <3>2
    <3>4. Back(saves'.requested, wanted.id) < Outstanding'
      BY <1>1, <2>1, <3>3
    <3>5. (Counted' <=> Counted)
      BY DEF Counted
    <3>6. Counted /\ Lag(job.request)' <= Back(saves'.requested, wanted.id)
             => Lag(job.request) <= Lag(wanted.id)
      BY <1>2, <3>3
    <3>. QED BY <2>0, <2>1, <3>4, <3>5, <3>6
  <2>2. CASE (~Parked => Covers(flash, wanted.rec)) /\ Copied(wanted.rec)
    BY <2>0, <2>2
  <2>. QED BY <2>1, <2>2 DEF SaveInv, Carried
<1>5. Written'
  BY DEF SaveInv, Written
<1>. QED BY <1>3, <1>4, <1>5 DEF SaveInv

(* The records of the factory state, and of a power loss.                   *)
LEMMA Records ==
  /\ DOMAIN Defaults = {"user", "wake", "comps"} /\ Defaults.user = 0 /\ Defaults.wake = 0
  /\ Nothing.user = 0 /\ Nothing.wake = 0 /\ Nothing.kbm = 0
  /\ DOMAIN NoJob = {"request", "kbm", "rec"}
  /\ Erased.kind = "erased" /\ Erased.rec = Nothing
BY DEF Defaults, Nothing, NoJob, Erased

(* What a composed record holds.                                            *)
LEMMA ComposedFields ==
  Composed.user = live.user /\ Composed.wake = live.wake /\ Composed.kbm = kbm
BY DEF Composed

(* The factory state.                                                       *)
LEMMA SaveInit == Init => SaveInv
<1>. SUFFICES ASSUME Init PROVE SaveInv
  OBVIOUS
<1>1. /\ live = Defaults /\ kbm = 0 /\ flash = [kind |-> "whole", rec |-> Nothing]
      /\ saves = [requested |-> 0, completed |-> 0] /\ core0 = "boot" /\ core1 = "off"
      /\ job = NoJob /\ wanted = NoWant
      /\ spent = [edits |-> 0, crashes |-> 0, installs |-> 1]
  BY DEF Init
<1>2. SaveShapes
  BY <1>1, Records, ComposedFields DEF SaveShapes, Past, Holding
<1>3. Outstanding = 0
  <2>1. 0 \in Numbers
    BY HalfWrap DEF Numbers
  <2>2. Back(0, 0) = 0
    BY <2>1, FurtherBack
  <2>. QED BY <1>1, <2>2 DEF Outstanding, Back
<1>4. Numbered
  BY <1>1, <1>3, HalfWrap DEF Numbered, Numbers, Booting, Counted
<1>. QED BY <1>1, <1>2, <1>4 DEF SaveInv, Carried, Written

(* A power loss and a new firmware forget the command and the numbers.      *)
LEMMA SaveOff == SaveInv /\ (Crash \/ Install) => SaveInv'
<1>. SUFFICES ASSUME SaveInv, Crash \/ Install PROVE SaveInv'
  OBVIOUS
<1>1. /\ live' = Defaults /\ kbm' = 0 /\ flash' = flash
      /\ saves' = [requested |-> 0, completed |-> 0] /\ core0' = "boot" /\ core1' = "off"
      /\ job' = NoJob /\ wanted' = NoWant
  BY DEF Crash, Install, PowerOff
<1>2. spent'.edits = spent.edits /\ DOMAIN spent' = DOMAIN spent
  BY DEF Crash, Install, SaveInv, SaveShapes
<1>c. Composed'.user = live'.user /\ Composed'.wake = live'.wake /\ Composed'.kbm = kbm'
  BY DEF Composed
<1>3. SaveShapes'
  BY <1>1, <1>2, <1>c, Records DEF SaveInv, SaveShapes, Past, Holding
<1>4. Outstanding' = 0
  <2>1. 0 \in Numbers
    BY HalfWrap DEF Numbers
  <2>2. Back(0, 0) = 0
    BY <2>1, FurtherBack
  <2>. QED BY <1>1, <2>2 DEF Outstanding, Back
<1>5. Numbered'
  BY <1>1, <1>4, HalfWrap DEF Numbered, Numbers, Booting, Counted
<1>. QED BY <1>1, <1>3, <1>5 DEF SaveInv, Carried, Written

(* The boot starts with no command waiting and no number outstanding, but   *)
(* the one of a repaired record.                                            *)
LEMMA SaveBoot == SaveInv /\ Boot => SaveInv'
<1>. SUFFICES ASSUME SaveInv, Boot PROVE SaveInv'
  OBVIOUS
<1>0. /\ core1 = "off" /\ wanted = NoWant /\ saves = [requested |-> 0, completed |-> 0]
      /\ wanted' = wanted /\ spent' = spent /\ job' = job /\ Booting
  BY DEF Boot, BootErase, BootConsume, BootKeep, BootLoad, SaveInv, Numbered, Booting
<1>c. /\ Composed'.user = live'.user /\ Composed'.wake = live'.wake /\ Composed'.kbm = kbm'
      /\ Composed.user = live.user /\ Composed.wake = live.wake /\ Composed.kbm = kbm
  BY DEF Composed
<1>o. 0 \in Numbers /\ Back(0, 0) = 0
  BY HalfWrap, FurtherBack DEF Numbers
<1>1. CASE BootErase \/ BootConsume \/ BootKeep
  <2>1. /\ UNCHANGED <<live, kbm, saves, core1>> /\ (flash' = flash \/ flash' = Erased)
    BY <1>1 DEF BootErase, BootConsume, BootKeep
  <2>2. SaveShapes'
    BY <1>0, <1>c, <2>1, Records DEF SaveInv, SaveShapes, Past, Holding
  <2>3. Outstanding' = 0
    BY <1>0, <1>o, <2>1 DEF Outstanding, Back
  <2>4. Numbered'
    BY <1>0, <1>o, <2>1, <2>3, HalfWrap DEF Numbered, Counted
  <2>. QED BY <1>0, <2>1, <2>2, <2>4 DEF SaveInv, Carried, Written
<1>2. CASE BootLoad
  <2>1. /\ flash' = flash /\ core0' = "run" /\ core1' = "idle"
        /\ \/ live' = Defaults /\ kbm' = 0 /\ saves' = saves
           \/ /\ live'.user = flash.rec.user /\ live'.wake = flash.rec.wake
              /\ DOMAIN live' = {"user", "wake", "comps"}
              /\ \/ kbm' = flash.rec.kbm /\ saves' = saves
                 \/ kbm' = 0 /\ Request
    <3>0. flash.kind \in {"erased", "head", "whole"}
      BY DEF SaveInv, SaveShapes
    <3>1. flash' = flash /\ core0' = "run" /\ core1' = "idle"
      BY <1>2 DEF BootLoad
    <3>2. CASE flash.kind = "erased"
      BY <1>2, <3>1, <3>2 DEF BootLoad
    <3>3. CASE flash.kind = "whole"
      <4>1. /\ live' = [user |-> flash.rec.user, wake |-> flash.rec.wake, comps |-> flash.rec.comps]
            /\ kbm' = flash.rec.kbm /\ saves' = saves
        BY <1>2, <3>3 DEF BootLoad
      <4>. QED BY <3>1, <4>1
    <3>4. CASE flash.kind = "head"
      <4>1. /\ live' = [user |-> flash.rec.user, wake |-> flash.rec.wake,
                        comps |-> [i \in 1..Slots |-> Junk]]
            /\ kbm' = 0 /\ Request
        BY <1>2, <3>4 DEF BootLoad
      <4>. QED BY <3>1, <4>1
    <3>. QED BY <3>0, <3>2, <3>3, <3>4
  <2>2. SaveShapes'
    BY <1>0, <1>c, <2>1, Records DEF SaveInv, SaveShapes, Past, Holding, Request
  <2>3. saves'.requested \in Numbers /\ saves'.completed = 0 /\ Outstanding' \in {0, 1}
    <3>1. CASE saves' = saves
      BY <1>0, <1>o, <3>1 DEF Outstanding, Back
    <3>2. CASE Request
      <4>1. saves'.requested = Plus1(0) /\ saves'.completed = 0
        BY <1>0, <3>2 DEF Request
      <4>2. Back(Plus1(0), 0) = 1
        BY <1>o, FurtherBack, HalfWrap
      <4>. QED BY <1>o, <4>1, <4>2, NextNumber DEF Outstanding, Back
    <3>. QED BY <2>1, <3>1, <3>2
  <2>4. Numbered'
    BY <1>0, <1>o, <2>1, <2>3, HalfWrap DEF Numbered, Counted, Booting
  <2>. QED BY <1>0, <2>1, <2>2, <2>4 DEF SaveInv, Carried, Written
<1>. QED BY <1>1, <1>2 DEF Boot

(* Changes of the live settings: each is of a newer edition than what any   *)
(* command so far asked to save.                                            *)
EditsForward ==
    /\ DOMAIN live' = DOMAIN live /\ DOMAIN spent' = DOMAIN spent
    /\ \/ /\ spent'.edits = spent.edits
          /\ live'.user = live.user /\ live'.wake = live.wake /\ kbm' = kbm
       \/ /\ spent'.edits = spent.edits + 1
          /\ live'.user \in {live.user, spent.edits + 1}
          /\ live'.wake \in {live.wake, spent.edits + 1}
          /\ kbm' \in {kbm, spent.edits + 1}

(* So they stay newer than every command, and of no later edition than the  *)
(* last.                                                                    *)
LEMMA EditsKeep ==
  ASSUME SaveInv, EditsForward, UNCHANGED <<flash, core1, job>>,
         DOMAIN saves' = DOMAIN saves, wanted' = wanted \/ wanted' = NoWant
  PROVE  /\ SaveShapes'
         /\ wanted # NoWant => Holds(Composed', wanted.rec)
<1>c. /\ Composed'.user = live'.user /\ Composed'.wake = live'.wake /\ Composed'.kbm = kbm'
      /\ Composed.user = live.user /\ Composed.wake = live.wake /\ Composed.kbm = kbm
  BY DEF Composed
<1>1. /\ SaveShapes /\ (wanted # NoWant => Holds(Composed, wanted.rec))
  BY DEF SaveInv, Carried
<1>2. spent.edits \in Nat /\ spent'.edits \in Nat /\ spent.edits <= spent'.edits
  BY <1>1 DEF SaveShapes, EditsForward
<1>3. live.user \in 0 .. spent.edits /\ live.wake \in 0 .. spent.edits /\ kbm \in 0 .. spent.edits
  BY <1>1, <1>c DEF SaveShapes, Past
<1>4. /\ live'.user \in 0 .. spent'.edits /\ live'.wake \in 0 .. spent'.edits
      /\ kbm' \in 0 .. spent'.edits
      /\ live'.user >= live.user /\ live'.wake >= live.wake /\ kbm' >= kbm
  BY <1>2, <1>3 DEF EditsForward
<1>5. 0 .. spent.edits \subseteq 0 .. spent'.edits
  BY <1>2
<1>6. SaveShapes'
  <2>1. Past(Composed)' /\ Past(flash.rec)' /\ (Holding' => Past(job.rec)')
        /\ (core1' = "mapped" => job'.kbm \in 0 .. spent'.edits)
        /\ (wanted' # NoWant => Past(wanted.rec)')
    BY <1>c, <1>1, <1>4, <1>5 DEF SaveShapes, Past, Holding
  <2>. QED BY <1>1, <1>2, <2>1 DEF SaveShapes, EditsForward, Past
<1>7. ASSUME wanted # NoWant PROVE Holds(Composed', wanted.rec)
  <2>1. /\ wanted.rec.user \in 0 .. spent.edits /\ wanted.rec.wake \in 0 .. spent.edits
        /\ wanted.rec.kbm \in 0 .. spent.edits
    BY <1>1, <1>7 DEF SaveShapes, Past
  <2>2. /\ live.user >= wanted.rec.user /\ live.wake >= wanted.rec.wake /\ kbm >= wanted.rec.kbm
    BY <1>1, <1>7, <1>c DEF Holds
  <2>3. /\ live'.user >= wanted.rec.user /\ live'.wake >= wanted.rec.wake
        /\ kbm' >= wanted.rec.kbm
    BY <1>2, <1>3, <1>4, <2>1, <2>2
  <2>. QED BY <1>c, <2>3 DEF Holds
<1>. QED BY <1>6, <1>7

(* Commands, answers and the clock: no request and no write.                *)
LEMMA QuietKeeps ==
  ASSUME SaveInv, EditsForward, UNCHANGED <<saves, flash, core1, job>>,
         wanted' = wanted \/ wanted' = NoWant,
         core0' = core0 \/ (~Booting /\ ~Booting'),
         core0' \in {"ask", "delay", "askWake"} => Outstanding < Wrap \div 2
  PROVE  SaveInv'
<1>1. SaveShapes' /\ (wanted # NoWant => Holds(Composed', wanted.rec))
  BY EditsKeep
<1>2. Outstanding' = Outstanding /\ Lag(job.request)' = Lag(job.request)
      /\ Lag(wanted.id)' = Back(saves.requested, wanted'.id)
  BY DEF Outstanding, Lag
<1>3. Numbered'
  <2>1. Booting' => saves = [requested |-> 0, completed |-> 0] /\ wanted' = NoWant /\ core1 = "off"
    BY DEF SaveInv, Numbered, Booting
  <2>2. wanted' # NoWant => wanted'.id \in Numbers
    BY DEF SaveInv, Numbered
  <2>3. Counted' => job'.request \in Numbers /\ Lag(job.request)' <= Outstanding'
    BY <1>2 DEF SaveInv, Numbered, Counted
  <2>. QED BY <1>2, <2>1, <2>2, <2>3 DEF SaveInv, Numbered
<1>4. Carried'
  <2>1. CASE wanted' = NoWant
    BY <2>1 DEF Carried
  <2>2. CASE wanted' = wanted /\ wanted # NoWant
    <3>1. Copied(wanted.rec)' <=> Copied(wanted.rec)
      BY <2>2 DEF Copied
    <3>2. Lag(wanted.id)' = Lag(wanted.id) /\ (Counted' <=> Counted) /\ (Parked' <=> Parked)
      BY <2>2 DEF Lag, Counted, Parked
    <3>3. Holds(Composed, wanted.rec)'
      BY <1>1, <2>2 DEF Holds
    <3>. QED BY <1>2, <2>2, <3>1, <3>2, <3>3 DEF SaveInv, Carried
  <2>. QED BY <2>1, <2>2
<1>5. Written'
  BY DEF SaveInv, Written
<1>. QED BY <1>1, <1>3, <1>4, <1>5 DEF SaveInv

(* Commands, answers, callbacks and the clock keep the save invariant.      *)
LEMMA SaveMemory ==
  ASSUME SaveInv,
         SetUser \/ SetKbm \/ Save \/ StoreWake \/ Finish0 \/ Elapse
         \/ \E c \in Companions : NoteCompanion(c) \/ ForgetCompanion(c)
  PROVE  SaveInv'
<1>0. /\ DOMAIN live = {"user", "wake", "comps"} /\ DOMAIN spent = {"edits", "crashes", "installs"}
      /\ spent.edits \in Nat
  BY DEF SaveInv, SaveShapes
<1>r. Room => Outstanding + 1 < Wrap \div 2 /\ Outstanding < Wrap \div 2 /\ Outstanding \in Nat
  <2>1. Outstanding \in Numbers
    BY Distance DEF SaveInv, Numbered, Outstanding, Back
  <2>. QED BY <2>1, HalfWrap DEF Room, Numbers
<1>1. CASE SetUser \/ SetKbm \/ Save \/ StoreWake
  <2>1. /\ UNCHANGED <<saves, flash, core1, job, wanted>> /\ ~Booting /\ ~Booting'
        /\ core0' \in {"ask", "delay", "askWake"} => Outstanding < Wrap \div 2
    BY <1>1, <1>r DEF SetUser, SetKbm, Save, StoreWake, Free0, Booting
  <2>2. EditsForward
    BY <1>0, <1>1 DEF SetUser, SetKbm, Save, StoreWake, Edit, Edition, EditsForward
  <2>. QED BY <2>1, <2>2, QuietKeeps
<1>2. CASE DelaySave \/ Elapse \/ \E ok \in BOOLEAN : SaveAnswer(ok)
  <2>1. /\ UNCHANGED <<live, kbm, spent, saves, flash, core1, job>>
        /\ wanted' = wanted \/ wanted' = NoWant
        /\ core0' = core0 \/ (~Booting /\ ~Booting')
        /\ core0' \in {"ask", "delay", "askWake"} => core0 \in {"ask", "delay", "askWake"}
    BY <1>2 DEF DelaySave, Elapse, SaveAnswer, Booting
  <2>2. EditsForward
    BY <2>1 DEF EditsForward
  <2>3. core0' \in {"ask", "delay", "askWake"} => Outstanding < Wrap \div 2
    BY <2>1 DEF SaveInv, Numbered
  <2>. QED BY <2>1, <2>2, <2>3, QuietKeeps
<1>3. CASE AskWake \/ \E c \in Companions : NoteCompanion(c) \/ ForgetCompanion(c)
  <2>1. /\ UNCHANGED <<flash, core1, job, wanted>> /\ Request /\ ~Booting /\ ~Booting'
        /\ Outstanding < Wrap \div 2
        /\ core0' \in {"ask", "delay", "askWake"} => Outstanding + 1 < Wrap \div 2
    <3>1. CASE AskWake
      BY <3>1 DEF AskWake, Booting, SaveInv, Numbered
    <3>2. CASE \E c \in Companions : NoteCompanion(c) \/ ForgetCompanion(c)
      <4>1. /\ UNCHANGED <<flash, core0, core1, job, wanted>> /\ Request /\ core1 = "idle" /\ Room
        BY <3>2 DEF NoteCompanion, ForgetCompanion, Callback
      <4>2. ~Booting
        BY <4>1 DEF SaveInv, Numbered
      <4>. QED BY <1>r, <4>1, <4>2 DEF Booting
    <3>. QED BY <1>3, <3>1, <3>2
  <2>2. EditsForward
    BY <1>0, <1>3 DEF AskWake, NoteCompanion, ForgetCompanion, Edit, EditsForward
  <2>3. DOMAIN saves' = DOMAIN saves
    BY <2>1 DEF Request
  <2>4. SaveShapes' /\ (wanted # NoWant => Holds(Composed', wanted.rec))
    BY <2>1, <2>2, <2>3, EditsKeep
  <2>. QED BY <2>1, <2>4, RequestKeeps
<1>4. CASE AskSave
  <2>1. /\ UNCHANGED <<live, kbm, flash, core1, job, spent>> /\ Request /\ core0 = "ask"
        /\ wanted'.id = saves'.requested /\ wanted'.rec = Composed
        /\ core0' \in {"run", "await"}
    BY <1>4 DEF AskSave
  <2>2. Outstanding < Wrap \div 2 /\ SaveShapes /\ Numbered
    BY <2>1 DEF SaveInv, Numbered
  <2>3. /\ DOMAIN saves' = DOMAIN saves /\ saves'.completed = saves.completed
        /\ saves'.requested \in Numbers
        /\ Outstanding' = Outstanding + 1 /\ Outstanding \in Nat
        /\ \A id \in Numbers : Lag(id) <= Outstanding =>
             Back(saves'.requested, id) = Lag(id) + 1 /\ Lag(id) \in Nat
        /\ Back(saves'.requested, saves'.requested) = 0
    BY <2>1, <2>2, RequestNumbers
  <2>c. Composed' = Composed
    BY <2>1 DEF Composed
  <2>4. SaveShapes'
    BY <2>1, <2>2, <2>3, <2>c DEF SaveShapes, Past, Holding
  <2>5. Counted => /\ job.request \in Numbers
                   /\ Lag(job.request)' = Lag(job.request) + 1 /\ Lag(job.request) \in Nat
                   /\ Lag(job.request) <= Outstanding
    <3>1. Lag(job.request)' = Back(saves'.requested, job.request)
      BY <2>1 DEF Lag
    <3>. QED BY <2>2, <2>3, <3>1 DEF Numbered
  <2>6. Numbered'
    <3>1. Outstanding' <= Wrap \div 2
      BY <2>2, <2>3, HalfWrap
    <3>2. Counted' => job'.request \in Numbers /\ Lag(job.request)' <= Outstanding'
      BY <2>1, <2>3, <2>5 DEF Counted
    <3>3. saves'.completed \in Numbers
      BY <2>2, <2>3 DEF Numbered
    <3>. QED BY <2>1, <2>3, <3>1, <3>2, <3>3 DEF Numbered, Booting
  <2>7. Carried'
    <3>1. Lag(wanted.id)' = 0
      BY <2>1, <2>3 DEF Lag
    <3>2. Lag(wanted.id)' < Outstanding'
      BY <2>3, <3>1
    <3>3. Counted' => ~(Lag(job.request)' <= Lag(wanted.id)')
      BY <2>1, <2>5, <3>1 DEF Counted
    <3>4. Holds(Composed, wanted.rec)'
      <4>1. Past(Composed) /\ spent.edits \in Nat
        BY <2>2 DEF SaveShapes
      <4>2. Composed.user >= Composed.user /\ Composed.wake >= Composed.wake
            /\ Composed.kbm >= Composed.kbm
        BY <4>1 DEF Past
      <4>. QED BY <2>1, <2>c, <4>2 DEF Holds
    <3>. QED BY <3>2, <3>3, <3>4 DEF Carried
  <2>8. Written'
    BY <2>1 DEF SaveInv, Written
  <2>. QED BY <2>4, <2>6, <2>7, <2>8 DEF SaveInv
<1>. QED BY <1>1, <1>2, <1>3, <1>4 DEF Finish0

(* The write of core 1: what it copies is no older than any save command    *)
(* its number covers, and it completes its number only over a whole record. *)
LEMMA SaveWrite ==
  ASSUME SaveInv, Write1
  PROVE  SaveInv'
<1>0. /\ SaveShapes /\ Numbered /\ Carried /\ Written /\ DOMAIN job = {"request", "kbm", "rec"}
      /\ DOMAIN saves = {"requested", "completed"}
      /\ saves.requested \in Numbers /\ saves.completed \in Numbers
      /\ Outstanding = Back(saves.requested, saves.completed)
  BY DEF SaveInv, SaveShapes, Numbered, Outstanding, Back
<1>s. /\ UNCHANGED <<live, kbm, core0, spent>> /\ Composed' = Composed /\ ~Booting /\ ~Booting'
      /\ core1 # "off"
  <2>1. UNCHANGED <<live, kbm, core0, spent>> /\ core1 # "off"
    BY DEF Write1, ServiceSave, TakeRequest, CopyKbm, CopyLive, EraseSector, ProgramHead,
       ProgramRest, CompleteSave, ClearDelay
  <2>. QED BY <1>0, <2>1 DEF Composed, Numbered, Booting
<1>c. Composed.user = live.user /\ Composed.wake = live.wake /\ Composed.kbm = kbm
  BY DEF Composed
<1>1. CASE ServiceSave
  <2>1. UNCHANGED <<saves, flash, job, wanted>> /\ core1 = "idle" /\ core1' = "due"
    BY <1>1 DEF ServiceSave
  <2>2. Lag(wanted.id)' = Lag(wanted.id) /\ Outstanding' = Outstanding
    BY <2>1 DEF Lag, Outstanding
  <2>3. SaveShapes'
    BY <1>0, <1>s, <2>1 DEF SaveShapes, Past, Holding
  <2>4. Numbered'
    BY <1>0, <1>s, <2>1, <2>2 DEF Numbered, Counted
  <2>5. Carried' /\ Written'
    BY <1>0, <1>s, <2>1, <2>2 DEF Carried, Written, Counted, Copied, Parked
  <2>. QED BY <2>3, <2>4, <2>5 DEF SaveInv
<1>2. CASE TakeRequest
  <2>1. /\ UNCHANGED <<saves, flash, wanted>> /\ core1 = "due" /\ core1' = "counted"
        /\ job'.request = saves.requested /\ DOMAIN job' = DOMAIN job
    BY <1>0, <1>2 DEF TakeRequest
  <2>2. /\ Lag(wanted.id)' = Lag(wanted.id) /\ Outstanding' = Outstanding
        /\ Lag(job.request)' = 0 /\ 0 <= Outstanding
    BY <1>0, <2>1, FurtherBack, Distance DEF Lag, Outstanding, Numbers
  <2>3. SaveShapes'
    BY <1>0, <1>s, <2>1 DEF SaveShapes, Past, Holding
  <2>4. Numbered'
    BY <1>0, <1>s, <2>1, <2>2 DEF Numbered
  <2>5. Carried' /\ Written'
    BY <1>0, <1>s, <2>1, <2>2 DEF Carried, Written, Copied, Parked
  <2>. QED BY <2>3, <2>4, <2>5 DEF SaveInv
<1>3. CASE CopyKbm
  <2>1. /\ UNCHANGED <<saves, flash, wanted>> /\ core1 = "counted" /\ core1' = "mapped"
        /\ job'.kbm = kbm /\ job'.request = job.request /\ DOMAIN job' = DOMAIN job
    BY <1>0, <1>3 DEF CopyKbm
  <2>2. /\ Lag(wanted.id)' = Lag(wanted.id) /\ Outstanding' = Outstanding
        /\ Lag(job.request)' = Lag(job.request)
    BY <2>1 DEF Lag, Outstanding
  <2>3. SaveShapes'
    BY <1>0, <1>s, <1>c, <2>1 DEF SaveShapes, Past, Holding
  <2>4. Numbered'
    BY <1>0, <1>s, <2>1, <2>2 DEF Numbered, Counted
  <2>5. wanted # NoWant => Copied(wanted.rec)'
    BY <1>0, <1>c, <2>1 DEF Carried, Copied, Holds
  <2>6. Carried' /\ Written'
    BY <1>0, <1>s, <2>1, <2>2, <2>5 DEF Carried, Written, Parked
  <2>. QED BY <2>3, <2>4, <2>6 DEF SaveInv
<1>4. CASE CopyLive
  <2>1. /\ UNCHANGED <<saves, flash, wanted>> /\ core1 = "mapped" /\ core1' = "copied"
        /\ job'.kbm = job.kbm /\ job'.request = job.request /\ DOMAIN job' = DOMAIN job
        /\ job'.rec.user = live.user /\ job'.rec.wake = live.wake /\ job'.rec.kbm = job.kbm
    <3>1. /\ UNCHANGED <<saves, flash, wanted>> /\ core1 = "mapped" /\ core1' = "copied"
          /\ job' = [job EXCEPT !.rec = [Composed EXCEPT !.kbm = job.kbm]]
      BY <1>4 DEF CopyLive
    <3>2. job'.rec = [Composed EXCEPT !.kbm = job.kbm]
      BY <1>0, <3>1
    <3>3. job'.rec.user = live.user /\ job'.rec.wake = live.wake /\ job'.rec.kbm = job.kbm
      BY <3>2 DEF Composed
    <3>. QED BY <1>0, <3>1, <3>3
  <2>2. /\ Lag(wanted.id)' = Lag(wanted.id) /\ Outstanding' = Outstanding
        /\ Lag(job.request)' = Lag(job.request)
    BY <2>1 DEF Lag, Outstanding
  <2>3. SaveShapes'
    BY <1>0, <1>s, <1>c, <2>1 DEF SaveShapes, Past, Holding
  <2>4. Numbered'
    BY <1>0, <1>s, <2>1, <2>2 DEF Numbered, Counted
  <2>5. wanted # NoWant => (Copied(wanted.rec) => Copied(wanted.rec)')
    BY <1>0, <1>c, <2>1 DEF Carried, Copied, Holds
  <2>6. Carried'
    BY <1>0, <1>s, <2>1, <2>2, <2>5 DEF Carried, Counted, Parked
  <2>7. Written'
    BY <2>1 DEF Written
  <2>. QED BY <2>3, <2>4, <2>6, <2>7 DEF SaveInv
<1>5. CASE EraseSector \/ ProgramHead \/ ProgramRest
  <2>1. /\ UNCHANGED <<saves, wanted, job>>
        /\ \/ core1 = "copied" /\ core1' = "erased" /\ flash' = Erased
           \/ core1 = "erased" /\ core1' = "head" /\ flash' = [kind |-> "head", rec |-> job.rec]
           \/ core1 = "head" /\ core1' = "written" /\ flash' = [kind |-> "whole", rec |-> job.rec]
    BY <1>5 DEF EraseSector, ProgramHead, ProgramRest
  <2>2. /\ Lag(wanted.id)' = Lag(wanted.id) /\ Outstanding' = Outstanding
        /\ Lag(job.request)' = Lag(job.request)
    BY <2>1 DEF Lag, Outstanding
  <2>3. SaveShapes'
    BY <1>0, <1>s, <2>1, Records DEF SaveShapes, Past, Holding
  <2>4. Numbered'
    BY <1>0, <1>s, <2>1, <2>2 DEF Numbered, Counted
  <2>5. (Copied(wanted.rec) <=> Copied(wanted.rec)') /\ (Counted <=> Counted')
    BY <2>1 DEF Copied, Counted
  <2>6. Copied(wanted.rec) => (~Parked' => Covers(flash', wanted.rec))
    BY <2>1 DEF Copied, Parked, Covers, Holds
  <2>7. Carried'
    <3>1. ~Parked' => flash'.kind = "whole" /\ flash'.rec = job.rec
      BY <2>1 DEF Parked
    <3>2. Copied(wanted.rec) => (~Parked => Covers(flash, wanted.rec))'
      BY <2>1, <2>6, <3>1 DEF Covers
    <3>. QED BY <1>0, <1>s, <2>1, <2>2, <2>5, <3>2 DEF Carried
  <2>8. Written'
    BY <2>1 DEF Written
  <2>. QED BY <2>3, <2>4, <2>7, <2>8 DEF SaveInv
<1>6. CASE CompleteSave
  <2>1. /\ UNCHANGED <<flash, job, wanted>> /\ core1 = "written" /\ core1' = "undelay"
        /\ saves'.completed = job.request /\ saves'.requested = saves.requested
        /\ DOMAIN saves' = DOMAIN saves
    BY <1>0, <1>6 DEF CompleteSave
  <2>2. /\ Lag(wanted.id)' = Lag(wanted.id) /\ Outstanding' = Lag(job.request)
        /\ job.request \in Numbers /\ Lag(job.request) <= Outstanding
        /\ Outstanding \in Nat /\ Lag(job.request) \in Nat
    BY <1>0, <2>1, Distance, HalfWrap DEF Lag, Outstanding, Back, Numbered, Counted, Numbers
  <2>3. SaveShapes'
    BY <1>0, <1>s, <2>1 DEF SaveShapes, Past, Holding
  <2>4. Numbered'
    <3>1. Outstanding' <= Wrap \div 2 /\ (Outstanding < Wrap \div 2 => Outstanding' < Wrap \div 2)
      BY <1>0, <2>2, HalfWrap DEF Numbered
    <3>. QED BY <1>0, <1>s, <2>1, <2>2, <3>1 DEF Numbered, Counted
  <2>5. Carried'
    <3>. SUFFICES ASSUME wanted # NoWant
                  PROVE  /\ Holds(Composed, wanted.rec)'
                         /\ \/ /\ Lag(wanted.id)' < Outstanding'
                               /\ ~Counted'
                            \/ /\ Covers(flash', wanted.rec)
                               /\ Copied(wanted.rec)'
      BY <2>1 DEF Carried
    <3>1. ~Counted' /\ Copied(wanted.rec)' /\ Holds(Composed, wanted.rec)'
      BY <1>0, <1>s, <2>1 DEF Counted, Copied, Carried, Holds
    <3>2. flash.kind = "whole" /\ flash.rec = job.rec
      BY <1>0, <2>1 DEF Written
    <3>3. Copied(wanted.rec) => Covers(flash', wanted.rec)
      BY <2>1, <3>2 DEF Copied, Covers, Holds
    <3>4. wanted.id \in Numbers /\ Lag(wanted.id) \in Nat
      <4>1. wanted.id \in Numbers
        BY <1>0 DEF Numbered
      <4>2. Lag(wanted.id) \in Numbers
        BY <1>0, <4>1, Distance DEF Lag
      <4>. QED BY <4>1, <4>2, HalfWrap DEF Numbers
    <3>5. CASE Lag(wanted.id) < Lag(job.request)
      BY <2>2, <3>1, <3>5
    <3>6. CASE ~(Lag(wanted.id) < Lag(job.request))
      <4>1. Lag(job.request) <= Lag(wanted.id) /\ Counted
        BY <2>1, <2>2, <3>4, <3>6 DEF Counted
      <4>2. Copied(wanted.rec)
        BY <1>0, <4>1 DEF Carried
      <4>. QED BY <3>1, <3>3, <4>2
    <3>. QED BY <3>5, <3>6
  <2>6. Written'
    BY <2>1 DEF Written
  <2>. QED BY <2>3, <2>4, <2>5, <2>6 DEF SaveInv
<1>7. CASE ClearDelay
  <2>1. /\ UNCHANGED <<flash, saves>> /\ core1 = "undelay" /\ core1' = "idle" /\ job' = NoJob
        /\ wanted' = wanted \/ wanted' = NoWant
    BY <1>7 DEF ClearDelay
  <2>2. Outstanding' = Outstanding /\ (wanted' = wanted => Lag(wanted.id)' = Lag(wanted.id))
    BY <2>1 DEF Lag, Outstanding
  <2>3. SaveShapes'
    BY <1>0, <1>s, <2>1, Records DEF SaveShapes, Past, Holding
  <2>4. Numbered'
    BY <1>0, <1>s, <2>1, <2>2 DEF Numbered, Counted
  <2>5. Carried' /\ Written'
    <3>1. CASE wanted' = NoWant
      BY <2>1, <3>1 DEF Carried, Written
    <3>2. CASE wanted' = wanted
      BY <1>0, <1>s, <2>1, <2>2, <3>2 DEF Carried, Written, Counted, Copied, Parked
    <3>. QED BY <2>1, <3>1, <3>2
  <2>. QED BY <2>3, <2>4, <2>5 DEF SaveInv
<1>. QED BY <1>1, <1>2, <1>3, <1>4, <1>5, <1>6, <1>7 DEF Write1

(* The save invariant holds always.                                         *)
LEMMA SaveInvariant == Spec => []SaveInv
<1>1. SaveInv /\ UNCHANGED vars => SaveInv'
  BY DEF vars, SaveInv, SaveShapes, Numbered, Carried, Written, Past, Composed, Booting, Holding,
     Counted, Lag, Back, Outstanding, Copied, Parked
<1>2. SaveInv /\ [Next]_vars => SaveInv'
  BY <1>1, SaveBoot, SaveOff, SaveMemory, SaveWrite DEF Next
<1>. QED BY <1>2, SaveInit, PTL DEF Spec

(* A save command that has been answered is in flash: the number it waited  *)
(* for is completed only by a write that took its copies after the command, *)
(* for every width of the counters (config_save_tracker.c) and every        *)
(* overlap of commands, callbacks and writes.                               *)
THEOREM SavedIsWrittenAlways == Spec => []SavedIsWritten
<1>1. SaveInv => SavedIsWritten
  <2>. SUFFICES ASSUME SaveInv, wanted # NoWant, Reached(saves.completed, wanted.id), ~Parked
                PROVE  Covers(flash, wanted.rec)
    BY DEF SavedIsWritten
  <2>1. wanted.id \in Numbers /\ Numbered
    BY DEF SaveInv, Numbered
  <2>2. ~(Lag(wanted.id) < Outstanding)
    BY <2>1, WaitingNotReached
  <2>. QED BY <2>2 DEF SaveInv, Carried
<1>. QED BY <1>1, SaveInvariant, PTL
=============================================================================
