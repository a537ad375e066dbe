----------------------------- MODULE BootselPark -----------------------------
(***************************************************************************)
(* Reading the BOOTSEL button (firmware/src/app/bootsel.c).  The button is *)
(* the flash chip select: core 0 tri-states it for some 20 us, and core 1  *)
(* must then be parked in SRAM, where it does not fetch from flash.        *)
(*                                                                         *)
(* Core 0 asks for the park and never waits for it; core 1 parks from a    *)
(* Bluetooth callback, with interrupts off and holding the run-loop lock,  *)
(* so its wait for core 0 has a deadline and withdrawing from it a         *)
(* Dekker-style handshake.  Core 0 blocks on the same lock to hand a       *)
(* management operation to core 1.  A step is one access to a shared flag, *)
(* in program order: the code has a memory barrier after each store.       *)
(***************************************************************************)
EXTENDS Naturals

CONSTANTS
  MaxSpins   \* BOOTSEL_PARK_MAX_SPINS

ASSUME SpinsAssumption == MaxSpins \in Nat

VARIABLES
  requested,   \* g_sample_requested
  parked,      \* g_core1_parked
  sampling,    \* g_core0_sampling
  abandoned,   \* g_park_abandoned
  floating,    \* the chip select is tri-stated
  core0,       \* where core 0 is in its USB loop
  core1,       \* where core 1 is in its callback
  spins,       \* what is left of core 1's deadline
  lock         \* who holds the run-loop lock

flags == <<requested, parked, sampling, abandoned>>
vars == <<requested, parked, sampling, abandoned, floating, core0, core1, spins, lock>>

Init ==
  /\ requested = FALSE
  /\ parked = FALSE
  /\ sampling = FALSE
  /\ abandoned = FALSE
  /\ floating = FALSE
  /\ core0 = "sample"
  /\ core1 = "out"
  /\ spins = 0
  /\ lock = "free"
-----------------------------------------------------------------------------
(* Core 0: bootsel_sample_core0(), then the rest of the USB loop.          *)

\* The sampling interval (30 ms) has elapsed, which outlasts the few cycles core 1
\* takes from seeing the previous round closed to leaving the park.
Request ==
  /\ core0 = "sample"
  /\ ~requested
  /\ core1 # "resume"
  /\ requested' = TRUE
  /\ core0' = "tasks"
  /\ UNCHANGED <<parked, sampling, abandoned, floating, core1, spins, lock>>

\* It has not.
NothingToSample ==
  /\ core0 = "sample"
  /\ ~requested
  /\ core0' = "tasks"
  /\ UNCHANGED <<flags, floating, core1, spins, lock>>

\* A round is open and core 1 has not withdrawn from it ...
RoundOpen ==
  /\ core0 = "sample"
  /\ requested /\ ~abandoned
  /\ core0' = "look"
  /\ UNCHANGED <<flags, floating, core1, spins, lock>>

\* ... has it parked?
Look ==
  /\ core0 = "look"
  /\ core0' = IF parked THEN "claim" ELSE "tasks"
  /\ UNCHANGED <<flags, floating, core1, spins, lock>>

\* Core 1 withdrew: the round is closed without a sample.
NoticeAbandoned ==
  /\ core0 = "sample"
  /\ requested /\ abandoned
  /\ abandoned' = FALSE
  /\ core0' = "close"
  /\ UNCHANGED <<requested, parked, sampling, floating, core1, spins, lock>>

\* Slip: only the report of the withdrawal is cleared.
CloseRoundHalf ==
  /\ core0 = "close"
  /\ core0' = "tasks"
  /\ UNCHANGED <<flags, floating, core1, spins, lock>>

CloseRound ==
  /\ core0 = "close"
  /\ requested' = FALSE
  /\ core0' = "tasks"
  /\ UNCHANGED <<parked, sampling, abandoned, floating, core1, spins, lock>>

\* Core 1 was parked: claim the round ...
Claim ==
  /\ core0 = "claim"
  /\ sampling' = TRUE
  /\ core0' = "recheck"
  /\ UNCHANGED <<requested, parked, abandoned, floating, core1, spins, lock>>

\* Slip: the claim alone is taken for core 1's consent.
RecheckTrusting ==
  /\ core0 = "recheck"
  /\ floating' = TRUE
  /\ core0' = "read"
  /\ UNCHANGED <<flags, core1, spins, lock>>

\* ... and look again before touching the chip select.
Recheck ==
  /\ core0 = "recheck"
  /\ IF requested /\ parked
     THEN floating' = TRUE /\ core0' = "read"
     ELSE core0' = "back off" /\ UNCHANGED floating
  /\ UNCHANGED <<flags, core1, spins, lock>>

\* read_bootsel_raw(): the button is read and the chip select restored.
Read ==
  /\ core0 = "read"
  /\ floating' = FALSE
  /\ core0' = "publish"
  /\ UNCHANGED <<flags, core1, spins, lock>>

\* The sample is published, which releases core 1.
Publish ==
  /\ core0 = "publish"
  /\ requested' = FALSE
  /\ core0' = "back off"
  /\ UNCHANGED <<parked, sampling, abandoned, floating, core1, spins, lock>>

\* Slip: a round core 0 backs off from stays claimed.
BackOffClaimed ==
  /\ core0 = "back off"
  /\ core0' = "tasks"
  /\ UNCHANGED <<flags, floating, core1, spins, lock>>

BackOff ==
  /\ core0 = "back off"
  /\ sampling' = FALSE
  /\ core0' = "tasks"
  /\ UNCHANGED <<requested, parked, abandoned, floating, core1, spins, lock>>

\* config_wireless_task() and the rest: nothing for core 1 ...
OtherTasks ==
  /\ core0 = "tasks"
  /\ core0' = "sample"
  /\ UNCHANGED <<flags, floating, core1, spins, lock>>

\* ... or an operation to hand over, which takes the run-loop lock.
Marshal ==
  /\ core0 = "tasks"
  /\ core0' = "lock"
  /\ UNCHANGED <<flags, floating, core1, spins, lock>>

Acquire ==
  /\ core0 = "lock"
  /\ lock = "free"
  /\ lock' = "core0"
  /\ core0' = "unlock"
  /\ UNCHANGED <<flags, floating, core1, spins>>

Release ==
  /\ core0 = "unlock"
  /\ lock' = "free"
  /\ core0' = "sample"
  /\ UNCHANGED <<flags, floating, core1, spins>>
-----------------------------------------------------------------------------
(* Core 1: bootsel_core1_service(), from a callback that holds the lock.   *)

EnterCallback ==
  /\ core1 = "out"
  /\ lock = "free"
  /\ lock' = "core1"
  /\ core1' = "callback"
  /\ UNCHANGED <<flags, floating, core0, spins>>

LeaveCallback ==
  /\ core1 \in {"callback", "served"}
  /\ lock' = "free"
  /\ core1' = "out"
  /\ UNCHANGED <<flags, floating, core0, spins>>

Notice ==
  /\ core1 = "callback"
  /\ requested
  /\ core1' = "parking"
  /\ UNCHANGED <<flags, floating, core0, spins, lock>>

\* Interrupts are off from here to Resume or Abandon.
Park ==
  /\ core1 = "parking"
  /\ parked' = TRUE
  /\ spins' = MaxSpins
  /\ core1' = "spin"
  /\ UNCHANGED <<requested, sampling, abandoned, floating, core0, lock>>

\* Slip: the wait for core 0 has no deadline.
SpinForever ==
  /\ core1 = "spin"
  /\ core1' = IF requested THEN "spin" ELSE "resume"
  /\ UNCHANGED <<flags, floating, core0, spins, lock>>

\* One turn of the wait loop.
Spin ==
  /\ core1 = "spin"
  /\ core1' = IF ~requested THEN "resume" ELSE IF spins = 0 THEN "withdraw" ELSE "spin"
  /\ spins' = IF requested /\ spins # 0 THEN spins - 1 ELSE spins
  /\ UNCHANGED <<flags, floating, core0, lock>>

\* The deadline has passed: publish the withdrawal ...
Withdraw ==
  /\ core1 = "withdraw"
  /\ parked' = FALSE
  /\ core1' = "check"
  /\ UNCHANGED <<requested, sampling, abandoned, floating, core0, spins, lock>>

\* ... then see whether core 0 claimed the round meanwhile.
Check ==
  /\ core1 = "check"
  /\ core1' = IF sampling THEN "commit" ELSE "abandon"
  /\ UNCHANGED <<flags, floating, core0, spins, lock>>

Abandon ==
  /\ core1 = "abandon"
  /\ abandoned' = TRUE
  /\ core1' = "served"
  /\ UNCHANGED <<requested, parked, sampling, floating, core0, spins, lock>>

\* Core 0 has the round: stay in SRAM until it is over, without a deadline.
Commit ==
  /\ core1 = "commit"
  /\ parked' = TRUE
  /\ core1' = "committed"
  /\ UNCHANGED <<requested, sampling, abandoned, floating, core0, spins, lock>>

Released ==
  /\ core1 = "committed"
  /\ ~requested
  /\ core1' = "resume"
  /\ UNCHANGED <<flags, floating, core0, spins, lock>>

Resume ==
  /\ core1 = "resume"
  /\ parked' = FALSE
  /\ core1' = "served"
  /\ UNCHANGED <<requested, sampling, abandoned, floating, core0, spins, lock>>
-----------------------------------------------------------------------------
Core0Sample ==
  \/ Request \/ NothingToSample \/ NoticeAbandoned \/ CloseRound
  \/ RoundOpen \/ Look \/ Claim \/ Recheck
  \/ Read \/ Publish \/ BackOff

Core0Step == Core0Sample \/ OtherTasks \/ Marshal \/ Release

Core1Service ==
  Park \/ Spin \/ Withdraw \/ Check \/ Abandon \/ Commit \/ Released \/ Resume

Next ==
  \/ Core0Step
  \/ Acquire
  \/ Core1Service
  \/ EnterCallback
  \/ LeaveCallback
  \/ Notice

Spec == Init /\ [][Next]_vars

(* Both cores run their loops.  Callbacks end, and the 3 ms rumble timer    *)
(* calls the service again and again; the lock is free between callbacks    *)
(* for far longer than either core takes to acquire it.                     *)
Fairness ==
  /\ WF_vars(Core0Step)
  /\ SF_vars(Acquire)
  /\ WF_vars(Core1Service)
  /\ SF_vars(EnterCallback)
  /\ WF_vars(LeaveCallback)
  /\ SF_vars(Notice)

FairSpec == Spec /\ Fairness
-----------------------------------------------------------------------------
(* Properties.                                                             *)

(* Types; the round is claimed exactly while core 0 is inside it, and       *)
(* g_core1_parked says where core 1 is.                                     *)
KTypeOK ==
  /\ requested \in BOOLEAN /\ parked \in BOOLEAN /\ sampling \in BOOLEAN
  /\ abandoned \in BOOLEAN /\ floating \in BOOLEAN
  /\ core0 \in {"sample", "close", "look", "claim", "recheck", "read", "publish",
                "back off", "tasks", "lock", "unlock"}
  /\ core1 \in {"out", "callback", "parking", "spin", "withdraw", "check", "abandon",
                "commit", "committed", "resume", "served"}
  /\ lock \in {"free", "core0", "core1"}
  /\ spins \in 0 .. MaxSpins
  /\ sampling <=> core0 \in {"recheck", "read", "publish", "back off"}
  /\ parked <=> core1 \in {"spin", "withdraw", "committed", "resume"}
  /\ floating <=> core0 = "read"

(* The chip select is never tri-stated while core 1 may fetch from flash,   *)
(* whatever the order of core 0's claim and core 1's withdrawal: "if core1  *)
(* resumed executing from flash mid-sample it would fault" (bootsel.c:134). *)
FlashNeverPulled == floating => core1 \notin {"out", "callback", "parking", "served"}

InPark == core1 \in {"spin", "withdraw", "check", "abandon", "commit", "committed", "resume"}

(* "The park is BOUNDED and withdraws if core0 does not sample in time"     *)
(* (bootsel.h): core 1 always gets back to its callback, even when core 0   *)
(* is blocked on the lock that core 1 holds.                                *)
ParkEnds == InPark ~> ~InPark

(* The part of it that holds: the deadline ends every wait but the one core *)
(* 1 enters when it finds the round claimed.                                *)
DeadlineEndsWait == core1 = "spin" ~> ~InPark \/ core1 = "committed"

(* A withdrawal does not strand the sampler: every round core 0 asks for is *)
(* closed, sampled or not, so that the next one can start, unless core 1 is *)
(* held in that last wait.                                                  *)
RoundsClose == requested ~> ~requested \/ core1 = "committed"
=============================================================================
