-------------------------- MODULE BootselParkProofs --------------------------
(***************************************************************************)
(* The safety of the park handshake, for every value of the deadline.      *)
(*                                                                         *)
(* FlashNeverPulled is not inductive: it says nothing of the moment core 0 *)
(* goes from its second look at g_core1_parked to the chip select.  What   *)
(* closes the gap is that a round core 0 reads in is still requested and   *)
(* still claimed, so that core 1 can neither see it closed nor win the     *)
(* withdrawal, and that core 1 is on its way out only of a closed round.   *)
(***************************************************************************)
EXTENDS BootselPark, TLAPS

Held == {"spin", "withdraw", "check", "commit", "committed"}

\* While core 0 reads and publishes, core 1 is held.
ReadInPark == core0 \in {"read", "publish"} => requested /\ core1 \in Held

\* Core 1 leaves a park only when its round is closed.
LeavesClosedRound == core1 = "resume" => ~requested

ParkInv == KTypeOK /\ ReadInPark /\ LeavesClosedRound

(* The inductive invariant holds at start ...                              *)
LEMMA ParkInvInit == Init => ParkInv
<1> SUFFICES ASSUME Init PROVE ParkInv
  OBVIOUS
<1>1. requested = FALSE /\ parked = FALSE /\ sampling = FALSE /\ abandoned = FALSE
  BY DEF Init
<1>2. floating = FALSE /\ core0 = "sample" /\ core1 = "out" /\ spins = 0 /\ lock = "free"
  BY DEF Init
<1>3. spins \in 0 .. MaxSpins
  BY <1>2, SpinsAssumption
<1>4. KTypeOK
  BY <1>1, <1>2, <1>3, Zenon DEF KTypeOK
<1>5. QED
  BY <1>2, <1>4 DEF ParkInv, ReadInPark, LeavesClosedRound

(* ... every step of core 0's sampler keeps it: only Recheck enters the    *)
(* read, and it has just seen core 1 parked in an open round ...           *)
LEMMA SampleKeepsInv == ParkInv /\ Core0Sample => ParkInv'
<1> SUFFICES ASSUME ParkInv, Core0Sample PROVE ParkInv'
  OBVIOUS
<1> USE SpinsAssumption DEF ParkInv, KTypeOK, ReadInPark, LeavesClosedRound, Held, flags
<1>1. CASE Request
  BY <1>1 DEF Request
<1>2. CASE NothingToSample
  BY <1>2 DEF NothingToSample
<1>3. CASE NoticeAbandoned
  BY <1>3 DEF NoticeAbandoned
<1>4. CASE CloseRound
  BY <1>4 DEF CloseRound
<1>5. CASE RoundOpen
  BY <1>5 DEF RoundOpen
<1>6. CASE Look
  <2>1. core0 = "look" /\ core0' \in {"claim", "tasks"}
    BY <1>6 DEF Look
  <2>2. UNCHANGED <<flags, floating, core1, spins, lock>>
    BY <1>6 DEF Look
  <2>3. QED
    BY <2>1, <2>2
<1>7. CASE Claim
  BY <1>7 DEF Claim
<1>8. CASE Recheck
  <2>1. CASE requested /\ parked
    BY <1>8, <2>1 DEF Recheck
  <2>2. CASE ~(requested /\ parked)
    BY <1>8, <2>2 DEF Recheck
  <2>3. QED
    BY <2>1, <2>2
<1>9. CASE Read
  BY <1>9 DEF Read
<1>10. CASE Publish
  BY <1>10 DEF Publish
<1>11. CASE BackOff
  BY <1>11 DEF BackOff
<1>12. QED
  BY <1>1, <1>2, <1>3, <1>4, <1>5, <1>6, <1>7, <1>8, <1>9, <1>10, <1>11
  DEF Core0Sample

(* The deadline counts down to zero and is set anew by every park.          *)
LEMMA SpinsBounded == spins \in 0 .. MaxSpins /\ (Park \/ Spin) => spins' \in 0 .. MaxSpins
<1>1. MaxSpins \in Nat
  BY SpinsAssumption
<1>2. ASSUME Park PROVE spins' \in 0 .. MaxSpins
  <2>1. spins' = MaxSpins
    BY <1>2 DEF Park
  <2>2. QED
    BY <1>1, <2>1
<1>3. ASSUME spins \in 0 .. MaxSpins, Spin PROVE spins' \in 0 .. MaxSpins
  <2>1. spins' = spins \/ (spins # 0 /\ spins' = spins - 1)
    <3>1. CASE requested /\ spins # 0
      BY <1>3, <3>1 DEF Spin
    <3>2. CASE ~(requested /\ spins # 0)
      BY <1>3, <3>2 DEF Spin
    <3>3. QED
      BY <3>1, <3>2
  <2>2. QED
    BY <1>1, <1>3, <2>1
<1>4. QED
  BY <1>2, <1>3

(* ... and so does core 1's service: while core 0 reads, the round is open, *)
(* so Spin does not resume, and claimed, so Check does not abandon.        *)
LEMMA ServiceKeepsInv == ParkInv /\ Core1Service => ParkInv'
<1> SUFFICES ASSUME ParkInv, Core1Service PROVE ParkInv'
  OBVIOUS
<1> USE SpinsAssumption DEF ParkInv, KTypeOK, ReadInPark, LeavesClosedRound, Held, flags
<1>1. CASE Park
  <2>1. spins' \in 0 .. MaxSpins
    BY <1>1, SpinsBounded
  <2>2. core1 = "parking" /\ parked' = TRUE /\ core1' = "spin"
    BY <1>1 DEF Park
  <2>3. UNCHANGED <<requested, sampling, abandoned, floating, core0, lock>>
    BY <1>1 DEF Park
  <2>4. QED
    BY <2>1, <2>2, <2>3
<1>2. CASE Spin
  <2>1. spins' \in 0 .. MaxSpins
    BY <1>2, SpinsBounded
  <2>2. core1 = "spin" /\ core1' \in {"spin", "withdraw", "resume"}
    BY <1>2 DEF Spin
  <2>3. requested <=> core1' # "resume"
    BY <1>2 DEF Spin
  <2>4. UNCHANGED <<requested, parked, sampling, abandoned, floating, core0, lock>>
    BY <1>2 DEF Spin
  <2>5. QED
    BY <2>1, <2>2, <2>3, <2>4
<1>3. CASE Withdraw
  BY <1>3 DEF Withdraw
<1>4. CASE Check
  BY <1>4 DEF Check
<1>5. CASE Abandon
  BY <1>5 DEF Abandon
<1>6. CASE Commit
  BY <1>6 DEF Commit
<1>7. CASE Released
  BY <1>7 DEF Released
<1>8. CASE Resume
  BY <1>8 DEF Resume
<1>9. QED
  BY <1>1, <1>2, <1>3, <1>4, <1>5, <1>6, <1>7, <1>8 DEF Core1Service

(* The other steps touch neither the flags nor either core's place in the  *)
(* handshake.                                                              *)
LEMMA ParkInvNext == ParkInv /\ [Next]_vars => ParkInv'
<1> SUFFICES ASSUME ParkInv, [Next]_vars PROVE ParkInv'
  OBVIOUS
<1> USE SpinsAssumption DEF ParkInv, KTypeOK, ReadInPark, LeavesClosedRound, Held, flags
<1>1. CASE Core0Sample
  BY <1>1, SampleKeepsInv
<1>2. CASE OtherTasks \/ Marshal \/ Acquire \/ Release
  <2>1. CASE OtherTasks
    BY <2>1 DEF OtherTasks
  <2>2. CASE Marshal
    BY <2>2 DEF Marshal
  <2>3. CASE Acquire
    BY <2>3 DEF Acquire
  <2>4. CASE Release
    BY <2>4 DEF Release
  <2>5. QED
    BY <1>2, <2>1, <2>2, <2>3, <2>4
<1>3. CASE Core1Service
  BY <1>3, ServiceKeepsInv
<1>4. CASE EnterCallback \/ LeaveCallback \/ Notice
  <2>1. CASE EnterCallback
    BY <2>1 DEF EnterCallback
  <2>2. CASE LeaveCallback
    BY <2>2 DEF LeaveCallback
  <2>3. CASE Notice
    BY <2>3 DEF Notice
  <2>4. QED
    BY <1>4, <2>1, <2>2, <2>3
<1>5. CASE UNCHANGED vars
  BY <1>5 DEF vars
<1>6. QED
  BY <1>1, <1>2, <1>3, <1>4, <1>5 DEF Next, Core0Step

(* The inductive invariant holds always.                                    *)
LEMMA ParkInvariant == Spec => []ParkInv
BY ParkInvInit, ParkInvNext, PTL DEF Spec

(* The flags say where the cores are: the round is claimed exactly while    *)
(* core 0 is inside it, and g_core1_parked is up exactly while core 1 waits *)
(* or is about to leave, for every deadline.                                *)
THEOREM FlagsTellPlace == Spec => []KTypeOK
<1>1. ParkInv => KTypeOK
  BY DEF ParkInv
<1>2. QED
  BY <1>1, ParkInvariant, PTL

(* The chip select is never tri-stated while core 1 may fetch from flash,  *)
(* for every deadline and every interleaving of the two cores' flags.      *)
THEOREM FlashIsSafe == Spec => []FlashNeverPulled
<1>1. ParkInv => FlashNeverPulled
  BY DEF ParkInv, KTypeOK, ReadInPark, Held, FlashNeverPulled
<1>2. QED
  BY <1>1, ParkInvariant, PTL
=============================================================================
