------------------------ MODULE WirelessBridgeProofs ------------------------
(***************************************************************************)
(* The management bridge never wedges, executes a line as it was written   *)
(* and implements the one-command, one-reply exchange of module Exchange,  *)
(* for every number of lines, sessions and notifications and every         *)
(* interleaving of the two cores: what a race of a session reset with a    *)
(* bridge call of core 0, or of an operation's end with the next one,      *)
(* spoils is put right by the first reset that meets no such call.         *)
(***************************************************************************)
EXTENDS WirelessBridge, TLAPS

Taking == core0.pc \in {"take second", "claim"}
Publishing == core0.pc \in {"write", "ready", "release"}
Copying == core1 \in {"copy first", "copy second", "commit"}

(* Somebody on core 0 still owes the current session its reply.             *)
Held ==
  \/ core0.pc \in {"run", "check", "write", "ready", "release"} /\ core0.session = session
  \/ deferred.active = TRUE /\ deferred.session = session

Shapes ==
  /\ DOMAIN cmd = DOMAIN CmdClear /\ DOMAIN rsp = DOMAIN RspClear
  /\ DOMAIN core0 = DOMAIN Core0Idle /\ DOMAIN deferred = DOMAIN NotDeferred
  /\ DOMAIN rx = DOMAIN RxClear
  /\ DOMAIN op = {"pending", "done", "text", "result"}
  /\ rsp.state \in {"empty", "ready"}
  /\ session \in Nat /\ core0.session \in Nat /\ deferred.session \in Nat /\ rsp.left \in Nat
  /\ cmd.session \in Nat
  /\ core0.session <= session /\ deferred.session <= session /\ cmd.session <= session

(* Where the two cores are says what the two slots hold: a command is in    *)
(* progress exactly as long as core 0 owes its reply, and a reply stands    *)
(* only over an empty command slot or one about to be released.             *)
Control ==
  /\ deferred.active = TRUE => core0.pc = "idle"
  /\ Resetting => ~InBridgeCall
  /\ Publishing => core0.session = session
  /\ ~Resetting => (cmd.state = "in progress" <=> Held)
  /\ core1 \in {"reset response", "reset session"} => cmd.state = "empty"
  /\ core1 = "reset session" => rsp.state = "empty"
  /\ Taking => cmd.state = "ready"
  /\ core0.pc = "claim" => core0.session = session
  /\ Copying => cmd.state = "empty" /\ rsp.state = "empty"
  /\ core1 = "commit" => cmd.session = session
  /\ ~Resetting /\ cmd.state = "ready" => cmd.session = session
  /\ core0.pc = "ready" => rsp.session = session /\ rsp.left = Chunks
  /\ ~Resetting /\ rsp.state = "ready" =>
       /\ cmd.state = "empty" \/ core0.pc = "release"
       /\ rsp.session = session /\ rsp.left > 0

(* The line number n is the last one accepted, and of the current session.  *)
Latest(n) == n = Len(author) /\ Len(author) > 0 /\ author[Len(author)] = session

(* A copied line carried for session s: whole, of s, and the last one       *)
(* accepted if s is still the current session.                              *)
Honest(text, s) ==
  /\ text[1] = text[2] /\ text[1] \in 1 .. Len(author)
  /\ author[text[1]] = s
  /\ s = session /\ ~Resetting => text[1] = Len(author)

(* What only core 1 writes: the line being received and its copy.           *)
Private ==
  /\ author \in Seq(Nat) /\ rx.from \in Nat
  /\ DOMAIN cmd.text = {1, 2}
  /\ Resetting => rx.held = FALSE
  /\ Copying => rx.held = TRUE
  /\ rx.held = TRUE /\ ~Resetting => rx.from = session
  /\ core1 \in {"copy second", "commit"} => cmd.text[1] = Len(author) + 1
  /\ core1 = "commit" => /\ cmd.text[2] = Len(author) + 1 /\ cmd.full = TRUE
                         /\ cmd.session = session

Lines ==
  /\ Private
  /\ core0.pc = "take second" => DOMAIN core0.text = {1, 2}
  /\ ~Resetting /\ cmd.state = "ready" =>
       Latest(cmd.text[1]) /\ Latest(cmd.text[2]) /\ cmd.full = TRUE
  /\ core0.pc = "take second" => core0.text[1] = Len(author) /\ core0.full = TRUE
  /\ core0.pc = "claim" => core0.text[1] = Len(author) /\ core0.text[2] = Len(author)
                           /\ Latest(Len(author))
  /\ core0.pc = "run" => Honest(core0.text, core0.session)

(* The marshalled operation's words belong to the reply that waits for it,  *)
(* and every reply is the one to the line it was produced for.              *)
Replies ==
  /\ op.pending = FALSE => op.result = op.text
  /\ deferred.active = TRUE => op.text = deferred.text /\ Honest(deferred.text, deferred.session)
  /\ core0.pc = "check" \/ Publishing => Honest(core0.text, core0.session)
  /\ core0.pc = "ready" \/ (~Resetting /\ rsp.state = "ready") =>
       Latest(rsp.text[1]) /\ rsp.text[1] = rsp.text[2]
  /\ NoReplyCrosses

(* The fields of the records.                                               *)
LEMMA Fields ==
  /\ DOMAIN CmdClear = {"state", "full", "text", "session"}
  /\ DOMAIN RspClear = {"state", "left", "session", "text"}
  /\ DOMAIN Core0Idle = {"pc", "text", "full", "session"}
  /\ DOMAIN NotDeferred = {"active", "session", "text"}
  /\ DOMAIN RxClear = {"held", "from", "over"}
BY DEF CmdClear, RspClear, Core0Idle, NotDeferred, RxClear

(* The halves of a copied line.                                             *)
LEMMA Pair ==
  ASSUME NEW a, NEW b
  PROVE  <<a, b>>[1] = a /\ <<a, b>>[2] = b /\ DOMAIN <<a, b>> = {1, 2}
OBVIOUS

(* A reply takes at least one notification.                                 *)
LEMMA SomeChunks == Chunks \in Nat /\ Chunks > 0
BY BoundAssumption

(* The inductive invariant of the control part.                             *)
BridgeControl == Shapes /\ Control

(* It holds once config_wireless_bridge_init() is done ...                  *)
LEMMA ControlInit == Init => BridgeControl
BY BoundAssumption, Fields, Pair DEF Init, BridgeControl, Shapes, Control, Held, Taking, Publishing, Copying, Resetting,
   InBridgeCall, CmdClear, RspClear, Core0Idle, NotDeferred, RxClear, Blank

(* ... a session reset keeps it: nobody on core 0 is inside the bridge ...  *)
LEMMA ResetKeepsControl ==
  ASSUME ~Meets, BridgeControl, BeginReset \/ ResetCommand \/ ResetResponse \/ ResetSession
  PROVE  BridgeControl'
<1>1. CASE BeginReset
  BY <1>1, Fields DEF BeginReset, Meets, BridgeControl, Shapes, Control,
       Held, Taking, Publishing, Copying, Resetting, InBridgeCall
<1>2. CASE ResetCommand
  BY <1>2, Fields DEF ResetCommand, BridgeControl, Shapes, Control,
       Held, Taking, Publishing, Copying, Resetting, InBridgeCall
<1>3. CASE ResetResponse
  BY <1>3, Fields DEF ResetResponse, BridgeControl, Shapes, Control,
       Held, Taking, Publishing, Copying, Resetting, InBridgeCall
<1>4. CASE ResetSession
  <2>0. session' = session + 1 /\ UNCHANGED <<rx, cmd, rsp, core0, deferred, op>>
    BY <1>4 DEF ResetSession
  <2>1. /\ session' \in Nat /\ core0'.session < session' /\ deferred'.session < session'
        /\ cmd'.session < session'
    BY <2>0 DEF BridgeControl, Shapes
  <2>2. core0'.session # session' /\ deferred'.session # session'
    BY <2>1 DEF BridgeControl, Shapes
  <2>3. ~Held'
    BY <2>2 DEF Held
  <2>4. Shapes'
    BY <2>0, <2>1 DEF BridgeControl, Shapes
  <2>5. core1 = "reset session" /\ core1' = "idle"
    BY <1>4 DEF ResetSession
  <2>6. Control'
    BY <2>0, <2>3, <2>5 DEF BridgeControl, Control, Taking, Publishing, Copying, Resetting,
         InBridgeCall
  <2>. QED BY <2>4, <2>6 DEF BridgeControl
<1>. QED BY <1>1, <1>2, <1>3, <1>4

(* ... so do the link, the copy of a line, the drain and the operations of core 1 ... *)
LEMMA Core1KeepsControl ==
  ASSUME BridgeControl,
         \/ \E on \in BOOLEAN : Subscribe(on)
         \/ \E over \in BOOLEAN : WriteFragment(over)
         \/ RejectLine \/ AcceptLine \/ CopyFirst \/ CopySecond \/ Commit
         \/ Pump \/ (\E sent \in BOOLEAN : CanSend(sent)) \/ RunOp \/ FinishOp
  PROVE  BridgeControl'
<1>1. CASE (\E on \in BOOLEAN : Subscribe(on)) \/ Pump
  BY <1>1, Fields DEF Subscribe, Pump, BridgeControl, Shapes, Control,
       Held, Taking, Publishing, Copying, Resetting, InBridgeCall
<1>2. CASE (\E over \in BOOLEAN : WriteFragment(over)) \/ RejectLine
  BY <1>2, Fields DEF WriteFragment, RejectLine, BridgeControl, Shapes, Control,
       Held, Taking, Publishing, Copying, Resetting, InBridgeCall
<1>3. CASE AcceptLine
  BY <1>3, Fields DEF AcceptLine, Writable, Busy, BridgeControl, Shapes, Control,
       Held, Taking, Publishing, Copying, Resetting, InBridgeCall
<1>4. CASE CopyFirst
  BY <1>4, Fields DEF CopyFirst, BridgeControl, Shapes, Control,
       Held, Taking, Publishing, Copying, Resetting, InBridgeCall
<1>5. CASE CopySecond
  <2>1. /\ UNCHANGED <<session, rx, rsp, core0, deferred, op>> /\ cmd'.state = cmd.state
        /\ DOMAIN cmd' = DOMAIN cmd /\ cmd'.session = session
        /\ core1 = "copy second" /\ core1' = "commit"
    BY <1>5, Fields DEF CopySecond, BridgeControl, Shapes
  <2>2. Shapes'
    <3>0. cmd.session \in Nat /\ cmd.session <= session
      BY DEF BridgeControl, Shapes
    <3>1. cmd'.session \in Nat /\ cmd'.session <= session'
      <4>1. cmd'.session = cmd.session \/ cmd'.session = session
        BY <2>1
      <4>2. session' = session
        BY <2>1
      <4>3. session \in Nat
        BY DEF BridgeControl, Shapes
      <4>. QED BY <3>0, <4>1, <4>2, <4>3
    <3>2. DOMAIN cmd' = DOMAIN CmdClear
      BY <2>1 DEF BridgeControl, Shapes
    <3>. QED BY <2>1, <3>1, <3>2 DEF BridgeControl, Shapes
  <2>3. Control'
    BY <2>1 DEF BridgeControl, Control, Held, Taking, Publishing, Copying, Resetting, InBridgeCall
  <2>. QED BY <2>2, <2>3 DEF BridgeControl
<1>6. CASE Commit
  BY <1>6, Fields DEF Commit, BridgeControl, Shapes, Control,
       Held, Taking, Publishing, Copying, Resetting, InBridgeCall, RxClear
<1>7. CASE \E sent \in BOOLEAN : CanSend(sent)
  <2>1. core1 = "idle" /\ UNCHANGED <<session, rx, cmd, core1, core0, deferred, op>>
    BY <1>7 DEF CanSend
  <2>2. \/ rsp' = rsp
        \/ /\ rsp.left = 1 /\ rsp.state = "ready"
           /\ rsp' = [rsp EXCEPT !.state = "empty", !.left = 0]
        \/ /\ rsp.left > 0 /\ rsp.left # 1 /\ rsp.state = "ready"
           /\ rsp' = [rsp EXCEPT !.left = @ - 1]
    BY <1>7 DEF CanSend, Consumed, ResponsePending
  <2>3. core0.pc # "ready" \/ rsp' = rsp
    BY <2>1, <2>2 DEF BridgeControl, Control, Held, Publishing, Resetting
  <2>4. /\ DOMAIN rsp' = DOMAIN rsp /\ rsp'.left \in Nat /\ rsp'.session = rsp.session
        /\ rsp'.state = "ready" => rsp.state = "ready" /\ (rsp.left > 0 => rsp'.left > 0)
        /\ rsp'.state = "empty" \/ rsp'.state = rsp.state
    <3>1. CASE rsp' = rsp
      BY <3>1 DEF BridgeControl, Shapes
    <3>2. CASE rsp.state = "ready" /\ rsp' = [rsp EXCEPT !.state = "empty", !.left = 0]
      BY <3>2, Fields DEF BridgeControl, Shapes
    <3>3. CASE /\ rsp.left > 0 /\ rsp.left # 1 /\ rsp.state = "ready"
               /\ rsp' = [rsp EXCEPT !.left = @ - 1]
      BY <3>3, Fields DEF BridgeControl, Shapes
    <3>. QED BY <2>2, <3>1, <3>2, <3>3
  <2>5. Shapes'
    BY <2>1, <2>4 DEF BridgeControl, Shapes
  <2>6. Control'
    BY <2>1, <2>3, <2>4, Fields DEF BridgeControl, Control, Held, Taking, Publishing, Copying,
         Resetting, InBridgeCall
  <2>. QED BY <2>5, <2>6 DEF BridgeControl
<1>8. CASE RunOp \/ FinishOp
  BY <1>8, Fields DEF RunOp, FinishOp, BridgeControl, Shapes, Control,
       Held, Taking, Publishing, Copying, Resetting, InBridgeCall
<1>. QED BY <1>1, <1>2, <1>3, <1>4, <1>5, <1>6, <1>7, <1>8

(* ... and so does the command task of core 0.                              *)
LEMMA Core0KeepsShapes ==
  ASSUME Shapes, Core0Step
  PROVE  Shapes'
<1>. USE Fields, BoundAssumption DEF Shapes, Core0Idle, NotDeferred
<1>1. CASE AbandonDeferred
  BY <1>1 DEF AbandonDeferred
<1>2. CASE \E timeout \in BOOLEAN : ReplyDeferred(timeout)
  BY <1>2 DEF ReplyDeferred
<1>3. CASE TakeFirst
  <2>1. DOMAIN core0' = DOMAIN Core0Idle /\ core0'.session = 0
    BY <1>3 DEF TakeFirst
  <2>2. UNCHANGED <<session, rx, cmd, rsp, deferred, op>>
    BY <1>3 DEF TakeFirst
  <2>. QED BY <2>1, <2>2
<1>4. CASE TakeSecond
  <2>1. DOMAIN core0' = DOMAIN Core0Idle /\ core0'.session = cmd.session
    BY <1>4 DEF TakeSecond
  <2>2. UNCHANGED <<session, rx, cmd, rsp, deferred, op>>
    BY <1>4 DEF TakeSecond
  <2>. QED BY <2>1, <2>2
<1>5. CASE Claim
  BY <1>5 DEF Claim
<1>6. CASE RunInline
  BY <1>6 DEF RunInline
<1>7. CASE RunDeferred
  <2>1. DOMAIN core0' = DOMAIN Core0Idle /\ core0'.session = 0
    BY <1>7 DEF RunDeferred
  <2>2. DOMAIN deferred' = DOMAIN NotDeferred /\ deferred'.session = core0.session
    BY <1>7 DEF RunDeferred
  <2>3. UNCHANGED <<session, rx, cmd, rsp>> /\ DOMAIN op' = DOMAIN op
    BY <1>7 DEF RunDeferred
  <2>. QED BY <2>1, <2>2, <2>3
<1>8. CASE PublishCheck
  BY <1>8 DEF PublishCheck
<1>9. CASE PublishWrite
  BY <1>9 DEF PublishWrite
<1>10. CASE PublishReady
  BY <1>10 DEF PublishReady
<1>11. CASE PublishRelease
  BY <1>11 DEF PublishRelease
<1>. QED BY <1>1, <1>2, <1>3, <1>4, <1>5, <1>6, <1>7, <1>8, <1>9, <1>10, <1>11 DEF Core0Step

(* Outside a race core 0 calls the bridge only while no reset runs.         *)
LEMMA CallsApart ==
  ASSUME Control, ~Meets,
         \/ TakeFirst \/ TakeSecond \/ Claim
         \/ (PublishCheck /\ core0'.pc = "write")
         \/ PublishWrite \/ PublishReady \/ PublishRelease
  PROVE  ~Resetting
<1>1. CASE TakeFirst \/ (PublishCheck /\ core0'.pc = "write")
  <2>1. CASE TakeFirst
    BY <2>1 DEF TakeFirst, Meets, Resetting, InBridgeCall
  <2>2. CASE PublishCheck /\ core0'.pc = "write"
    BY <2>2 DEF PublishCheck, Meets, Resetting, InBridgeCall
  <2>. QED BY <1>1, <2>1, <2>2
<1>2. CASE TakeSecond \/ Claim \/ PublishWrite \/ PublishReady \/ PublishRelease
  <2>1. core0.pc \in {"take second", "claim", "write", "ready", "release"}
    BY <1>2 DEF TakeSecond, Claim, PublishWrite, PublishReady, PublishRelease
  <2>. QED BY <2>1 DEF Control, InBridgeCall
<1>. QED BY <1>1, <1>2

(* Core 0 owes the reply from Claim to the release of the command slot.     *)
LEMMA Core0KeepsControl ==
  ASSUME Shapes, Control, ~Meets, Core0Step
  PROVE  Control'
<1>0. (\/ TakeFirst \/ TakeSecond \/ Claim
       \/ (PublishCheck /\ core0'.pc = "write")
       \/ PublishWrite \/ PublishReady \/ PublishRelease) => ~Resetting
  BY CallsApart
<1>. USE Fields, BoundAssumption DEF Shapes, Control, Taking, Publishing, Copying, Held, Resetting, InBridgeCall
<1>1. CASE AbandonDeferred
  BY <1>1 DEF AbandonDeferred, NotDeferred
<1>2. CASE \E timeout \in BOOLEAN : ReplyDeferred(timeout)
  <2>0. PICK timeout \in BOOLEAN : ReplyDeferred(timeout)
    BY <1>2
  <2>1. /\ core0.pc = "idle" /\ deferred.active = TRUE /\ deferred.session = session
        /\ core0'.pc = "check" /\ core0'.session = session /\ deferred'.active = FALSE
        /\ UNCHANGED <<session, rx, cmd, rsp, core1>>
    BY <2>0 DEF ReplyDeferred, NotDeferred
  <2>2. QED BY <2>1
<1>3. CASE TakeFirst
  <2>1. /\ core0.pc = "idle" /\ deferred.active # TRUE /\ cmd.state = "ready" /\ ~Resetting
        /\ core0'.pc = "take second" 
        /\ UNCHANGED <<session, rx, cmd, rsp, core1, deferred>>
    BY <1>0, <1>3 DEF TakeFirst
  <2>2. QED BY <2>1
<1>4. CASE TakeSecond
  BY <1>0, <1>4 DEF TakeSecond
<1>5. CASE Claim
  BY <1>0, <1>5 DEF Claim
<1>6. CASE RunInline
  BY <1>6 DEF RunInline
<1>7. CASE RunDeferred
  BY <1>7 DEF RunDeferred, Core0Idle
<1>8. CASE PublishCheck
  <2>1. /\ core0.pc = "check" /\ UNCHANGED <<session, rx, cmd, rsp, core1, deferred>>
        /\ \/ /\ core0.session = session /\ rsp.state = "empty" /\ ~Resetting
              /\ core0'.pc = "write" /\ core0'.session = session
           \/ ~(core0.session = session /\ rsp.state = "empty") /\ core0'.pc = "idle"
    BY <1>0, <1>8, Fields DEF PublishCheck, Core0Idle
  <2>2. ~Resetting /\ core0.session = session => rsp.state # "ready"
    BY <2>1
  <2>. QED BY <2>1, <2>2
<1>9. CASE PublishWrite
  BY <1>0, <1>9 DEF PublishWrite
<1>10. CASE PublishReady
  <2>1. /\ core0.pc = "ready" /\ ~Resetting /\ UNCHANGED <<session, rx, cmd, core1, deferred>>
        /\ core0'.pc = "release" /\ core0'.session = core0.session
        /\ rsp'.state = "ready" /\ rsp'.session = rsp.session /\ rsp'.left = rsp.left
    BY <1>0, <1>10 DEF PublishReady
  <2>2. rsp'.left = Chunks /\ rsp'.session = session
    BY <2>1
  <2>4. rsp'.left > 0
    BY <2>2, SomeChunks
  <2>. QED BY <2>1, <2>2, <2>4
<1>11. CASE PublishRelease
  BY <1>0, <1>11 DEF PublishRelease, Core0Idle
<1>. QED BY <1>1, <1>2, <1>3, <1>4, <1>5, <1>6, <1>7, <1>8, <1>9, <1>10, <1>11 DEF Core0Step
-----------------------------------------------------------------------------
(* Nothing is written yet.                                                  *)
LEMMA LinesInit == Init => Lines
BY Pair DEF Init, Lines, Private, Resetting, Copying, RxClear, CmdClear, Core0Idle, Blank

(* The lines accepted form a sequence.                                      *)
LEMMA LinesLen == ASSUME Lines PROVE author \in Seq(Nat) /\ Len(author) \in Nat
<1>1. author \in Seq(Nat)
  BY DEF Lines, Private
<1>. QED BY <1>1

(* A step that leaves the line, the command slot and the taker alone keeps Lines ... *)
LEMMA LinesQuiet ==
  ASSUME Lines, UNCHANGED <<author, session, rx, cmd>>,
         core1' = core1 \/ {core1, core1'} \subseteq {"idle", "finish op"},
         core0' = core0 \/ core0'.pc \notin {"take second", "claim", "run"}
  PROVE  Lines'
<1>1. /\ Resetting' <=> Resetting
      /\ Copying' <=> Copying
      /\ core1' \in {"copy second", "commit"} <=> core1 \in {"copy second", "commit"}
      /\ core1' = "commit" <=> core1 = "commit"
  BY DEF Resetting, Copying
<1>2. /\ core0'.pc = "take second" => core0' = core0
      /\ core0'.pc = "claim" => core0' = core0
      /\ core0'.pc = "run" => core0' = core0
  OBVIOUS
<1>. QED BY <1>1, <1>2 DEF Lines, Private, Latest, Honest

(* ... and these steps do.                                                  *)
LEMMA QuietSteps ==
  ASSUME Shapes,
         \/ \E on \in BOOLEAN : Subscribe(on)
         \/ Pump \/ (\E sent \in BOOLEAN : CanSend(sent)) \/ RunOp \/ FinishOp
         \/ AbandonDeferred \/ (\E timeout \in BOOLEAN : ReplyDeferred(timeout))
         \/ RunDeferred \/ PublishCheck \/ PublishWrite \/ PublishReady
  PROVE  /\ UNCHANGED <<author, session, rx, cmd>>
         /\ core1' = core1 \/ {core1, core1'} \subseteq {"idle", "finish op"}
         /\ core0' = core0 \/ core0'.pc \notin {"take second", "claim", "run"}
<1>1. CASE (\E on \in BOOLEAN : Subscribe(on)) \/ Pump \/ (\E sent \in BOOLEAN : CanSend(sent))
  BY <1>1 DEF Subscribe, Pump, CanSend
<1>2. CASE RunOp \/ FinishOp
  BY <1>2 DEF RunOp, FinishOp
<1>0. Core0Idle.pc = "idle"
  BY DEF Core0Idle
<1>3. CASE AbandonDeferred \/ RunDeferred
  BY <1>0, <1>3 DEF AbandonDeferred, RunDeferred
<1>4. CASE \E timeout \in BOOLEAN : ReplyDeferred(timeout)
  <2>1. PICK timeout \in BOOLEAN : ReplyDeferred(timeout)
    BY <1>4
  <2>. QED BY <2>1, Fields DEF ReplyDeferred, Shapes
<1>5. CASE PublishCheck
  BY <1>5, Fields DEF PublishCheck, Core0Idle, Shapes
<1>6. CASE PublishWrite \/ PublishReady
  BY <1>6, Fields DEF PublishWrite, PublishReady, Shapes
<1>. QED BY <1>1, <1>2, <1>3, <1>4, <1>5, <1>6

(* A reset drops the partial line and leaves a running command to its old session. *)
LEMMA ResetKeepsLines ==
  ASSUME ~Meets, BridgeControl, Lines,
         BeginReset \/ ResetCommand \/ ResetResponse \/ ResetSession
  PROVE  Lines'
<1>1. CASE BeginReset
  <2>1. /\ core0.pc \notin {"take second", "claim"} /\ rx' = RxClear /\ core1' = "reset command"
        /\ cmd'.text = cmd.text
        /\ UNCHANGED <<session, core0, author>>
    BY <1>1, Fields DEF BeginReset, Meets, Resetting, InBridgeCall, BridgeControl, Shapes
  <2>2. rx'.held = FALSE /\ rx'.from = 0
    BY <2>1 DEF RxClear
  <2>3. Resetting' /\ ~Copying'
    BY <2>1 DEF Resetting, Copying
  <2>4. core0.pc = "run" => Honest(core0.text, core0.session)'
    BY <2>1, <2>3 DEF Lines, Private, Honest
  <2>5. core1' \notin {"copy second", "commit"} /\ core1' # "commit"
    BY <2>1
  <2>6. author' \in Seq(Nat) /\ rx'.from \in Nat /\ DOMAIN cmd'.text = {1, 2}
    <3>1. DOMAIN cmd.text = {1, 2}
      BY DEF Lines, Private
    <3>2. author \in Seq(Nat)
      BY LinesLen
    <3>3. author' \in Seq(Nat)
      BY <2>1, <3>2
    <3>4. rx'.from \in Nat
      BY <2>2
    <3>5. DOMAIN cmd'.text = {1, 2}
      BY <2>1, <3>1
    <3>. QED BY <3>3, <3>4, <3>5
  <2>. QED BY <2>1, <2>2, <2>3, <2>4, <2>5, <2>6 DEF Lines, Private
<1>2. CASE ResetCommand \/ ResetResponse
  <2>1. /\ Resetting /\ core1' \in {"reset response", "reset session"}
        /\ cmd'.text = cmd.text
        /\ UNCHANGED <<session, core0, author, rx>>
    BY <1>2, Fields DEF ResetCommand, ResetResponse, BridgeControl, Shapes, Resetting
  <2>2. core0.pc \notin {"take second", "claim"}
    BY <2>1 DEF BridgeControl, Control, InBridgeCall
  <2>. QED BY <2>1, <2>2 DEF Lines, Private, Latest, Honest, Resetting, Copying
<1>3. CASE ResetSession
  <2>1. /\ core1 = "reset session" /\ core1' = "idle" /\ session' = session + 1
        /\ UNCHANGED <<cmd, core0, author, rx>>
    BY <1>3 DEF ResetSession
  <2>2. core0.pc \notin {"take second", "claim"} /\ cmd.state = "empty"
    BY <2>1 DEF BridgeControl, Control, InBridgeCall, Resetting
  <2>0. core0.session # session + 1
    BY DEF BridgeControl, Shapes
  <2>3. core0.session # session'
    BY <2>0, <2>1
  <2>4. rx.held = FALSE
    BY <2>1 DEF Lines, Private, Resetting
  <2>. QED BY <2>1, <2>2, <2>3, <2>4 DEF Lines, Private, Latest, Honest, Resetting, Copying
<1>. QED BY <1>1, <1>2, <1>3

(* Accepting a line extends the history.                                    *)
LEMMA Grown ==
  ASSUME author \in Seq(Nat), rx.from \in Nat, author' = Append(author, rx.from)
  PROVE  /\ author' \in Seq(Nat) /\ Len(author) \in Nat /\ Len(author') = Len(author) + 1
         /\ author'[Len(author')] = rx.from
         /\ \A n \in 1 .. Len(author) : n \in 1 .. Len(author') /\ author'[n] = author[n]
OBVIOUS

(* The line is copied half by half into a slot nobody reads.                *)
LEMMA CopyKeepsLines ==
  ASSUME BridgeControl, Lines,
         \/ \E over \in BOOLEAN : WriteFragment(over)
         \/ RejectLine \/ AcceptLine \/ CopyFirst \/ CopySecond \/ Commit
  PROVE  Lines'
<1>1. CASE \E over \in BOOLEAN : WriteFragment(over)
  <2>1. /\ core1 = "idle" /\ UNCHANGED <<session, cmd, core1, core0, author>>
        /\ rx'.from = session \/ (rx'.from = rx.from /\ rx.held = TRUE)
    BY <1>1 DEF WriteFragment, Writable
  <2>2. rx'.from = session
    BY <2>1 DEF Lines, Private, Resetting
  <2>. QED BY <2>1, <2>2 DEF Lines, Private, Latest, Honest, Resetting, Copying, BridgeControl, Shapes
<1>2. CASE RejectLine
  BY <1>2 DEF RejectLine, Writable, Lines, Private, Latest, Honest, Resetting, Copying, RxClear
<1>3. CASE AcceptLine
  <2>1. /\ core1 = "idle" /\ core1' = "copy first" /\ UNCHANGED <<session, rx, cmd, core0, author>>
        /\ rx.held = TRUE
    BY <1>3 DEF AcceptLine, Writable
  <2>. QED BY <2>1 DEF Lines, Private, Latest, Honest, Resetting, Copying
<1>4. CASE CopyFirst
  <2>1. /\ core1 = "copy first" /\ core1' = "copy second" /\ UNCHANGED <<session, rx, core0, author>>
        /\ cmd'.text = [cmd.text EXCEPT ![1] = Len(author) + 1] /\ cmd'.state = cmd.state
    BY <1>4, Fields DEF CopyFirst, BridgeControl, Shapes
  <2>2. DOMAIN cmd'.text = {1, 2} /\ cmd'.text[1] = Len(author) + 1
    BY <2>1 DEF Lines, Private
  <2>3. cmd.state = "empty" /\ core0.pc # "take second" /\ core0.pc # "claim"
    BY <2>1 DEF BridgeControl, Control, Copying, Taking
  <2>. QED BY <2>1, <2>2, <2>3 DEF Lines, Private, Latest, Honest, Resetting, Copying
<1>5. CASE CopySecond
  <2>1. /\ core1 = "copy second" /\ core1' = "commit" /\ UNCHANGED <<session, rx, core0, author>>
        /\ cmd'.text = [cmd.text EXCEPT ![2] = Len(author) + 1] /\ cmd'.state = cmd.state
        /\ cmd'.full = TRUE /\ cmd'.session = session
    BY <1>5, Fields DEF CopySecond, BridgeControl, Shapes
  <2>2. DOMAIN cmd'.text = {1, 2} /\ cmd'.text[1] = Len(author) + 1 /\ cmd'.text[2] = Len(author) + 1
    BY <2>1 DEF Lines, Private
  <2>3. cmd.state = "empty" /\ core0.pc # "take second" /\ core0.pc # "claim"
    BY <2>1 DEF BridgeControl, Control, Copying, Taking
  <2>. QED BY <2>1, <2>2, <2>3 DEF Lines, Private, Latest, Honest, Resetting, Copying
<1>6. CASE Commit
  <2>1. /\ core1 = "commit" /\ core1' = "idle" /\ UNCHANGED <<session, core0>> /\ rx' = RxClear
        /\ cmd'.text = cmd.text /\ cmd'.full = cmd.full
        /\ author' = Append(author, rx.from)
    BY <1>6, Fields DEF Commit, BridgeControl, Shapes
  <2>2. cmd.state = "empty" /\ core0.pc # "take second" /\ core0.pc # "claim" /\ ~Held
    BY <2>1 DEF BridgeControl, Control, Copying, Taking, Resetting
  <2>3. rx.from = session
    BY <2>1 DEF Lines, Private, Copying, Resetting
  <2>4. /\ author' \in Seq(Nat) /\ Len(author) \in Nat /\ Len(author') = Len(author) + 1
        /\ author'[Len(author')] = session
        /\ \A n \in 1 .. Len(author) : n \in 1 .. Len(author') /\ author'[n] = author[n]
    BY <2>1, <2>3, Grown DEF Lines, Private
  <2>5. core0.pc = "run" => Honest(core0.text, core0.session)'
    BY <2>1, <2>2, <2>4 DEF Lines, Private, Honest, Held
  <2>6. Latest(cmd.text[1])' /\ Latest(cmd.text[2])' /\ cmd'.full = TRUE
    <3>1. Len(author') > 0 /\ cmd.text[1] = Len(author') /\ cmd.text[2] = Len(author') /\ cmd.full = TRUE
      <4>1. cmd.text[1] = Len(author) + 1 /\ cmd.text[2] = Len(author) + 1 /\ cmd.full = TRUE
        BY <2>1 DEF Lines, Private
      <4>2. Len(author') > 0
        BY <2>4
      <4>. QED BY <2>4, <4>1, <4>2
    <3>. QED BY <2>1, <2>4, <3>1 DEF Latest
  <2>7. rx'.held = FALSE /\ rx'.held # TRUE /\ rx'.from \in Nat
    BY <2>1 DEF RxClear
  <2>8. DOMAIN cmd'.text = {1, 2}
    BY <2>1 DEF Lines, Private
  <2>9. core1' \notin {"copy second", "commit"} /\ ~Resetting' /\ ~Copying'
    BY <2>1 DEF Resetting, Copying
  <2>10. core0'.pc # "take second" /\ core0'.pc # "claim" /\ core1' # "commit"
    BY <2>1, <2>2
  <2>11. /\ core0'.pc = "run" => Honest(core0.text, core0.session)'
         /\ ~Resetting' /\ cmd'.state = "ready" =>
              Latest(cmd.text[1])' /\ Latest(cmd.text[2])' /\ cmd'.full = TRUE
    BY <2>1, <2>5, <2>6
  <2>. QED BY <2>4, <2>11, <2>7, <2>8, <2>9, <2>10 DEF Lines, Private
<1>. QED BY <1>1, <1>2, <1>3, <1>4, <1>5, <1>6

(* Core 0 takes both halves of the same line.                               *)
LEMMA TakeKeepsLines ==
  ASSUME ~Meets, BridgeControl, Lines,
         TakeFirst \/ TakeSecond \/ Claim \/ RunInline \/ PublishRelease
  PROVE  Lines'
<1>1. /\ UNCHANGED <<session, rx, core1, author>>
      /\ (TakeFirst \/ TakeSecond \/ Claim \/ PublishRelease) => ~Resetting
  BY CallsApart DEF TakeFirst, TakeSecond, Claim, RunInline, PublishRelease, BridgeControl
<1>2. CASE TakeFirst
  <2>1. /\ cmd.state = "ready" /\ cmd' = cmd
        /\ core0'.pc = "take second" /\ core0'.text = <<cmd.text[1], 0>> /\ core0'.full = cmd.full
    BY <1>2 DEF TakeFirst
  <2>2. DOMAIN core0'.text = {1, 2} /\ core0'.text[1] = cmd.text[1]
    <3>1. DOMAIN <<cmd.text[1], 0>> = {1, 2} /\ <<cmd.text[1], 0>>[1] = cmd.text[1]
      OBVIOUS
    <3>. QED BY <2>1, <3>1
  <2>. QED BY <1>1, <1>2, <2>1, <2>2 DEF Lines, Private, Latest, Honest, Resetting, Copying
<1>3. CASE TakeSecond
  <2>1. /\ core0.pc = "take second" /\ cmd' = cmd /\ core0'.pc = "claim"
        /\ core0.full = TRUE => core0'.text = [core0.text EXCEPT ![2] = cmd.text[2]]
    BY <1>3, Fields DEF TakeSecond, BridgeControl, Shapes
  <2>2. cmd.state = "ready"
    BY <2>1 DEF BridgeControl, Control, Taking
  <2>3. core0'.text[1] = Len(author) /\ core0'.text[2] = Len(author) /\ Latest(Len(author))
    BY <1>1, <1>3, <2>1, <2>2 DEF Lines, Private, Latest
  <2>4. Latest(Len(author))'
    BY <1>1, <2>3 DEF Latest
  <2>. QED BY <1>1, <1>3, <2>1, <2>3, <2>4 DEF Lines, Private, Latest, Honest, Resetting, Copying
<1>4. CASE Claim
  <2>1. /\ core0.pc = "claim" /\ core0'.pc = "run" /\ core0'.text = core0.text
        /\ core0'.session = core0.session
        /\ cmd'.state = "in progress" /\ cmd'.text = cmd.text /\ cmd'.full = cmd.full
    BY <1>4, Fields DEF Claim, BridgeControl, Shapes
  <2>2. core0.session = session /\ cmd.state = "ready"
    BY <2>1 DEF BridgeControl, Control, Taking
  <2>3. Honest(core0.text, core0.session)'
    <3>1. /\ core0.text[1] = Len(author) /\ core0.text[2] = Len(author) /\ Len(author) \in Nat
          /\ Len(author) > 0 /\ author[Len(author)] = session
      <4>1. Len(author) \in Nat
        BY LinesLen
      <4>. QED BY <2>1, <4>1 DEF Lines, Private, Latest
    <3>2. Len(author) \in 1 .. Len(author)
      BY <3>1
    <3>. QED BY <1>1, <2>1, <2>2, <3>1, <3>2 DEF Honest
  <2>4. ~Copying
    BY <2>2 DEF BridgeControl, Control
  <2>. QED BY <1>1, <1>4, <2>1, <2>3, <2>4 DEF Lines, Private, Resetting, Copying
<1>5. CASE RunInline
  <2>1. cmd' = cmd /\ core0'.pc = "check"
    BY <1>5, Fields DEF RunInline, BridgeControl, Shapes
  <2>. QED BY <1>1, <2>1 DEF Lines, Private, Latest, Honest, Resetting, Copying
<1>6. CASE PublishRelease
  <2>1. /\ cmd'.state = "empty" /\ cmd'.text = cmd.text /\ cmd'.full = cmd.full
        /\ cmd'.session = cmd.session /\ core0'.pc = "idle"
    BY <1>6, Fields DEF PublishRelease, BridgeControl, Shapes, Core0Idle
  <2>. QED BY <1>1, <2>1 DEF Lines, Private, Latest, Honest, Resetting, Copying
<1>. QED BY <1>2, <1>3, <1>4, <1>5, <1>6
-----------------------------------------------------------------------------
(* No reply, no operation.                                                  *)
LEMMA RepliesInit == Init => Replies
BY DEF Init, Replies, Resetting, Publishing, NotDeferred, Core0Idle, RspClear, NoReplyCrosses, X!RepliesInSession

(* A step that leaves the replies, the operation and the history alone keeps Replies ... *)
LEMMA RepliesQuiet ==
  ASSUME Replies, UNCHANGED <<author, session, rsp, op, deferred, delivered>>,
         Resetting' <=> Resetting, core1' = "finish op" => core1 = "finish op",
         core0' = core0 \/ core0'.pc \notin {"check", "write", "ready", "release"}
  PROVE  Replies'
BY DEF Replies, Publishing, Honest, Latest, NoReplyCrosses, X!RepliesInSession

(* ... and these steps do.                                                  *)
LEMMA RepliesQuietSteps ==
  ASSUME Shapes,
         \/ \E on \in BOOLEAN : Subscribe(on)
         \/ Pump \/ (\E over \in BOOLEAN : WriteFragment(over))
         \/ RejectLine \/ AcceptLine \/ CopyFirst \/ CopySecond
         \/ TakeFirst \/ TakeSecond \/ Claim \/ PublishRelease
  PROVE  /\ UNCHANGED <<author, session, rsp, op, deferred, delivered>>
         /\ Resetting' <=> Resetting
         /\ core1' = "finish op" => core1 = "finish op"
         /\ core0' = core0 \/ core0'.pc \notin {"check", "write", "ready", "release"}
<1>1. CASE \/ \E on \in BOOLEAN : Subscribe(on)
           \/ Pump \/ (\E over \in BOOLEAN : WriteFragment(over)) \/ RejectLine
  BY <1>1 DEF Subscribe, Pump, WriteFragment, RejectLine, Resetting
<1>2. CASE AcceptLine \/ CopyFirst \/ CopySecond
  BY <1>2 DEF AcceptLine, CopyFirst, CopySecond, Writable, Resetting
<1>3. CASE TakeFirst
  <2>1. core0'.pc = "take second"
    BY <1>3 DEF TakeFirst
  <2>. QED BY <1>3, <2>1 DEF TakeFirst, Resetting
<1>5. CASE TakeSecond \/ Claim
  BY <1>5, Fields DEF TakeSecond, Claim, Shapes, Resetting
<1>4. CASE PublishRelease
  BY <1>4 DEF PublishRelease, Core0Idle, Resetting
<1>. QED BY <1>1, <1>2, <1>3, <1>4, <1>5

(* A deferred reply outlives its session without becoming the next one's.   *)
LEMMA ResetKeepsReplies ==
  ASSUME ~Meets, BridgeControl, Replies,
         BeginReset \/ ResetCommand \/ ResetResponse \/ ResetSession
  PROVE  Replies'
<1>1. CASE BeginReset \/ ResetCommand \/ ResetResponse
  <2>1. /\ Resetting' /\ core1' # "finish op"
        /\ UNCHANGED <<session, core0, author, op, deferred, delivered>>
    BY <1>1 DEF BeginReset, ResetCommand, ResetResponse, Resetting
  <2>2. core0.pc # "ready"
    BY <1>1 DEF BeginReset, ResetCommand, ResetResponse, Meets, InBridgeCall, Resetting,
         BridgeControl, Control
  <2>. QED BY <2>1, <2>2 DEF Replies, Publishing, Honest, NoReplyCrosses, X!RepliesInSession
<1>2. CASE ResetSession
  <2>1. /\ core1 = "reset session" /\ core1' = "idle" /\ session' = session + 1
        /\ UNCHANGED <<rsp, core0, author, op, deferred, delivered>>
    BY <1>2 DEF ResetSession
  <2>2. core0.pc # "ready" /\ rsp.state # "ready"
    BY <2>1 DEF BridgeControl, Control, InBridgeCall, Resetting
  <2>3. core0.session # session + 1 /\ deferred.session # session + 1
    BY DEF BridgeControl, Shapes
  <2>. QED BY <2>1, <2>2, <2>3 DEF Replies, Publishing, Honest, NoReplyCrosses, X!RepliesInSession
<1>. QED BY <1>1, <1>2

(* A line is accepted only when the current session awaits no reply.        *)
LEMMA CommitKeepsReplies ==
  ASSUME BridgeControl, Lines, Replies, Commit
  PROVE  Replies'
<1>1. /\ core1 = "commit" /\ core1' = "idle" /\ author' = Append(author, rx.from)
      /\ UNCHANGED <<session, core0, rsp, op, deferred, delivered>>
  BY DEF Commit
<1>2. ~Held /\ ~Publishing /\ rsp.state # "ready"
  BY <1>1 DEF BridgeControl, Control, Held, Copying, Resetting, Publishing
<1>3. /\ Len(author) \in Nat /\ Len(author') = Len(author) + 1
      /\ \A n \in 1 .. Len(author) : n \in 1 .. Len(author') /\ author'[n] = author[n]
  BY <1>1, LinesLen, Grown DEF Lines, Private
<1>4. deferred.active = TRUE => op.text = deferred.text /\ Honest(deferred.text, deferred.session)'
  BY <1>1, <1>2, <1>3 DEF Replies, Honest, Held
<1>5. core0.pc = "check" => Honest(core0.text, core0.session)'
  BY <1>1, <1>2, <1>3 DEF Replies, Honest, Held
<1>6. NoReplyCrosses'
  BY <1>1, <1>3 DEF Replies, NoReplyCrosses, X!RepliesInSession
<1>7. core0.pc # "ready" /\ ~Publishing'
  BY <1>1, <1>2 DEF Publishing
<1>. QED BY <1>1, <1>2, <1>4, <1>5, <1>6, <1>7 DEF Replies

(* What is delivered is the reply to the last line, of the current session. *)
LEMMA DeliverKeepsReplies ==
  ASSUME BridgeControl, Lines, Replies, \E sent \in BOOLEAN : CanSend(sent)
  PROVE  Replies'
<1>1. /\ core1 = "idle" /\ UNCHANGED <<session, core0, core1, author, op, deferred>>
  BY DEF CanSend
<1>2. \/ UNCHANGED <<rsp, delivered>>
      \/ /\ rsp.state = "ready" /\ rsp'.text = rsp.text
         /\ delivered' = delivered \/ delivered' = delivered \cup {<<Whole(rsp.text), session>>}
  <2>1. \/ UNCHANGED <<rsp, delivered>>
        \/ /\ rsp.state = "ready" /\ rsp' = Consumed
           /\ delivered' = delivered \/ delivered' = delivered \cup {<<Whole(rsp.text), session>>}
    BY DEF CanSend, ResponsePending
  <2>2. Consumed.text = rsp.text
    BY Fields DEF Consumed, BridgeControl, Shapes
  <2>. QED BY <2>1, <2>2
<1>3. CASE UNCHANGED <<rsp, delivered>>
  BY <1>1, <1>3 DEF Replies, Publishing, Honest, Latest, Resetting, NoReplyCrosses,
       X!RepliesInSession
<1>4. CASE /\ rsp.state = "ready" /\ rsp'.text = rsp.text
           /\ delivered' = delivered \/ delivered' = delivered \cup {<<Whole(rsp.text), session>>}
  <2>1. Latest(rsp.text[1]) /\ rsp.text[1] = rsp.text[2]
    BY <1>1, <1>4 DEF Replies, Resetting
  <2>2. Whole(rsp.text) \in 1 .. Len(author) /\ author[Whole(rsp.text)] = session
    BY <2>1, LinesLen DEF Latest, Whole
  <2>3. NoReplyCrosses'
    BY <1>1, <1>4, <2>2 DEF Replies, NoReplyCrosses, X!RepliesInSession
  <2>4. Latest(rsp.text[1])' /\ rsp'.text[1] = rsp'.text[2]
    BY <1>1, <1>4, <2>1 DEF Latest
  <2>. QED BY <1>1, <2>3, <2>4 DEF Replies, Publishing, Honest, Resetting
<1>. QED BY <1>2, <1>3, <1>4

(* Core 1 answers the operation core 0 asked for.                           *)
LEMMA OperationKeepsReplies ==
  ASSUME BridgeControl, Replies, RunOp \/ FinishOp
  PROVE  Replies'
<1>1. UNCHANGED <<session, core0, author, rsp, deferred, delivered>> /\ (Resetting' <=> Resetting)
  BY DEF RunOp, FinishOp, Resetting
<1>2. CASE RunOp
  <2>1. /\ op.pending = TRUE /\ op'.pending = FALSE /\ op'.result = op.text /\ op'.text = op.text
        /\ op'.done = op.done
    BY <1>2 DEF RunOp, BridgeControl, Shapes
  <2>. QED BY <1>1, <2>1 DEF Replies, Publishing, Honest, Latest, NoReplyCrosses,
       X!RepliesInSession
<1>3. CASE FinishOp
  <2>1. /\ core1 = "finish op" /\ core1' = "idle"
        /\ op'.done = TRUE /\ op'.pending = op.pending /\ op'.result = op.result /\ op'.text = op.text
    BY <1>3 DEF FinishOp, BridgeControl, Shapes
  <2>. QED BY <1>1, <2>1 DEF Replies, Publishing, Honest, Latest, NoReplyCrosses,
       X!RepliesInSession
<1>. QED BY <1>2, <1>3

(* Core 0 composes every reply from the command it took; taking the result  *)
(* of an operation that is still pending would be a race.                   *)
LEMMA Core0KeepsReplies ==
  ASSUME ~Meets, BridgeControl, Lines, Replies, op.pending \in BOOLEAN,
         \/ AbandonDeferred \/ (\E timeout \in BOOLEAN : ReplyDeferred(timeout))
         \/ RunInline \/ RunDeferred \/ PublishCheck \/ PublishWrite \/ PublishReady
  PROVE  Replies'
<1>1. UNCHANGED <<session, core1, author, delivered>>
  BY DEF AbandonDeferred, ReplyDeferred, RunInline, RunDeferred, PublishCheck, PublishWrite,
       PublishReady
<1>2. NoReplyCrosses' /\ (Resetting' <=> Resetting)
  BY <1>1 DEF Replies, NoReplyCrosses, X!RepliesInSession, Resetting
<1>3. CASE AbandonDeferred
  <2>1. UNCHANGED <<core0, rsp, op>> /\ deferred'.active = FALSE
    BY <1>3 DEF AbandonDeferred, NotDeferred
  <2>. QED BY <1>1, <1>2, <2>1 DEF Replies, Publishing, Honest, Latest
<1>4. CASE \E timeout \in BOOLEAN : ReplyDeferred(timeout)
  <2>1. PICK timeout \in BOOLEAN : ReplyDeferred(timeout)
    BY <1>4
  <2>2. /\ deferred.active = TRUE /\ UNCHANGED <<rsp, op>> /\ deferred'.active = FALSE
        /\ core0'.pc = "check" /\ core0'.session = deferred.session
        /\ core0'.text = IF timeout THEN deferred.text ELSE op.result
    BY <2>1, Fields DEF ReplyDeferred, NotDeferred, BridgeControl, Shapes
  <2>3. timeout = FALSE => op.pending = FALSE
    BY <2>1, <2>2 DEF ReplyDeferred, Meets
  <2>4. core0'.text = deferred.text
    BY <2>2, <2>3 DEF Replies
  <2>5. Honest(core0.text, core0.session)'
    BY <1>1, <1>2, <2>2, <2>4 DEF Replies, Honest
  <2>. QED BY <1>1, <1>2, <2>2, <2>5 DEF Replies, Publishing, Latest
<1>5. CASE RunInline
  <2>1. /\ UNCHANGED <<rsp, op, deferred>> /\ core0.pc = "run" /\ core0'.pc = "check"
        /\ core0'.text = core0.text /\ core0'.session = core0.session
    BY <1>5, Fields DEF RunInline, BridgeControl, Shapes
  <2>2. Honest(core0.text, core0.session)'
    BY <1>1, <1>2, <2>1 DEF Lines, Private, Honest
  <2>. QED BY <1>1, <1>2, <2>1, <2>2 DEF Replies, Publishing, Latest, Honest
<1>6. CASE RunDeferred
  <2>1. /\ core0.pc = "run" /\ core0'.pc = "idle" /\ rsp' = rsp
        /\ deferred'.session = core0.session /\ deferred'.text = core0.text
    BY <1>6 DEF RunDeferred, Core0Idle
  <2>2. op'.pending = TRUE /\ op'.done = FALSE /\ op'.text = core0.text
    BY <1>6 DEF RunDeferred, BridgeControl, Shapes
  <2>3. Honest(deferred.text, deferred.session)'
    BY <1>1, <1>2, <2>1 DEF Lines, Private, Honest
  <2>. QED BY <1>1, <1>2, <2>1, <2>2, <2>3 DEF Replies, Publishing, Latest
<1>7. CASE PublishCheck
  <2>1. /\ core0.pc = "check" /\ UNCHANGED <<rsp, op, deferred>>
        /\ \/ core0'.pc = "write" /\ core0'.text = core0.text /\ core0'.session = core0.session
           \/ core0'.pc = "idle"
    BY <1>7, Fields DEF PublishCheck, Core0Idle, BridgeControl, Shapes
  <2>. QED BY <1>1, <1>2, <2>1 DEF Replies, Publishing, Honest, Latest
<1>8. CASE PublishWrite
  <2>1. /\ core0.pc = "write" /\ core0'.pc = "ready" /\ UNCHANGED <<op, deferred>>
        /\ core0'.text = core0.text /\ core0'.session = core0.session
        /\ rsp'.text = core0.text
    BY <1>8, Fields DEF PublishWrite, BridgeControl, Shapes
  <2>2. core0.session = session
    BY <2>1 DEF BridgeControl, Control, Publishing
  <2>3. Latest(rsp.text[1])' /\ rsp'.text[1] = rsp'.text[2]
    <3>1. Honest(core0.text, session) /\ ~Resetting
      BY <1>8, <2>1, <2>2, CallsApart DEF Replies, Publishing, BridgeControl
    <3>2. /\ core0.text[1] = core0.text[2] /\ core0.text[1] = Len(author) /\ author[Len(author)] = session
          /\ Len(author) \in 1 .. Len(author)
      BY <1>1, <3>1 DEF Honest
    <3>3. Len(author) > 0
      BY <3>2, LinesLen
    <3>. QED BY <1>1, <2>1, <3>2, <3>3 DEF Latest
  <2>4. Honest(core0.text, core0.session)'
    BY <1>1, <1>2, <2>1 DEF Replies, Publishing, Honest
  <2>. QED BY <1>1, <1>2, <2>1, <2>3, <2>4 DEF Replies, Publishing, Honest
<1>9. CASE PublishReady
  <2>1. /\ core0.pc = "ready" /\ core0'.pc = "release" /\ UNCHANGED <<op, deferred>>
        /\ core0'.text = core0.text /\ core0'.session = core0.session
        /\ rsp'.text = rsp.text
    BY <1>9, Fields DEF PublishReady, BridgeControl, Shapes
  <2>. QED BY <1>1, <1>2, <2>1 DEF Replies, Publishing, Honest, Latest
<1>. QED BY <1>3, <1>4, <1>5, <1>6, <1>7, <1>8, <1>9
-----------------------------------------------------------------------------
(* Every event of the link ends in a reset of the session.                  *)
LEMMA LinkSteps ==
  ASSUME EnableService \/ DisableService \/ Connect \/ Disconnect \/ TransientReset
  PROVE  BeginReset
BY DEF EnableService, DisableService, Connect, Disconnect, TransientReset

(* A step that changes nothing keeps everything.                            *)
LEMMA StutterKeeps ==
  ASSUME UNCHANGED vars
  PROVE  (BridgeControl => BridgeControl') /\ (Lines => Lines') /\ (Replies => Replies')
BY DEF vars, BridgeControl, Shapes, Control, Held, Taking, Publishing, Copying, Resetting,
       InBridgeCall, Lines, Private, Latest, Honest, Replies, NoReplyCrosses, X!RepliesInSession

(* Every step keeps the control part ...                                    *)
LEMMA ControlNext ==
  ASSUME ~Meets, BridgeControl, Step \/ UNCHANGED vars
  PROVE  BridgeControl'
<1>1. CASE UNCHANGED vars
  BY <1>1, StutterKeeps
<1>2. CASE Core0Step
  BY <1>2, Core0KeepsShapes, Core0KeepsControl DEF BridgeControl
<1>3. CASE Core1Step
  BY <1>3, ResetKeepsControl, Core1KeepsControl DEF Core1Step
<1>4. CASE EnableService \/ DisableService \/ Connect \/ Disconnect \/ TransientReset
  BY <1>4, LinkSteps, ResetKeepsControl
<1>5. CASE \/ RunOp \/ Pump \/ (\E sent \in BOOLEAN : CanSend(sent))
           \/ (\E on \in BOOLEAN : Subscribe(on)) \/ (\E over \in BOOLEAN : WriteFragment(over))
           \/ RejectLine \/ AcceptLine
  BY <1>5, Core1KeepsControl
<1>. QED BY <1>1, <1>2, <1>3, <1>4, <1>5 DEF Step

(* ... the lines ...                                                        *)
LEMMA LinesNext ==
  ASSUME ~Meets, BridgeControl, Lines, Step \/ UNCHANGED vars
  PROVE  Lines'
<1>. Shapes
  BY DEF BridgeControl
<1>1. CASE UNCHANGED vars
  BY <1>1, StutterKeeps
<1>2. CASE Core0Step
  <2>1. CASE TakeFirst \/ TakeSecond \/ Claim \/ RunInline \/ PublishRelease
    BY <2>1, TakeKeepsLines
  <2>2. CASE \/ AbandonDeferred \/ (\E timeout \in BOOLEAN : ReplyDeferred(timeout))
             \/ RunDeferred \/ PublishCheck \/ PublishWrite \/ PublishReady
    BY <2>2, QuietSteps, LinesQuiet
  <2>. QED BY <1>2, <2>1, <2>2 DEF Core0Step
<1>3. CASE Core1Step
  <2>1. CASE ResetCommand \/ ResetResponse \/ ResetSession
    BY <2>1, ResetKeepsLines
  <2>2. CASE CopyFirst \/ CopySecond \/ Commit
    BY <2>2, CopyKeepsLines
  <2>3. CASE FinishOp
    BY <2>3, QuietSteps, LinesQuiet
  <2>. QED BY <1>3, <2>1, <2>2, <2>3 DEF Core1Step
<1>4. CASE EnableService \/ DisableService \/ Connect \/ Disconnect \/ TransientReset
  BY <1>4, LinkSteps, ResetKeepsLines
<1>5. CASE RunOp \/ Pump \/ (\E sent \in BOOLEAN : CanSend(sent)) \/ (\E on \in BOOLEAN : Subscribe(on))
  BY <1>5, QuietSteps, LinesQuiet
<1>6. CASE (\E over \in BOOLEAN : WriteFragment(over)) \/ RejectLine \/ AcceptLine
  BY <1>6, CopyKeepsLines
<1>. QED BY <1>1, <1>2, <1>3, <1>4, <1>5, <1>6 DEF Step

(* ... and the replies.                                                     *)
LEMMA RepliesNext ==
  ASSUME ~Meets, BridgeControl, Lines, Replies, op.pending \in BOOLEAN, Step \/ UNCHANGED vars
  PROVE  Replies'
<1>. Shapes
  BY DEF BridgeControl
<1>1. CASE UNCHANGED vars
  BY <1>1, StutterKeeps
<1>2. CASE Core0Step
  <2>1. CASE TakeFirst \/ TakeSecond \/ Claim \/ PublishRelease
    BY <2>1, RepliesQuietSteps, RepliesQuiet
  <2>2. CASE \/ AbandonDeferred \/ (\E timeout \in BOOLEAN : ReplyDeferred(timeout))
             \/ RunInline \/ RunDeferred \/ PublishCheck \/ PublishWrite \/ PublishReady
    BY <2>2, Core0KeepsReplies
  <2>. QED BY <1>2, <2>1, <2>2 DEF Core0Step
<1>3. CASE Core1Step
  <2>1. CASE ResetCommand \/ ResetResponse \/ ResetSession
    BY <2>1, ResetKeepsReplies
  <2>2. CASE CopyFirst \/ CopySecond
    BY <2>2, RepliesQuietSteps, RepliesQuiet
  <2>3. CASE Commit
    BY <2>3, CommitKeepsReplies
  <2>4. CASE FinishOp
    BY <2>4, OperationKeepsReplies
  <2>. QED BY <1>3, <2>1, <2>2, <2>3, <2>4 DEF Core1Step
<1>4. CASE EnableService \/ DisableService \/ Connect \/ Disconnect \/ TransientReset
  BY <1>4, LinkSteps, ResetKeepsReplies
<1>5. CASE \/ Pump \/ (\E on \in BOOLEAN : Subscribe(on)) \/ (\E over \in BOOLEAN : WriteFragment(over))
           \/ RejectLine \/ AcceptLine
  BY <1>5, RepliesQuietSteps, RepliesQuiet
<1>6. CASE \E sent \in BOOLEAN : CanSend(sent)
  BY <1>6, DeliverKeepsReplies
<1>7. CASE RunOp
  BY <1>7, OperationKeepsReplies
<1>. QED BY <1>1, <1>2, <1>3, <1>4, <1>5, <1>6, <1>7 DEF Step

(* What holds in a race too: what either core keeps to itself.              *)
Local ==
  /\ deferred.active = TRUE => core0.pc = "idle" /\ op.text = deferred.text
  /\ op.pending \in BOOLEAN
  /\ op.pending = FALSE => op.result = op.text
Base == Shapes /\ Private /\ Local /\ NoReplyCrosses

(* What holds outside a race, and while a reset mends one: core 0 waits     *)
(* between two commands, and the slots are emptied one after the other.     *)
Clear == Control /\ Lines /\ Replies
Mending ==
  race = "mending" =>
    /\ Resetting /\ core0.pc = "idle" /\ deferred.active # TRUE
    /\ core1 \in {"reset response", "reset session"} => cmd.state = "empty"
    /\ core1 = "reset session" => rsp.state = "empty"

(* The inductive invariant.                                                 *)
BridgeInv == Base /\ (race = "none" => Clear) /\ Mending

(* It holds when both cores start.                                          *)
LEMMA BridgeInit == Init => BridgeInv
<1>. SUFFICES ASSUME Init PROVE BridgeInv
  OBVIOUS
<1>1. Control /\ Shapes /\ Lines /\ Replies
  BY ControlInit, LinesInit, RepliesInit DEF BridgeControl
<1>2. Local /\ race = "none"
  BY DEF Init, Local, NotDeferred
<1>. QED BY <1>1, <1>2 DEF BridgeInv, Base, Clear, Mending, Lines, Replies

(* The steps of core 1, a reset first.                                      *)
Link == EnableService \/ DisableService \/ Connect \/ Disconnect \/ TransientReset
Receiving ==
  \/ \E on \in BOOLEAN : Subscribe(on)
  \/ \E over \in BOOLEAN : WriteFragment(over)
  \/ RejectLine \/ AcceptLine \/ CopyFirst \/ CopySecond \/ Commit
Sending == Pump \/ (\E sent \in BOOLEAN : CanSend(sent)) \/ RunOp \/ FinishOp
LEMMA StepKinds ==
  ASSUME Step
  PROVE  Core0Step \/ BeginReset \/ ResetCommand \/ ResetResponse \/ ResetSession \/ Receiving
         \/ Sending
BY LinkSteps DEF Step, Core1Step, Link, Receiving, Sending

(* A step of core 0 leaves everything of core 1 alone.                      *)
LEMMA Core0LeavesPrivate ==
  ASSUME Shapes, Core0Step
  PROVE  /\ UNCHANGED <<session, rx, core1, author, delivered>>
         /\ cmd'.text = cmd.text /\ cmd'.full = cmd.full /\ cmd'.session = cmd.session
<1>1. CASE AbandonDeferred \/ TakeFirst \/ TakeSecond \/ RunInline \/ RunDeferred
  BY <1>1 DEF AbandonDeferred, TakeFirst, TakeSecond, RunInline, RunDeferred
<1>2. CASE \E timeout \in BOOLEAN : ReplyDeferred(timeout)
  BY <1>2 DEF ReplyDeferred
<1>3. CASE PublishCheck \/ PublishWrite \/ PublishReady
  BY <1>3 DEF PublishCheck, PublishWrite, PublishReady
<1>4. CASE Claim \/ PublishRelease
  BY <1>4, Fields DEF Claim, PublishRelease, Shapes
<1>. QED BY <1>1, <1>2, <1>3, <1>4 DEF Core0Step

(* What core 1 does keeps the shapes ...                                    *)
LEMMA Core1KeepsShapes ==
  ASSUME Shapes,
         BeginReset \/ ResetCommand \/ ResetResponse \/ ResetSession \/ Receiving \/ Sending
  PROVE  Shapes'
<1>. USE Fields, BoundAssumption DEF Shapes
<1>1. CASE BeginReset
  BY <1>1 DEF BeginReset
<1>2. CASE ResetCommand \/ ResetResponse
  BY <1>2 DEF ResetCommand, ResetResponse
<1>3. CASE ResetSession
  <2>1. session' = session + 1 /\ UNCHANGED <<rx, cmd, rsp, core0, deferred, op>>
    BY <1>3 DEF ResetSession
  <2>2. /\ session' \in Nat /\ core0'.session <= session' /\ deferred'.session <= session'
        /\ cmd'.session <= session'
    BY <2>1
  <2>. QED BY <2>1, <2>2
<1>4. CASE Receiving
  <2>1. UNCHANGED <<session, rsp, core0, deferred, op>>
    BY <1>4 DEF Receiving, Subscribe, WriteFragment, RejectLine, AcceptLine, CopyFirst, CopySecond,
         Commit
  <2>2. DOMAIN rx' = DOMAIN RxClear
    BY <1>4 DEF Receiving, Subscribe, WriteFragment, RejectLine, AcceptLine, CopyFirst, CopySecond,
         Commit
  <2>3. DOMAIN cmd' = DOMAIN CmdClear /\ (cmd'.session = cmd.session \/ cmd'.session = session)
    <3>1. CASE \/ (\E on \in BOOLEAN : Subscribe(on)) \/ (\E over \in BOOLEAN : WriteFragment(over))
               \/ RejectLine \/ AcceptLine
      BY <3>1 DEF Subscribe, WriteFragment, RejectLine, AcceptLine
    <3>2. CASE CopyFirst
      BY <3>2 DEF CopyFirst
    <3>3. CASE CopySecond
      BY <3>3 DEF CopySecond
    <3>4. CASE Commit
      BY <3>4 DEF Commit
    <3>. QED BY <1>4, <3>1, <3>2, <3>3, <3>4 DEF Receiving
  <2>. QED BY <2>1, <2>2, <2>3
<1>5. CASE Sending
  <2>1. UNCHANGED <<session, cmd, rx, core0, deferred>>
    BY <1>5 DEF Sending, Pump, CanSend, RunOp, FinishOp
  <2>2. DOMAIN op' = {"pending", "done", "text", "result"}
    BY <1>5 DEF Sending, Pump, CanSend, RunOp, FinishOp
  <2>3. DOMAIN rsp' = DOMAIN RspClear /\ rsp'.state \in {"empty", "ready"} /\ rsp'.left \in Nat
    <3>1. CASE rsp' = rsp
      BY <3>1
    <3>2. CASE \E sent \in BOOLEAN : CanSend(sent)
      <4>1. rsp' = rsp \/ (rsp' = Consumed /\ rsp.left > 0)
        BY <3>2 DEF CanSend, ResponsePending
      <4>2. CASE rsp' = Consumed /\ rsp.left > 0 /\ rsp.left = 1
        BY <4>2 DEF Consumed
      <4>3. CASE rsp' = Consumed /\ rsp.left > 0 /\ rsp.left # 1
        BY <4>3 DEF Consumed
      <4>. QED BY <3>1, <4>1, <4>2, <4>3
    <3>. QED BY <1>5, <3>1, <3>2 DEF Sending, Pump, RunOp, FinishOp
  <2>. QED BY <2>1, <2>2, <2>3
<1>. QED BY <1>1, <1>2, <1>3, <1>4, <1>5

(* The lines accepted form a sequence.                                      *)
LEMMA PrivateLen == ASSUME Private PROVE author \in Seq(Nat) /\ Len(author) \in Nat
<1>1. author \in Seq(Nat)
  BY DEF Private
<1>. QED BY <1>1

(* ... and what it keeps to itself.                                         *)
LEMMA Core1KeepsPrivate ==
  ASSUME Shapes, Private,
         BeginReset \/ ResetCommand \/ ResetResponse \/ ResetSession \/ Receiving \/ Sending
  PROVE  Private'
<1>. USE DEF Private, Resetting, Copying
<1>0. author \in Seq(Nat) /\ Len(author) \in Nat
  BY PrivateLen
<1>1. CASE BeginReset
  <2>1. /\ rx'.held = FALSE /\ rx'.from = 0 /\ core1' = "reset command" /\ cmd'.text = cmd.text
        /\ UNCHANGED author
    BY <1>1, Fields DEF BeginReset, RxClear, Shapes
  <2>2. rx'.from \in Nat
    <3>1. 0 \in Nat
      OBVIOUS
    <3>. QED BY <2>1, <3>1
  <2>3. author' \in Seq(Nat)
    BY <1>0, <2>1
  <2>4. DOMAIN cmd'.text = {1, 2}
    <3>1. DOMAIN cmd.text = {1, 2}
      OBVIOUS
    <3>. QED BY <2>1, <3>1
  <2>. QED BY <2>1, <2>2, <2>3, <2>4
<1>2. CASE ResetCommand \/ ResetResponse
  <2>1. /\ core1 \in {"reset command", "reset response"}
        /\ core1' \in {"reset response", "reset session"} /\ cmd'.text = cmd.text
        /\ UNCHANGED <<author, rx>>
    BY <1>2, Fields DEF ResetCommand, ResetResponse, Shapes
  <2>. QED BY <2>1
<1>3. CASE ResetSession
  BY <1>3 DEF ResetSession
<1>4. CASE \/ (\E on \in BOOLEAN : Subscribe(on)) \/ Sending
  <2>1. /\ UNCHANGED <<author, rx, cmd, session>>
        /\ core1' = core1 \/ {core1, core1'} \subseteq {"idle", "finish op"}
    BY <1>4 DEF Subscribe, Sending, Pump, CanSend, RunOp, FinishOp
  <2>. QED BY <2>1
<1>5. CASE \E over \in BOOLEAN : WriteFragment(over)
  <2>1. /\ core1 = "idle" /\ UNCHANGED <<session, cmd, core1, author>>
        /\ rx'.from = session \/ (rx'.from = rx.from /\ rx.held = TRUE)
    BY <1>5 DEF WriteFragment, Writable
  <2>. QED BY <2>1 DEF Shapes
<1>6. CASE RejectLine \/ AcceptLine
  <2>1. /\ core1 = "idle" /\ core1' \in {"idle", "copy first"} /\ UNCHANGED <<session, cmd, author>>
        /\ rx.held /\ (rx' = rx \/ (rx' = RxClear /\ core1' = "idle"))
    BY <1>6 DEF RejectLine, AcceptLine, Writable
  <2>2. CASE rx' = rx
    BY <2>1, <2>2
  <2>3. CASE rx' = RxClear /\ core1' = "idle"
    <3>1. rx'.from \in Nat /\ rx'.held = FALSE
      BY <2>3 DEF RxClear
    <3>. QED BY <2>1, <2>3, <3>1
  <2>. QED BY <2>1, <2>2, <2>3
<1>7. CASE CopyFirst
  <2>1. /\ core1 = "copy first" /\ core1' = "copy second" /\ UNCHANGED <<session, rx, author>>
        /\ cmd'.text = [cmd.text EXCEPT ![1] = Len(author) + 1]
    BY <1>7, Fields DEF CopyFirst, Shapes
  <2>. QED BY <2>1
<1>8. CASE CopySecond
  <2>1. /\ core1 = "copy second" /\ core1' = "commit" /\ UNCHANGED <<session, rx, author>>
        /\ cmd'.text = [cmd.text EXCEPT ![2] = Len(author) + 1]
        /\ cmd'.full = TRUE /\ cmd'.session = session
    BY <1>8, Fields DEF CopySecond, Shapes
  <2>. QED BY <2>1
<1>9. CASE Commit
  <2>1. /\ core1' = "idle" /\ rx' = RxClear /\ cmd'.text = cmd.text
        /\ author' = Append(author, rx.from)
    BY <1>9, Fields DEF Commit, Shapes
  <2>. QED BY <2>1, Grown DEF RxClear
<1>. QED BY <1>1, <1>2, <1>3, <1>4, <1>5, <1>6, <1>7, <1>8, <1>9 DEF Receiving

(* The deferred reply and the operation it waits for.                       *)
LEMMA LocalNext ==
  ASSUME Shapes, Local, Step
  PROVE  Local'
<1>. USE DEF Local
<1>1. CASE UNCHANGED <<core0, deferred, op>>
  BY <1>1
<1>2. CASE RunOp \/ FinishOp
  BY <1>2 DEF RunOp, FinishOp, Shapes
<1>3. CASE AbandonDeferred
  BY <1>3 DEF AbandonDeferred, NotDeferred
<1>4. CASE \E timeout \in BOOLEAN : ReplyDeferred(timeout)
  BY <1>4 DEF ReplyDeferred, NotDeferred
<1>5. CASE RunDeferred
  BY <1>5 DEF RunDeferred, Core0Idle, Shapes
<1>6. CASE TakeFirst
  <2>1. deferred.active # TRUE /\ UNCHANGED <<deferred, op>>
    BY <1>6 DEF TakeFirst
  <2>. QED BY <2>1
<1>7. CASE \/ TakeSecond \/ Claim \/ RunInline \/ PublishCheck \/ PublishWrite \/ PublishReady
           \/ PublishRelease
  <2>1. core0.pc # "idle" /\ UNCHANGED <<deferred, op>>
    BY <1>7 DEF TakeSecond, Claim, RunInline, PublishCheck, PublishWrite, PublishReady,
         PublishRelease
  <2>. QED BY <2>1
<1>8. CASE BeginReset \/ ResetCommand \/ ResetResponse \/ ResetSession \/ Receiving
  BY <1>1, <1>8 DEF BeginReset, ResetCommand, ResetResponse, ResetSession, Receiving, Subscribe,
       WriteFragment, RejectLine, AcceptLine, CopyFirst, CopySecond, Commit
<1>9. CASE Pump \/ \E sent \in BOOLEAN : CanSend(sent)
  BY <1>1, <1>9 DEF Pump, CanSend
<1>. QED BY <1>2, <1>3, <1>4, <1>5, <1>6, <1>7, <1>8, <1>9, StepKinds DEF Core0Step, Sending

(* What counts as delivered was delivered outside a race.                   *)
LEMMA DeliveredNext ==
  ASSUME BridgeInv, Step
  PROVE  NoReplyCrosses'
<1>. Shapes /\ Private /\ NoReplyCrosses
  BY DEF BridgeInv, Base
<1>1. CASE UNCHANGED <<author, delivered>>
  BY <1>1 DEF NoReplyCrosses, X!RepliesInSession
<1>2. CASE Commit
  <2>1. author' = Append(author, rx.from) /\ delivered' = delivered
    BY <1>2 DEF Commit
  <2>2. \A n \in 1 .. Len(author) : n \in 1 .. Len(author') /\ author'[n] = author[n]
    BY <2>1, Grown DEF Private
  <2>. QED BY <2>1, <2>2 DEF NoReplyCrosses, X!RepliesInSession
<1>3. CASE \E sent \in BOOLEAN : CanSend(sent)
  <2>1. (delivered' = delivered /\ author' = author) \/ race = "none"
    BY <1>3 DEF CanSend
  <2>2. CASE race = "none"
    <3>1. BridgeControl /\ Lines /\ Replies
      BY <2>2 DEF BridgeInv, Base, Clear, BridgeControl
    <3>2. Replies'
      BY <1>3, <3>1, DeliverKeepsReplies
    <3>. QED BY <3>2 DEF Replies
  <2>. QED BY <1>1, <2>1, <2>2
<1>4. CASE Core0Step
  BY <1>1, <1>4, Core0LeavesPrivate
<1>5. CASE \/ BeginReset \/ ResetCommand \/ ResetResponse \/ ResetSession \/ Pump \/ RunOp
           \/ FinishOp
  BY <1>1, <1>5 DEF BeginReset, ResetCommand, ResetResponse, ResetSession, Pump, RunOp, FinishOp
<1>6. CASE Receiving
  BY <1>1, <1>2, <1>6 DEF Receiving, Subscribe, WriteFragment, RejectLine, AcceptLine, CopyFirst,
       CopySecond
<1>. QED BY <1>3, <1>4, <1>5, <1>6, StepKinds DEF Sending

(* All of that, whatever the cores do.                                      *)
LEMMA BaseNext ==
  ASSUME BridgeInv, Step
  PROVE  Base'
<1>1. Shapes /\ Private /\ Local
  BY DEF BridgeInv, Base
<1>2. Shapes'
  BY <1>1, StepKinds, Core0KeepsShapes, Core1KeepsShapes
<1>3. CASE Core0Step
  <2>1. Private'
    BY <1>1, <1>3, Core0LeavesPrivate DEF Private, Resetting, Copying
  <2>. QED BY <1>1, <1>2, <2>1, LocalNext, DeliveredNext DEF Base
<1>4. CASE ~Core0Step
  <2>1. Private'
    BY <1>1, <1>4, StepKinds, Core1KeepsPrivate
  <2>. QED BY <1>1, <1>2, <2>1, LocalNext, DeliveredNext DEF Base
<1>. QED BY <1>3, <1>4

(* A reset begins, goes on or ends by its own steps.                        *)
LEMMA ResetByStep ==
  ASSUME Step
  PROVE  /\ ~Resetting /\ Resetting' => BeginReset
         /\ Resetting /\ Resetting' => Core0Step \/ ResetCommand \/ ResetResponse
         /\ Resetting /\ ~Resetting' => ResetSession
<1>. USE DEF Resetting
<1>1. CASE Core0Step
  <2>1. core1' = core1
    BY <1>1 DEF Core0Step, AbandonDeferred, ReplyDeferred, TakeFirst, TakeSecond, Claim, RunInline,
         RunDeferred, PublishCheck, PublishWrite, PublishReady, PublishRelease
  <2>. QED BY <1>1, <2>1
<1>2. CASE BeginReset \/ ResetCommand \/ ResetResponse \/ ResetSession
  BY <1>2 DEF BeginReset, ResetCommand, ResetResponse, ResetSession
<1>3. CASE Receiving
  BY <1>3 DEF Receiving, Writable, Subscribe, WriteFragment, RejectLine, AcceptLine, CopyFirst,
       CopySecond, Commit
<1>4. CASE Sending
  BY <1>4 DEF Sending, Pump, CanSend, RunOp, FinishOp
<1>. QED BY <1>1, <1>2, <1>3, <1>4, StepKinds

(* A mending reset either meets a call of core 0 or goes on.                *)
LEMMA MendingNext ==
  ASSUME Shapes, Mending, Step, Watched
  PROVE  Mending'
<1>. SUFFICES ASSUME race' = "mending" PROVE Mending'
  BY DEF Mending
<1>1. /\ ~Meets /\ Resetting'
      /\ \/ race = "mending"
         \/ /\ race = "met" /\ core1 = "idle" /\ core0.pc = "idle" /\ deferred.active # TRUE
  BY DEF Watched, Mending
<1>2. CASE race = "met" /\ core1 = "idle" /\ core0.pc = "idle" /\ deferred.active # TRUE
  <2>1. BeginReset
    BY <1>1, <1>2, ResetByStep DEF Resetting
  <2>2. core1' = "reset command" /\ UNCHANGED <<core0, deferred>>
    BY <2>1 DEF BeginReset
  <2>. QED BY <1>2, <2>2 DEF Mending, Resetting
<1>3. CASE race = "mending"
  <2>1. Resetting /\ core0.pc = "idle" /\ deferred.active # TRUE
    BY <1>3 DEF Mending
  <2>2. CASE ResetCommand
    BY <1>3, <2>1, <2>2, Fields DEF Mending, ResetCommand, Resetting, Shapes
  <2>3. CASE ResetResponse
    BY <1>3, <2>1, <2>3, Fields DEF Mending, ResetResponse, Resetting, Shapes
  <2>4. ~Core0Step
    <3>1. ~TakeFirst
      <4>1. ASSUME TakeFirst PROVE FALSE
        BY <1>1, <4>1 DEF TakeFirst, Meets, InBridgeCall
      <4>. QED BY <4>1
    <3>. QED BY <2>1, <3>1 DEF Core0Step, AbandonDeferred, ReplyDeferred, TakeSecond, Claim, RunInline,
           RunDeferred, PublishCheck, PublishWrite, PublishReady, PublishRelease
  <2>. QED BY <1>1, <2>1, <2>2, <2>3, <2>4, ResetByStep
<1>. QED BY <1>1, <1>2, <1>3

(* A reset that met no call of core 0 leaves everything as a new session    *)
(* expects it.                                                              *)
LEMMA Mended ==
  ASSUME BridgeInv, Base', Step, race = "mending", ~Resetting'
  PROVE  Clear'
<1>1. /\ Resetting /\ core0.pc = "idle" /\ deferred.active # TRUE
  BY DEF BridgeInv, Mending
<1>2. ResetSession
  BY <1>1, ResetByStep
<1>3. /\ core1 = "reset session" /\ core1' = "idle" /\ UNCHANGED <<cmd, rsp, core0, deferred, op>>
  BY <1>2 DEF ResetSession
<1>4. cmd.state = "empty" /\ rsp.state = "empty"
  BY <1>3 DEF BridgeInv, Mending
<1>5. Control'
  BY <1>1, <1>3, <1>4 DEF Control, Held, Taking, Publishing, Copying, Resetting, InBridgeCall
<1>6. Lines'
  BY <1>1, <1>3, <1>4 DEF Lines, Base
<1>7. Replies'
  BY <1>1, <1>3, <1>4 DEF Replies, Publishing, Base, Local
<1>. QED BY <1>5, <1>6, <1>7 DEF Clear

(* The invariant is kept by every step.                                     *)
LEMMA BridgeNext == BridgeInv /\ [Next]_vars => BridgeInv'
<1>. SUFFICES ASSUME BridgeInv, [Next]_vars PROVE BridgeInv'
  OBVIOUS
<1>1. CASE Step /\ Watched
  <2>1. Base' /\ Mending'
    BY <1>1, BaseNext, MendingNext DEF BridgeInv, Base
  <2>2. ASSUME race' = "none" PROVE Clear'
    <3>1. ~Meets /\ (race = "none" \/ (race = "mending" /\ ~Resetting'))
      BY <1>1, <2>2 DEF Watched
    <3>2. CASE race = "mending" /\ ~Resetting'
      BY <1>1, <2>1, <3>2, Mended
    <3>3. CASE race = "none"
      <4>1. BridgeControl /\ Lines /\ Replies /\ op.pending \in BOOLEAN
        BY <3>3 DEF BridgeInv, Base, Clear, BridgeControl, Local
      <4>. QED BY <1>1, <3>1, <4>1, ControlNext, LinesNext, RepliesNext DEF Clear, BridgeControl
    <3>. QED BY <3>1, <3>2, <3>3
  <2>. QED BY <2>1, <2>2 DEF BridgeInv
<1>2. CASE UNCHANGED vars
  <2>1. UNCHANGED <<session, rx, cmd, rsp, core1, core0, deferred, op, author, delivered, race>>
    BY <1>2 DEF vars
  <2>. QED BY <2>1, <1>2, StutterKeeps DEF BridgeInv, Base, Clear, BridgeControl, Mending, Shapes, Private,
         Local, NoReplyCrosses, X!RepliesInSession, Resetting, Copying
<1>. QED BY <1>1, <1>2 DEF Next

(* It always holds.                                                         *)
LEMMA BridgeInvariant == Spec => []BridgeInv
BY BridgeInit, BridgeNext, PTL DEF Spec

(* However sessions come and go, the exchange is never left occupied by     *)
(* nobody but after a race, and no longer than until the next reset that    *)
(* meets no call of core 0: a reset invalidates the command or reply of the *)
(* session it ends (config_wireless_bridge_reset_session).                  *)
THEOREM NeverWedged == Spec => []NotWedged
<1>1. BridgeInv => NotWedged
  BY DEF BridgeInv, Clear, Control, Held, NotWedged, ResponsePending, Resetting
<1>. QED BY <1>1, BridgeInvariant, PTL

(* handle_line() runs a command as it was written, for the session that     *)
(* wrote it, unless a reset met the copy (config_wireless_bridge_take_command). *)
THEOREM LinesAlwaysWhole == Spec => []LinesWhole
<1>1. BridgeInv => LinesWhole
  BY DEF BridgeInv, Clear, Lines, Private, Honest, Whole, LinesWhole
<1>. QED BY <1>1, BridgeInvariant, PTL

(* A reply reaches only the session that wrote the line it answers, also    *)
(* in the sessions after a race                                             *)
(* (config_wireless_bridge_publish_response, wireless_bonds_poll).          *)
THEOREM RepliesNeverCross == Spec => []NoReplyCrosses
<1>1. BridgeInv => NoReplyCrosses
  BY DEF BridgeInv, Base
<1>. QED BY <1>1, BridgeInvariant, PTL

-----------------------------------------------------------------------------
(* The bridge starts as an empty exchange ...                               *)
LEMMA ExchangeInit == Init => X!XInit
BY DEF Init, X!XInit, Stage, Resetting, RspClear, CmdClear

(* ... every step of it is one of the exchange or none ...                  *)
LEMMA ExchangeStep ==
  ASSUME ~Meets, race = "none", BridgeInv, Step
  PROVE  X!XNext \/ UNCHANGED X!xvars
<1>0. /\ (TakeFirst \/ TakeSecond \/ Claim \/ PublishWrite \/ PublishReady \/ PublishRelease)
           => ~Resetting
      /\ BridgeControl /\ Control /\ Lines /\ Replies
  BY CallsApart DEF BridgeInv, Clear, Base, BridgeControl
<1>1. CASE BeginReset
  BY <1>1 DEF BeginReset, Resetting, Stage, X!XNext, X!NewSession
<1>2. CASE ResetCommand \/ ResetResponse
  BY <1>2 DEF ResetCommand, ResetResponse, Resetting, Stage, X!xvars
<1>3. CASE ResetSession
  <2>1. /\ core1 = "reset session" /\ core1' = "idle" /\ session' = session + 1
        /\ UNCHANGED <<cmd, rsp, author, delivered>>
    BY <1>3 DEF ResetSession
  <2>2. cmd.state = "empty" /\ rsp.state = "empty"
    BY <1>0, <2>1 DEF BridgeControl, Control
  <2>. QED BY <2>1, <2>2 DEF Resetting, Stage, X!xvars
<1>4. CASE Commit
  <2>1. /\ core1 = "commit" /\ core1' = "idle" /\ author' = Append(author, rx.from)
        /\ cmd'.state = "ready" /\ UNCHANGED <<session, rsp, delivered>>
    BY <1>0, <1>4, Fields DEF Commit, BridgeControl, Shapes
  <2>2. cmd.state = "empty" /\ rsp.state = "empty" /\ rx.from = session
    BY <1>0, <2>1 DEF BridgeControl, Control, Copying, Lines, Private, Resetting
  <2>. QED BY <2>1, <2>2 DEF Resetting, Stage, X!XNext, X!Accept
<1>5. CASE Claim
  <2>1. /\ core0.pc = "claim" /\ core0'.pc = "run" /\ ~Resetting
        /\ cmd'.state = "in progress" /\ UNCHANGED <<session, core1, rsp, author, delivered>>
    BY <1>0, <1>5, Fields DEF Claim, BridgeControl, Shapes
  <2>2. cmd.state = "ready" /\ rsp.state # "ready"
    BY <1>0, <2>1 DEF BridgeControl, Control, Taking
  <2>. QED BY <2>1, <2>2 DEF Resetting, Stage, X!XNext, X!Start
<1>6. CASE PublishReady
  <2>1. /\ core0.pc = "ready" /\ core0'.pc = "release" /\ ~Resetting
        /\ rsp'.state = "ready" /\ UNCHANGED <<session, core1, cmd, author, delivered>>
    BY <1>0, <1>6, Fields DEF PublishReady, BridgeControl, Shapes
  <2>2. cmd.state = "in progress" /\ rsp.state # "ready"
    BY <1>0, <2>1 DEF BridgeControl, Control, Held, Publishing
  <2>. QED BY <2>1, <2>2 DEF Resetting, Stage, X!XNext, X!Answer
<1>7. CASE PublishRelease
  <2>1. /\ core0.pc = "release" /\ core0'.pc = "idle" /\ ~Resetting
        /\ cmd'.state = "empty" /\ UNCHANGED <<session, core1, rsp, author, delivered>>
    BY <1>0, <1>7, Fields DEF PublishRelease, Core0Idle, BridgeControl, Shapes
  <2>2. cmd.state = "in progress"
    BY <1>0, <2>1 DEF BridgeControl, Control, Held, Publishing
  <2>. QED BY <2>1, <2>2 DEF Resetting, Stage, X!xvars
<1>8. CASE \E sent \in BOOLEAN : CanSend(sent)
  <2>1. core1 = "idle" /\ UNCHANGED <<session, cmd, core1, core0, author>>
    BY <1>8 DEF CanSend
  <2>2. \/ UNCHANGED <<rsp, delivered>>
        \/ /\ rsp.state = "ready" /\ rsp'.state = "ready" /\ UNCHANGED delivered
        \/ /\ rsp.state = "ready" /\ rsp'.state = "empty"
           /\ delivered' = delivered \cup {<<Whole(rsp.text), session>>}
    BY <1>0, <1>8, Fields DEF CanSend, ResponsePending, Consumed, BridgeControl, Shapes
  <2>3. CASE rsp'.state = rsp.state /\ UNCHANGED delivered
    BY <2>1, <2>3 DEF Resetting, Stage, X!xvars
  <2>4. CASE /\ rsp.state = "ready" /\ rsp'.state = "empty"
             /\ delivered' = delivered \cup {<<Whole(rsp.text), session>>}
    <3>1. Whole(rsp.text) = Len(author)
      BY <1>0, <2>1, <2>4 DEF Replies, Latest, Whole, Resetting
    <3>2. cmd.state = "empty" \/ core0.pc = "release"
      BY <1>0, <2>1, <2>4 DEF BridgeControl, Control, Resetting
    <3>3. cmd.state # "ready"
      BY <1>0, <2>1, <3>2 DEF BridgeControl, Control, Resetting, Held, Publishing
    <3>. QED BY <2>1, <2>4, <3>1, <3>2, <3>3 DEF Resetting, Stage, X!XNext, X!Deliver
  <2>. QED BY <2>2, <2>3, <2>4
<1>9. CASE TakeFirst \/ TakeSecond \/ RunInline \/ RunDeferred \/ PublishCheck
  <2>1. UNCHANGED <<session, core1, cmd, rsp, author, delivered>> /\ core0.pc # "release"
    BY <1>9 DEF TakeFirst, TakeSecond, RunInline, RunDeferred, PublishCheck
  <2>2. core0'.pc # "release"
    <3>1. CASE TakeFirst
      BY <3>1 DEF TakeFirst
    <3>2. CASE TakeSecond \/ RunInline
      BY <1>0, <3>2, Fields DEF TakeSecond, RunInline, BridgeControl, Shapes
    <3>3. Core0Idle.pc = "idle"
      BY DEF Core0Idle
    <3>4. CASE RunDeferred
      BY <3>3, <3>4 DEF RunDeferred
    <3>5. CASE PublishCheck
      BY <1>0, <3>3, <3>5, Fields DEF PublishCheck, BridgeControl, Shapes
    <3>. QED BY <1>9, <3>1, <3>2, <3>4, <3>5
  <2>. QED BY <2>1, <2>2 DEF Resetting, Stage, X!xvars
<1>10. CASE PublishWrite \/ AbandonDeferred \/ (\E timeout \in BOOLEAN : ReplyDeferred(timeout))
  <2>1. /\ UNCHANGED <<session, core1, cmd, author, delivered>> /\ rsp'.state = rsp.state
        /\ core0' = core0 \/ (core0.pc # "release" /\ core0'.pc # "release")
    <3>1. CASE PublishWrite \/ AbandonDeferred
      BY <1>0, <3>1, Fields DEF PublishWrite, AbandonDeferred, BridgeControl, Shapes
    <3>2. CASE \E timeout \in BOOLEAN : ReplyDeferred(timeout)
      <4>1. PICK timeout \in BOOLEAN : ReplyDeferred(timeout)
        BY <3>2
      <4>. QED BY <1>0, <4>1, Fields DEF ReplyDeferred, BridgeControl, Shapes
    <3>. QED BY <1>10, <3>1, <3>2
  <2>. QED BY <2>1 DEF Resetting, Stage, X!xvars
<1>11. CASE \/ (\E on \in BOOLEAN : Subscribe(on)) \/ (\E over \in BOOLEAN : WriteFragment(over))
            \/ RejectLine \/ AcceptLine \/ Pump \/ RunOp \/ FinishOp
  <2>1. /\ UNCHANGED <<session, cmd, rsp, core0, author, delivered>> /\ ~Resetting /\ ~Resetting'
    BY <1>11 DEF Subscribe, WriteFragment, RejectLine, AcceptLine, Pump, RunOp, FinishOp,
         Writable, Resetting
  <2>. QED BY <2>1 DEF Stage, X!xvars
<1>12. CASE CopyFirst \/ CopySecond
  <2>1. /\ UNCHANGED <<session, rsp, core0, author, delivered>> /\ ~Resetting /\ ~Resetting'
        /\ cmd'.state = cmd.state
    BY <1>0, <1>12, Fields DEF CopyFirst, CopySecond, Resetting, BridgeControl, Shapes
  <2>. QED BY <2>1 DEF Stage, X!xvars
<1>. QED BY <1>1, <1>2, <1>3, <1>4, <1>5, <1>6, <1>7, <1>8, <1>9, <1>10, <1>11, <1>12, LinkSteps
         DEF Step, Core0Step, Core1Step

(* Outside a race the bridge with its slots, copies and resets is the        *)
(* one-command, one-reply exchange of config_wireless_bridge.h: no line is  *)
(* accepted, executed or answered twice, out of order or for another        *)
(* session, also after a race that a reset has mended.                      *)
THEOREM ExchangeImplemented == Spec => ImplementsExchange
<1>1. BridgeInv /\ [Next]_vars => [Undisturbed => X!XNext]_(X!xvars)
  <2>1. ASSUME BridgeInv, Step, Watched, race = "none", race' = "none"
        PROVE  X!XNext \/ UNCHANGED X!xvars
    BY <2>1, ExchangeStep DEF Watched
  <2>2. UNCHANGED vars => UNCHANGED X!xvars
    BY DEF vars, X!xvars, Stage, Resetting
  <2>. QED BY <2>1, <2>2 DEF Next, Undisturbed
<1>. QED BY <1>1, ExchangeInit, BridgeInvariant, PTL DEF Spec, ImplementsExchange
=============================================================================
