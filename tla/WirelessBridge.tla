--------------------------- MODULE WirelessBridge ---------------------------
(***************************************************************************)
(* In-band BLE management: the cross-core bridge                           *)
(* (management/config_wireless_bridge.c), core 0's command task            *)
(* (settings/config.c), the operations core 0 hands to core 1 and waits    *)
(* for (hid_host/bt/btstack/btstack_host.c, bonds, peers and pairing), and *)
(* the GATT side that feeds and drains the bridge.                         *)
(*                                                                         *)
(* Each step is what one core does between two accesses the other core can *)
(* observe.  A command or reply is the number of the accepted line it      *)
(* belongs to; a copied line is a pair of halves, so that a copy taken     *)
(* while the slot is rewritten is seen for what it is.                     *)
(***************************************************************************)
EXTENDS Naturals, Sequences

CONSTANTS
  MaxLine,       \* bound on the lines accepted
  MaxSession,    \* bound on the sessions started
  Chunks         \* notifications a reply takes at the client's MTU

ASSUME BoundAssumption ==
  /\ MaxLine \in Nat
  /\ MaxSession \in Nat
  /\ Chunks \in Nat \ {0}

VARIABLES
  session,    \* active_session
  rx,         \* rx_line: whether it holds bytes, whose, and rx_overflow
  cmd,        \* the command slot: command_state, _length, _slot, _session
  rsp,        \* the response slot; left is response_length - response_offset
  core1,      \* where core 1 is in bridge_receive() or bridge_reset_session()
  core0,      \* where core 0 is in config_wireless_task()
  deferred,   \* wireless_bonds, wireless_peers or wireless_pairing
  op,         \* the marshalled operation's shared words
  ble,        \* the management link: config_ble
  author,     \* history: author[n] is the session that wrote line n
  delivered,  \* history: <<n, s>> once session s got the reply to line n, no race
  race        \* history: have the two cores met in the middle of something?

vars == <<session, rx, cmd, rsp, core1, core0, deferred, op, ble, author, delivered, race>>

Half == 0 .. MaxLine      \* 0: bytes that belong to no line
Blank == <<0, 0>>
Whole(text) == IF text[1] = text[2] THEN text[1] ELSE 0

RxClear == [held |-> FALSE, from |-> 0, over |-> FALSE]
NotDeferred == [active |-> FALSE, session |-> 0, text |-> Blank]
CmdClear == [state |-> "empty", full |-> FALSE, text |-> Blank, session |-> 0]
RspClear == [state |-> "empty", left |-> 0, session |-> 0, text |-> Blank]
Core0Idle == [pc |-> "idle", text |-> Blank, full |-> FALSE, session |-> 0]

\* config_wireless_bridge_init(), before core 1 starts the service.
Init ==
  /\ session = 1
  /\ rx = RxClear
  /\ cmd = CmdClear
  /\ rsp = RspClear
  /\ core1 = "idle"
  /\ core0 = Core0Idle
  /\ deferred = NotDeferred
  /\ op = [pending |-> FALSE, done |-> FALSE, text |-> Blank, result |-> Blank]
  /\ ble = [mode |-> FALSE, up |-> FALSE, closing |-> FALSE,
            notify |-> FALSE, armed |-> FALSE]
  /\ author = << >>
  /\ delivered = {}
  /\ race = "none"

Resetting == core1 \in {"reset command", "reset response", "reset session"}
InBridgeCall == core0.pc \in {"take second", "claim", "write", "ready", "release"}

(* The two accidents nothing in the code excludes: a session reset meets a   *)
(* call of core 0 into the bridge, or core 0 takes the completion of an      *)
(* earlier operation for that of the one it just requested.                  *)
Meets ==
  \/ Resetting' /\ InBridgeCall'
  \/ core0.pc = "idle" /\ core0'.pc = "check" /\ op.pending /\ op.done

(* A race leaves its mark until a later reset, one that finds core 0 between *)
(* two commands and meets none of its calls, has ended.                      *)
Watched ==
  race' = IF Meets THEN "met"
          ELSE IF race = "met" /\ core1 = "idle" /\ Resetting'
                  /\ core0.pc = "idle" /\ ~deferred.active THEN "mending"
          ELSE IF race = "mending" /\ ~Resetting' THEN "none"
          ELSE race
-----------------------------------------------------------------------------
(* Core 1: config_wireless_bridge_reset_session(), store by store.         *)

\* Slip: the bytes of an unfinished line survive into the next session.
BeginResetKeepsLine ==
  /\ core1 = "idle"
  /\ session < MaxSession
  /\ cmd' = [cmd EXCEPT !.full = FALSE]
  /\ rsp' = [rsp EXCEPT !.left = 0]
  /\ core1' = "reset command"
  /\ UNCHANGED <<session, rx, core0, deferred, op, author, delivered>>

BeginReset ==
  /\ core1 = "idle"
  /\ session < MaxSession
  /\ rx' = RxClear
  /\ cmd' = [cmd EXCEPT !.full = FALSE]
  /\ rsp' = [rsp EXCEPT !.left = 0]
  /\ core1' = "reset command"
  /\ UNCHANGED <<session, core0, deferred, op, author, delivered>>

\* Slip: a command core 0 has taken is left to its reply.
ResetCommandReadyOnly ==
  /\ core1 = "reset command"
  /\ cmd' = IF cmd.state = "ready" THEN [cmd EXCEPT !.state = "empty"] ELSE cmd
  /\ core1' = "reset response"
  /\ UNCHANGED <<session, rx, rsp, core0, deferred, op, ble, author, delivered>>

ResetCommand ==
  /\ core1 = "reset command"
  /\ cmd' = [cmd EXCEPT !.state = "empty"]
  /\ core1' = "reset response"
  /\ UNCHANGED <<session, rx, rsp, core0, deferred, op, ble, author, delivered>>

ResetResponse ==
  /\ core1 = "reset response"
  /\ rsp' = [rsp EXCEPT !.state = "empty"]
  /\ core1' = "reset session"
  /\ UNCHANGED <<session, rx, cmd, core0, deferred, op, ble, author, delivered>>

ResetSession ==
  /\ core1 = "reset session"
  /\ session' = session + 1
  /\ core1' = "idle"
  /\ UNCHANGED <<rx, cmd, rsp, core0, deferred, op, ble, author, delivered>>
-----------------------------------------------------------------------------
(* Core 1: the management link.  Each of these ends by resetting the session. *)

EnableService ==
  /\ ~ble.mode
  /\ ble' = [ble EXCEPT !.mode = TRUE, !.closing = FALSE]
  /\ BeginReset

DisableService ==
  /\ ble.mode
  /\ ble' = [ble EXCEPT !.mode = FALSE, !.closing = ble.up \/ @,
                        !.notify = FALSE, !.armed = FALSE]
  /\ BeginReset

Connect ==
  /\ ble.mode /\ ~ble.closing /\ ~ble.up
  /\ ble' = [ble EXCEPT !.up = TRUE, !.notify = FALSE, !.armed = FALSE]
  /\ BeginReset

LinkDown == [ble EXCEPT !.up = FALSE, !.closing = FALSE, !.notify = FALSE, !.armed = FALSE]

Disconnect ==
  /\ ble.up
  /\ ble' = LinkDown
  /\ BeginReset

\* A transient loss of the HCI forgets the link, or resets the session without one.
TransientReset ==
  /\ ~ble.up
  /\ ble' = LinkDown
  /\ BeginReset
-----------------------------------------------------------------------------
(* Core 1: GATT writes.                                                    *)

Writable == core1 = "idle" /\ ble.mode /\ ble.up /\ ~ble.closing

Subscribe(on) ==
  /\ Writable
  /\ ble.notify # on
  /\ ble' = [ble EXCEPT !.notify = on]
  /\ UNCHANGED <<session, rx, cmd, rsp, core1, core0, deferred, op, author, delivered>>

\* A fragment without a newline; over says it does not fit in the line.
WriteFragment(over) ==
  /\ Writable
  /\ ~rx.over
  /\ rx' = [held |-> TRUE, from |-> IF rx.held THEN rx.from ELSE session, over |-> over]
  /\ UNCHANGED <<session, cmd, rsp, core1, core0, deferred, op, ble, author, delivered>>

\* Slip: a reply still being drained does not make the bridge busy.
BusyCommandOnly == cmd.state # "empty"

Busy == cmd.state # "empty" \/ rsp.state # "empty"

\* A newline while the line overflowed or the exchange is occupied drops the line.
RejectLine ==
  /\ Writable
  /\ rx.held
  /\ rx.over \/ Busy
  /\ rx' = RxClear
  /\ UNCHANGED <<session, cmd, rsp, core1, core0, deferred, op, ble, author, delivered>>

AcceptLine ==
  /\ Writable
  /\ rx.held /\ ~rx.over /\ ~Busy
  /\ Len(author) < MaxLine
  /\ core1' = "copy first"
  /\ UNCHANGED <<session, rx, cmd, rsp, core0, deferred, op, ble, author, delivered>>

\* Slip: the command is published before it is copied.
CopyFirstReady ==
  /\ core1 = "copy first"
  /\ cmd' = [cmd EXCEPT !.text[1] = Len(author) + 1, !.state = "ready"]
  /\ core1' = "copy second"
  /\ UNCHANGED <<session, rx, rsp, core0, deferred, op, ble, author, delivered>>

CopyFirst ==
  /\ core1 = "copy first"
  /\ cmd' = [cmd EXCEPT !.text[1] = Len(author) + 1]
  /\ core1' = "copy second"
  /\ UNCHANGED <<session, rx, rsp, core0, deferred, op, ble, author, delivered>>

CopySecond ==
  /\ core1 = "copy second"
  /\ cmd' = [cmd EXCEPT !.text[2] = Len(author) + 1, !.full = TRUE, !.session = session]
  /\ core1' = "commit"
  /\ UNCHANGED <<session, rx, rsp, core0, deferred, op, ble, author, delivered>>

Commit ==
  /\ core1 = "commit"
  /\ cmd' = [cmd EXCEPT !.state = "ready"]
  /\ rx' = RxClear
  /\ author' = Append(author, rx.from)
  /\ core1' = "idle"
  /\ UNCHANGED <<session, rsp, core0, deferred, op, ble, delivered>>
-----------------------------------------------------------------------------
(* Core 1: draining the reply.                                             *)

ResponsePending == rsp.state = "ready" /\ rsp.session = session /\ rsp.left > 0

\* config_ble_pump_response(), every service tick.
Pump ==
  /\ core1 = "idle"
  /\ ble.mode /\ ble.up /\ ble.notify /\ ~ble.armed
  /\ ResponsePending
  /\ ble' = [ble EXCEPT !.armed = TRUE]
  /\ UNCHANGED <<session, rx, cmd, rsp, core1, core0, deferred, op, author, delivered>>

Consumed ==
  IF rsp.left = 1 THEN [rsp EXCEPT !.state = "empty", !.left = 0]
  ELSE [rsp EXCEPT !.left = @ - 1]

\* config_ble_can_send(): one notification, which the stack may refuse.
CanSend(sent) ==
  /\ core1 = "idle"
  /\ ble.armed
  /\ ble' = [ble EXCEPT !.armed = FALSE]
  /\ IF ble.mode /\ ble.up /\ ~ble.closing /\ ble.notify /\ ResponsePending /\ sent
     THEN /\ rsp' = Consumed
          /\ delivered' = IF rsp'.state = "empty" /\ race = "none"
                          THEN delivered \cup {<<Whole(rsp.text), session>>} ELSE delivered
     ELSE UNCHANGED <<rsp, delivered>>
  /\ UNCHANGED <<session, rx, cmd, core1, core0, deferred, op, author>>
-----------------------------------------------------------------------------
(* Core 1: the marshalled operation (bonds_op_run and its like).  The      *)
(* result is written, then pending is cleared, then done is set.           *)

RunOp ==
  /\ core1 = "idle"
  /\ op.pending
  /\ op' = [op EXCEPT !.result = op.text, !.pending = FALSE]
  /\ core1' = "finish op"
  /\ UNCHANGED <<session, rx, cmd, rsp, core0, deferred, ble, author, delivered>>

FinishOp ==
  /\ core1 = "finish op"
  /\ op' = [op EXCEPT !.done = TRUE]
  /\ core1' = "idle"
  /\ UNCHANGED <<session, rx, cmd, rsp, core0, deferred, ble, author, delivered>>
-----------------------------------------------------------------------------
(* Core 0: config_wireless_task().                                         *)

\* The deferred reply belongs to a session that is over.
AbandonDeferred ==
  /\ core0.pc = "idle"
  /\ deferred.active
  /\ deferred.session # session
  /\ deferred' = NotDeferred
  /\ UNCHANGED <<session, rx, cmd, rsp, core1, core0, op, ble, author, delivered>>

\* Slip: a reply that timed out is forgotten.
ReplyDeferredSilent(timeout) ==
  /\ core0.pc = "idle"
  /\ deferred.active
  /\ deferred.session = session
  /\ op.done = ~timeout
  /\ deferred' = NotDeferred
  /\ core0' = IF timeout THEN core0
              ELSE [core0 EXCEPT !.pc = "check", !.session = deferred.session,
                                 !.text = op.result]
  /\ UNCHANGED <<session, rx, cmd, rsp, core1, op, ble, author, delivered>>

\* The operation is done, or its deadline passed and "timeout" is the reply.
ReplyDeferred(timeout) ==
  /\ core0.pc = "idle"
  /\ deferred.active
  /\ deferred.session = session
  /\ op.done = ~timeout
  /\ deferred' = NotDeferred
  /\ core0' = [core0 EXCEPT !.pc = "check", !.session = deferred.session,
                            !.text = IF timeout THEN deferred.text ELSE op.result]
  /\ UNCHANGED <<session, rx, cmd, rsp, core1, op, ble, author, delivered>>

\* config_wireless_bridge_take_command().
TakeFirst ==
  /\ core0.pc = "idle"
  /\ ~deferred.active
  /\ cmd.state = "ready"
  /\ core0' = [pc |-> "take second", text |-> <<cmd.text[1], 0>>,
               full |-> cmd.full, session |-> 0]
  /\ UNCHANGED <<session, rx, cmd, rsp, core1, deferred, op, ble, author, delivered>>

TakeSecond ==
  /\ core0.pc = "take second"
  /\ core0' = [core0 EXCEPT !.pc = "claim", !.session = cmd.session,
                            !.text[2] = IF core0.full THEN cmd.text[2] ELSE 0]
  /\ UNCHANGED <<session, rx, cmd, rsp, core1, deferred, op, ble, author, delivered>>

Claim ==
  /\ core0.pc = "claim"
  /\ cmd' = [cmd EXCEPT !.state = "in progress"]
  /\ core0' = [core0 EXCEPT !.pc = "run"]
  /\ UNCHANGED <<session, rx, rsp, core1, deferred, op, ble, author, delivered>>

\* handle_line() replies at once; "busy" to a second operation is such a reply.
RunInline ==
  /\ core0.pc = "run"
  /\ core0' = [core0 EXCEPT !.pc = "check"]
  /\ UNCHANGED <<session, rx, cmd, rsp, core1, deferred, op, ble, author, delivered>>

\* handle_line() hands the operation to core 1 and defers the reply.
RunDeferred ==
  /\ core0.pc = "run"
  /\ ~op.pending
  /\ op' = [op EXCEPT !.pending = TRUE, !.done = FALSE, !.text = core0.text]
  /\ deferred' = [active |-> TRUE, session |-> core0.session, text |-> core0.text]
  /\ core0' = Core0Idle
  /\ UNCHANGED <<session, rx, cmd, rsp, core1, ble, author, delivered>>

\* config_wireless_bridge_publish_response(): refused for another session.
PublishCheck ==
  /\ core0.pc = "check"
  /\ core0' = IF core0.session = session /\ rsp.state = "empty"
              THEN [core0 EXCEPT !.pc = "write"] ELSE Core0Idle
  /\ UNCHANGED <<session, rx, cmd, rsp, core1, deferred, op, ble, author, delivered>>

PublishWrite ==
  /\ core0.pc = "write"
  /\ rsp' = [rsp EXCEPT !.left = Chunks, !.session = core0.session, !.text = core0.text]
  /\ core0' = [core0 EXCEPT !.pc = "ready"]
  /\ UNCHANGED <<session, rx, cmd, core1, deferred, op, ble, author, delivered>>

PublishReady ==
  /\ core0.pc = "ready"
  /\ rsp' = [rsp EXCEPT !.state = "ready"]
  /\ core0' = [core0 EXCEPT !.pc = "release"]
  /\ UNCHANGED <<session, rx, cmd, core1, deferred, op, ble, author, delivered>>

PublishRelease ==
  /\ core0.pc = "release"
  /\ cmd' = [cmd EXCEPT !.state = "empty"]
  /\ core0' = Core0Idle
  /\ UNCHANGED <<session, rx, rsp, core1, deferred, op, ble, author, delivered>>
-----------------------------------------------------------------------------
Core0Step ==
  \/ AbandonDeferred
  \/ \E timeout \in BOOLEAN : ReplyDeferred(timeout)
  \/ TakeFirst \/ TakeSecond \/ Claim
  \/ RunInline \/ RunDeferred
  \/ PublishCheck \/ PublishWrite \/ PublishReady \/ PublishRelease

\* What a callback of core 1 does once it has started.
Core1Step ==
  \/ ResetCommand \/ ResetResponse \/ ResetSession
  \/ CopyFirst \/ CopySecond \/ Commit
  \/ FinishOp

Step ==
  \/ Core0Step
  \/ Core1Step
  \/ RunOp
  \/ Pump
  \/ \E sent \in BOOLEAN : CanSend(sent)
  \/ EnableService \/ DisableService
  \/ Connect \/ Disconnect \/ TransientReset
  \/ \E on \in BOOLEAN : Subscribe(on)
  \/ \E over \in BOOLEAN : WriteFragment(over)
  \/ RejectLine
  \/ AcceptLine

Next == Step /\ Watched

Spec == Init /\ [][Next]_vars

(* Both cores run their loops; a reply that can be notified again and again *)
(* is eventually accepted by the stack.                                     *)
Fairness ==
  /\ WF_vars(Core0Step /\ Watched)
  /\ WF_vars(Core1Step /\ Watched)
  /\ WF_vars(RunOp /\ Watched)
  /\ WF_vars(Pump /\ Watched)
  /\ WF_vars((\E sent \in BOOLEAN : CanSend(sent)) /\ Watched)
  /\ SF_vars(CanSend(TRUE) /\ Watched)

FairSpec == Spec /\ Fairness
-----------------------------------------------------------------------------
(* Properties.                                                             *)

(* Types, and the response slot is ready exactly as long as bytes of it are *)
(* left to send, but for a reset in progress (consume_response).            *)
BTypeOK ==
  /\ session \in 1 .. MaxSession
  /\ rx \in [held : BOOLEAN, from : 0 .. MaxSession, over : BOOLEAN]
  /\ cmd \in [state : {"empty", "ready", "in progress"}, full : BOOLEAN,
              text : Half \X Half, session : 0 .. MaxSession]
  /\ rsp \in [state : {"empty", "ready"}, left : 0 .. Chunks,
              session : 0 .. MaxSession, text : Half \X Half]
  /\ core0 \in [pc : {"idle", "take second", "claim", "run", "check", "write",
                      "ready", "release"},
                text : Half \X Half, full : BOOLEAN, session : 0 .. MaxSession]
  /\ core1 \in {"idle", "copy first", "copy second", "commit", "reset command",
                "reset response", "reset session", "finish op"}
  /\ deferred \in [active : BOOLEAN, session : 0 .. MaxSession, text : Half \X Half]
  /\ op \in [pending : BOOLEAN, done : BOOLEAN, text : Half \X Half,
             result : Half \X Half]
  /\ ble \in [mode : BOOLEAN, up : BOOLEAN, closing : BOOLEAN,
              notify : BOOLEAN, armed : BOOLEAN]
  /\ rsp.state = "ready" /\ ~Resetting => rsp.left > 0

(* The exchange is never left occupied by nobody: with core 0 between two   *)
(* commands and no reply deferred, no command is in progress, and a ready   *)
(* reply is one the current session can still drain.  Otherwise every later *)
(* line is answered "busy": the reset "invalidates commands/responses       *)
(* belonging to a disconnected browser" (config_wireless_bridge.h:37).  A   *)
(* race may leave it occupied; the next reset that meets no call of core 0  *)
(* makes it free again.                                                     *)
NotWedged ==
  race = "none" /\ core0.pc = "idle" /\ ~deferred.active /\ core1 = "idle" =>
    /\ cmd.state # "in progress"
    /\ rsp.state = "ready" => ResponsePending

(* A command is executed as it was written, on behalf of the session that   *)
(* wrote it: "in-order, no loss, no duplication, not torn"                  *)
(* (test_config_wireless_bridge_concurrency.c:55); a line torn in a race is *)
(* the last, once a reset that meets no call of core 0 is over.             *)
LinesWhole ==
  race = "none" /\ core0.pc = "run" =>
    /\ Whole(core0.text) \in 1 .. Len(author)
    /\ author[Whole(core0.text)] = core0.session

(* A reply the current session can read was produced for a line that        *)
(* session wrote: the result of an operation "must never cross into a new   *)
(* session" (settings/config.c:2439).                                       *)
ResultInSession ==
  race = "none" /\ ResponsePending /\ ~Resetting =>
    /\ Whole(rsp.text) \in 1 .. Len(author)
    /\ author[Whole(rsp.text)] = session

Stage ==
  IF Resetting THEN "free"
  ELSE IF rsp.state = "ready" THEN "replying"
  ELSE IF cmd.state = "ready" THEN "waiting"
  ELSE IF cmd.state = "in progress" /\ core0.pc # "release" THEN "running"
  ELSE "free"

X == INSTANCE Exchange WITH
       session <- IF Resetting THEN session + 1 ELSE session,
       stage <- Stage

(* The bridge with its two state machines is a one-command, one-reply       *)
(* exchange per session (module Exchange): nothing accepted twice, executed *)
(* twice, answered out of order or delivered to another session.  Every     *)
(* step outside a race is a step of the exchange or invisible to it.        *)
Undisturbed == race = "none" /\ race' = "none"
ImplementsExchange == X!XInit /\ [][Undisturbed => X!XNext]_(X!xvars)

(* What clients see of it: a reply reaches only the session that wrote the  *)
(* line it answers ("the token prevents a late parser response from         *)
(* crossing into a newly connected browser session"), whatever races there  *)
(* were before the session began.                                           *)
NoReplyCrosses == X!RepliesInSession

(* Every accepted command is eventually answered to the client that wrote   *)
(* it, unless the session ends, the client unsubscribes or the cores meet.  *)
Answered ==
  \A n \in 1 .. MaxLine, s \in 1 .. MaxSession :
    n = Len(author) /\ cmd.state = "ready" /\ cmd.session = s /\ session = s
      ~> \/ <<n, s>> \in delivered
         \/ session # s
         \/ ~ble.notify
         \/ race # "none"
=============================================================================
