------------------------------ MODULE Exchange ------------------------------
(***************************************************************************)
(* What the management bridge promises a client                            *)
(* (firmware/src/management/config_wireless_bridge.h): a bounded exchange  *)
(* of one command and one reply.  A line is accepted only when nothing is  *)
(* outstanding, is executed and answered at most once, and its reply       *)
(* reaches only the session that wrote it; a new session starts with an    *)
(* empty exchange.                                                         *)
(***************************************************************************)
EXTENDS Naturals, Sequences

VARIABLES
  session,    \* the management session
  stage,      \* of the line last accepted: "free" once nothing is outstanding
  author,     \* author[n]: the session that wrote the n-th line accepted
  delivered   \* <<n, s>>: the reply to line n reached the client of session s

xvars == <<session, stage, author, delivered>>

XInit ==
  /\ session = 1
  /\ stage = "free"
  /\ author = << >>
  /\ delivered = {}

Accept ==
  /\ stage = "free"
  /\ stage' = "waiting"
  /\ author' = Append(author, session)
  /\ UNCHANGED <<session, delivered>>

Start ==
  /\ stage = "waiting"
  /\ stage' = "running"
  /\ UNCHANGED <<session, author, delivered>>

Answer ==
  /\ stage = "running"
  /\ stage' = "replying"
  /\ UNCHANGED <<session, author, delivered>>

Deliver ==
  /\ stage = "replying"
  /\ stage' = "free"
  /\ delivered' = delivered \cup {<<Len(author), session>>}
  /\ UNCHANGED <<session, author>>

NewSession ==
  /\ session' = session + 1
  /\ stage' = "free"
  /\ UNCHANGED <<author, delivered>>

XNext == Accept \/ Start \/ Answer \/ Deliver \/ NewSession

XSpec == XInit /\ [][XNext]_xvars
-----------------------------------------------------------------------------
(* Properties.                                                             *)

XTypeOK ==
  /\ session \in Nat
  /\ stage \in {"free", "waiting", "running", "replying"}
  /\ author \in Seq(Nat)
  /\ delivered \subseteq Nat \X Nat

(* "The token prevents a late parser response from crossing into a newly    *)
(* connected browser session" (config_wireless_bridge.h:48): every reply    *)
(* went to the session that wrote the line, however sessions came and went. *)
RepliesInSession ==
  \A d \in delivered : d[1] \in 1 .. Len(author) /\ author[d[1]] = d[2]
=============================================================================
