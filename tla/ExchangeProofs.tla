--------------------------- MODULE ExchangeProofs ---------------------------
(***************************************************************************)
(* In the one-command, one-reply exchange no reply ever reaches a session  *)
(* other than the one that wrote the line, however many lines and sessions *)
(* there are.                                                              *)
(***************************************************************************)
EXTENDS Exchange, TLAPS

(* A reply goes to the session current at delivery; it is the right one    *)
(* because a line outstanding is the last one accepted and was written in  *)
(* the current session: a new session empties the exchange.                *)
XInv ==
  /\ XTypeOK
  /\ RepliesInSession
  /\ stage # "free" => Len(author) \in 1 .. Len(author) /\ author[Len(author)] = session

(* The inductive invariant holds at start ...                               *)
LEMMA XInvInit == XInit => XInv
BY DEF XInit, XInv, XTypeOK, RepliesInSession

(* ... and every step of the exchange keeps it.                             *)
LEMMA XInvNext == XInv /\ [XNext]_xvars => XInv'
<1> SUFFICES ASSUME XInv, [XNext]_xvars
             PROVE  XInv'
  OBVIOUS
<1>0. /\ session \in Nat /\ author \in Seq(Nat) /\ Len(author) \in Nat
      /\ delivered \subseteq Nat \X Nat
      /\ \A d \in delivered : d[1] \in 1 .. Len(author) /\ author[d[1]] = d[2]
  BY DEF XInv, XTypeOK, RepliesInSession
<1>1. CASE Accept
  <2>1. /\ author' \in Seq(Nat)
        /\ Len(author') = Len(author) + 1
        /\ author'[Len(author) + 1] = session
        /\ \A n \in 1 .. Len(author) : author'[n] = author[n]
    BY <1>0, <1>1 DEF Accept
  <2>2. RepliesInSession'
    BY <1>0, <1>1, <2>1 DEF Accept, RepliesInSession
  <2>3. QED
    BY <1>0, <1>1, <2>1, <2>2 DEF Accept, XInv, XTypeOK
<1>2. CASE Start
  BY <1>2 DEF Start, XInv, XTypeOK, RepliesInSession
<1>3. CASE Answer
  BY <1>3 DEF Answer, XInv, XTypeOK, RepliesInSession
<1>4. CASE Deliver
  <2>1. Len(author) \in 1 .. Len(author) /\ author[Len(author)] = session
    BY <1>4 DEF Deliver, XInv
  <2>2. RepliesInSession'
    BY <1>0, <1>4, <2>1 DEF Deliver, RepliesInSession
  <2>3. XTypeOK'
    BY <1>0, <1>4 DEF Deliver, XTypeOK
  <2>4. QED
    BY <1>4, <2>2, <2>3 DEF Deliver, XInv
<1>5. CASE NewSession
  BY <1>0, <1>5 DEF NewSession, XInv, XTypeOK, RepliesInSession
<1>6. CASE UNCHANGED xvars
  BY <1>6 DEF xvars, XInv, XTypeOK, RepliesInSession
<1>7. QED
  BY <1>1, <1>2, <1>3, <1>4, <1>5, <1>6 DEF XNext

(* No reply crosses into another session.                                  *)
THEOREM RepliesStayInSession == XSpec => []RepliesInSession
<1>1. XInv => RepliesInSession
  BY DEF XInv
<1>2. QED
  BY XInvInit, XInvNext, <1>1, PTL DEF XSpec
=============================================================================
