-------------------------- MODULE MCKeyboardMouse --------------------------
(* A Low Energy keyboard, a gaming mouse whose macro buttons make it look  *)
(* like a keyboard to the driver, a controller, and a Classic keyboard     *)
(* that declares itself a combo.                                           *)
EXTENDS KeyboardMouse

CONSTANTS keyboard, gamingMouse, combo, pad

MCTraits ==
  [p \in Peer |->
     [ble |-> p \in {keyboard, gamingMouse},
      cod |-> IF p = combo THEN "combo" ELSE "none",
      keys |-> p # pad,
      pointer |-> p \in {gamingMouse, combo},
      strong |-> p = combo,
      known |-> p = pad]]
=============================================================================
