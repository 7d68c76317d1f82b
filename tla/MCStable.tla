------------------------------ MODULE MCStable ------------------------------
(***************************************************************************)
(* Bounds for the stable balance and the splice.  Each behaviour picks one *)
(* scope, so the state spaces add up instead of multiplying: first receive *)
(* and trades under two faults, two trades beside ordinary payments, a     *)
(* closing channel, three provider messages, the rivals for the coin, a    *)
(* splice between trades, a splice whose channel closes, a splice under a  *)
(* fault, and two splices in a row under two.                              *)
(***************************************************************************)
EXTENDS SpliceController

Scope(f, i, m, n, p, e) ==
  [faults |-> f, intents |-> i, msgs |-> m, splices |-> n, prices |-> p, env |-> e]

CoinScope == {Scope(1, 0, 0, 1, {1}, {"coins"})}

StableScopes ==
  CoinScope \cup
  {Scope(2, 1, 2, 0, {1, 2}, {"first"}),
   Scope(1, 2, 2, 0, {1, 2}, {"spend"}),
   Scope(0, 1, 2, 0, {1, 2}, {"close", "pause"}),
   Scope(1, 1, 3, 0, {1}, {}),
   Scope(0, 2, 1, 1, {1}, {}),
   Scope(0, 1, 0, 1, {1}, {"close"}),
   Scope(1, 1, 1, 1, {1}, {}),
   Scope(2, 0, 0, 2, {1}, {})}
=============================================================================
