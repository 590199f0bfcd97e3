------------------------------ MODULE MCClient ------------------------------
(***************************************************************************)
(* Small instances of Client.  The limited strategies include the one of   *)
(* README.md:211 (a unit is 100 ms) and the boundary cases of 0 and 1      *)
(* attempts.                                                               *)
(***************************************************************************)
EXTENDS Client

MCStrategies ==
  {NoStrategy, UnlimitedConstantDelay(1, {}), UnlimitedConstantDelay(2, {"INTERNAL"})}
    \cup {LimitedBackoff(1, 2, n) : n \in {0, 1, 5}} \cup {LimitedBackoff(2, 3, 3)}
MCTimeouts == {Never, 0, 1, 6}
=============================================================================
