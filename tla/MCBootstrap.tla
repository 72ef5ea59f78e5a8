---------------------------- MODULE MCBootstrap ----------------------------
(***************************************************************************)
(* Bootstrap on two concurrent calls of Init; every combination of options *)
(* and of failures of the collectors and of the dev sink.                  *)
(***************************************************************************)
EXTENDS BootstrapProofs

CONSTANTS i1, i2

MCInits == {i1, i2}

\* Of two calls with different options it does not matter which is which.  (A
\* symmetry set would say so too, but not under fairness.)
Rank(o) ==
  LET Digit(b, weight) == IF b THEN weight ELSE 0
  IN Digit(o.enabled, 32) + Digit(o.skipGlobal, 16) + Digit(o.devSink, 8)
       + Digit(o.configOK, 4) + Digit(o.resourceOK, 2) + Digit(o.instrumentsOK, 1)
MCInit == Init /\ Rank(opts[i1]) >= Rank(opts[i2])
MCSpec == MCInit /\ [][Next]_vars /\ Fairness
=============================================================================
