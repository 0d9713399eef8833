--------------------------- MODULE MCDemoLauncher ---------------------------
(* TLC instances of DemoLauncher.                                          *)
EXTENDS DemoLauncher

CONSTANTS p1, p2, p3

ThreePids == {p1, p2, p3}
=============================================================================
