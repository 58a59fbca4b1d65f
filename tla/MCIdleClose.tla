--------------------------- MODULE MCIdleClose ---------------------------
(***************************************************************************)
(* IdleClose with one connection and three timers: that of the connection  *)
(* which runs, the next one, and one of another callback.                  *)
(***************************************************************************)
EXTENDS IdleClose, TLC

CONSTANTS t1, t2, t3, c1

MCTimer == {t1, t2, t3}
MCSymmetry == Permutations(MCTimer)
=============================================================================
