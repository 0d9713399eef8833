-------------------------- MODULE SimulatedSensor --------------------------
(***************************************************************************)
(* The bounded random walk of a simulated sensor value,                    *)
(* ReadIdentifierSimulated.cpp.  The pseudo-random generator is abstracted *)
(* to "some delta"; the arithmetic is kept: the value is unsigned, the sum *)
(* with a delta is computed signed and clamped before it is stored again.  *)
(***************************************************************************)
EXTENDS Integers

(* delta = rnd % 5 - 2 *)
Deltas == -2 .. 2

Clamp(value, min, max) ==
    IF value < min THEN min ELSE IF value > max THEN max ELSE value

(* Mutant: the sum is unsigned, a step below zero wraps to a huge value. *)
SteppedUnsigned(value, delta, min, max) == Clamp((value + delta) % 2^30, min, max)

(* Mutant: only the upper bound is enforced. *)
SteppedUpperOnly(value, delta, min, max) ==
    IF value + delta > max THEN max ELSE value + delta

(* step() *)
Stepped(value, delta, min, max) == Clamp(value + delta, min, max)
=============================================================================
