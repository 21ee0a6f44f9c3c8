----------------------------- MODULE MCBacklight -----------------------------
(* Backlight with a sensor that reads below zero, in the middle of the     *)
(* scale and at its end.                                                   *)
EXTENDS Backlight

MCLuxes == {-3, 5, 9}
=============================================================================
