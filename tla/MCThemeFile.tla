------------------------------ MODULE MCThemeFile ------------------------------
(* A log without lines, of one and of two lines, next to the default of five. *)
EXTENDS ThemeFile

MCLogLines == {0, 1, 2}
===============================================================================
