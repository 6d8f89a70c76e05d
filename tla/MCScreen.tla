------------------------------ MODULE MCScreen ------------------------------
(* Screen on two rows of two columns, with one cell of the page below them. *)
(* Programs write across a newline, more than the screen holds, and the     *)
(* characters that print nothing; one key has a character and one has none. *)
EXTENDS ScreenOutput

MCTyped == {"a", NUL}
MCTexts == {<<NL, "x", NL>>, <<"x", "y", "x">>, <<BS, NUL>>}
=============================================================================
