----------------------------- MODULE CatalogueMC ------------------------------
(* Two sessions of tests, again and again, and two edits of the files.         *)
EXTENDS Catalogue

CONSTANTS r1, r2

MCRequest == {r1, r2}
===============================================================================
