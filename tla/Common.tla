------------------------------ MODULE Common ------------------------------
(* What several modules that one run checks together refer to.             *)
CONSTANT None \* the absence of a value
===========================================================================
