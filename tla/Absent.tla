------------------------------- MODULE Absent -------------------------------
(* The value of an option that holds nothing, shared by the modules that    *)
(* one model checks together.                                               *)
CONSTANT None
=============================================================================
