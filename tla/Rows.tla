---------------------------------- MODULE Rows ----------------------------------
(* What the tables of the components have in common.                        *)
CONSTANT None   \* no row, or no value in a column
=================================================================================
