------------------------------ MODULE MCNights ------------------------------
(***************************************************************************)
(* Five shops, four nights, the month's first in the second of them.       *)
(* Hours are small numbers; windows overlap, so a job may be late for its  *)
(* own.                                                                    *)
(***************************************************************************)
EXTENDS Nights

MCOpens == [operator |-> {1}, allocation |-> {2, 3}, export |-> {3, 4},
            fix_dat |-> {5}, archive |-> {6}]
=============================================================================
