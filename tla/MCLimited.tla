------------------------------ MODULE MCLimited ------------------------------
(* Limited on small instances: each limit set, missing, and both together. *)
EXTENDS Limited

Limits4 == [MaxBytes : {0, 2}, MaxDuration : {0, 2}]
Totals3 == 0..3
Reads2 == {1, 3}
=============================================================================
