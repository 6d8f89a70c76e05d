------------------------------- MODULE MCRtc -------------------------------
(***************************************************************************)
(* Model checking of Rtc.                                                  *)
(***************************************************************************)
EXTENDS Rtc

(* Both sides of every boundary of the comparisons in rtc_write.           *)
Boundaries  == {0, 1025} \cup {2^k : k \in 0..10} \cup {2^k + 1 : k \in 1..9}

(* Control points at which the interrupt of the clock is not masked.       *)
Unmasked    == PCs \ {"write_addr", "write_get", "write_addr_again", "write_put", "write_unmask"}
=============================================================================
