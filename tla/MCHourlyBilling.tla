--------------------------- MODULE MCHourlyBilling ---------------------------
(* Small instances of HourlyBilling: one wallet, or two owners in turn. *)
EXTENDS HourlyBilling

CONSTANTS u1, u2
OneUser == {u1}
TwoUsers == {u1, u2}
==============================================================================
