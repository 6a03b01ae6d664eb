-------------------------- MODULE MCHubAndServices --------------------------
(* Small instances of HubAndServices for TLC: a minute of two ticks, an    *)
(* interval of one and a half, one longer than the hub believes.           *)
EXTENDS HubAndServices

NoUse == {}
Forward == {"forward"}
WithinAndBeyond == {1, 3}
MinuteAndAHalf == {3}
=============================================================================
