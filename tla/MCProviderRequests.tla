------------------------- MODULE MCProviderRequests -------------------------
(* ProviderRequests for TLC: a window of two ticks with room for two sends. *)
EXTENDS ProviderRequests

Delays == <<1, 2>>
Asked == [q \in Lookups \cup Askers |-> IF q \in Lookups THEN 2 ELSE 1]

=============================================================================
