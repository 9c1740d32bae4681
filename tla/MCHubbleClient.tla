--------------------------- MODULE MCHubbleClient ---------------------------
(* Instances of the Hubble client for TLC.                                 *)
EXTENDS HubbleClient

=============================================================================
