--------------------------- MODULE MCCertManager ---------------------------
(* Instances of the webhook's certificate management for TLC.              *)
EXTENDS CertManager

CONSTANTS r1, r2

=============================================================================
