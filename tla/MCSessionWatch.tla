---------------------------- MODULE MCSessionWatch ----------------------------
(* SessionWatch with two deny reasons that close with different codes.      *)
EXTENDS SessionWatch

MCDenyReason == {"ACCESS_REVOKED", "OTHER"}

=============================================================================
