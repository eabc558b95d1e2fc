--------------------------- MODULE MCTerminalBridge ---------------------------
(***************************************************************************)
(* TerminalBridge on a small instance.  Two sessions are enough for one to  *)
(* race the other for the last slot of a cap of one.                        *)
(***************************************************************************)
EXTENDS TerminalBridge, TLC

(* One deny reason with a code of its own and one mapped to the default.    *)
MCDenyReason == {"ACCESS_REVOKED", "SESSION_UNKNOWN"}

(* The shutdown run does without explicit denies: a deny is one more caller *)
(* of end, and the run is about who waits for the caller.                   *)
MCNoDeny == {}

(* Sessions differ in nothing but their name.                               *)
Symmetric == Permutations(Session)

=============================================================================
