------------------------------ MODULE CloseCodes ------------------------------
(***************************************************************************)
(* The vocabulary of session endings: the WebSocket close codes the         *)
(* browser sees, the deny reasons pickle-api answers with, the end reasons  *)
(* the bridge reports back, and the mapping between them                    *)
(* (internal/terminal/codes.go, internal/terminal/apiclient.go).            *)
(***************************************************************************)
EXTENDS Integers

closeNormal        == 1000
closeMaintenance   == 1001
closeTicketInvalid == 4000
closeIdle          == 4001
closeForce         == 4002
closeVMNotRunning  == 4003
closeAccessRevoked == 4004
closeDisabled      == 4005
closeConnFailed    == 4006

CloseCode == {closeNormal, closeMaintenance, closeTicketInvalid, closeIdle,
              closeForce, closeVMNotRunning, closeAccessRevoked,
              closeDisabled, closeConnFailed}

(* "OTHER" stands for every reason string the bridge does not know.         *)
DenialReason == {"TICKET_INVALID", "VM_NOT_RUNNING", "ACCESS_REVOKED",
                 "TERMINAL_DISABLED", "SESSION_UNKNOWN", "OTHER"}

CloseCodeForReason(reason) ==
  CASE reason = "TICKET_INVALID"    -> closeTicketInvalid
    [] reason = "VM_NOT_RUNNING"    -> closeVMNotRunning
    [] reason = "ACCESS_REVOKED"    -> closeAccessRevoked
    [] reason = "TERMINAL_DISABLED" -> closeDisabled
    [] OTHER                        -> closeMaintenance

(***************************************************************************)
(* A verdict says why a connection is closed: the reason reported to the    *)
(* api and the code shown to the browser.  A connection refused before it   *)
(* has a session (closeWith) is shown a code and reported to nobody.        *)
(***************************************************************************)
Verdict(reason, code) == [reason |-> reason, code |-> code]

Refusal(code) == Verdict("UNREPORTED", code)

NoVerdict == Verdict("NONE", 0)

(* Every pair some caller passes to end.                                    *)
EndVerdict ==
  {Verdict("CLIENT_CLOSED", closeNormal), Verdict("IDLE_TIMEOUT", closeIdle),
   Verdict("FORCE_TERMINATED", closeForce),
   Verdict("SSH_FAILED", closeConnFailed),
   Verdict("BRIDGE_SHUTDOWN", closeMaintenance)}
    \cup {Verdict("REVALIDATION_DENIED", CloseCodeForReason(reason)) :
            reason \in DenialReason}

VerdictType ==
  EndVerdict \cup {Refusal(code) : code \in CloseCode} \cup {NoVerdict}

=============================================================================
