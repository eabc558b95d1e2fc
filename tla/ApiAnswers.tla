------------------------------ MODULE ApiAnswers ------------------------------
(***************************************************************************)
(* How the two programs read what pickle-api answers                        *)
(* (internal/terminal/apiclient.go, internal/route/client.go), and what     *)
(* they do about it before anything else happens (bridge.go, plugin.go).    *)
(* The other modules take these calls as one of a few outcomes; here is     *)
(* which answer makes which.                                                *)
(***************************************************************************)
EXTENDS CloseCodes, PinnedKeys

NoReason == "NOT_FILLED"

(* What Unmarshal makes of a body.  One that does not decode may have       *)
(* filled some fields on the way.  complete: the address, port and user     *)
(* (and the session id, in the bridge) are all there.                       *)
Body == [decodes : BOOLEAN, complete : BOOLEAN, hostKeys : SUBSET Encoded,
         allow : BOOLEAN, reason : DenialReason \cup {NoReason}]

(* arrived: the answer was there, and read, before the client's timeout.    *)
Answer == [arrived : BOOLEAN, status : 100..599, body : Body]

Outcome == [kind : {"allowed", "denied", "unkeyed", "conflict", "failed"},
            reason : DenialReason \cup {NoReason}, hostKeys : SUBSET Encoded]

Allowed(hostKeys) == [kind |-> "allowed", reason |-> NoReason, hostKeys |-> hostKeys]
Denied(reason) == [kind |-> "denied", reason |-> reason, hostKeys |-> {}]
Failed(kind) == [kind |-> kind, reason |-> NoReason, hostKeys |-> {}]

(* The target in a 200; without host keys it is an error of its own, or not.*)
Target(body, unkeyed) ==
  IF ~body.decodes \/ ~body.complete THEN Failed("failed")
  ELSE IF body.hostKeys = {} THEN Failed(unkeyed)
  ELSE Allowed(body.hostKeys)

-----------------------------------------------------------------------------
(***************************************************************************)
(* The bridge's client.                                                     *)
(***************************************************************************)
Redeem(answer) ==
  CASE answer.arrived /\ answer.status = 200 -> Target(answer.body, "unkeyed")
    [] answer.arrived /\ answer.status = 403 /\ answer.body.reason # NoReason
         -> Denied(answer.body.reason)
    [] OTHER -> Failed("failed")

SessionStart(answer) ==
  CASE answer.arrived /\ answer.status \in {200, 204} -> Allowed({})
    [] answer.arrived /\ answer.status = 409          -> Failed("conflict")
    [] OTHER                                          -> Failed("failed")

Revalidate(answer) ==
  LET read == answer.arrived /\ answer.status = 200 /\ answer.body.decodes IN
  CASE read /\ answer.body.allow -> Allowed({})
    [] read /\ ~answer.body.allow /\ answer.body.reason # NoReason
         -> Denied(answer.body.reason)
    [] OTHER -> Failed("failed")

(* handleWS: NoVerdict goes on to serveSession.                             *)
RedeemVerdict(outcome) ==
  CASE outcome.kind = "allowed" -> NoVerdict
    [] outcome.kind = "denied"  -> Refusal(CloseCodeForReason(outcome.reason))
    [] outcome.kind = "unkeyed" -> Refusal(closeConnFailed)
    [] OTHER                    -> Refusal(closeMaintenance)

(* serveSession: NoVerdict goes on to register.                             *)
StartVerdict(outcome) ==
  CASE outcome.kind = "allowed"  -> NoVerdict
    [] outcome.kind = "conflict" -> Verdict("REVALIDATION_DENIED", closeMaintenance)
    [] OTHER                     -> Verdict("SSH_FAILED", closeConnFailed)

(* revalidateLoop: the verdict it ends with, or NoVerdict and its count.    *)
Poll(outcome, failures, maxFailures) ==
  CASE outcome.kind = "allowed" -> [verdict |-> NoVerdict, failures |-> 0]
    [] outcome.kind = "denied" ->
         [verdict  |-> Verdict("REVALIDATION_DENIED", CloseCodeForReason(outcome.reason)),
          failures |-> failures]
    [] OTHER ->
         [verdict  |-> IF failures + 1 >= maxFailures
                       THEN Verdict("REVALIDATION_DENIED", closeMaintenance)
                       ELSE NoVerdict,
          failures |-> failures + 1]

-----------------------------------------------------------------------------
(***************************************************************************)
(* The plugin's client.  A denial needs no reason here.                     *)
(***************************************************************************)
Resolve(answer) ==
  CASE answer.arrived /\ answer.status = 200 -> Target(answer.body, "failed")
    [] answer.arrived /\ answer.status \in {401, 403, 404, 429}
         -> Denied(answer.body.reason)
    [] OTHER -> Failed("failed")

(* resolveMemoized: an allow, or what isDenial recognises.                  *)
Memoized(outcome) == outcome.kind \in {"allowed", "denied"}

-----------------------------------------------------------------------------
(***************************************************************************)
(* To which hosts an answer lets the two programs talk.                     *)
(***************************************************************************)
BridgeTalksTo(answer, presented) ==
  /\ RedeemVerdict(Redeem(answer)) = NoVerdict
  /\ DialAccepts(Redeem(answer).hostKeys, presented)

GatewayTalksTo(answer, presented) ==
  /\ Resolve(answer).kind = "allowed"
  /\ VerifyHostKey(TRUE, Resolve(answer).hostKeys, presented)

=============================================================================
