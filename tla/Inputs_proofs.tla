----------------------------- MODULE Inputs_proofs -----------------------------
(***************************************************************************)
(* What the programs make of what they are given: flags and environment,    *)
(* the subprotocols a browser offers, the answers of pickle-api, and the    *)
(* host keys an answer pins.  None of it has a state; the theorems say what *)
(* the modules that do have one may take for granted.                       *)
(***************************************************************************)
EXTENDS BridgeConfig, Handshake, ApiAnswers, TLAPS

(* Every tunable the bridge runs with is positive, negative flags included: *)
(* time.NewTicker panics on any other interval, and a cap of zero would     *)
(* admit nobody.  This is CapAssumption of TerminalBridge and               *)
(* TunableAssumption of SessionWatch.                                       *)
THEOREM TunablesArePositive ==
  ASSUME NEW config \in Config
  PROVE  /\ Validate(config) \in Config
         /\ \A t \in Tunable : Validate(config).tunable[t] \in Nat \ {0}
<1>1. \A t \in Tunable : Default[t] \in Nat \ {0}
  BY DEF Default, Tunable, Flagged, Seconds
<1>2. ApplyDefaults(config.tunable) \in [Tunable -> Nat \ {0}]
  BY <1>1 DEF ApplyDefaults, Config
<1> QED BY <1>2 DEF Validate, Config

(* No flag reaches the cap on failures or the timeouts, so that a deployed  *)
(* bridge cuts a revoked session within five polls and five seconds; and    *)
(* the watchers keep their pace if the three intervals leave room for the   *)
(* fixed timeouts, which Validate does not ask for.                         *)
THEOREM DeployedPace ==
  ASSUME NEW filled \in SUBSET Mandatory, NEW flag \in [Flagged -> Int]
  PROVE  LET tunable == Validate(FromFlags(filled, flag)).tunable IN
         /\ tunable["RevalidateMaxFailures"] = 5 /\ tunable["APITimeout"] = Seconds(5)
         /\ Paced(tunable) <=>
              /\ tunable["RevalidateInterval"] >= Seconds(5)
              /\ tunable["PingInterval"] >= Seconds(10)
              /\ tunable["IdleTimeout"] > tunable["PingInterval"] + Seconds(10)
<1> DEFINE tunable == Validate(FromFlags(filled, flag)).tunable
<1>1. \A t \in Tunable \ Flagged : tunable[t] = Default[t]
  BY DEF Validate, FromFlags, ApplyDefaults
<1>2. /\ Default["RevalidateMaxFailures"] = 5 /\ Default["APITimeout"] = Seconds(5)
      /\ Default["WSWriteTimeout"] = Seconds(10)
  BY DEF Default, Tunable
<1>3. {"RevalidateMaxFailures", "APITimeout", "WSWriteTimeout"} \subseteq Tunable \ Flagged
  BY DEF Tunable, Flagged
<1>4. /\ tunable["RevalidateMaxFailures"] = 5 /\ tunable["APITimeout"] = Seconds(5)
      /\ tunable["WSWriteTimeout"] = Seconds(10)
  BY <1>1, <1>2, <1>3
<1>5. \A t \in Tunable : tunable[t] \in Nat
  <2>1. FromFlags(filled, flag) \in Config
    BY DEF FromFlags, Config
  <2> QED BY <2>1, TunablesArePositive
<1>6. {"RevalidateInterval", "PingInterval", "IdleTimeout"} \subseteq Tunable
  BY DEF Tunable, Flagged
<1> HIDE DEF tunable
<1>7. Paced(tunable) <=>
        /\ tunable["RevalidateInterval"] >= Seconds(5)
        /\ tunable["PingInterval"] >= Seconds(10)
        /\ tunable["IdleTimeout"] > tunable["PingInterval"] + Seconds(10)
  BY <1>4, <1>5, <1>6 DEF Paced, Seconds
<1> QED BY <1>4, <1>7 DEF tunable

-----------------------------------------------------------------------------
(* A ticket is accepted exactly when it comes with the name and nothing     *)
(* else, in either order (codes.go:92-96): a second name, a second ticket,  *)
(* an empty ticket or a third element refuse the offer.                     *)
THEOREM ExactlyNameAndTicket ==
  ASSUME NEW tokens \in Seq(Offered), NEW t \in Ticket, Nothing \notin Ticket
  PROVE  ParseSubprotocols(tokens) = t
           <=> Len(tokens) = 2 /\ {tokens[1], tokens[2]} = {Name, Bearing(t)}
<1>1. CASE Len(tokens) # 2
  BY <1>1 DEF ParseSubprotocols
<1>2. CASE Len(tokens) = 2
  <2> DEFINE x == tokens[1]  y == tokens[2]
  <2>1. x \in Offered /\ y \in Offered
    BY <1>2
  <2>2. ASSUME NEW z \in Offered
        PROVE  z.kind = "ticket" /\ z.ticket = t <=> z = Bearing(t)
    BY DEF Offered, Name, Foreign, Bearing, Token
  <2>3. Name.kind # "ticket" /\ Name # Bearing(t)
    BY DEF Name, Bearing, Token
  <2>4. ParseSubprotocols(tokens) = t
          <=> (x = Name \/ y = Name) /\ (x = Bearing(t) \/ y = Bearing(t))
    BY <1>2, <2>1, <2>2, <2>3 DEF ParseSubprotocols, LastTicket
  <2> QED BY <1>2, <2>3, <2>4
<1> QED BY <1>1, <1>2

-----------------------------------------------------------------------------
(***************************************************************************)
(* Answers of pickle-api.                                                   *)
(***************************************************************************)
(* The two verifiers, one built before the dial and one that reads the      *)
(* lines for every key, accept the same keys.                               *)
LEMMA SameKeys ==
  ASSUME NEW lines \in SUBSET Encoded, NEW presented \in Encoded, presented.parses
  PROVE  DialAccepts(lines, presented) <=> VerifyHostKey(TRUE, lines, presented)
BY DEF DialAccepts, VerifyHostKey, Unpinnable, Parsed, Encoded

(* From the same answer the bridge and the gateway talk to the same hosts:  *)
(* those one of whose keys the answer names, in a line that parses, beside  *)
(* a complete target.  One malformed line spoils nothing, and nothing but   *)
(* malformed lines trusts nobody (ssh.go:107-110, plugin.go:166-171).       *)
THEOREM OnlyNamedHosts ==
  ASSUME NEW answer \in Answer, NEW presented \in Encoded, presented.parses
  PROVE  LET named == /\ answer.arrived /\ answer.status = 200
                      /\ answer.body.decodes /\ answer.body.complete
                      /\ \E line \in answer.body.hostKeys :
                           line.parses /\ line.key = presented.key
         IN  /\ BridgeTalksTo(answer, presented) <=> named
             /\ GatewayTalksTo(answer, presented) <=> named
<1> DEFINE lines == answer.body.hostKeys
           ready == /\ answer.arrived /\ answer.status = 200
                    /\ answer.body.decodes /\ answer.body.complete /\ lines # {}
           spelled == \E line \in lines : line.parses /\ line.key = presented.key
<1>1. lines \in SUBSET Encoded
  BY DEF Answer, Body
<1>2. VerifyHostKey(TRUE, lines, presented) <=> spelled
  BY DEF VerifyHostKey
<1>3. DialAccepts(lines, presented) <=> spelled
  BY <1>1, <1>2, SameKeys
<1>4. /\ Resolve(answer).kind = "allowed" <=> ready
      /\ ready => Resolve(answer).hostKeys = lines
  BY DEF Resolve, Target, Allowed, Denied, Failed
<1>5. /\ Redeem(answer).kind = "allowed" <=> ready
      /\ ready => Redeem(answer).hostKeys = lines
  BY DEF Redeem, Target, Allowed, Denied, Failed
<1>6. RedeemVerdict(Redeem(answer)) = NoVerdict <=> Redeem(answer).kind = "allowed"
  BY DEF RedeemVerdict, NoVerdict, Refusal, Verdict
<1> HIDE DEF ready
<1>7. BridgeTalksTo(answer, presented) <=> ready /\ spelled
  BY <1>3, <1>5, <1>6 DEF BridgeTalksTo
<1>8. GatewayTalksTo(answer, presented) <=> ready /\ spelled
  BY <1>2, <1>4 DEF GatewayTalksTo
<1> QED BY <1>7, <1>8 DEF ready

(* What a browser can be shown for its ticket: every code RedeemAnswered of *)
(* TerminalBridge chooses from is what some answer makes, and no answer     *)
(* makes another.                                                           *)
RedeemVerdicts ==
  {NoVerdict, Refusal(closeConnFailed), Refusal(closeMaintenance)}
    \cup {Refusal(CloseCodeForReason(reason)) : reason \in DenialReason}

(* The choices of RedeemAnswered are exactly what the answers of pickle-api *)
(* come to (bridge.go:97-119).                                              *)
THEOREM RedeemIsAnswered ==
  ASSUME HostKey # {}
  PROVE  {RedeemVerdict(Redeem(answer)) : answer \in Answer} = RedeemVerdicts
<1> DEFINE Made == {RedeemVerdict(Redeem(answer)) : answer \in Answer}
<1>1. ASSUME NEW answer \in Answer
      PROVE  RedeemVerdict(Redeem(answer)) \in RedeemVerdicts
  <2>1. answer.body.reason \in DenialReason \cup {NoReason}
    BY DEF Answer, Body
  <2> QED BY <2>1 DEF RedeemVerdict, Redeem, Target, Allowed, Denied, Failed, RedeemVerdicts
<1> DEFINE Says(status, lines, reason) ==
      [arrived |-> TRUE, status |-> status,
       body    |-> [decodes |-> TRUE, complete |-> TRUE, hostKeys |-> lines,
                    allow   |-> FALSE, reason |-> reason]]
<1>2. ASSUME NEW status \in 100..599, NEW lines \in SUBSET Encoded,
             NEW reason \in DenialReason \cup {NoReason}
      PROVE  Says(status, lines, reason) \in Answer
  BY DEF Answer, Body
<1>3. PICK key : key \in HostKey
  OBVIOUS
<1>4. NoVerdict = RedeemVerdict(Redeem(Says(200, {[parses |-> TRUE, key |-> key]}, NoReason)))
  BY DEF RedeemVerdict, Redeem, Target, Allowed
<1>5. Refusal(closeConnFailed) = RedeemVerdict(Redeem(Says(200, {}, NoReason)))
  BY DEF RedeemVerdict, Redeem, Target, Failed
<1>6. Refusal(closeMaintenance) = RedeemVerdict(Redeem(Says(500, {}, NoReason)))
  BY DEF RedeemVerdict, Redeem, Failed
<1>7. ASSUME NEW reason \in DenialReason
      PROVE  Refusal(CloseCodeForReason(reason))
               = RedeemVerdict(Redeem(Says(403, {}, reason)))
  BY DEF RedeemVerdict, Redeem, Denied, DenialReason, NoReason
<1>8. 200 \in 100..599 /\ 403 \in 100..599 /\ 500 \in 100..599
  OBVIOUS
<1> HIDE DEF Says
<1>9. NoVerdict \in Made
  <2>1. {[parses |-> TRUE, key |-> key]} \in SUBSET Encoded
    BY <1>3 DEF Encoded
  <2>2. Says(200, {[parses |-> TRUE, key |-> key]}, NoReason) \in Answer
    BY <1>2, <1>8, <2>1
  <2> QED BY <1>4, <2>2
<1>10. Refusal(closeConnFailed) \in Made
  <2>1. Says(200, {}, NoReason) \in Answer
    BY <1>2, <1>8
  <2> QED BY <1>5, <2>1
<1>11. Refusal(closeMaintenance) \in Made
  <2>1. Says(500, {}, NoReason) \in Answer
    BY <1>2, <1>8
  <2> QED BY <1>6, <2>1
<1>12. ASSUME NEW reason \in DenialReason
       PROVE  Refusal(CloseCodeForReason(reason)) \in Made
  <2>1. Says(403, {}, reason) \in Answer
    BY <1>2, <1>8
  <2> QED BY <1>7, <2>1
<1>13. Made \subseteq RedeemVerdicts
  BY <1>1
<1> HIDE DEF Made
<1>14. RedeemVerdicts \subseteq Made
  BY <1>9, <1>10, <1>11, <1>12 DEF RedeemVerdicts
<1>15. Made = RedeemVerdicts
  BY <1>13, <1>14
<1> QED BY <1>15 DEF Made

(* A call succeeds only on an answer that was read and says so; any other   *)
(* one refuses the login, ends the session, or, for a poll, counts          *)
(* (apiclient.go:13-17, client.go:154-158).                                 *)
THEOREM NothingSucceedsInSilence ==
  ASSUME NEW answer \in Answer, NEW maxFailures \in Nat \ {0},
         NEW failures \in 0..(maxFailures - 1)
  PROVE  LET poll == Poll(Revalidate(answer), failures, maxFailures) IN
         /\ StartVerdict(SessionStart(answer)) = NoVerdict
              <=> answer.arrived /\ answer.status \in {200, 204}
         /\ \/ /\ poll.verdict = NoVerdict /\ poll.failures = 0
               /\ answer.arrived /\ answer.status = 200
               /\ answer.body.decodes /\ answer.body.allow
            \/ poll.verdict = NoVerdict /\ poll.failures = failures + 1
               /\ poll.failures < maxFailures
            \/ poll.verdict \in EndVerdict
<1> DEFINE poll == Poll(Revalidate(answer), failures, maxFailures)
<1>1. StartVerdict(SessionStart(answer)) = NoVerdict
        <=> answer.arrived /\ answer.status \in {200, 204}
  BY DEF StartVerdict, SessionStart, Allowed, Failed, NoVerdict, Verdict
<1>2. CASE Revalidate(answer).kind = "allowed"
  <2>1. /\ answer.arrived /\ answer.status = 200
        /\ answer.body.decodes /\ answer.body.allow
    BY <1>2 DEF Revalidate, Denied, Failed
  <2>2. poll.verdict = NoVerdict /\ poll.failures = 0
    BY <1>2 DEF Poll
  <2> QED BY <1>1, <2>1, <2>2
<1>3. CASE Revalidate(answer).kind = "denied"
  <2>1. Revalidate(answer).reason \in DenialReason
    BY <1>3 DEF Revalidate, Allowed, Denied, Failed, Answer, Body
  <2>2. poll.verdict \in EndVerdict
    BY <1>3, <2>1 DEF Poll, EndVerdict
  <2> QED BY <1>1, <2>2
<1>4. CASE Revalidate(answer).kind \notin {"allowed", "denied"}
  <2>1. CloseCodeForReason("OTHER") = closeMaintenance /\ "OTHER" \in DenialReason
    BY DEF CloseCodeForReason, DenialReason
  <2>2. Verdict("REVALIDATION_DENIED", closeMaintenance) \in EndVerdict
    BY <2>1 DEF EndVerdict
  <2>3. /\ poll.failures = failures + 1
        /\ poll.verdict = IF failures + 1 >= maxFailures
                          THEN Verdict("REVALIDATION_DENIED", closeMaintenance)
                          ELSE NoVerdict
    BY <1>4 DEF Poll
  <2> HIDE DEF poll
  <2>4. \/ poll.verdict = NoVerdict /\ poll.failures = failures + 1
           /\ poll.failures < maxFailures
        \/ poll.verdict \in EndVerdict
    <3>1. poll.verdict = NoVerdict => failures + 1 < maxFailures
      <4>1. CASE failures + 1 >= maxFailures
        <5>1. poll.verdict = Verdict("REVALIDATION_DENIED", closeMaintenance)
          BY <2>3, <4>1
        <5> QED BY <5>1 DEF NoVerdict, Verdict
      <4> QED BY <4>1
    <3> QED BY <2>2, <2>3, <3>1
  <2> QED BY <1>1, <2>4 DEF poll
<1> QED BY <1>2, <1>3, <1>4

(* One answer ends a session whose count is not at its last only if it is a *)
(* 200 that denies and says why; a revoked access is shown as such, and     *)
(* nothing else is (apiclient.go:157-161, codes.go:74-90).                  *)
THEOREM OneAnswerEndsOnlyByDenial ==
  ASSUME NEW answer \in Answer, NEW maxFailures \in Nat,
         NEW failures \in Nat, failures + 1 < maxFailures
  PROVE  LET verdict == Poll(Revalidate(answer), failures, maxFailures).verdict
             denied  == /\ answer.arrived /\ answer.status = 200 /\ answer.body.decodes
                        /\ ~answer.body.allow /\ answer.body.reason # NoReason
         IN  /\ verdict # NoVerdict <=> denied
             /\ verdict.code = closeAccessRevoked
                  <=> denied /\ answer.body.reason = "ACCESS_REVOKED"
<1> DEFINE verdict == Poll(Revalidate(answer), failures, maxFailures).verdict
           denied == /\ answer.arrived /\ answer.status = 200 /\ answer.body.decodes
                     /\ ~answer.body.allow /\ answer.body.reason # NoReason
<1>1. ~(failures + 1 >= maxFailures)
  OBVIOUS
<1>2. CASE denied
  <2>1. Revalidate(answer) = Denied(answer.body.reason)
    BY <1>2 DEF Revalidate
  <2>2. verdict = Verdict("REVALIDATION_DENIED", CloseCodeForReason(answer.body.reason))
    BY <2>1 DEF Poll, Denied
  <2>3. verdict # NoVerdict /\ verdict.code = CloseCodeForReason(answer.body.reason)
    BY <2>2 DEF Verdict, NoVerdict
  <2>4. CloseCodeForReason(answer.body.reason) = closeAccessRevoked
          <=> answer.body.reason = "ACCESS_REVOKED"
    BY DEF CloseCodeForReason, closeTicketInvalid, closeVMNotRunning, closeAccessRevoked,
           closeDisabled, closeMaintenance
  <2> QED BY <1>2, <2>3, <2>4
<1>3. CASE ~denied
  <2>1. Revalidate(answer).kind \in {"allowed", "failed"}
    BY <1>3 DEF Revalidate, Allowed, Failed, Answer, Body
  <2>2. verdict = NoVerdict
    BY <1>1, <2>1 DEF Poll
  <2> QED BY <1>3, <2>2 DEF NoVerdict, Verdict, closeAccessRevoked
<1> QED BY <1>2, <1>3

(* Between them ResolveAllows, ResolveDenies and ResolveFails of            *)
(* RoutePlugin are what the answers to a route request come to: a route is  *)
(* never without host keys, and what is not remembered is exactly what      *)
(* could not be read (client.go:185-211, plugin.go:218-228).                *)
THEOREM ResolveIsAnswered ==
  /\ {Resolve(answer) : answer \in Answer}
       = {Allowed(hostKeys) : hostKeys \in (SUBSET Encoded) \ {{}}}
           \cup {Denied(reason) : reason \in DenialReason \cup {NoReason}}
           \cup {Failed("failed")}
  /\ \A answer \in Answer : Memoized(Resolve(answer)) <=> Resolve(answer) # Failed("failed")
<1> DEFINE Made == {Resolve(answer) : answer \in Answer}
           Routes == {Allowed(hostKeys) : hostKeys \in (SUBSET Encoded) \ {{}}}
           Denials == {Denied(reason) : reason \in DenialReason \cup {NoReason}}
           Says(status, lines, reason) ==
             [arrived |-> TRUE, status |-> status,
              body    |-> [decodes |-> TRUE, complete |-> TRUE, hostKeys |-> lines,
                           allow   |-> FALSE, reason |-> reason]]
<1>1. ASSUME NEW answer \in Answer
      PROVE  Resolve(answer) \in Routes \cup Denials \cup {Failed("failed")}
  <2>1. /\ answer.body.hostKeys \in SUBSET Encoded
        /\ answer.body.reason \in DenialReason \cup {NoReason}
    BY DEF Answer, Body
  <2>2. \/ Resolve(answer) = Failed("failed")
        \/ Resolve(answer) = Denied(answer.body.reason)
        \/ Resolve(answer) = Allowed(answer.body.hostKeys) /\ answer.body.hostKeys # {}
    BY DEF Resolve, Target
  <2> QED BY <2>1, <2>2
<1>2. ASSUME NEW status \in 100..599, NEW lines \in SUBSET Encoded,
             NEW reason \in DenialReason \cup {NoReason}
      PROVE  Says(status, lines, reason) \in Answer
  BY DEF Answer, Body
<1>3. 200 \in 100..599 /\ 404 \in 100..599 /\ 500 \in 100..599
  OBVIOUS
<1>4. ASSUME NEW lines \in (SUBSET Encoded) \ {{}}
      PROVE  Allowed(lines) \in Made
  <2>1. Resolve(Says(200, lines, NoReason)) = Allowed(lines)
    BY DEF Resolve, Target
  <2> HIDE DEF Says
  <2>2. Says(200, lines, NoReason) \in Answer
    BY <1>2, <1>3
  <2> QED BY <2>1, <2>2
<1>5. ASSUME NEW reason \in DenialReason \cup {NoReason}
      PROVE  Denied(reason) \in Made
  <2>1. Resolve(Says(404, {}, reason)) = Denied(reason)
    BY DEF Resolve
  <2> HIDE DEF Says
  <2>2. Says(404, {}, reason) \in Answer
    BY <1>2, <1>3
  <2> QED BY <2>1, <2>2
<1>6. Failed("failed") \in Made
  <2>1. Resolve(Says(500, {}, NoReason)) = Failed("failed")
    BY DEF Resolve
  <2> HIDE DEF Says
  <2>2. Says(500, {}, NoReason) \in Answer
    BY <1>2, <1>3
  <2> QED BY <2>1, <2>2
<1>7. Made \subseteq Routes \cup Denials \cup {Failed("failed")}
  BY <1>1
<1>8. Routes \cup Denials \cup {Failed("failed")} \subseteq Made
  <2> HIDE DEF Made
  <2> QED BY <1>4, <1>5, <1>6
<1>9. \A answer \in Answer : Memoized(Resolve(answer)) <=> Resolve(answer) # Failed("failed")
  BY DEF Memoized, Resolve, Target, Allowed, Denied, Failed
<1> QED BY <1>7, <1>8, <1>9

=============================================================================
