---------------------------- MODULE TerminalBridge ----------------------------
(***************************************************************************)
(* The session lifecycle of the web-terminal bridge                         *)
(* (internal/terminal/bridge.go, control.go, apiclient.go, ssh.go and       *)
(* cmd/sshgw-terminal-bridge/main.go).                                      *)
(*                                                                          *)
(* A session is one browser connection that presents one ticket.  Several   *)
(* goroutines act on it: its handler (handleWS and serveSession, then the   *)
(* read loop), the goroutines that may call end() while the handler runs    *)
(* (SSH writer, ping, revalidation, idle timer, SSH wait, force-terminate,  *)
(* Shutdown), and the one of them that wins endOnce and runs the teardown.  *)
(* The mutex-protected sections are single steps; everything between two of *)
(* them interleaves.  pickle-api, the browser and the VM are the            *)
(* environment: an answer of theirs may be slow, lost or never come.        *)
(***************************************************************************)
EXTENDS CloseCodes, FiniteSets

CONSTANTS
  Session,      \* the connections, named by the session id their ticket carries
  MaxSessions,  \* the bridge-global cap (Config.MaxSessions)
  DenyReason    \* the deny reasons pickle-api may answer with

ASSUME SessionAssumption == IsFiniteSet(Session)
ASSUME CapAssumption == MaxSessions \in Nat \ {0}
ASSUME DenyAssumption == DenyReason \subseteq DenialReason

VARIABLES
  handler,   \* where the goroutine of handleWS / serveSession stands
  browser,   \* whether the browser still holds its end of the WebSocket
  ssh,       \* the SSH client to the VM: none, open or closed
  once,      \* progress of the endOnce body
  verdict,   \* reason and code of the first caller of end (or of closeWith)
  forced,    \* sessions with a force-terminate goroutine about to call end
  active,    \* Bridge.active
  sessions,  \* the keys of Bridge.sessions
  closed,    \* Bridge.closed
  main,      \* where cmd/sshgw-terminal-bridge's run() stands
  live,      \* the snapshot Shutdown took of Bridge.sessions
  registry,  \* what pickle-api believes about the session
  start,     \* the session-start request and its answer
  report     \* the session-end request

connVars == <<handler, browser, ssh>>
endVars  == <<once, verdict, forced>>
poolVars == <<active, sessions, closed>>
mainVars == <<main, live>>
apiVars  == <<registry, start, report>>
vars     == <<connVars, endVars, poolVars, mainVars, apiVars>>

HandlerAt == {"idle", "redeeming", "admitting", "dialing", "opening",
              "starting", "registering", "arming", "reading", "ending", "gone"}
OnceAt == {"free", "closing", "stalled", "closed", "unregistered",
           "released", "reporting", "done"}
MainAt == {"serving", "closing", "draining", "exited"}
RegistryAt == {"minted", "redeemed", "started", "terminated", "ended"}
StartAt == {"none", "sent", "ok", "conflict"}
ReportAt == {"none", "sent", "handled"}

(* A serving handler owns a slot it acquired and has not called end yet.    *)
Serving == {"dialing", "opening", "starting", "registering", "arming", "reading"}

(* The writer goroutines exist from the moment Shell() returned.            *)
Shelled == {"starting", "registering", "arming", "reading"}

Up == main # "exited"

(* The sessions whose acquire has not been balanced by a release.           *)
Holders == {s \in Session :
              \/ once[s] = "free" /\ handler[s] \in Serving
              \/ once[s] \in {"closing", "stalled", "closed", "unregistered"}}

(* The sessions that have an SSH connection into a VM.                      *)
Upstreams == {s \in Session : ssh[s] = "open"}

Init ==
  /\ handler = [s \in Session |-> "idle"]
  /\ browser = [s \in Session |-> "here"]
  /\ ssh = [s \in Session |-> "none"]
  /\ once = [s \in Session |-> "free"]
  /\ verdict = [s \in Session |-> NoVerdict]
  /\ forced = {}
  /\ active = 0
  /\ sessions = {}
  /\ closed = FALSE
  /\ main = "serving"
  /\ live = {}
  /\ registry = [s \in Session |-> "minted"]
  /\ start = [s \in Session |-> "none"]
  /\ report = [s \in Session |-> "none"]

GoTo(s, place) == handler' = [handler EXCEPT ![s] = place]

-----------------------------------------------------------------------------
(***************************************************************************)
(* end(reason, code).  sync.Once lets one caller run the body; Claim is     *)
(* that moment.  A later caller only waits for the body, so it changes      *)
(* nothing: a pending force-terminate goroutine is dropped at the claim.    *)
(* The idle timer is stopped here too; a timer that escapes the Stop fires  *)
(* into a claimed Once and is such a caller.                                *)
(***************************************************************************)
Claim(s, v) ==
  /\ once[s] = "free"
  /\ once' = [once EXCEPT ![s] = "closing"]
  /\ verdict' = [verdict EXCEPT ![s] = v]
  /\ forced' = forced \ {s}

(* The handler calls end itself: it runs the body or waits for its runner.  *)
HandlerEnds(s, v) ==
  /\ GoTo(s, "ending")
  /\ \/ Claim(s, v)
     \/ once[s] # "free" /\ UNCHANGED endVars

\* faulty variant: the SSH client is left to the garbage collector
CloseSocketOnly(s) ==
  /\ once[s] = "closing"
  /\ once' = [once EXCEPT ![s] = "closed"]
  /\ browser' = [browser EXCEPT ![s] = "gone"]
  /\ UNCHANGED <<handler, ssh, verdict, forced, poolVars, mainVars, apiVars>>

(* Exit frame, WebSocket close, cancel, SSH session and client close, when  *)
(* all of them return.                                                      *)
CloseTransports(s) ==
  /\ once[s] = "closing"
  /\ once' = [once EXCEPT ![s] = "closed"]
  /\ browser' = [browser EXCEPT ![s] = "gone"]
  /\ ssh' = [ssh EXCEPT ![s] = IF @ = "open" THEN "closed" ELSE @]
  /\ UNCHANGED <<handler, verdict, forced, poolVars, mainVars, apiVars>>

(***************************************************************************)
(* They need not return.  The exit frame and the WebSocket close have their *)
(* timeouts, sshSession.Close has none: it writes a message under the lock  *)
(* of the SSH transport, which a stdin.Write or a WindowChange holds while  *)
(* a VM that acknowledges and takes no bytes keeps it waiting.  The client  *)
(* close, which would break the connection, comes after it.                 *)
(***************************************************************************)
CloseStalls(s) ==
  /\ once[s] = "closing"
  /\ ssh[s] = "open"
  /\ once' = [once EXCEPT ![s] = "stalled"]
  /\ browser' = [browser EXCEPT ![s] = "gone"]
  /\ UNCHANGED <<handler, ssh, verdict, forced, poolVars, mainVars, apiVars>>

(* The VM takes bytes again, or its end of the connection breaks.           *)
CloseReturns(s) ==
  /\ once[s] = "stalled"
  /\ once' = [once EXCEPT ![s] = "closed"]
  /\ ssh' = [ssh EXCEPT ![s] = "closed"]
  /\ UNCHANGED <<handler, browser, verdict, forced, poolVars, mainVars, apiVars>>

\* faulty variant: once Shutdown has the map, entries stay in it
UnregisterUnlessClosed(s) ==
  /\ once[s] = "closed"
  /\ once' = [once EXCEPT ![s] = "unregistered"]
  /\ sessions' = IF closed THEN sessions ELSE sessions \ {s}
  /\ UNCHANGED <<connVars, verdict, forced, active, closed, mainVars, apiVars>>

Unregister(s) ==
  /\ once[s] = "closed"
  /\ once' = [once EXCEPT ![s] = "unregistered"]
  /\ sessions' = sessions \ {s}
  /\ UNCHANGED <<connVars, verdict, forced, active, closed, mainVars, apiVars>>

Release(s) ==
  /\ once[s] = "unregistered"
  /\ once' = [once EXCEPT ![s] = "released"]
  /\ active' = IF active > 0 THEN active - 1 ELSE active
  /\ UNCHANGED <<connVars, verdict, forced, sessions, closed, mainVars, apiVars>>

\* faulty variant: only a session the map still has is reported
ReportIfRegistered(s) ==
  /\ once[s] = "released"
  /\ once' = [once EXCEPT ![s] = "reporting"]
  /\ report' = [report EXCEPT ![s] = IF s \in sessions THEN "sent" ELSE @]
  /\ UNCHANGED <<connVars, verdict, forced, poolVars, mainVars, registry, start>>

(* The session-end POST: one attempt, bounded by APITimeout.                *)
SendReport(s) ==
  /\ once[s] = "released"
  /\ once' = [once EXCEPT ![s] = "reporting"]
  /\ report' = [report EXCEPT ![s] = "sent"]
  /\ UNCHANGED <<connVars, verdict, forced, poolVars, mainVars, registry, start>>

\* faulty variant: the POST has no timeout
AwaitReport(s) ==
  /\ once[s] = "reporting"
  /\ report[s] = "handled"
  /\ once' = [once EXCEPT ![s] = "done"]
  /\ UNCHANGED <<connVars, verdict, forced, poolVars, mainVars, apiVars>>

(* The answer or the timeout; the outcome is logged and changes nothing.    *)
ReportReturns(s) ==
  /\ once[s] = "reporting"
  /\ once' = [once EXCEPT ![s] = "done"]
  /\ UNCHANGED <<connVars, verdict, forced, poolVars, mainVars, apiVars>>

(* The steps of the body that its goroutine takes by itself; CloseReturns   *)
(* is not among them.                                                       *)
Teardown(s) == Up /\ (\/ CloseTransports(s) \/ CloseStalls(s) \/ Unregister(s)
                      \/ Release(s) \/ SendReport(s) \/ ReportReturns(s))

-----------------------------------------------------------------------------
(***************************************************************************)
(* handleWS: handshake checks, Accept, redeem.                              *)
(***************************************************************************)
RejectHandshake(s) ==
  /\ handler[s] = "idle"
  /\ GoTo(s, "gone")
  /\ UNCHANGED <<browser, ssh, endVars, poolVars, mainVars, apiVars>>

Upgrade(s) ==
  /\ handler[s] = "idle"
  /\ GoTo(s, "redeeming")
  /\ UNCHANGED <<browser, ssh, endVars, poolVars, mainVars, apiVars>>

RedeemAllowed(s) ==
  /\ handler[s] = "redeeming"
  /\ GoTo(s, "admitting")
  /\ registry' = [registry EXCEPT ![s] = "redeemed"]
  /\ UNCHANGED <<browser, ssh, endVars, poolVars, mainVars, start, report>>

(* closeWith: exit frame and close, no session-end report.                  *)
CloseWith(s, code) ==
  /\ GoTo(s, "gone")
  /\ browser' = [browser EXCEPT ![s] = "gone"]
  /\ verdict' = [verdict EXCEPT ![s] = Refusal(code)]
  /\ UNCHANGED <<ssh, once, forced, poolVars, mainVars, start, report>>

RedeemDenied(s, reason) ==
  /\ handler[s] = "redeeming"
  /\ CloseWith(s, CloseCodeForReason(reason))
  /\ UNCHANGED registry

(* A 200 without host keys has consumed the ticket.                         *)
RedeemWithoutHostKeys(s) ==
  /\ handler[s] = "redeeming"
  /\ CloseWith(s, closeConnFailed)
  /\ registry' = [registry EXCEPT ![s] = "redeemed"]

(* Timeout, transport error, bad body: the api may or may not have acted.   *)
RedeemFails(s) ==
  /\ handler[s] = "redeeming"
  /\ CloseWith(s, closeMaintenance)
  /\ registry' \in {registry, [registry EXCEPT ![s] = "redeemed"]}

RedeemAnswered(s) ==
  \/ RedeemAllowed(s)
  \/ \E reason \in DenyReason : RedeemDenied(s, reason)
  \/ RedeemWithoutHostKeys(s)
  \/ RedeemFails(s)

(***************************************************************************)
(* serveSession: acquire, dial, open the shell, report the start, register, *)
(* start the background loops, read.                                        *)
(***************************************************************************)
\* faulty variant: off by one at the cap
CanAcquireOneMore == ~closed /\ active <= MaxSessions

CanAcquire == ~closed /\ active < MaxSessions

Acquire(s) ==
  /\ handler[s] = "admitting"
  /\ CanAcquire
  /\ active' = active + 1
  /\ GoTo(s, "dialing")
  /\ UNCHANGED <<browser, ssh, endVars, sessions, closed, mainVars, apiVars>>

\* faulty variant: the return after closeWith is missing
RefuseAndCarryOn(s) ==
  /\ handler[s] = "admitting"
  /\ ~CanAcquire
  /\ GoTo(s, "dialing")
  /\ browser' = [browser EXCEPT ![s] = "gone"]
  /\ verdict' = [verdict EXCEPT ![s] = Refusal(closeConnFailed)]
  /\ UNCHANGED <<ssh, once, forced, poolVars, mainVars, apiVars>>

RefuseAdmission(s) ==
  /\ handler[s] = "admitting"
  /\ ~CanAcquire
  /\ CloseWith(s, closeConnFailed)
  /\ UNCHANGED registry

(* DialVM is bounded by SSHConnectTimeout, handshake included.              *)
DialSucceeds(s) ==
  /\ handler[s] = "dialing"
  /\ ssh' = [ssh EXCEPT ![s] = "open"]
  /\ GoTo(s, "opening")
  /\ UNCHANGED <<browser, endVars, poolVars, mainVars, apiVars>>

\* faulty variant: a failed dial returns without end
DialFailsSilently(s) ==
  /\ handler[s] = "dialing"
  /\ GoTo(s, "gone")
  /\ UNCHANGED <<browser, ssh, endVars, poolVars, mainVars, apiVars>>

DialFails(s) ==
  /\ handler[s] = "dialing"
  /\ HandlerEnds(s, Verdict("SSH_FAILED", closeConnFailed))
  /\ UNCHANGED <<browser, ssh, poolVars, mainVars, apiVars>>

(***************************************************************************)
(* NewSession, StdinPipe, RequestPty and Shell wait for the VM with no      *)
(* deadline (DialVM cleared it), so nothing makes these two happen.  After  *)
(* Shell the session-start POST is sent.                                    *)
(***************************************************************************)
OpenSucceeds(s) ==
  /\ handler[s] = "opening"
  /\ GoTo(s, "starting")
  /\ start' = [start EXCEPT ![s] = "sent"]
  /\ UNCHANGED <<browser, ssh, endVars, poolVars, mainVars, registry, report>>

OpenFails(s) ==
  /\ handler[s] = "opening"
  /\ HandlerEnds(s, Verdict("SSH_FAILED", closeConnFailed))
  /\ UNCHANGED <<browser, ssh, poolVars, mainVars, apiVars>>

StartAccepted(s) ==
  /\ handler[s] = "starting"
  /\ start[s] = "ok"
  /\ GoTo(s, "registering")
  /\ UNCHANGED <<browser, ssh, endVars, poolVars, mainVars, apiVars>>

StartConflicts(s) ==
  /\ handler[s] = "starting"
  /\ start[s] = "conflict"
  /\ HandlerEnds(s, Verdict("REVALIDATION_DENIED", closeMaintenance))
  /\ UNCHANGED <<browser, ssh, poolVars, mainVars, apiVars>>

\* faulty variant: a lost session-start is not fatal
StartFailsOpen(s) ==
  /\ handler[s] = "starting"
  /\ GoTo(s, "registering")
  /\ UNCHANGED <<browser, ssh, endVars, poolVars, mainVars, apiVars>>

\* faulty variant: the call has no timeout, it fails only once answered
StartFailsWhenAnswered(s) ==
  /\ handler[s] = "starting"
  /\ start[s] # "sent"
  /\ HandlerEnds(s, Verdict("SSH_FAILED", closeConnFailed))
  /\ UNCHANGED <<browser, ssh, poolVars, mainVars, apiVars>>

(* APITimeout or a transport error, at any point of the call: the request   *)
(* may still be on its way, or handled with the answer lost.                *)
StartFails(s) ==
  /\ handler[s] = "starting"
  /\ HandlerEnds(s, Verdict("SSH_FAILED", closeConnFailed))
  /\ UNCHANGED <<browser, ssh, poolVars, mainVars, apiVars>>

\* faulty variant: registered as soon as the slot is acquired
RegisterBeforeDial(s) ==
  /\ handler[s] = "dialing"
  /\ s \notin sessions
  /\ sessions' = sessions \cup {s}
  /\ UNCHANGED <<connVars, endVars, active, closed, mainVars, apiVars>>

Register(s) ==
  /\ handler[s] = "registering"
  /\ sessions' = sessions \cup {s}
  /\ GoTo(s, "arming")
  /\ UNCHANGED <<browser, ssh, endVars, active, closed, mainVars, apiVars>>

(* The idle timer and the ping, revalidation and wait goroutines.           *)
StartLoops(s) ==
  /\ handler[s] = "arming"
  /\ GoTo(s, "reading")
  /\ UNCHANGED <<browser, ssh, endVars, poolVars, mainVars, apiVars>>

(* readLoop returns, on a read error or because stdin refused a write.      *)
ReadEnds(s) ==
  /\ handler[s] = "reading"
  /\ \/ HandlerEnds(s, Verdict("CLIENT_CLOSED", closeNormal))
     \/ HandlerEnds(s, Verdict("SSH_FAILED", closeConnFailed))
  /\ UNCHANGED <<browser, ssh, poolVars, mainVars, apiVars>>

(* end returns to the handler once the body has run, whoever ran it.        *)
HandlerReturns(s) ==
  /\ handler[s] = "ending"
  /\ once[s] = "done"
  /\ GoTo(s, "gone")
  /\ UNCHANGED <<browser, ssh, endVars, poolVars, mainVars, apiVars>>

Prompt(s) == Up /\ (\/ RedeemAnswered(s) \/ Acquire(s) \/ RefuseAdmission(s)
                    \/ DialSucceeds(s) \/ DialFails(s)
                    \/ StartAccepted(s) \/ StartConflicts(s) \/ StartFails(s)
                    \/ Register(s) \/ StartLoops(s) \/ HandlerReturns(s))

Unprompted(s) == Up /\ (\/ RejectHandshake(s) \/ Upgrade(s)
                        \/ OpenSucceeds(s) \/ OpenFails(s) \/ ReadEnds(s)
                        \/ CloseReturns(s))

-----------------------------------------------------------------------------
(***************************************************************************)
(* The goroutines that call end while the handler is elsewhere.             *)
(***************************************************************************)
Trigger(s, v) ==
  /\ Claim(s, v)
  /\ UNCHANGED <<connVars, poolVars, mainVars, apiVars>>

(* wsBinaryWriter.Write: the browser does not take the output in time.      *)
WriterFails(s) ==
  handler[s] \in Shelled /\ Trigger(s, Verdict("SSH_FAILED", closeConnFailed))

PingFails(s) ==
  handler[s] = "reading" /\ Trigger(s, Verdict("CLIENT_CLOSED", closeNormal))

ShellExits(s) ==
  handler[s] = "reading" /\ Trigger(s, Verdict("CLIENT_CLOSED", closeNormal))

IdleFires(s) ==
  handler[s] = "reading" /\ Trigger(s, Verdict("IDLE_TIMEOUT", closeIdle))

RevalidateDenied(s, reason) ==
  /\ handler[s] = "reading"
  /\ Trigger(s, Verdict("REVALIDATION_DENIED", CloseCodeForReason(reason)))

(* RevalidateMaxFailures polls in a row failed.                             *)
RevalidateExhausted(s) ==
  /\ handler[s] = "reading"
  /\ Trigger(s, Verdict("REVALIDATION_DENIED", closeMaintenance))

Background(s) == Up /\ (\/ WriterFails(s) \/ PingFails(s) \/ ShellExits(s)
                        \/ IdleFires(s) \/ RevalidateExhausted(s)
                        \/ \E reason \in DenyReason : RevalidateDenied(s, reason))

(***************************************************************************)
(* POST /control/terminate for a session the api has on its books: lookup   *)
(* under the mutex, a goroutine for end if it is there, 204 either way.  A  *)
(* goroutine that finds the Once taken changes nothing and is not recorded. *)
(***************************************************************************)
Terminate(s) ==
  /\ Up
  /\ registry[s] \in {"started", "terminated"}
  /\ registry' = [registry EXCEPT ![s] = "terminated"]
  /\ \/ s \in sessions /\ once[s] = "free" /\ forced' = forced \cup {s}
     \/ ~(s \in sessions /\ once[s] = "free") /\ UNCHANGED forced
  /\ UNCHANGED <<connVars, once, verdict, poolVars, mainVars, start, report>>

ForceRuns(s) ==
  Up /\ s \in forced /\ Trigger(s, Verdict("FORCE_TERMINATED", closeForce))

-----------------------------------------------------------------------------
(***************************************************************************)
(* main.run: SIGTERM leads to Bridge.Shutdown, then to a drain of the HTTP  *)
(* servers that is bounded by ten seconds, then to the exit; an error of a  *)
(* listener exits at once.                                                  *)
(***************************************************************************)
\* faulty variant: Shutdown forgets to close the door
ShutdownWithoutClosing ==
  /\ main = "serving"
  /\ main' = "closing"
  /\ live' = sessions
  /\ UNCHANGED <<connVars, endVars, poolVars, apiVars>>

ShutdownStarts ==
  /\ main = "serving"
  /\ main' = "closing"
  /\ closed' = TRUE
  /\ live' = sessions
  /\ UNCHANGED <<connVars, endVars, active, sessions, apiVars>>

ShutdownEnds(s) ==
  /\ main = "closing"
  /\ s \in live
  /\ Trigger(s, Verdict("BRIDGE_SHUTDOWN", closeMaintenance))

(* wg.Wait: every goroutine's end has returned.                             *)
ShutdownReturns ==
  /\ main = "closing"
  /\ \A s \in live : once[s] = "done"
  /\ main' = "draining"
  /\ UNCHANGED <<connVars, endVars, poolVars, live, apiVars>>

Drained ==
  /\ main = "draining"
  /\ main' = "exited"
  /\ UNCHANGED <<connVars, endVars, poolVars, live, apiVars>>

ListenerFails ==
  /\ main = "serving"
  /\ main' = "exited"
  /\ UNCHANGED <<connVars, endVars, poolVars, live, apiVars>>

ShuttingDown == ShutdownReturns \/ Drained

-----------------------------------------------------------------------------
(***************************************************************************)
(* The environment.  pickle-api handles a request when it handles it, also  *)
(* after the bridge has given up on it, and also after the bridge exited.   *)
(* It knows a session from its start on; an end it does not know is a no-op.*)
(***************************************************************************)
ApiHandlesStart(s) ==
  /\ start[s] = "sent"
  /\ \/ /\ registry[s] = "redeemed"
        /\ registry' = [registry EXCEPT ![s] = "started"]
        /\ start' = [start EXCEPT ![s] = "ok"]
     \/ /\ registry[s] # "redeemed"
        /\ start' = [start EXCEPT ![s] = "conflict"]
        /\ UNCHANGED registry
  /\ UNCHANGED <<connVars, endVars, poolVars, mainVars, report>>

ApiHandlesReport(s) ==
  /\ report[s] = "sent"
  /\ report' = [report EXCEPT ![s] = "handled"]
  /\ registry' = [registry EXCEPT ![s] = IF @ \in {"started", "terminated"}
                                         THEN "ended" ELSE @]
  /\ UNCHANGED <<connVars, endVars, poolVars, mainVars, start>>

(* The api drops a redeemed session that never started.                     *)
ApiRetires(s) ==
  /\ registry[s] = "redeemed"
  /\ registry' = [registry EXCEPT ![s] = "ended"]
  /\ UNCHANGED <<connVars, endVars, poolVars, mainVars, start, report>>

BrowserLeaves(s) ==
  /\ Up
  /\ handler[s] \notin {"idle", "gone"}
  /\ browser[s] = "here"
  /\ browser' = [browser EXCEPT ![s] = "gone"]
  /\ UNCHANGED <<handler, ssh, endVars, poolVars, mainVars, apiVars>>

Environment(s) == \/ ApiHandlesStart(s) \/ ApiHandlesReport(s)
                  \/ ApiRetires(s) \/ BrowserLeaves(s)

(* The process is gone: the end of every behaviour.                         *)
Exited == main = "exited" /\ UNCHANGED vars

Next ==
  \/ \E s \in Session :
       \/ Prompt(s) \/ Unprompted(s) \/ Background(s) \/ Teardown(s)
       \/ Terminate(s) \/ ForceRuns(s) \/ ShutdownEnds(s) \/ Environment(s)
  \/ ShutdownStarts \/ ShuttingDown \/ ListenerFails
  \/ Exited

Spec == Init /\ [][Next]_vars

(***************************************************************************)
(* What the runtime owes.  A runnable goroutine runs; a call with a timeout *)
(* returns; a browser that is gone is noticed by the read or by the ping.   *)
(* Nothing is owed by the VM (OpenSucceeds, OpenFails, CloseReturns), by    *)
(* pickle-api, by the user, by the triggers, or by whoever sends SIGTERM:   *)
(* a teardown gets as far as sshSession.Close and, if the VM lets that      *)
(* return, to its end.                                                      *)
(***************************************************************************)
NoticesGone(s) == Up /\ browser[s] = "gone" /\ (ReadEnds(s) \/ PingFails(s))

(* What Shutdown needs: the goroutines it starts, the teardowns it waits    *)
(* for, and itself.                                                         *)
ShutdownFairness ==
  /\ \A s \in Session : WF_vars(Teardown(s)) /\ WF_vars(ShutdownEnds(s))
  /\ WF_vars(ShuttingDown)

ShutdownFairSpec == Spec /\ ShutdownFairness

Fairness ==
  /\ ShutdownFairness
  /\ \A s \in Session :
       WF_vars(Prompt(s)) /\ WF_vars(ForceRuns(s)) /\ WF_vars(NoticesGone(s))

FairSpec == Spec /\ Fairness

-----------------------------------------------------------------------------
(***************************************************************************)
(* Properties.                                                              *)
(***************************************************************************)

(* Every variable has its type; in particular the slot counter stays        *)
(* between zero and the cap (acquire, release).                             *)
TypeOK ==
  /\ handler \in [Session -> HandlerAt]
  /\ browser \in [Session -> {"here", "gone"}]
  /\ ssh \in [Session -> {"none", "open", "closed"}]
  /\ once \in [Session -> OnceAt]
  /\ verdict \in [Session -> VerdictType]
  /\ forced \subseteq Session
  /\ active \in 0..MaxSessions
  /\ sessions \subseteq Session
  /\ closed \in BOOLEAN
  /\ main \in MainAt
  /\ live \subseteq Session
  /\ registry \in [Session -> RegistryAt]
  /\ start \in [Session -> StartAt]
  /\ report \in [Session -> ReportAt]

(* The counter of acquire and release is exactly the number of sessions     *)
(* between the two: no path of serveSession loses a slot or returns it      *)
(* twice, whoever runs the teardown.                                        *)
SlotAccounting == active = Cardinality(Holders)

(* The cap bounds the SSH connections into VMs themselves, teardowns in     *)
(* progress included, because end closes the transport before it releases.  *)
UpstreamCap == Cardinality(Upstreams) <= MaxSessions

(* A teardown that got past its closes leaves no SSH connection behind: no  *)
(* goroutine can run end before the dial it must close has returned.        *)
NoUpstreamOutlivesEnd ==
  \A s \in Session :
    once[s] \notin {"free", "closing", "stalled"} => ssh[s] # "open"

(* On the api's audit books, or off them again after its own end report.    *)
Booked(s) == \/ registry[s] \in {"started", "terminated"}
             \/ registry[s] = "ended" /\ report[s] = "handled"

(* The writer shows the browser what the VM prints, from Shell (bridge.go:  *)
(* 171-173, 188) until the teardown has closed the socket.                  *)
Showing(s) ==
  start[s] # "none" /\ ssh[s] = "open" /\ once[s] \in {"free", "closing"}

(* No input of the browser reaches the VM for a session the api has not on  *)
(* its audit books, even when the session-start answer is late, lost or a   *)
(* conflict.  Output may reach the browser earlier, for Shell comes before  *)
(* the session-start (bridge.go:188, :198), but only while that request     *)
(* waits or the handler is ending the session over it.                      *)
RelayIsAudited ==
  \A s \in Session :
    /\ handler[s] = "reading" => Booked(s)
    /\ Showing(s) /\ ~Booked(s) =>
         \/ handler[s] = "starting"
         \/ handler[s] = "ending" /\ once[s] = "closing"

(* A connection refused before it had a session (redeem denied, cap         *)
(* reached, shutting down) is never registered and never reported.          *)
RefusedIsUnseen ==
  \A s \in Session :
    verdict[s].reason = "UNREPORTED" =>
      /\ s \notin sessions
      /\ start[s] = "none" /\ report[s] = "none"
      /\ ssh[s] = "none"

(* The verdict of a set-up step that failed, and of a writer that failed.   *)
SSHFailure == Verdict("SSH_FAILED", closeConnFailed)

(* What a session may leave behind - itself in the bridge's map after its   *)
(* own unregister, or open on the api's books though the api has handled    *)
(* its end report - it leaves only when an SSH failure ended it: the writer *)
(* can fail before register runs, and a session-start given up on can be    *)
(* handled after the report (bridge.go:198, :214, :464).  Of a report that  *)
(* is lost this says nothing.                                               *)
OnlyFailuresLinger ==
  \A s \in Session :
    verdict[s] # SSHFailure =>
      /\ s \in sessions => once[s] \in {"free", "closing", "stalled", "closed"}
      /\ once[s] = "done" /\ registry[s] \in {"started", "terminated"}
           => report[s] = "sent"

(* What Shutdown has achieved when it returns, whoever ran the teardowns:   *)
(* no session of its snapshot holds a slot or an SSH connection, each has a *)
(* reason that is reported and an end report that was sent, and those that  *)
(* did not end by an SSH failure are out of the map (bridge.go:286-300).    *)
SnapshotSettled ==
  main = "draining" =>
    \A s \in live : /\ s \notin Holders /\ s \notin Upstreams
                    /\ verdict[s] \in EndVerdict
                    /\ report[s] # "none"
                    /\ verdict[s] # SSHFailure => s \notin sessions

(* The first caller's reason and code win: a verdict is never replaced.     *)
VerdictIsFinal ==
  [][\A s \in Session : verdict[s] # NoVerdict => verdict'[s] = verdict[s]]_vars

(* The bridge as a pool of slots: who was ever admitted, which verdicts     *)
(* ended the admitted sessions, and whether it still admits.                *)
Admitted == {s \in Session : once[s] # "free" \/ handler[s] \in Serving}

EndingOf == [s \in Session |-> IF once[s] = "free" THEN NoVerdict ELSE verdict[s]]

Accepting == main = "serving"

Pool == INSTANCE SessionPool WITH
  Cap       <- MaxSessions,
  Ending    <- EndVerdict,
  Undecided <- NoVerdict,
  holders   <- Holders,
  admitted  <- Admitted,
  ending    <- EndingOf,
  accepting <- Accepting

(* Slots are handed out as the pool promises: under the cap, once per       *)
(* session, never after the stop, and returned only after a final verdict   *)
(* whose code matches its reason.                                           *)
ImplementsPool == Pool!Spec

(* The teardown of s sits in sshSession.Close for good (CloseStalls).       *)
StuckInClose(s) == [](once[s] = "stalled")

(* A force-terminate that found its session ends it, whatever else happens  *)
(* to the session meanwhile, unless the process exits first or the VM never *)
(* lets the SSH session close (bridge.go:451).                              *)
TerminatedEnds ==
  \A s \in Session :
    s \in forced ~> (once[s] = "done" \/ main = "exited" \/ StuckInClose(s))

(* SIGTERM leads to the exit, however the browser and the api behave: all   *)
(* that can keep Shutdown for ever is a session of its snapshot whose VM    *)
(* never lets the SSH session close.                                        *)
ShutdownCompletes ==
  main = "closing" ~>
    (main = "exited" \/ [](\E s \in live : once[s] = "stalled"))

(* A browser that left does not keep its slot, unless the handler is        *)
(* waiting for the VM to open the shell (see SlotComesBack) or the teardown *)
(* for the VM to let the SSH session close.                                 *)
AbandonedSlotComesBack ==
  \A s \in Session :
    (s \in Holders /\ browser[s] = "gone")
      ~> (\/ s \notin Holders \/ handler[s] = "opening" \/ main = "exited"
          \/ StuckInClose(s))

-----------------------------------------------------------------------------
(***************************************************************************)
(* What the repository's comments and documents say and the code does not   *)
(* do.  Each is refuted by a run of its own.                                *)
(***************************************************************************)

(* bridge.go:277, main.go:123: Shutdown closes all live sessions.  Here: no *)
(* session relays un-ended once Shutdown has returned.                      *)
ShutdownClosesAll ==
  main = "draining" =>
    \A s \in Session : handler[s] = "reading" => once[s] # "free"

(* bridge.go:20-21: the bridge owns the live sessions, its map is the truth *)
(* the api mirrors.  Here: a session whose teardown passed unregister is    *)
(* not in the map.                                                          *)
MapHoldsOnlyLive ==
  \A s \in sessions : once[s] \in {"free", "closing", "stalled", "closed"}

(* bridge.go:237-238: every successful acquire is balanced by a release.    *)
(* Here: once the browser has left, the slot comes back.  The wait at the   *)
(* other end of a session is excused, so that the run shows the one in its  *)
(* set-up; AbandonedSlotComesBack names both.                               *)
SlotComesBack ==
  \A s \in Session :
    (s \in Holders /\ browser[s] = "gone")
      ~> (s \notin Holders \/ main = "exited" \/ StuckInClose(s))

(* README.md:60, control.go:14: when an administrator cuts an open session  *)
(* it closes at once.  Here: a relaying session the api has terminated has  *)
(* its end claimed or a goroutine about to claim it.                        *)
TerminateIsHonoured ==
  \A s \in Session :
    handler[s] = "reading" /\ registry[s] = "terminated"
      => once[s] # "free" \/ s \in forced

=============================================================================
