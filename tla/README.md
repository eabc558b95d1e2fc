# Formal models of pickle-sshgw

This directory holds TLA+ models of the SSH gateway and web-terminal bridge in
`src/`, the TLC configurations that check them on small instances, and proofs
that TLAPS checks for every value of the constants. Paths below are relative to
the repository; `bridge.go` is `internal/terminal/bridge.go`.

## 1. The system

The repository builds three programs around two external ones (sshpiperd and
pickle-api, the control plane).

| component | state it keeps | operations | talks to |
|---|---|---|---|
| web-terminal bridge, lifecycle (`bridge.go`, `control.go`, `main.go`) | `Bridge.active`, `.sessions`, `.closed`; per session `endOnce`, SSH client, WebSocket | `handleWS`, `serveSession`, `acquire`/`release`, `register`/`unregister`, `end`, `handleControl`, `Shutdown` | browser (WebSocket), pickle-api (HTTP both ways), VM (SSH) |
| bridge, per-session loops (`bridge.go`) | failure counter, idle timer, tickers, byte counters | `readLoop`, `pingLoop`, `revalidateLoop`, idle timer, `Wait`, `wsBinaryWriter` | all of them call `end` |
| bridge, codes and parsing (`codes.go`) | none | `closeCodeForReason`, `parseSubprotocols` | |
| bridge, SSH client (`ssh.go`) | none | `DialVM` | VM |
| bridge, configuration (`config.go`, `main.go`) | none | flags, `Validate`, `applyDefaults` | |
| route plugin (`gateway/plugin.go`) | none of its own | sshpiperd's callbacks: methods, route and auth, host key, pipe start | sshpiperd, connection store, route client |
| connection store (`gateway/connstore.go`) | memo, pinned host keys, attribution, each with a TTL | `memoGet`/`memoPut`, `putHostKeys`/`getHostKeys`, `addSessionCandidate`, `setSessionPassword`, `getSessionAttr` | called by the plugin from several goroutines |
| route client (`route/client.go`) | none | HTTP calls and their classification | pickle-api |
| proxy front (`proxyfront/front.go`) | listener, wait group | `Serve`, `handle`, `splice`, `Close` | sshpiperd |
| mains, key loading, units and scripts | none | wiring | |

What is hard about it:

* **One teardown, seven kinds of callers.** Handler, SSH writer, ping,
  revalidation, idle timer, shell wait, force-terminate and Shutdown all call
  `session.end`; `sync.Once` lets one run and the others wait. The teardown
  itself is a row of steps under no common lock, one of which, closing the SSH
  session, waits for the VM without bound.
* **Setup is long and mostly invisible.** Between `acquire` and `register` the
  handler waits for the VM and for pickle-api, and the session is not in the
  map that force-terminate and Shutdown consult.
* **Two views of the truth.** pickle-api's registry and the bridge's map change
  at different moments, and requests between them can be late, lost or handled
  after the caller gave up.
* **Caches with a clock** (connection store): a decision is used after it was
  made, and the callbacks of one login arrive in an order sshpiperd picks.
* **Goroutine pairs that must both stop** (proxy front's splice).

What makes each component correct:

* lifecycle: every slot acquired is released exactly once; never more SSH
  connections than the cap; no input relayed for a session the api has not on
  its books (output is, from `Shell` to the answer to session-start); first
  verdict final; Shutdown settles what it started and finishes, unless a VM never
  lets the SSH session close.
* loops: a revoked session is closed within a bounded number of polls, an api
  outage shorter than that kills nobody, activity postpones the idle timeout.
* connection store and plugin: the method a session is audited with is the one
  it authenticated with; an expired entry is never used; no login proceeds
  without a pinned host key.
* proxy front: sshpiperd sees a vouched-for header first, both directions of a
  connection end together without losing what need not be lost, every handler
  returns once its peers are gone, and `Serve` after the last handler.
* configuration: whatever the flags, the tunables are ones the other components
  can run with.

## 2. Plan

| order | module | models | state |
|---|---|---|---|
| 1 | `CloseCodes` | close codes, deny reasons and their mapping | done |
| 2 | `SessionPool` | the abstract pool of slots the bridge promises to be | done |
| 3 | `TerminalBridge` | lifecycle of sessions, Shutdown, force-terminate, api, browser, VM | done |
| 4 | `TerminalBridge_proofs`, `TerminalBridge_refines` | invariants, what a session leaves behind, the order of teardowns, and the refinement | done |
| 5 | `RoutePlugin` | the plugin's callbacks with the connection store and its TTL; sshpiperd's order external | done |
| 6 | `RoutePlugin_proofs` | its invariants, for any TTL, keys and connections | done |
| 7 | `LoginContract`, `RoutePlugin_refines` | what a login is, without callbacks, caches or clocks, and that the plugin implements it | done |
| 8 | `SessionWatch`, `SessionWatch_proofs` | one relaying session on its clocks: failure count and revocation bound, idle timer, ping against a blocked write | done |
| 9 | `ProxyFront`, `ProxyFront_proofs` | accept loop, handler, splice, `Close`, both far ends | done |
| 10 | `BridgeConfig`, `Handshake` | flags, validation and defaults; the ticket in the offered subprotocols | done |
| 11 | `SessionWatch_proofs` (`Bridge`) | the watch as a session of the bridge: the composition of the two modules | done |
| 12 | `TerminalBridge_refines`, `RoutePlugin_refines` | what follows from the abstract specifications alone | done |
| 13 | `ConnectionContract`, `ProxyFront_refines` | what a relayed connection is, without goroutines and sockets; that the front implements it, and what follows | done |
| 14 | `PinnedKeys`, `ApiAnswers` | which answers of pickle-api make which outcome, and which host keys are trusted | done |
| 15 | `Inputs_proofs` | theorems about everything that has no state: flags, handshake, answers, keys | done |

## 3. TerminalBridge and the code

A *session* is one browser connection presenting one ticket; it is named by
the session id the ticket carries. Each variable is one piece of the program's
or the environment's state.

| variable | code |
|---|---|
| `handler` | program counter of `handleWS`/`serveSession` (bridge.go:50-234) |
| `browser` | the browser's end of the WebSocket |
| `ssh` | `session.sshClient` |
| `once` | progress inside the `endOnce` body (bridge.go:442-479) |
| `verdict` | reason and code of the caller that won the Once, or of `closeWith` |
| `forced` | goroutines started by `handleControl` that have not run yet |
| `active`, `sessions`, `closed` | the three fields of `Bridge` under its mutex |
| `main`, `live` | `run()` of `sshgw-terminal-bridge` and Shutdown's snapshot |
| `registry` | what pickle-api believes (external) |
| `start`, `report` | the session-start and session-end requests on the wire |

The handler walks `idle` - `redeeming` - `admitting` - `dialing` - `opening` -
`starting` - `registering` - `arming` - `reading` - `ending` - `gone`. A critical
section of the mutex is one step (`Acquire`, `Register`, `Unregister`,
`Release`, `ShutdownStarts`); a call that waits is a state between two steps
(`RedeemAnswered`, `DialSucceeds`/`DialFails`, `OpenSucceeds`/`OpenFails`,
`StartAccepted`/`StartConflicts`/`StartFails`). `end` is `Claim`, the moment
the Once is taken, followed by `CloseTransports`, `Unregister`, `Release`,
`SendReport`, `ReportReturns`, so that everything else may happen between them.
`sshSession.Close` (bridge.go:451) comes between the WebSocket close and the SSH
client's, without a deadline (ssh.go:101 clears it): it writes a message under
the lock of the SSH transport, and a `stdin.Write` or `WindowChange` that a VM
keeps waiting holds that lock. So the closes may be done at once
(`CloseTransports`) or leave the teardown *stalled* with its slot and its SSH
connection (`CloseStalls`), until the VM takes bytes or goes (`CloseReturns`),
which may be never.
A caller of `end` that finds the Once taken waits and changes nothing: for the
handler that wait is the place `ending`, for Shutdown it is the guard of
`ShutdownReturns`, the other goroutines are forgotten at that point.
`wsBinaryWriter` is attached to the VM's output before `Shell`, so output is shown
(`Showing`) and `WriterFails` is enabled from the moment `Shell` returned, before
session-start is called and the session registered; `PingFails`, `ShellExits`, `IdleFires`, `RevalidateDenied` and
`RevalidateExhausted` only once the loops run.

pickle-api handles a request whenever it does, also after the caller timed out;
it may lose it, and the bridge may lose the answer. The browser may leave at
any time. The VM may stop answering at any time.

Bodies of the exit frame, byte counters, durations and log lines are left out.
The clock is left out: a timer or timeout may fire at any moment it is armed.
Both control handlers' authentication and the handshake checks are one choice
(`RejectHandshake` or `Upgrade`).

`SessionPool` is what a reader may rely on without knowing any of this: a
session is admitted at most once, under the cap, while the pool accepts; it is
ended with one verdict, that is final; only then is its slot returned. The
refinement mapping takes holders, admissions and verdicts from the bridge's
`handler`, `once` and `verdict`, not from its counter.

Definitions marked *faulty variant* are not part of `Next`. Each is an action
as it would read with a plausible bug in it (a dropped guard, a missing return,
an unbounded call), kept beside the action it spoils: putting it in the place
of that action makes TLC refute the property it belongs to, which shows that
the property has teeth.

## 4. RoutePlugin and the code

sshpiperd runs the authentication of a connection and asks the plugin three
things: what to do with an offered key or password, whether to trust the host
key the upstream presented, and, once it pipes, to take note. The plugin keeps
no state of its own but remembers in `connStore`.

| variable | code |
|---|---|
| `memo`, `host`, `sess` | the three maps of `connStore`, per connection |
| `place`, `offer` | where sshpiperd stands and what it is trying (external) |
| `audit` | the request `buildSessionRequest` made for PipeStart |
| `revoked` | keys pickle-api no longer accepts (external) |
| `seen` | history for the properties; no guard of the code's reads it |

A callback that waits for pickle-api is two steps (`KeyAsked`/`PasswordAsked`,
then `ResolveAllows`, `ResolveDenies` or `ResolveFails`); one that finds its
answer in the memo is one (`KeyRemembered`). Each step includes every write of
the callback: memo, pins, attribution. Between two waits no time passes, so
the other connections' writes, which only remove expired records, cannot be
told apart from writes before or after.

The clock counts down in each record. A record at its end is removed: getters
refuse an expired record, and `addSessionCandidate` and `setSessionPassword`,
which read without comparing, sweep first under the same lock.

sshpiperd is modelled by what the plugin's comments say of it: it calls the
plugin per offered credential, caches the callbacks per user and key
(connstore.go:40), so that a signed offer of a key it already asked about may
or may not reach the plugin again (`CachedKey`; the one guard that reads
`seen.granted`), verifies the host key before it authenticates upstream, and
calls PipeStart once. A connection has one user name. pickle-api decides when it
is asked (`offer.good`) and never grants a key it has revoked by then; an answer
decided before a revocation may arrive, and be memoised, after it.

`LoginContract` says what all this is for: a connection opens, credentials
not revoked before it opened are granted on it with host keys, and it gets in at
most once, with a credential granted on it and a host key named on it. `RoutePlugin` implements it (`ImplementsContract`): `login` is what
`place` amounts to, `entered` the offer and the accepted host key of a piped
connection, the rest is in `seen`. `ResolveAllows` is `Grants`, `PipeStart` is
`Enters`; memo hits, pins, expiries and refusals are stutters, so no cache on
the way can let somebody in. The contract knows no audits: that a login is
attributed to the right candidates is `LoginIsAudited` and `AuditIsHonest`.

## 5. SessionWatch and the code

`TerminalBridge` lets the loops of a relaying session call `end` at any time;
`SessionWatch` says when they do. It begins when the loops have started and ends
with the first caller of `end`.

| variable | code |
|---|---|
| `reader` | where `readLoop` is: in `conn.Read`, in `stdin.Write` (*feeding*), in `WindowChange` (*resizing*) |
| `inbox` | frames in front of `conn.Read`: input, the pong, input behind it (external) |
| `idle` | `idleTimer`: ticks left, and whether its function has been started |
| `ping` | `pingLoop`: its ticker, and the `conn.Ping` that waits for its pong |
| `poll` | `revalidateLoop`: its ticker, and the request on the wire |
| `failures` | the variable of `revalidateLoop` |
| `verdict` | reason and code of the first caller of `end` |
| `browser`, `access` | whether the browser answers, what pickle-api grants (external) |
| `seen` | history for the properties; no guard reads it |

Time is discrete and code between two waits takes none: `Tick` is enabled only
when nothing is due (`Due`). A WebSocket pong is read by `readLoop` like every
frame, so `conn.Ping` cannot succeed while the reader is stuck in a write to the
VM; this couples the three loops and is what most of the module is about. A
write to the VM may take for ever. A poll may be answered at any moment up to
`APITimeout`; `granted` is fixed when it is sent, so an answer of before the
revocation may arrive after it. Errors, other statuses, undecodable bodies and
denials without a reason are one outcome (`PollMissed`, `PollGivesUp`), as they
are in `Revalidate`.

## 6. ProxyFront and the code

| variable | code |
|---|---|
| `listener`, `serve`, `wg` | `s.ln`, where `Serve` is, `s.wg` |
| `handler` | program counter of `handle` and `splice`, per connection |
| `socket` | the shim's two sockets of a connection |
| `copy` | the two goroutines of `splice` |
| `wire` | bytes an end has sent and the shim has not read |
| `greeting`, `peer` | what the client opens with, and the programs at the far ends (external) |
| `first`, `lost` | history: what sshpiperd was sent first; what may not have arrived |

The handler walks `header` - `dialing` - `emitting` - `splicing` - `halfway` -
`joining` - `returning` - `finishing` - `gone`: `halfway` is between the two
closes of `splice`, `joining` before its second receive, `finishing` between the
deferred closes of `handle` and the deferred `Done`. go-proxyproto's REQUIRE
policy is the guard of `HeaderRead`.

A far end may shut its sending side, close, or break off. TCP is modelled as
far as it decides what arrives: writing to an end that closed is answered by a
reset, and a socket closed with unread bytes, or written to afterwards, takes
what is under way in the other direction with it (`CloseSocket`, `Sends`).

`ConnectionContract` says what the front is for: it takes a connection while its
door is open, links its client with sshpiperd only if the client was vouched
for, cuts the link only after one of its ends has ended, lets go of it, and is
over only when it has let go of everybody; while a link stands, words are lost
only of an end that broke or for an end that left. `ProxyFront` implements it
(`ImplementsContract`, by a mapping at the end of the module): `door` comes from
`listener` and `serve`, `stage` from `handler`, `side` from `peer`, `vouched` from
`greeting`, `missing` from `lost`. `Accept` is `Takes`, `HeaderSent` is `Links`, the
ways to fail before it are `Refuses`, `FirstDone` is `Cuts`, `Done` is `LetsGo`, what a
copy or a closing socket drops is `Loses`, what the far ends do is `Turns`, `Close`
is `Shuts` and `ServeReturns` is `Finishes`. Copies that move bytes, timeouts and
the closes on the way out are stutters. That `Serve` waits for its handlers
(`ServeWaits`) is part of it: `Finishes` asks for every stage.

## 7. BridgeConfig, Handshake, ApiAnswers and PinnedKeys

None has state, so none has a run; what they say is proved in `Inputs_proofs`.
`BridgeConfig` translates `run`'s flags, `Validate` and `applyDefaults`; a
configuration is the set of mandatory strings that are filled and a number for
each tunable. `Handshake` translates `parseSubprotocols`; an element of the offer
is the fixed name, a ticket, or something else, and splitting and trimming
headers is dropping blanks.

`ApiAnswers` translates both HTTP clients and the code that acts on what they
return. An answer arrived in time or not, has a status, and a body: whether it
decodes, whether its mandatory fields are filled, its host-key lines, its `allow`
and its reason. A denial whose body does not decode may still have filled a
reason, as `Unmarshal` may. The two clients differ: the bridge takes a 403 without
a reason for an error, the plugin for a denial; empty host keys have an error of
their own only in the bridge. `PinnedKeys` translates the two host-key verifiers;
a key, on a line or on the wire, parses or not, and has a value if it does.

## 8. Runs

`MCTerminalBridge` gives `DenyReason` its values and the symmetry. Each run is
`tlc -config <cfg> <module>`; `MCRoutePlugin` gives `RoutePlugin` its symmetry,
`MCSessionWatch` gives `DenyReason` its value. The first seven runs are of
`MCTerminalBridge`, the next three of `MCRoutePlugin`.

| run | cfg | instance | shows |
|---|---|---|---|
| bridge_safety | MCBridgeSafety | 2 sessions, cap 1 | type invariant, `SlotAccounting`, `UpstreamCap`, `NoUpstreamOutlivesEnd`, `RelayIsAudited`, `RefusedIsUnseen`, `OnlyFailuresLinger`, `SnapshotSettled`, and that the bridge implements `SessionPool` (`ImplementsPool`); 715,869 states up to symmetry |
| bridge_liveness | MCBridgeLiveness | 1 session | `TerminatedEnds`, `AbandonedSlotComesBack` (3,147 states) |
| bridge_shutdown | MCBridgeShutdown | 2 sessions, cap 1, no denials | `ShutdownCompletes` (1,218,855 states) |
| shutdown_misses_setup | MCShutdownClosesAll | 2 sessions | refutes `ShutdownClosesAll` |
| ghost_registration | MCMapHoldsOnlyLive | 2 sessions | refutes `MapHoldsOnlyLive` |
| setup_hang | MCSlotComesBack | under `FairSpec` | refutes `SlotComesBack`, with the wait in the set-up (the one in the teardown is excused) |
| terminate_missed | MCTerminateIsHonoured | 2 sessions | refutes `TerminateIsHonoured` |
| login | MCLogin | 1 connection, 2 keys, 2 host keys, TTL 3 | type invariant, `PipedIsVouchedFor`, `LoginIsAudited`, `AuditIsHonest`, `PinsAreRecent`, `OneCallPerWindow` (342,680 states) |
| revocation | MCRevocation | 2 connections, 1 key, TTL 2 | `RevokedStaysOut`, `ImplementsContract` (1,243,026 states) |
| audit_method | MCAuditMethod | 1 connection, 1 key | refutes `AuditNamesTheMethod` |
| session_watch | MCWatch (`MCSessionWatch`) | idle 4, ping 2, pong 1, poll 3, api 2, two failures | type invariant, `RevocationIsBounded`, `OutageIsTolerated`, `IdleIsTruthful`, `SilenceEnds`, `DeafIsNoticed`, `ClosedClientWasDeaf`, `NothingIsLate` (2,669,432 states) |
| proxy_front | MCProxyFront (`ProxyFront`) | 1 connection, 2 chunks per direction, under `FairSpec` | type invariant, `NoRawBytes`, `NothingIsLeftBehind`, `LastWordsArrive`, `AbandonedEnds`, `ServeEnds`, and that the front implements `ConnectionContract` (`ImplementsContract`); 10,311 states |

**Bounds.** Sessions interact only through `active`, `closed` and Shutdown, so
two sessions with a cap of one contain every kind of meeting: two admissions
racing for the last slot, an admission racing a release, Shutdown with an
empty and with a partial snapshot (and with two entries, when one of them is
the ghost of section 9). The proofs remove the bound for every safety
property; for `ShutdownCompletes`, a larger snapshot adds goroutines that are
independent of each other, and the same run with a cap of two (1,740,506
states) holds as well. `DenyReason` has two values with different close codes, which is
what the properties tell apart; the shutdown run has none, because
Shutdown does not depend on it. The liveness properties speak of one session
and nothing another session does can disable its steps; a slot held by another
session only closes the alternative `Acquire` and opens `RefuseAdmission`.
In `RoutePlugin` connections meet only in the memo's key and in the sweep, so
one connection with two keys shows every order of offers (the second key is
what an overwritten candidate needs) and two connections with one key show
every leak; a TTL of three ticks lets records of one login expire at different
times. Ages of the history stop at their bound, the TTL or twice the TTL.
In `SessionWatch` the durations are the smallest that satisfy
`PaceAssumption` and differ where the defaults do: the idle timeout is longer
than a ping and its timeout, the api timeout shorter than the poll interval, the
pong timeout shorter than the ping interval, and the cap is the smallest that
tolerates a failure. Equal pairs (ping 2 with pong 2, poll 3 with api 2, idle 5:
5,360,142 states) and a slower ping (3, with pong 1, poll 2 and api 1: 1,982,156) hold
as well, and the proofs remove the bound. The ages in `seen` need none: a
property bounds each of them while the session relays, and the clock stops with
it. In `ProxyFront` connections share only the listener and the wait group; one
connection shows every order of the two copies, the two closes, the far ends and
`Close`. Two connections are some thirty million states and are left to the
proofs; of the liveness properties, `AbandonedEnds` speaks of one connection that
no other can disable, and `ServeEnds` follows for several since each handler
ends by itself. Two chunks on the wire let a copy read part of what there is.
Nothing else is unbounded, so no state constraint is used. Deadlock is checked;
the only final states are the exited process of the bridge, the ended session of
`SessionWatch` and `Serve` returned, and the clock of `RoutePlugin` never stops.

**Fairness.** Weak fairness per session and goroutine, never on a disjunction
over sessions:

* `Prompt(s)`, the handler's own steps: redeem and session-start are bounded
  by `APITimeout`, the dial by `SSHConnectTimeout`, the rest is computation.
* `Teardown(s)`: the exit frame is bounded by `WSWriteTimeout`, the WebSocket
  close by the library's own timeout, the report by `APITimeout`. Closing the
  SSH session is bounded by nothing: TCP keeps probing a window of zero for as
  long as the other end acknowledges the probes. So this fairness is met by
  `CloseStalls` as well as by `CloseTransports`, and `CloseReturns` has none.
* `ForceRuns(s)`, `ShutdownEnds(s)`, `ShuttingDown`: goroutines that are
  runnable; the HTTP drain is bounded by ten seconds.
* `NoticesGone(s)`: a browser that is gone fails the read, or the ping within
  `PingInterval + WSWriteTimeout`.

Nothing is assumed of the VM (`OpenSucceeds`, `OpenFails`, `CloseReturns`),
pickle-api, the user, the triggers or whoever sends SIGTERM. `ShutdownCompletes` is
checked with `ShutdownFairSpec`, which drops even the handlers' fairness: Shutdown
depends on none of them. The three liveness properties therefore except a teardown
that stays in `stalled` for good, for `ShutdownCompletes` one of the snapshot, and
nothing else of the teardown; each of them fails without its exception, and
`AbandonedSlotComesBack` without the one for `opening`.

`SessionWatch` states no fairness and no liveness. Its bounds are bounds on the
clock, and they would be empty if the clock could stand still for ever; that the
session cannot keep the clock from moving is `NothingIsLate` and the deadlock
check. Its first half (`TicksAreTaken`) says that no ping and no poll is skipped
because the call before it takes longer than the interval; the second, that what
is due has an enabled step, can fail for a ping only, since a poll on the wire may
always come back with an error.

`ProxyFront` assumes that goroutines that can run do: the accept loop, each
handler (`Handles`: the header read has `ReadHeaderTimeout`, the dial its own) and
each copy (`CopyMoves`). A peer that vanished without a word is a reset sooner or
later, because Go switches keep-alive on for every TCP connection. A copy stuck
in a write to an end that is there and does not read is made to go on by nothing:
`WriteReturns` has no fairness, which is the exception `AbandonedEnds` makes.
`ServeEnds` needs both ends of every connection gone for that reason.

## 9. Where the code and its comments disagree

1. *Shutdown misses sessions in setup* (`ShutdownClosesAll`). bridge.go:277 says
   it closes every live session. The snapshot holds registered ones; one that
   is still dialling registers afterwards and relays until the process exits.
2. *Ghost registration* (`MapHoldsOnlyLive`). If the SSH writer ends the session
   while session-start is in flight, teardown runs first and `register` comes
   second. The entry is never removed, and if the api handled the end before
   the start its own mirror stays open too.
3. *Setup can hang for ever* (`SlotComesBack`). `DialVM` clears the deadline
   after the handshake (ssh.go:101), so a VM that falls silent before `Shell`
   returns keeps the slot even when the browser has gone; nothing else can
   reach the session. There is a second such wait at the other end of a session,
   `sshSession.Close` in the teardown (bridge.go:451, before the close of the
   client at 453 that would break the connection): a VM that acknowledges and
   takes no bytes then keeps the slot, and a Shutdown whose snapshot holds the
   session, for ever.
4. *Force-terminate in the registration window* (`TerminateIsHonoured`). The api
   knows the session once it handled session-start, the bridge registers it
   when the answer arrives; a terminate between the two is answered 204 and has
   no effect.

5. *A key login audited as a password login* (`AuditNamesTheMethod`).
   plugin.go:237-239 says the audit is for the credential that actually
   authenticated. The method is last-write-wins at the callbacks: a key is
   probed, a password is allowed by the api and refused by the VM, the key is
   signed and answered from sshpiperd's cache, and PipeStart finds the method
   password.

Two more comments are not what the code does; the properties state what holds:

* *A failed ping means the connection is dead* (bridge.go:373-374). It fails as
  well when `readLoop` has been in a write to the VM for `WSWriteTimeout`: a
  program that stops reading its terminal while the user pastes is enough, and
  the session of a live browser is ended and reported as `CLIENT_CLOSED`.
  `ClosedClientWasDeaf` and `DeafIsNoticed` say when.
* *Close waits for in-flight connections to drain* (front.go:134). It returns at
  once; `Serve` is what waits. The deployed main never calls `Close`.

`Revalidate` takes a denial without a reason for an error (apiclient.go:180),
while config.go:97 says an explicit deny always closes at once; such an answer
keeps the session until the cap of failures, and `RevocationIsBounded` covers it.

`LoginIsAudited` states what holds beside 5: within one window every login is
audited, a password login as one, and a publickey audit never misses the key.
`OnlyFailuresLinger` states what holds beside 2: nothing but an SSH failure can
leave a session in the map after its unregister, or open on the api's books once
the api has handled its end report. A session ended by its client, by the idle
timer, by a revocation, by force or by Shutdown leaves neither. A report that is
lost (it is posted once, bridge.go:464) leaves the session on the books whatever
ended it; no property says otherwise.
`AbandonedSlotComesBack` and `TerminatedEnds` state what does hold beside 3 and
4: apart from the waits in `opening` and in the close of the SSH session, an
abandoned slot always comes back; apart from the latter, a force-terminate that
found its session ends it. `RelayIsAudited` states what holds of the comment at
bridge.go:206-207, that without the audit registration the session must not
proceed: no input does, and output only until the failed session-start is noticed.

## 10. Proofs

`TerminalBridge_proofs` and `TerminalBridge_refines` are checked by TLAPS with
the assumptions `SessionAssumption` (finitely many connections),
`CapAssumption` (`MaxSessions` is a positive natural number: config.go replaces
others by the default, see `TunablesArePositive`) and `DenyAssumption` (deny reasons are known ones), for any number of
sessions and any cap.

None of the safety properties is inductive alone. The inductive invariant is
`Inv == TypeOK /\ Lifecycle /\ SlotAccounting`, where `Lifecycle` ties the
handler's place to the Once, per session:

* `EndsLate`: a taken Once means the handler is at `starting` or later, at
  `ending` or `gone`; a handler at `ending` means a taken Once, and one that is
  gone a free or a finished one. This is why no goroutine can run `end` before
  the dial it must close has returned.
* `NamedServes`: the map, Shutdown's snapshot and `forced` only name sessions
  that passed `register`. So whoever finds a session there finds it serving,
  and claiming it neither creates nor loses a slot holder.
* `UpstreamHeld`: an open SSH connection belongs to a holder whose transport
  close has not run or is stalled. With `SlotAccounting` and `active <= MaxSessions` this
  gives `UpstreamCap`.
* `StartBooks`: an accepted start is on the api's books until the api has
  handled its report, and a handler past `starting` has one; gives
  `RelayIsAudited`, with `EndsLate` for the output of a handler that is ending.
* `VerdictFits`: an undecided session has no verdict, an unreported refusal has
  a free Once and a handler that is gone.

and, for the process, `ShutdownWaits` (past its wait group Shutdown has nothing
left to wait for) and `ClosedBehind` (after Shutdown began `closed` is set). `SlotAccounting` equates a counter with a cardinality; each
step either leaves `Holders` alone (most), adds one element (`Acquire`) or
removes one (`Release`), and the lemmas about `Holders` say which.

`TypeCorrect`, `SlotsAreAccounted`, `UpstreamsAreCapped`, `UpstreamsAreClosed`,
`RelaysAreAudited` and `RefusedAreUnseen` follow from
`Invariant`; `FirstVerdictWins` is the action property from the same invariant
(no run checks it beside `ImplementsPool`, which implies it for admitted
sessions).

`OnlyFailuresRemain` needs more: that an end was claimed during set-up cannot be
seen once the session is done. `LeftBySetup` keeps the trace of it, per session,
at each place where it can be: in the map after unregister, in a handler at
`starting` or `registering` with a taken Once, in a session-start still
unanswered, and in a report the api handled before the start. In each of them the
verdict is `SSHFailure`, since only the handler's own failures and the writer can
claim a session that early; everybody else finds a session past `register`
(`NamedServes`), whose start was answered. `ShutdownSettles` puts both invariants
together for `SnapshotSettled`, what Shutdown has achieved for its snapshot when
it returns. `ShutdownWaits` alone would only repeat the wait group; the slots, the
connections, the reports and the map entries come from the rest.

`TeardownsAdvance` is the safety half of `ShutdownCompletes`: a teardown takes
its stages in the order of the code, forward only, and the snapshot Shutdown
waits for does not grow. Each stage but the way out of `stalled` is enabled by the
one before it and nothing else, so the number of steps Shutdown waits for only
falls; that fair goroutines take them is left to TLC.

`BridgeImplementsPool` maps `Acquire` to the pool's admission, `Claim` (by any
caller) to its decision, `Release` to the returned slot, `ShutdownStarts` and
`ListenerFails` to the stop, and every other step to a stutter. `SlotsSettle` and
`SlotsOnlyMoveOn` are then proved with the pool's four actions instead of the
bridge's forty: who was admitted and holds no slot has a verdict, nobody is
admitted twice or after the stop, and no slot is taken again that was given back.

`RoutePlugin_proofs` assumes a positive TTL and that the password is not a key. `Inv` is `TypeOK`
and, for each connection: `Remembers` (a memo's ticks left and the time since the
api's answer sum up to the TTL, and an allow holds what the api named here),
`Pins` (a pin's age and its ticks left stay under twice the TTL: this is what
bounds the chain of re-pinning from the memo), `Grants` (what sshpiperd got
through is granted here), `Attributes` (within the first window the attribution
has been alive since the first grant and holds them all), `Audits` and `Bars` (what was
revoked before the connection opened is neither granted on it nor in an answer on
its way). All invariants the runs check of it follow.

`PluginImplementsContract` needs one more invariant, `Attempts`: a connection has
accepted a host key only from its verification to the end of the attempt or of
the login, and exactly one. `PipeStart` is then `Enters` by `Sound` (`Grants` and
`Bars`: the offered credential is granted here and not barred) and by it; for the
other steps it is enough that they leave the mapped variables alone.
`EntriesAreVouchedFor` and `EntriesStay` use nothing but the contract's five
actions; the first shows what they amount to for an entry, the second that nothing
granted, named or entered is ever taken back or exchanged.

`SessionWatch_proofs` assumes that the tunables are positive and keep pace
(`PaceAssumption`). Each bound is an invariant that sums an age and the time to
the next deadline: `DeafSince` against the ping, `InputSince` and `IdleSince`
against ping and idle timer, `RevokedSince` and `AllowedSince` against the polls,
multiplied by the failures still allowed (`Span`). `Clocks` ties each call on the
wire to its ticker, which is why no tick is ever dropped (`NoTickIsDropped`: the
first half of `NothingIsLate`, and of the guards what the second says with
`ENABLED`). A step of a loop
trades one deadline for the next; the clock moves both sides by one. The bounds of
`RevocationIsBounded`, `SilenceEnds`, `DeafIsNoticed` and `OutageIsTolerated` are
tight: on the instance of the run TLC finds a state at each of them.

`WatchDrivesBridge` composes the two views of a session. `Bridge` is
`TerminalBridge` with the watched session as its only one, past `StartLoops`, with
its slot, upstream, map entry and place on the books; its Once is taken when the
watch has a verdict. The theorem says that this state satisfies the inductive
invariant of `TerminalBridge_proofs`, and that every step of the watch is a
trigger of the bridge that claims `end` with the same reason and code, or none of
the bridge's steps. So the clock only restricts when the bridge's triggers fire:
what is proved with triggers at any time holds with triggers on time. `readLoop`'s
own call of `end` is put down to the trigger with the same verdict, because the
handler's way through `end` is the bridge's to tell. TLC has checked the same
mapping on the instance of the run.

`ProxyFront_proofs` holds for any finite number of connections. `Counted`: `wg` is
the number of handlers between `Add` and `Done`, and while Serve has returned
there are none. `Sound` says of each connection: `Shape` (what its sockets and
copies look like at each place of the handler; a handler past `splicing` means
an end has ended), `Headed` (a copy exists only behind the header) and `Fate` (a
copy that still runs when the other is done, or a socket is closed, has an excuse
for what it will drop). A step at one connection leaves all this alone at the
others. `NothingRunsAfterServe` is an action property: once Serve has returned,
which is when the program exits, only the far ends still move.

`FrontImplementsContract` (in `ProxyFront_refines`) needs two invariants besides.
`Meetings` says how far a handler is: its ends are met one after the other, the
client at `Accept`, sshpiperd by the dial, and at `joining` both its sockets are
closed. `DoorShut` says that a `Serve` past its accept loop has a closed listener.
`Cuts` then has its cause from `Fate`, in `Sound`: a copy that is done has an end
that ended, or a peer that did. Three lemmas show which contract action each step
is, of a handler, of the copies and far ends, and of the process; a step at one
connection leaves the mapping alone at the others.
`LinksAreSound` and `LinksStand` use nothing but the contract's actions: nothing
is missing before a link, while one stands words are missing only of a broken
end or for one that left, nobody is linked who was not vouched for, and when all
is over nobody is served; a link both of whose ends are there is not cut, nobody
is taken in after `Close`, and a loss is final.

`AbandonedWaitForNobody` and `SecondCopiesJustEnd` are the safety half of
`AbandonedEnds`. While `splice` waits for its first copy, the copy of an end that
left is done or can go on (`Ready`), unless it sits in a write to an end that does
not read; at the second receive both copies are done or can go on, wherever they
are, and a copy that goes on there is done. That is what closing both sockets is
for. The fairness that takes those steps is left to TLC. `ServeWaitsForAll` is the
invariant form of the contract's last clause.

`TunablesArePositive` proves the assumptions of the other modules on the
tunables from `Validate`, for every flag. `DeployedPace` shows that
`PaceAssumption` does not follow: it holds if and only if the poll interval is at
least 5 s, the ping interval at least 10 s and the idle timeout above the ping
interval plus 10 s. The defaults satisfy it, other flags are not refused.
`ExactlyNameAndTicket` compares `parseSubprotocols` with its contract. All three
are in `Inputs_proofs`, for any flags and any tickets.

The other theorems of `Inputs_proofs` close the gap between an answer on the wire
and the outcome a state machine takes for granted. `RedeemIsAnswered` and
`ResolveIsAnswered` are equalities of sets: the outcomes `TerminalBridge` allows
for a redeem, and `RoutePlugin` for a resolve, are those that some answer makes, no
more and no fewer. `OneAnswerEndsOnlyByDenial` says which single answer ends a
relaying session below the cap of failures, `NothingSucceedsInSilence` that
session-start and a poll succeed only on an answer that was read and says so:
anything else ends the session or, for a poll below the cap, counts.
`OnlyNamedHosts` puts clients and verifiers of both programs together: from the
same answer both talk to the same hosts, those whose key is on a line that
parses in a complete 200. It holds though the two verifiers are written
differently, the bridge's giving up before it dials when no line parses and the
plugin's only when a key is presented.

Only model-checked: `TerminatedEnds`, `AbandonedSlotComesBack`,
`ShutdownCompletes`, `AbandonedEnds`, `ServeEnds` (TLAPS does not handle fairness),
`NothingIsLate` (it speaks of `ENABLED`; `NoTickIsDropped` is the part without), and the refutations of section 9.

## 11. Not modelled

* The pace of the watchers when flags break `PaceAssumption`: tickers then drop
  ticks and the bounds stretch by the longer of interval and timeout.
* What go-proxyproto accepts as a header, and the trusted ranges.
* How fast an accept loop spins that fails for want of file descriptors: it is a
  step that changes nothing.
* The encoding of requests and answers, fingerprints, what parses as a key, and
  the delivery of the audit request, which nothing waits for. Login grace times
  are sshpiperd's; the model lets a login take any time.
* Data races on `idleTimer` (written after `register`, read by `end`): the
  outcomes differ only in whether a timer is stopped, and a late timer calls
  `end` on a taken Once.
* Session ids used twice at the same time: pickle-api mints one id per ticket
  and a ticket can be redeemed once.
* Key loading, logging, cryptography (the SSH handshake, algorithm lists), byte
  counts, the build and the systemd units.
