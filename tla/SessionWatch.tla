----------------------------- MODULE SessionWatch -----------------------------
(***************************************************************************)
(* What watches over one relaying session of the web-terminal bridge: the   *)
(* read loop with the idle timer, the ping loop and the revalidation loop   *)
(* (internal/terminal/bridge.go), each with its clock.                      *)
(*                                                                          *)
(* TerminalBridge says what happens when one of them calls end, and lets    *)
(* them call it at any time.  This module says when they do.                *)
(*                                                                          *)
(* Time passes in ticks.  Code between two waits takes no time: a tick may  *)
(* pass only when nothing is due (see Due).  Any number of input frames in  *)
(* a row is one, and a resize frame is read in no particular order.         *)
(***************************************************************************)
EXTENDS Naturals, CloseCodes

CONSTANTS
  IdleTimeout,            \* the tunables of config.go, in ticks
  PingInterval,
  WSWriteTimeout,         \* how long pingLoop waits for a pong
  RevalidateInterval,
  APITimeout,
  RevalidateMaxFailures,
  DenyReason              \* the reasons pickle-api denies with

Tunables == {IdleTimeout, PingInterval, WSWriteTimeout, RevalidateInterval,
             APITimeout, RevalidateMaxFailures}

ASSUME TunableAssumption == Tunables \subseteq Nat \ {0}

(* The defaults satisfy these (60s and 5s, 30s and 10s, 15min); Validate    *)
(* does not ask for them.                                                   *)
ASSUME PaceAssumption ==
  /\ APITimeout <= RevalidateInterval
  /\ WSWriteTimeout <= PingInterval
  /\ PingInterval + WSWriteTimeout < IdleTimeout

ASSUME DenyAssumption == DenyReason \subseteq DenialReason

VARIABLES
  reader,    \* where readLoop is: reading, or in a call to the VM
  inbox,     \* what waits to be read: input, then a pong, then input
  idle,      \* idleTimer, and whether its function has been started
  ping,      \* pingLoop: its ticker, and the ping that awaits its pong
  poll,      \* revalidateLoop: its ticker, and the request on the wire
  failures,  \* of revalidateLoop
  verdict,   \* what the first caller of end said
  browser,   \* whether the browser answers
  access,    \* what pickle-api grants the user
  seen       \* what has happened; no code reads it

vars == <<reader, inbox, idle, ping, poll, failures, verdict, browser, access, seen>>

Inbox == [before : BOOLEAN, pong : BOOLEAN, after : BOOLEAN]
IdleTimer == [left : 0..IdleTimeout, fired : BOOLEAN]
Pinger == [next : 0..PingInterval, out : BOOLEAN, left : 0..WSWriteTimeout]
Poller == [next : 0..RevalidateInterval, out : BOOLEAN, left : 0..APITimeout,
           granted : BOOLEAN]
Seen == [quiet : Nat, spoke : BOOLEAN, deaf : Nat, resizing : BOOLEAN,
         withdrawn : Nat, allowed : Nat, refused : BOOLEAN, exited : BOOLEAN]

TypeOK ==
  /\ reader \in {"reading", "feeding", "resizing", "done"}
  /\ inbox \in Inbox
  /\ idle \in IdleTimer
  /\ ping \in Pinger
  /\ poll \in Poller
  /\ failures \in 0..(RevalidateMaxFailures - 1)
  /\ verdict \in {NoVerdict} \cup EndVerdict
  /\ browser \in {"here", "away"}
  /\ access \in {"granted", "withdrawn"}
  /\ seen \in Seen

(***************************************************************************)
(* seen: the age of the last input sent before this instant, and whether    *)
(* some was sent in it; for how long no pong was or could be read; whether  *)
(* readLoop spent the last tick in WindowChange; the age of the revocation; *)
(* the age of the last answer that allowed the session; whether the api     *)
(* refused it with a reason; whether the shell has exited.                  *)
(***************************************************************************)
NoInput == [before |-> FALSE, pong |-> FALSE, after |-> FALSE]

Init ==
  /\ reader = "reading"
  /\ inbox = NoInput
  /\ idle = [left |-> IdleTimeout, fired |-> FALSE]
  /\ ping = [next |-> PingInterval, out |-> FALSE, left |-> 0]
  /\ poll = [next |-> RevalidateInterval, out |-> FALSE, left |-> 0, granted |-> FALSE]
  /\ failures = 0
  /\ verdict = NoVerdict
  /\ browser = "here"
  /\ access = "granted"
  /\ seen = [quiet |-> 0, spoke |-> FALSE, deaf |-> 0, resizing |-> FALSE,
             withdrawn |-> 0, allowed |-> 0, refused |-> FALSE, exited |-> FALSE]

Relaying == verdict = NoVerdict

loops == <<reader, inbox, idle, ping, poll, failures>>

(* end stops the timer, closes the connection and cancels the context: the  *)
(* loops return.                                                            *)
LoopsReturn ==
  /\ reader' = "done"
  /\ inbox' = NoInput
  /\ idle' = [left |-> 0, fired |-> FALSE]
  /\ ping' = [next |-> 0, out |-> FALSE, left |-> 0]
  /\ poll' = [next |-> 0, out |-> FALSE, left |-> 0, granted |-> FALSE]
  /\ failures' = 0

(* The first caller of end; every later one finds the Once taken.           *)
Ends(reason, code) ==
  /\ Relaying
  /\ verdict' = Verdict(reason, code)
  /\ LoopsReturn
  /\ UNCHANGED <<browser, access>>

-----------------------------------------------------------------------------
(***************************************************************************)
(* readLoop and the idle timer.                                             *)
(***************************************************************************)
InputFirst == inbox.before \/ (inbox.after /\ ~inbox.pong)

(* One frame; there may be more of the same behind it.                      *)
TakeInput ==
  \E more \in BOOLEAN :
    inbox' = IF inbox.before THEN [inbox EXCEPT !.before = more]
                             ELSE [inbox EXCEPT !.after = more]

\* faulty variant: input does not restart the timer
ReadInputNoReset ==
  /\ Relaying /\ reader = "reading" /\ InputFirst
  /\ TakeInput
  /\ reader' = "feeding"
  /\ UNCHANGED <<idle, ping, poll, failures, verdict, browser, access, seen>>

(* A binary frame: the timer is reset before the write, which may block.    *)
ReadInput ==
  /\ Relaying /\ reader = "reading" /\ InputFirst
  /\ TakeInput
  /\ idle' = [idle EXCEPT !.left = IdleTimeout]
  /\ reader' = "feeding"
  /\ UNCHANGED <<ping, poll, failures, verdict, browser, access, seen>>

\* faulty variant: a resize counts as activity
ReadResizeResets ==
  /\ Relaying /\ reader = "reading" /\ browser = "here"
  /\ reader' = "resizing"
  /\ idle' = [idle EXCEPT !.left = IdleTimeout]
  /\ UNCHANGED <<inbox, ping, poll, failures, verdict, browser, access, seen>>

(* A resize frame: WindowChange writes to the SSH transport.                *)
ReadResize ==
  /\ Relaying /\ reader = "reading" /\ browser = "here"
  /\ reader' = "resizing"
  /\ UNCHANGED <<inbox, idle, ping, poll, failures, verdict, browser, access, seen>>

(* The VM took what was written to it.                                      *)
WriteReturns ==
  /\ Relaying /\ reader # "reading"
  /\ reader' = "reading"
  /\ UNCHANGED <<inbox, idle, ping, poll, failures, verdict, browser, access, seen>>

(* The error of WindowChange is dropped, that of stdin.Write is not.        *)
WriteFails ==
  /\ reader = "feeding"
  /\ Ends("SSH_FAILED", closeConnFailed)
  /\ UNCHANGED seen

(* The connection broke: Read returns an error, readLoop returns.           *)
ReadFails ==
  /\ reader = "reading" /\ browser = "away"
  /\ Ends("CLIENT_CLOSED", closeNormal)
  /\ UNCHANGED seen

(* The runtime starts the timer's function, which then calls end; a Reset   *)
(* in between does not take it back.                                        *)
IdleExpires ==
  /\ Relaying /\ idle.left = 0 /\ ~idle.fired
  /\ idle' = [idle EXCEPT !.fired = TRUE]
  /\ UNCHANGED <<reader, inbox, ping, poll, failures, verdict, browser, access, seen>>

IdleEnds ==
  /\ idle.fired
  /\ Ends("IDLE_TIMEOUT", closeIdle)
  /\ UNCHANGED seen

-----------------------------------------------------------------------------
(***************************************************************************)
(* pingLoop.  A ping succeeds when readLoop reads its pong.                 *)
(***************************************************************************)
(* The browser answers a ping when it sees it; its pong queues up behind    *)
(* the input it sent before.                                                *)
PongQueued == inbox' = [before |-> inbox.after, pong |-> TRUE, after |-> FALSE]

PingSent ==
  /\ Relaying /\ ping.next = 0 /\ ~ping.out
  /\ ping' = [next |-> PingInterval, out |-> TRUE, left |-> WSWriteTimeout]
  /\ IF browser = "here" THEN PongQueued ELSE UNCHANGED inbox
  /\ UNCHANGED <<reader, idle, poll, failures, verdict, browser, access, seen>>

PongReadable == inbox.pong /\ ~inbox.before /\ reader = "reading"

PongRead ==
  /\ Relaying /\ PongReadable
  /\ inbox' = [inbox EXCEPT !.pong = FALSE]
  /\ ping' = [next |-> ping.next, out |-> FALSE, left |-> 0]
  /\ seen' = [seen EXCEPT !.deaf = 0]
  /\ UNCHANGED <<reader, idle, poll, failures, verdict, browser, access>>

\* faulty variant: a ping that fails is tried again at the next tick
PingFailsSilently ==
  /\ Relaying /\ ping.out /\ ping.left = 0
  /\ ping' = [ping EXCEPT !.out = FALSE]
  /\ UNCHANGED <<reader, inbox, idle, poll, failures, verdict, browser, access, seen>>

\* faulty variant: a busy readLoop is taken for a dead client
PingFailsWhenBusy ==
  /\ ping.out /\ (ping.left = 0 \/ reader # "reading")
  /\ Ends("CLIENT_CLOSED", closeNormal)
  /\ UNCHANGED seen

PingFails ==
  /\ ping.out /\ ping.left = 0
  /\ Ends("CLIENT_CLOSED", closeNormal)
  /\ UNCHANGED seen

-----------------------------------------------------------------------------
(***************************************************************************)
(* revalidateLoop.  granted: whether the api may still have allowed the     *)
(* request on the wire; one it took before the revocation may be answered   *)
(* after it.                                                                *)
(***************************************************************************)
NoPoll == [next |-> poll.next, out |-> FALSE, left |-> 0, granted |-> FALSE]

\* faulty variant: a call to the api may take longer than the ticker's interval
PollSentAtLeisure ==
  /\ Relaying /\ poll.next = 0 /\ ~poll.out
  /\ poll' = [next |-> RevalidateInterval, out |-> TRUE, left |-> RevalidateInterval + 1,
              granted |-> access = "granted"]
  /\ UNCHANGED <<reader, inbox, idle, ping, failures, verdict, browser, access, seen>>

PollSent ==
  /\ Relaying /\ poll.next = 0 /\ ~poll.out
  /\ poll' = [next |-> RevalidateInterval, out |-> TRUE, left |-> APITimeout,
              granted |-> access = "granted"]
  /\ UNCHANGED <<reader, inbox, idle, ping, failures, verdict, browser, access, seen>>

\* faulty variant: failures are counted over the session's life
PollAllowedKeepsCount ==
  /\ Relaying /\ poll.out /\ poll.granted
  /\ poll' = NoPoll
  /\ seen' = [seen EXCEPT !.allowed = 0]
  /\ UNCHANGED <<reader, inbox, idle, ping, failures, verdict, browser, access>>

PollAllowed ==
  /\ Relaying /\ poll.out /\ poll.granted
  /\ poll' = NoPoll
  /\ failures' = 0
  /\ seen' = [seen EXCEPT !.allowed = 0]
  /\ UNCHANGED <<reader, inbox, idle, ping, verdict, browser, access>>

(* The api may deny for reasons of its own, before any revocation.          *)
PollDenied ==
  /\ poll.out
  /\ \E reason \in DenyReason :
       Ends("REVALIDATION_DENIED", CloseCodeForReason(reason))
  /\ seen' = [seen EXCEPT !.refused = TRUE]

\* faulty variant: one failure more than the cap
PollMissedOnceMore ==
  /\ Relaying /\ poll.out /\ failures < RevalidateMaxFailures
  /\ failures' = failures + 1
  /\ poll' = NoPoll
  /\ UNCHANGED <<reader, inbox, idle, ping, verdict, browser, access, seen>>

(* No answer in time, another status than 200, a body that does not decode, *)
(* or a denial without a reason (apiclient.go:184) are all errors: one more *)
(* keeps the session, or at the cap gives it up.                            *)
PollMissed ==
  /\ Relaying /\ poll.out /\ failures + 1 < RevalidateMaxFailures
  /\ failures' = failures + 1
  /\ poll' = NoPoll
  /\ UNCHANGED <<reader, inbox, idle, ping, verdict, browser, access, seen>>

\* faulty variant: an error never ends a session
PollNeverGivesUp ==
  /\ Relaying /\ poll.out /\ failures + 1 >= RevalidateMaxFailures
  /\ poll' = NoPoll
  /\ UNCHANGED <<reader, inbox, idle, ping, failures, verdict, browser, access, seen>>

PollGivesUp ==
  /\ poll.out /\ failures + 1 >= RevalidateMaxFailures
  /\ Ends("REVALIDATION_DENIED", closeMaintenance)
  /\ UNCHANGED seen

-----------------------------------------------------------------------------
(***************************************************************************)
(* The other goroutines that end a session, and the environment.            *)
(***************************************************************************)
(* wsBinaryWriter: output for a browser that does not take it.              *)
WriterFails ==
  /\ browser = "away"
  /\ Ends("SSH_FAILED", closeConnFailed)
  /\ UNCHANGED seen

ShellExits ==
  /\ Ends("CLIENT_CLOSED", closeNormal)
  /\ seen' = [seen EXCEPT !.exited = TRUE]

UserTypes ==
  /\ Relaying /\ browser = "here"
  /\ inbox' = [inbox EXCEPT !.after = TRUE]
  /\ seen' = [seen EXCEPT !.spoke = TRUE]
  /\ UNCHANGED <<reader, idle, ping, poll, failures, verdict, browser, access>>

BrowserLeaves ==
  /\ Relaying /\ browser = "here"
  /\ browser' = "away"
  /\ UNCHANGED <<loops, verdict, access, seen>>

BrowserReturns ==
  /\ Relaying /\ browser = "away"
  /\ browser' = "here"
  /\ IF ping.out /\ ~inbox.pong THEN PongQueued ELSE UNCHANGED inbox
  /\ UNCHANGED <<reader, idle, ping, poll, failures, verdict, access, seen>>

AccessRevoked ==
  /\ Relaying /\ access = "granted"
  /\ access' = "withdrawn"
  /\ UNCHANGED <<loops, verdict, browser, seen>>

-----------------------------------------------------------------------------
(* What happens at this instant, before any more time passes.               *)
Due ==
  \/ reader = "reading" /\ InputFirst
  \/ PongReadable
  \/ idle.left = 0 \/ idle.fired
  \/ ping.next = 0 \/ (ping.out /\ ping.left = 0)
  \/ poll.next = 0 \/ (poll.out /\ poll.left = 0)

Deaf == reader # "reading" \/ browser = "away"

(* The age of the last input.                                               *)
Age == IF seen.spoke THEN 0 ELSE seen.quiet

Left(call) == IF call.out THEN call.left - 1 ELSE 0

Tick ==
  /\ Relaying /\ ~Due
  /\ idle' = [idle EXCEPT !.left = @ - 1]
  /\ ping' = [next |-> ping.next - 1, out |-> ping.out, left |-> Left(ping)]
  /\ poll' = [next |-> poll.next - 1, out |-> poll.out, left |-> Left(poll),
              granted |-> poll.granted]
  /\ seen' = [quiet     |-> Age + 1,
              spoke     |-> FALSE,
              deaf      |-> IF Deaf THEN seen.deaf + 1 ELSE 0,
              resizing  |-> reader = "resizing",
              withdrawn |-> IF access = "withdrawn" THEN seen.withdrawn + 1 ELSE 0,
              allowed   |-> seen.allowed + 1,
              refused   |-> seen.refused,
              exited    |-> seen.exited]
  /\ UNCHANGED <<reader, inbox, failures, verdict, browser, access>>

Over == ~Relaying /\ UNCHANGED vars

Read == ReadInput \/ ReadResize \/ WriteReturns \/ WriteFails \/ ReadFails
Pinging == PingSent \/ PongRead \/ PingFails
Polling == PollSent \/ PollAllowed \/ PollDenied \/ PollMissed \/ PollGivesUp
Idling == IdleExpires \/ IdleEnds
Environment ==
  WriterFails \/ ShellExits \/ UserTypes \/ BrowserLeaves \/ BrowserReturns \/ AccessRevoked

Next == Read \/ Pinging \/ Polling \/ Idling \/ Environment \/ Tick \/ Over

Spec == Init /\ [][Next]_vars

-----------------------------------------------------------------------------
(***************************************************************************)
(* Properties.                                                              *)
(***************************************************************************)

(* A session whose access was withdrawn is cut within the cap on failures,  *)
(* counted in polls, whatever the api does from then on: errors, timeouts,  *)
(* denials without a reason, late answers of before (config.go:52-57).      *)
RevocationIsBounded ==
  Relaying => seen.withdrawn <= RevalidateMaxFailures * RevalidateInterval + APITimeout

(* An api outage shorter than the cap cuts nobody: without a denial, the    *)
(* revalidation ends a session only when that many polls have passed since  *)
(* the last answer that allowed it (bridge.go:396-398).                     *)
OutageIsTolerated ==
  verdict.reason = "REVALIDATION_DENIED" /\ ~seen.refused =>
    seen.allowed >= RevalidateMaxFailures * RevalidateInterval - APITimeout

(* The idle timer runs out on nobody who typed: input that waits behind a   *)
(* write the VM does not take has been ended by the ping before.  Only a    *)
(* window change can hold the reader without having reset the timer.        *)
IdleIsTruthful ==
  [][IdleExpires => seen.quiet >= IdleTimeout \/ seen.resizing]_vars

(* A session without input is ended after IdleTimeout and what one blocked  *)
(* write can delay the reading of its last input; resizing the window does  *)
(* not keep it alive.                                                       *)
SilenceEnds ==
  Relaying => seen.quiet <= IdleTimeout + PingInterval + WSWriteTimeout

(* A session whose pong cannot be read, because the browser is gone or      *)
(* because readLoop is stuck in a write to the VM, is cut within one ping   *)
(* and its timeout.                                                         *)
DeafIsNoticed ==
  Relaying => seen.deaf <= PingInterval + WSWriteTimeout

(* CLIENT_CLOSED means the shell exited, the browser is away, or no pong    *)
(* could be read for the whole timeout: the client of a VM that does not    *)
(* take its input is reported as closed too.                                *)
ClosedClientWasDeaf ==
  verdict.reason = "CLIENT_CLOSED" =>
    seen.exited \/ browser = "away" \/ seen.deaf >= WSWriteTimeout

(* When a ticker ticks, the call of the tick before is over or its time is  *)
(* up: a ticker drops what its loop does not take (bridge.go:372-437).      *)
TicksAreTaken ==
  Relaying => /\ ping.next = 0 /\ ping.out => ping.left = 0
              /\ poll.next = 0 /\ poll.out => poll.left = 0

(* Whatever a timer or a frame makes due finds its loop waiting for it, and *)
(* no ping or poll is skipped for one that takes too long: the bounds above *)
(* are bounds on real time.                                                 *)
NothingIsLate ==
  /\ TicksAreTaken
  /\ Relaying /\ Due =>
       ENABLED (\/ ReadInput \/ PongRead \/ PingSent \/ PingFails
                \/ PollSent \/ PollMissed \/ PollGivesUp \/ Idling)

=============================================================================
