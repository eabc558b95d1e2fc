------------------------- MODULE SessionWatch_proofs -------------------------
(***************************************************************************)
(* Proofs about SessionWatch, for any durations that satisfy                *)
(* PaceAssumption: type correctness, the bounds on a revoked, a deaf and a  *)
(* silent session, and that outages and idle users are judged fairly.       *)
(*                                                                          *)
(* Every bound is proved the same way: the age it speaks of and the time to *)
(* the next deadline sum up to at most (or at least) a constant, tick for   *)
(* tick, and each step of a loop trades one deadline for the next.          *)
(***************************************************************************)
EXTENDS SessionWatch, TLAPS, FiniteSetTheorems

(* n polling intervals, kept opaque so that leaves stay linear.             *)
Span(n) == n * RevalidateInterval

-----------------------------------------------------------------------------
(* A ping and a poll go out at a tick of their loop, so the ticks left to   *)
(* wait tell how long ago; a pong is queued for the ping that is out.       *)
Clocks ==
  Relaying =>
    /\ reader # "done"
    /\ ping.out => ping.next = ping.left + (PingInterval - WSWriteTimeout)
    /\ poll.out => poll.next = poll.left + (RevalidateInterval - APITimeout)
    /\ inbox.pong => ping.out
    /\ inbox.before => inbox.pong
    /\ ping.out /\ ~inbox.pong => browser = "away"

(* How long the session has been deaf, against the ping.                    *)
DeafSince ==
  Relaying =>
    /\ ~ping.out => seen.deaf + ping.next <= PingInterval
    /\ ping.out => /\ seen.deaf + ping.left <= PingInterval + WSWriteTimeout
                   /\ seen.deaf + ping.left >= WSWriteTimeout

Unread == inbox.before \/ inbox.after

(* Unread input is no older than the ping that would end its session; the   *)
(* idle timer runs from the reading of the last input.                      *)
InputSince ==
  Relaying =>
    /\ inbox.after /\ ~ping.out => Age + ping.next <= PingInterval
    /\ inbox.after /\ inbox.pong => Age + ping.next <= PingInterval
    /\ Unread /\ ping.out => Age + ping.left <= PingInterval + WSWriteTimeout
    /\ Age + idle.left <= IdleTimeout + PingInterval + WSWriteTimeout
    /\ SilenceEnds

IdleSince ==
  Relaying =>
    /\ ~Unread => Age + idle.left >= IdleTimeout
    /\ reader = "feeding" => idle.left + seen.deaf >= IdleTimeout
    /\ \/ seen.quiet + idle.left >= IdleTimeout
       \/ seen.resizing
       \/ idle.left > 0

(* The age of the revocation against the failures counted so far.  An       *)
(* answer that may still allow was asked for before the revocation.         *)
RevokedSince ==
  Relaying =>
    /\ access = "granted" => seen.withdrawn = 0
    /\ access = "withdrawn" /\ ~poll.out => seen.withdrawn + poll.next <= Span(failures + 1)
    /\ access = "withdrawn" /\ poll.out /\ poll.granted =>
         seen.withdrawn + poll.next <= RevalidateInterval
    /\ access = "withdrawn" /\ poll.out /\ ~poll.granted =>
         seen.withdrawn + poll.next <= Span(failures + 2)

(* The age of the last answer that allowed, against the same count.         *)
AllowedSince ==
  /\ Relaying =>
       /\ ~poll.out => seen.allowed + poll.next + APITimeout >= Span(failures + 1)
       /\ poll.out => seen.allowed + poll.next + APITimeout >= Span(failures + 2)
  /\ OutageIsTolerated

Inv ==
  /\ TypeOK /\ Clocks /\ DeafSince /\ InputSince /\ IdleSince
  /\ RevokedSince /\ AllowedSince /\ ClosedClientWasDeaf

-----------------------------------------------------------------------------
(* The steps that end the session, whoever takes them.                      *)
Ending ==
  \/ WriteFails \/ ReadFails \/ IdleEnds \/ PingFails \/ PollDenied \/ PollGivesUp
  \/ WriterFails \/ ShellExits

(* What is left of Next when the session goes on, but for the clock.        *)
Instant ==
  \/ ReadInput \/ ReadResize \/ WriteReturns \/ IdleExpires
  \/ PingSent \/ PongRead \/ PollSent \/ PollAllowed \/ PollMissed
  \/ UserTypes \/ BrowserLeaves \/ BrowserReturns \/ AccessRevoked

LEMMA Steps == Next <=> Ending \/ Instant \/ Tick \/ Over
  BY Zenon DEF Next, Read, Pinging, Polling, Idling, Environment, Ending, Instant

(* The durations, one by one.                                               *)
LEMMA Durations ==
  /\ IdleTimeout \in Nat \ {0} /\ PingInterval \in Nat \ {0}
  /\ WSWriteTimeout \in Nat \ {0} /\ RevalidateInterval \in Nat \ {0}
  /\ APITimeout \in Nat \ {0} /\ RevalidateMaxFailures \in Nat \ {0}
  /\ APITimeout <= RevalidateInterval /\ WSWriteTimeout <= PingInterval
  /\ PingInterval + WSWriteTimeout < IdleTimeout
  BY TunableAssumption, PaceAssumption DEF Tunables

(* An ended session has a verdict some caller of end passes.                *)
LEMMA EndingDecides ==
  ASSUME Ending
  PROVE  Relaying /\ ~Relaying' /\ verdict' \in EndVerdict /\ LoopsReturn
<1>1. ASSUME NEW reason \in DenyReason, Ends("REVALIDATION_DENIED", CloseCodeForReason(reason))
      PROVE  Relaying /\ ~Relaying' /\ verdict' \in EndVerdict /\ LoopsReturn
  <2>1. reason \in DenialReason
    BY DenyAssumption
  <2> QED BY <1>1, <2>1 DEF Ends, Relaying, Verdict, NoVerdict, EndVerdict
<1>2. ASSUME Ends("REVALIDATION_DENIED", closeMaintenance)
      PROVE  Relaying /\ ~Relaying' /\ verdict' \in EndVerdict /\ LoopsReturn
  <2>1. "OTHER" \in DenialReason /\ CloseCodeForReason("OTHER") = closeMaintenance
    BY DEF DenialReason, CloseCodeForReason
  <2> QED BY <1>2, <2>1 DEF Ends, Relaying, Verdict, NoVerdict, EndVerdict
<1>3. ASSUME \/ Ends("SSH_FAILED", closeConnFailed) \/ Ends("CLIENT_CLOSED", closeNormal)
             \/ Ends("IDLE_TIMEOUT", closeIdle)
      PROVE  Relaying /\ ~Relaying' /\ verdict' \in EndVerdict /\ LoopsReturn
  BY <1>3 DEF Ends, Relaying, Verdict, NoVerdict, EndVerdict
<1> QED
  BY <1>1, <1>2, <1>3
     DEF Ending, WriteFails, ReadFails, IdleEnds, PingFails, PollDenied, PollGivesUp,
         WriterFails, ShellExits

-----------------------------------------------------------------------------
LEMMA TypeInit == Init => TypeOK
  BY Durations DEF Init, TypeOK, NoInput, Inbox, IdleTimer, Pinger, Poller, Seen

LEMMA TypeStep ==
  ASSUME TypeOK, Next
  PROVE  TypeOK'
<1> USE DEF TypeOK
<1>1. CASE Ending
  <2>1. LoopsReturn /\ verdict' \in EndVerdict
    BY <1>1, EndingDecides
  <2>2. reader' = "done" /\ inbox' \in Inbox /\ idle' \in IdleTimer
    BY <2>1, Durations DEF LoopsReturn, NoInput, Inbox, IdleTimer
  <2>3. ping' \in Pinger /\ poll' \in Poller /\ failures' \in 0..(RevalidateMaxFailures - 1)
    BY <2>1, Durations DEF LoopsReturn, Pinger, Poller
  <2>4. browser' = browser /\ access' = access
    BY <1>1 DEF Ending, WriteFails, ReadFails, IdleEnds, PingFails, PollDenied,
                PollGivesUp, WriterFails, ShellExits, Ends
  <2>5. \/ seen' = seen \/ seen' = [seen EXCEPT !.refused = TRUE]
        \/ seen' = [seen EXCEPT !.exited = TRUE]
    BY <1>1 DEF Ending, WriteFails, ReadFails, IdleEnds, PingFails, PollDenied,
                PollGivesUp, WriterFails, ShellExits
  <2>6. seen' \in Seen
    BY <2>5 DEF Seen
  <2> QED BY <2>1, <2>2, <2>3, <2>4, <2>6
<1>2. CASE ReadInput
  <2>1. inbox' \in Inbox
    BY <1>2 DEF ReadInput, TakeInput, Inbox
  <2>2. idle' \in IdleTimer
    BY <1>2, Durations DEF ReadInput, IdleTimer
  <2> QED BY <1>2, <2>1, <2>2 DEF ReadInput
<1>3. CASE ReadResize \/ WriteReturns
  BY <1>3 DEF ReadResize, WriteReturns
<1>4. CASE IdleExpires
  <2>1. idle' \in IdleTimer
    BY <1>4 DEF IdleExpires, IdleTimer
  <2> QED BY <1>4, <2>1 DEF IdleExpires
<1>5. PongQueued => inbox' \in Inbox
  BY DEF PongQueued, Inbox
<1>6. CASE PingSent
  <2>1. inbox' \in Inbox
    BY <1>5, <1>6 DEF PingSent
  <2>2. ping' \in Pinger
    BY <1>6, Durations DEF PingSent, Pinger
  <2> QED BY <1>6, <2>1, <2>2 DEF PingSent
<1>7. CASE PongRead
  <2>1. inbox' \in Inbox
    BY <1>7 DEF PongRead, Inbox
  <2>2. ping' \in Pinger
    BY <1>7, Durations DEF PongRead, Pinger
  <2>3. seen' \in Seen
    BY <1>7 DEF PongRead, Seen
  <2> QED BY <1>7, <2>1, <2>2, <2>3 DEF PongRead
<1>8. CASE PollSent
  <2>1. poll' \in Poller
    BY <1>8, Durations DEF PollSent, Poller
  <2> QED BY <1>8, <2>1 DEF PollSent
<1>9. CASE PollAllowed \/ PollMissed
  <2>1. NoPoll \in Poller
    BY Durations DEF NoPoll, Poller
  <2>2. seen' \in Seen
    BY <1>9 DEF PollAllowed, PollMissed, Seen
  <2>3. failures' \in 0..(RevalidateMaxFailures - 1)
    BY <1>9, Durations DEF PollAllowed, PollMissed
  <2> QED BY <1>9, <2>1, <2>2, <2>3 DEF PollAllowed, PollMissed
<1>10. CASE UserTypes
  <2>1. inbox' \in Inbox
    BY <1>10 DEF UserTypes, Inbox
  <2>2. seen' \in Seen
    BY <1>10 DEF UserTypes, Seen
  <2> QED BY <1>10, <2>1, <2>2 DEF UserTypes
<1>11. CASE BrowserReturns
  <2>1. inbox' \in Inbox
    BY <1>5, <1>11 DEF BrowserReturns
  <2> QED BY <1>11, <2>1 DEF BrowserReturns
<1>12. CASE BrowserLeaves \/ AccessRevoked
  BY <1>12 DEF BrowserLeaves, AccessRevoked, loops
<1>13. CASE Tick
  <2>1. idle' \in IdleTimer
    BY <1>13, Durations DEF Tick, Due, IdleTimer
  <2>2. ping' \in Pinger
    BY <1>13, Durations DEF Tick, Due, Left, Pinger
  <2>3. poll' \in Poller
    BY <1>13, Durations DEF Tick, Due, Left, Poller
  <2>4. seen' \in Seen
    BY <1>13 DEF Tick, Age, Deaf, Seen
  <2> QED BY <1>13, <2>1, <2>2, <2>3, <2>4 DEF Tick
<1>14. CASE Over
  BY <1>14 DEF Over, vars
<1> QED
  BY <1>1, <1>2, <1>3, <1>4, <1>6, <1>7, <1>8, <1>9, <1>10, <1>11, <1>12, <1>13, <1>14,
     Steps DEF Instant

-----------------------------------------------------------------------------
(* The fields of the records, and what a tick does to them.                 *)
LEMMA Fields ==
  ASSUME TypeOK
  PROVE  /\ idle.left \in 0..IdleTimeout
         /\ ping.next \in 0..PingInterval /\ ping.left \in 0..WSWriteTimeout
         /\ poll.next \in 0..RevalidateInterval /\ poll.left \in 0..APITimeout
         /\ failures \in 0..(RevalidateMaxFailures - 1)
         /\ seen.quiet \in Nat /\ seen.deaf \in Nat
         /\ seen.withdrawn \in Nat /\ seen.allowed \in Nat /\ Age \in Nat
  BY DEF TypeOK, IdleTimer, Pinger, Poller, Seen, Age

LEMMA TickMoves ==
  ASSUME TypeOK, Tick
  PROVE  /\ Relaying /\ Relaying'
         /\ idle.left > 0 /\ idle'.left = idle.left - 1
         /\ ping.next > 0 /\ ping'.next = ping.next - 1
         /\ poll.next > 0 /\ poll'.next = poll.next - 1
         /\ ping.out => ping.left > 0 /\ ping'.left = ping.left - 1
         /\ poll.out => poll.left > 0 /\ poll'.left = poll.left - 1
         /\ ping'.out = ping.out /\ poll'.out = poll.out /\ poll'.granted = poll.granted
         /\ seen'.quiet = Age + 1 /\ Age' = Age + 1
         /\ seen'.withdrawn = IF access = "withdrawn" THEN seen.withdrawn + 1 ELSE 0
         /\ seen'.allowed = seen.allowed + 1
         /\ seen'.resizing = (reader = "resizing")
         /\ UNCHANGED <<reader, inbox, failures, verdict, browser, access>>
<1>1. /\ Relaying /\ UNCHANGED <<reader, inbox, failures, verdict, browser, access>>
      /\ idle.left # 0 /\ ping.next # 0 /\ poll.next # 0
      /\ ping.out => ping.left # 0
      /\ poll.out => poll.left # 0
  BY DEF Tick, Due
<1>2. /\ idle'.left = idle.left - 1
      /\ ping'.next = ping.next - 1 /\ ping'.out = ping.out
      /\ ping.out => ping'.left = ping.left - 1
  BY DEF Tick, Left, TypeOK, IdleTimer
<1>3. /\ poll'.next = poll.next - 1 /\ poll'.out = poll.out /\ poll'.granted = poll.granted
      /\ poll.out => poll'.left = poll.left - 1
  BY DEF Tick, Left
<1>4. /\ seen'.quiet = Age + 1 /\ ~seen'.spoke
      /\ seen'.withdrawn = IF access = "withdrawn" THEN seen.withdrawn + 1 ELSE 0
      /\ seen'.allowed = seen.allowed + 1
      /\ seen'.resizing = (reader = "resizing")
  BY DEF Tick
<1> QED BY <1>1, <1>2, <1>3, <1>4, Fields, Durations DEF Relaying, Age

(* A tick finds readLoop with nothing it could read.                        *)
LEMMA TickIsDeaf ==
  ASSUME TypeOK, Clocks, Tick
  PROVE  /\ ping.out => Deaf
         /\ Unread => reader # "reading"
         /\ Deaf => seen'.deaf = seen.deaf + 1
         /\ ~Deaf => seen'.deaf = 0
<1>1. reader = "reading" => ~InputFirst /\ ~(inbox.pong /\ ~inbox.before)
  BY DEF Tick, Due, PongReadable
<1>2. Relaying
  BY DEF Tick
<1>3. reader = "reading" => ~inbox.before /\ ~inbox.pong /\ ~inbox.after
  BY <1>1 DEF InputFirst
<1>4. ping.out /\ reader = "reading" => browser = "away"
  BY <1>2, <1>3 DEF Clocks
<1>5. /\ Deaf => seen'.deaf = seen.deaf + 1
      /\ ~Deaf => seen'.deaf = 0
  BY DEF Tick
<1> QED BY <1>3, <1>4, <1>5 DEF Deaf, Unread

-----------------------------------------------------------------------------
LEMMA ClocksStep ==
  ASSUME TypeOK, Clocks, Next
  PROVE  Clocks'
<1>1. CASE Ending
  BY <1>1, EndingDecides DEF Clocks
<1>2. CASE ReadInput
  BY <1>2 DEF ReadInput, TakeInput, InputFirst, Clocks, Relaying, TypeOK, Inbox
<1>3. CASE ReadResize \/ WriteReturns \/ IdleExpires
  BY <1>3 DEF ReadResize, WriteReturns, IdleExpires, Clocks, Relaying
<1>4. CASE PingSent
  BY <1>4, Durations DEF PingSent, PongQueued, Clocks, Relaying, TypeOK
<1>5. CASE PongRead
  BY <1>5 DEF PongRead, PongReadable, Clocks, Relaying, TypeOK, Inbox
<1>6. CASE PollSent
  BY <1>6, Durations DEF PollSent, Clocks, Relaying
<1>7. CASE PollAllowed \/ PollMissed
  BY <1>7 DEF PollAllowed, PollMissed, NoPoll, Clocks, Relaying
<1>8. CASE UserTypes
  BY <1>8 DEF UserTypes, Clocks, Relaying, TypeOK, Inbox
<1>9. CASE BrowserLeaves \/ AccessRevoked
  BY <1>9 DEF BrowserLeaves, AccessRevoked, loops, Clocks, Relaying
<1>10. CASE BrowserReturns
  BY <1>10 DEF BrowserReturns, PongQueued, Clocks, Relaying
<1>11. CASE Tick
  BY <1>11, TickMoves, Fields, Durations DEF Clocks
<1>12. CASE Over
  BY <1>12 DEF Over, vars, Clocks, Relaying
<1> QED
  BY <1>1, <1>2, <1>3, <1>4, <1>5, <1>6, <1>7, <1>8, <1>9, <1>10, <1>11, <1>12, Steps
     DEF Instant

LEMMA DeafStep ==
  ASSUME TypeOK, Clocks, DeafSince, Next
  PROVE  DeafSince'
<1>1. CASE Ending
  BY <1>1, EndingDecides DEF DeafSince
<1>2. CASE ReadInput \/ ReadResize \/ WriteReturns \/ IdleExpires
  BY <1>2 DEF ReadInput, ReadResize, WriteReturns, IdleExpires, DeafSince, Relaying
<1>3. CASE PingSent
  BY <1>3, Fields, Durations DEF PingSent, DeafSince, Relaying
<1>4. CASE PongRead
  <2>1. seen'.deaf = 0
    BY <1>4 DEF PongRead, TypeOK, Seen
  <2> QED BY <1>4, <2>1, Fields DEF PongRead, DeafSince
<1>5. CASE PollSent \/ PollMissed \/ BrowserLeaves \/ BrowserReturns \/ AccessRevoked
  BY <1>5 DEF PollSent, PollMissed, BrowserLeaves, BrowserReturns, AccessRevoked, loops,
              DeafSince, Relaying
<1>6. CASE PollAllowed \/ UserTypes
  <2>1. seen'.deaf = seen.deaf
    BY <1>6 DEF PollAllowed, UserTypes, TypeOK, Seen
  <2> QED BY <1>6, <2>1 DEF PollAllowed, UserTypes, DeafSince, Relaying
<1>7. CASE Tick
  BY <1>7, TickMoves, TickIsDeaf, Fields, Durations DEF DeafSince
<1>8. CASE Over
  BY <1>8 DEF Over, vars, DeafSince, Relaying
<1> QED
  BY <1>1, <1>2, <1>3, <1>4, <1>5, <1>6, <1>7, <1>8, Steps DEF Instant

(* What a step that does not pass time leaves of the input: its age, and    *)
(* whether it is unread, change only when somebody types or readLoop reads. *)
LEMMA AgeKept ==
  ASSUME TypeOK, Clocks,
         ReadInput \/ ReadResize \/ WriteReturns \/ IdleExpires \/ PingSent \/ PongRead
           \/ PollSent \/ PollAllowed \/ PollMissed \/ BrowserLeaves \/ BrowserReturns
           \/ AccessRevoked
  PROVE  Age' = Age /\ seen'.quiet = seen.quiet /\ seen'.resizing = seen.resizing
<1>1. \/ seen' = seen \/ seen' = [seen EXCEPT !.deaf = 0]
      \/ seen' = [seen EXCEPT !.allowed = 0]
  BY DEF ReadInput, ReadResize, WriteReturns, IdleExpires, PingSent, PongRead, PollSent,
         PollAllowed, PollMissed, BrowserLeaves, BrowserReturns, AccessRevoked
<1>2. /\ seen'.quiet = seen.quiet /\ seen'.spoke = seen.spoke
      /\ seen'.resizing = seen.resizing
  BY <1>1 DEF TypeOK, Seen
<1> QED BY <1>2 DEF Age

LEMMA InputStep ==
  ASSUME TypeOK, Clocks, InputSince, Next
  PROVE  InputSince'
<1> USE DEF InputSince, Unread, SilenceEnds
<1>1. CASE Ending
  BY <1>1, EndingDecides
<1>2. CASE ReadInput
  <2>1. /\ Relaying /\ Relaying' /\ Unread /\ ping' = ping /\ idle'.left = IdleTimeout
    BY <1>2 DEF ReadInput, InputFirst, Relaying, TypeOK, IdleTimer
  <2>2. /\ inbox'.after => inbox.after
        /\ inbox'.before => inbox.before
        /\ inbox'.pong = inbox.pong
    BY <1>2 DEF ReadInput, TakeInput, InputFirst, TypeOK, Inbox
  <2>3. Age <= PingInterval + WSWriteTimeout
    BY <2>1, Fields, Durations DEF Clocks
  <2> QED BY <1>2, <2>1, <2>2, <2>3, AgeKept, Fields, Durations DEF Clocks
<1>3. CASE ReadResize \/ WriteReturns \/ PollSent \/ PollAllowed \/ PollMissed
             \/ BrowserLeaves \/ AccessRevoked
  <2>1. UNCHANGED <<verdict, inbox, ping, idle>>
    BY <1>3 DEF ReadResize, WriteReturns, PollSent, PollAllowed, PollMissed,
                BrowserLeaves, AccessRevoked, loops
  <2> QED BY <1>3, <2>1, AgeKept DEF Relaying
<1>4. CASE IdleExpires
  <2>1. UNCHANGED <<verdict, inbox, ping>> /\ idle'.left = idle.left
    BY <1>4 DEF IdleExpires, TypeOK, IdleTimer
  <2> QED BY <1>4, <2>1, AgeKept DEF Relaying
<1>5. CASE PingSent
  <2>1. /\ UNCHANGED <<verdict, idle>> /\ Relaying /\ ~ping.out /\ ping.next = 0
        /\ ping'.out /\ ping'.left = WSWriteTimeout
    BY <1>5 DEF PingSent
  <2>2. ~inbox.before /\ ~inbox.pong
    BY <2>1 DEF Clocks
  <2>3. \/ ~inbox'.after /\ inbox'.before = inbox.after
        \/ inbox' = inbox
    BY <1>5 DEF PingSent, PongQueued
  <2> QED BY <1>5, <2>1, <2>2, <2>3, AgeKept, Fields, Durations DEF Relaying
<1>6. CASE PongRead
  <2>1. /\ UNCHANGED <<verdict, idle>> /\ Relaying /\ inbox.pong /\ ~inbox.before
        /\ ~ping'.out /\ ping'.next = ping.next
        /\ ~inbox'.before /\ ~inbox'.pong /\ inbox'.after = inbox.after
    BY <1>6 DEF PongRead, PongReadable, TypeOK, Inbox
  <2> QED BY <1>6, <2>1, AgeKept DEF Relaying
<1>7. CASE UserTypes
  <2>1. UNCHANGED <<verdict, ping, idle>> /\ Relaying
    BY <1>7 DEF UserTypes
  <2>2. Age' = 0 /\ seen'.quiet = seen.quiet
    BY <1>7 DEF UserTypes, Age, TypeOK, Seen
  <2> QED BY <2>1, <2>2, Fields, Durations DEF Relaying
<1>8. CASE BrowserReturns
  <2>1. UNCHANGED <<verdict, ping, idle>> /\ Relaying
    BY <1>8 DEF BrowserReturns
  <2>2. \/ ping.out /\ ~inbox.pong /\ ~inbox'.after /\ inbox'.before = inbox.after
        \/ inbox' = inbox
    BY <1>8 DEF BrowserReturns, PongQueued
  <2> QED BY <1>8, <2>1, <2>2, AgeKept DEF Relaying
<1>9. CASE Tick
  <2>1. /\ Relaying /\ Relaying' /\ inbox' = inbox
        /\ ping'.out = ping.out /\ ping'.next = ping.next - 1 /\ ping.next > 0
        /\ ping.out => ping'.left = ping.left - 1 /\ ping.left > 0
        /\ idle'.left = idle.left - 1 /\ idle.left > 0
        /\ Age' = Age + 1 /\ seen'.quiet = Age + 1
    BY <1>9, TickMoves
  <2> QED BY <2>1, Fields, Durations
<1>10. CASE Over
  BY <1>10 DEF Over, vars, Relaying, Age
<1> QED
  BY <1>1, <1>2, <1>3, <1>4, <1>5, <1>6, <1>7, <1>8, <1>9, <1>10, Steps DEF Instant

LEMMA IdleStep ==
  ASSUME TypeOK, Clocks, DeafSince, IdleSince, Next, DeafSince'
  PROVE  IdleSince'
<1> USE DEF IdleSince, Unread
<1>1. CASE Ending
  BY <1>1, EndingDecides
<1>2. CASE ReadInput
  <2>1. idle'.left = IdleTimeout /\ seen' = seen
    BY <1>2 DEF ReadInput, TypeOK, IdleTimer
  <2> QED BY <1>2, <2>1, AgeKept, Fields, Durations
<1>3. CASE ReadResize \/ WriteReturns
  <2>1. UNCHANGED <<verdict, inbox, idle, seen>> /\ reader' # "feeding"
    BY <1>3 DEF ReadResize, WriteReturns
  <2> QED BY <1>3, <2>1, AgeKept DEF Relaying
<1>4. CASE IdleExpires
  <2>1. UNCHANGED <<verdict, inbox, reader, seen>> /\ idle'.left = idle.left
    BY <1>4 DEF IdleExpires, TypeOK, IdleTimer
  <2> QED BY <1>4, <2>1, AgeKept DEF Relaying
<1>5. CASE PingSent \/ BrowserReturns
  <2>1. UNCHANGED <<verdict, reader, idle, seen>> /\ Relaying
    BY <1>5 DEF PingSent, BrowserReturns
  <2>2. Unread => Unread'
    BY <1>5 DEF PingSent, BrowserReturns, PongQueued, Clocks
  <2> QED BY <1>5, <2>1, <2>2, AgeKept DEF Relaying
<1>6. CASE PongRead
  <2>1. UNCHANGED <<verdict, reader, idle>> /\ reader = "reading"
    BY <1>6 DEF PongRead, PongReadable
  <2>2. Unread' = Unread
    BY <1>6 DEF PongRead, TypeOK, Inbox
  <2> QED BY <1>6, <2>1, <2>2, AgeKept DEF Relaying
<1>7. CASE PollSent \/ PollAllowed \/ PollMissed \/ BrowserLeaves \/ AccessRevoked
  <2>1. UNCHANGED <<verdict, reader, inbox, idle>>
    BY <1>7 DEF PollSent, PollAllowed, PollMissed, BrowserLeaves, AccessRevoked, loops
  <2>2. seen'.deaf = seen.deaf
    BY <1>7 DEF PollSent, PollAllowed, PollMissed, BrowserLeaves, AccessRevoked, TypeOK, Seen
  <2> QED BY <1>7, <2>1, <2>2, AgeKept DEF Relaying
<1>8. CASE UserTypes
  <2>1. UNCHANGED <<verdict, reader, idle>> /\ inbox'.after
    BY <1>8 DEF UserTypes, TypeOK, Inbox
  <2>2. /\ seen'.quiet = seen.quiet /\ seen'.deaf = seen.deaf
        /\ seen'.resizing = seen.resizing
    BY <1>8 DEF UserTypes, TypeOK, Seen
  <2> QED BY <2>1, <2>2 DEF Relaying
<1>9. CASE Tick
  <2>1. /\ Relaying /\ Relaying' /\ inbox' = inbox /\ reader' = reader
        /\ idle'.left = idle.left - 1 /\ idle.left > 0
        /\ Age' = Age + 1 /\ seen'.quiet = Age + 1
        /\ seen'.resizing = (reader = "resizing")
    BY <1>9, TickMoves
  <2>2. reader = "feeding" => idle'.left + seen'.deaf >= IdleTimeout
    BY <1>9, <2>1, TickIsDeaf, Fields, Durations DEF Deaf
  <2>3. seen'.deaf <= PingInterval + WSWriteTimeout
    <3>1. TypeOK'
      BY <1>9, TypeStep, Steps
    <3>2. /\ ping'.next \in Nat /\ ping'.left \in Nat /\ seen'.deaf \in Nat
      BY <3>1, Durations DEF TypeOK, Pinger, Seen
    <3> QED BY <2>1, <3>2, Durations DEF DeafSince
  <2>4. reader = "feeding" => idle'.left > 0
    <3>1. TypeOK'
      BY <1>9, TypeStep, Steps
    <3>2. seen'.deaf \in Nat /\ idle'.left \in Nat
      BY <3>1, Durations DEF TypeOK, IdleTimer, Seen
    <3> QED BY <2>2, <2>3, <3>2, Durations
  <2>5. CASE ~Unread
    BY <2>1, <2>2, <2>5, Fields, Durations
  <2>6. CASE Unread
    <3>1. reader # "reading"
      BY <1>9, <2>6, TickIsDeaf
    <3>2. reader \in {"feeding", "resizing"}
      BY <3>1, <2>1 DEF TypeOK, Clocks
    <3> QED BY <2>1, <2>2, <2>4, <2>6, <3>2
  <2> QED BY <2>5, <2>6
<1>10. CASE Over
  BY <1>10 DEF Over, vars, Relaying, Age
<1> QED
  BY <1>1, <1>2, <1>3, <1>4, <1>5, <1>6, <1>7, <1>8, <1>9, <1>10, Steps DEF Instant

-----------------------------------------------------------------------------
(* Polling intervals add up.                                                *)
LEMMA SpanAdds ==
  ASSUME NEW n \in Nat
  PROVE  /\ Span(n) \in Nat /\ Span(0) = 0 /\ Span(n + 1) = Span(n) + RevalidateInterval
  BY Durations, Z3 DEF Span

LEMMA SpanGrows ==
  ASSUME NEW n \in Nat, NEW m \in Nat, n <= m
  PROVE  Span(n) <= Span(m)
  BY Durations, Z3 DEF Span

(* What the leaves below use of Span.                                       *)
LEMMA Spans ==
  ASSUME TypeOK
  PROVE  /\ Span(1) = RevalidateInterval /\ Span(2) = 2 * RevalidateInterval
         /\ Span(failures + 1) \in Nat /\ Span(failures + 2) \in Nat
         /\ Span(failures + 3) \in Nat
         /\ Span(failures + 1) >= RevalidateInterval
         /\ Span(failures + 2) = Span(failures + 1) + RevalidateInterval
         /\ Span(failures + 3) = Span(failures + 2) + RevalidateInterval
         /\ Span(RevalidateMaxFailures) \in Nat
         /\ Span(failures + 1) <= Span(RevalidateMaxFailures)
         /\ failures + 1 >= RevalidateMaxFailures =>
              Span(failures + 1) = Span(RevalidateMaxFailures)
<1>1. failures \in Nat /\ failures + 1 <= RevalidateMaxFailures
  BY Fields, Durations
<1>2. /\ Span(failures + 1) \in Nat /\ Span(failures + 2) \in Nat
      /\ Span(failures + 3) \in Nat
      /\ Span(failures + 2) = Span(failures + 1) + RevalidateInterval
      /\ Span(failures + 3) = Span(failures + 2) + RevalidateInterval
  <2>1. /\ failures + 1 \in Nat /\ failures + 2 \in Nat
        /\ (failures + 1) + 1 = failures + 2 /\ (failures + 2) + 1 = failures + 3
    BY <1>1
  <2> QED BY <1>1, <2>1, SpanAdds
<1>3. Span(1) = RevalidateInterval /\ Span(2) = 2 * RevalidateInterval
  BY Durations DEF Span
<1>4. Span(failures + 1) >= Span(1) /\ Span(failures + 1) <= Span(RevalidateMaxFailures)
  BY <1>1, SpanGrows, Durations
<1>5. Span(RevalidateMaxFailures) \in Nat
  BY SpanAdds, Durations
<1>6. failures + 1 >= RevalidateMaxFailures => failures + 1 = RevalidateMaxFailures
  BY <1>1, Durations
<1> QED BY <1>2, <1>3, <1>4, <1>5, <1>6, Durations

(* Steps that leave the revalidation loop and its history alone.            *)
LEMMA PollKept ==
  ASSUME TypeOK,
         ReadInput \/ ReadResize \/ WriteReturns \/ IdleExpires \/ PingSent \/ PongRead
           \/ UserTypes \/ BrowserLeaves \/ BrowserReturns
  PROVE  /\ UNCHANGED <<verdict, poll, failures, access>>
         /\ seen'.withdrawn = seen.withdrawn /\ seen'.allowed = seen.allowed
         /\ seen'.refused = seen.refused
<1>1. UNCHANGED <<verdict, poll, failures, access>>
  BY DEF ReadInput, ReadResize, WriteReturns, IdleExpires, PingSent, PongRead, UserTypes,
         BrowserLeaves, BrowserReturns, loops
<1>2. \/ seen' = seen \/ seen' = [seen EXCEPT !.deaf = 0]
      \/ seen' = [seen EXCEPT !.spoke = TRUE]
  BY DEF ReadInput, ReadResize, WriteReturns, IdleExpires, PingSent, PongRead, UserTypes,
         BrowserLeaves, BrowserReturns
<1>3. /\ seen'.withdrawn = seen.withdrawn /\ seen'.allowed = seen.allowed
      /\ seen'.refused = seen.refused
  BY <1>2 DEF TypeOK, Seen
<1> QED BY <1>1, <1>3

LEMMA RevokedStep ==
  ASSUME TypeOK, Clocks, RevokedSince, Next
  PROVE  RevokedSince'
<1> USE DEF RevokedSince
<1>1. CASE Ending
  BY <1>1, EndingDecides
<1>2. CASE ReadInput \/ ReadResize \/ WriteReturns \/ IdleExpires \/ PingSent \/ PongRead
             \/ UserTypes \/ BrowserLeaves \/ BrowserReturns
  BY <1>2, PollKept DEF Relaying
<1>3. CASE PollSent
  <2>1. /\ Relaying /\ ~poll.out /\ poll.next = 0
        /\ poll'.out /\ poll'.next = RevalidateInterval
        /\ poll'.granted = (access = "granted")
        /\ UNCHANGED <<access, failures, seen>>
    BY <1>3 DEF PollSent
  <2>2. access = "withdrawn" => seen.withdrawn <= Span(failures + 1)
    BY <2>1, Fields, Durations, Spans
  <2>3. access = "withdrawn" => ~poll'.granted
    BY <2>1
  <2> QED BY <2>1, <2>2, <2>3, Fields, Durations, Spans
<1>4. CASE PollAllowed
  <2>1. /\ Relaying /\ poll.out /\ poll.granted /\ UNCHANGED access
        /\ ~poll'.out /\ poll'.next = poll.next /\ failures' = 0
    BY <1>4 DEF PollAllowed, NoPoll
  <2>2. seen'.withdrawn = seen.withdrawn
    BY <1>4 DEF PollAllowed, TypeOK, Seen
  <2>3. Span(failures' + 1) = RevalidateInterval
    BY <2>1, Spans
  <2> QED BY <2>1, <2>2, <2>3
<1>5. CASE PollMissed
  <2>1. /\ Relaying /\ poll.out /\ UNCHANGED <<access, seen>>
        /\ ~poll'.out /\ poll'.next = poll.next /\ failures' = failures + 1
    BY <1>5 DEF PollMissed, NoPoll
  <2>2. failures' + 1 = failures + 2
    BY <2>1, Fields
  <2>3. access = "withdrawn" => seen.withdrawn + poll.next <= Span(failures + 2)
    BY <2>1, Spans, Fields, Durations
  <2> QED BY <2>1, <2>2, <2>3
<1>6. CASE AccessRevoked
  BY <1>6, Spans, Fields, Durations DEF AccessRevoked, loops, Relaying, Clocks, TypeOK
<1>7. CASE Tick
  BY <1>7, TickMoves, Spans, Fields, Durations DEF TypeOK
<1>8. CASE Over
  BY <1>8 DEF Over, vars, Relaying
<1> QED
  BY <1>1, <1>2, <1>3, <1>4, <1>5, <1>6, <1>7, <1>8, Steps DEF Instant

(* An ending other than an exhausted revalidation: refused, or not its.     *)
LEMMA OtherEndings ==
  ASSUME TypeOK, Ending, ~PollGivesUp
  PROVE  verdict'.reason # "REVALIDATION_DENIED" \/ seen'.refused
<1>1. CASE PollDenied
  BY <1>1 DEF PollDenied, TypeOK, Seen
<1>2. CASE ~PollDenied
  BY <1>2 DEF Ending, WriteFails, ReadFails, IdleEnds, PingFails, WriterFails, ShellExits,
              Ends, Verdict
<1> QED BY <1>1, <1>2

LEMMA AllowedStep ==
  ASSUME TypeOK, Clocks, AllowedSince, Next
  PROVE  AllowedSince'
<1> USE DEF AllowedSince, OutageIsTolerated
<1>1. CASE Ending /\ ~PollGivesUp
  BY <1>1, EndingDecides, OtherEndings
<1>2. CASE PollGivesUp
  <2>1. /\ Relaying /\ poll.out /\ failures + 1 >= RevalidateMaxFailures /\ seen' = seen
    BY <1>2 DEF PollGivesUp, Ends
  <2>2. seen.allowed + poll.next + APITimeout >= Span(RevalidateMaxFailures) + RevalidateInterval
    BY <2>1, Spans, Fields, Durations
  <2>3. seen.allowed >= Span(RevalidateMaxFailures) - APITimeout
    BY <2>2, Spans, Fields, Durations
  <2>4. ~Relaying'
    BY <1>2, EndingDecides DEF Ending
  <2> QED BY <2>1, <2>3, <2>4 DEF Span
<1>3. ASSUME Relaying, Relaying',
             /\ ~poll'.out => seen'.allowed + poll'.next + APITimeout >= Span(failures' + 1)
             /\ poll'.out => seen'.allowed + poll'.next + APITimeout >= Span(failures' + 2)
      PROVE  AllowedSince'
  BY <1>3 DEF Relaying, NoVerdict, Verdict
<1>4. CASE ReadInput \/ ReadResize \/ WriteReturns \/ IdleExpires \/ PingSent \/ PongRead
             \/ UserTypes \/ BrowserLeaves \/ BrowserReturns
  BY <1>4, PollKept DEF Relaying
<1>5. CASE PollSent
  <2>1. /\ Relaying /\ Relaying' /\ ~poll.out /\ poll.next = 0
        /\ poll'.out /\ poll'.next = RevalidateInterval
        /\ failures' = failures /\ seen' = seen
    BY <1>5 DEF PollSent, Relaying
  <2>2. seen.allowed + APITimeout >= Span(failures + 1)
    BY <2>1, Fields, Durations
  <2>3. seen.allowed + RevalidateInterval + APITimeout >= Span(failures + 2)
    BY <2>2, Spans, Fields, Durations
  <2> QED BY <1>3, <2>1, <2>3
<1>6. CASE PollAllowed
  <2>1. /\ Relaying /\ Relaying' /\ poll.out /\ ~poll'.out /\ poll'.next = poll.next
        /\ failures' = 0
    BY <1>6 DEF PollAllowed, NoPoll, Relaying
  <2>2. seen'.allowed = 0
    BY <1>6 DEF PollAllowed, TypeOK, Seen
  <2>3. Span(failures' + 1) = RevalidateInterval
    BY <2>1, Spans
  <2>4. poll.next + APITimeout >= RevalidateInterval
    BY <2>1, Fields, Durations DEF Clocks
  <2>5. seen'.allowed + poll'.next + APITimeout >= Span(failures' + 1)
    BY <2>1, <2>2, <2>3, <2>4, Fields, Durations
  <2> QED BY <1>3, <2>1, <2>5
<1>7. CASE PollMissed
  <2>1. /\ Relaying /\ Relaying' /\ poll.out /\ ~poll'.out /\ poll'.next = poll.next
        /\ failures' = failures + 1 /\ seen' = seen
    BY <1>7 DEF PollMissed, NoPoll, Relaying
  <2>2. failures' + 1 = failures + 2
    BY <2>1, Fields
  <2> QED BY <1>3, <2>1, <2>2
<1>8. CASE AccessRevoked
  BY <1>8 DEF AccessRevoked, loops, Relaying
<1>9. CASE Tick
  BY <1>3, <1>9, TickMoves, Spans, Fields, Durations
<1>10. CASE Over
  BY <1>10 DEF Over, vars, Relaying
<1> QED
  BY <1>1, <1>2, <1>4, <1>5, <1>6, <1>7, <1>8, <1>9, <1>10, Steps DEF Instant

LEMMA ClosedStep ==
  ASSUME TypeOK, DeafSince, ClosedClientWasDeaf, Next
  PROVE  ClosedClientWasDeaf'
<1> USE DEF ClosedClientWasDeaf
<1>1. CASE ReadFails
  BY <1>1 DEF ReadFails, Ends
<1>2. CASE PingFails
  BY <1>2, Fields, Durations DEF PingFails, Ends, DeafSince
<1>3. CASE ShellExits
  BY <1>3 DEF ShellExits, TypeOK, Seen
<1>4. CASE WriteFails \/ IdleEnds \/ PollDenied \/ PollGivesUp \/ WriterFails
  BY <1>4 DEF WriteFails, IdleEnds, PollDenied, PollGivesUp, WriterFails, Ends, Verdict
<1>5. CASE Instant \/ Tick
  <2>1. Relaying /\ verdict' = verdict
    BY <1>5 DEF Instant, Tick, ReadInput, ReadResize, WriteReturns, IdleExpires, PingSent,
                PongRead, PollSent, PollAllowed, PollMissed, UserTypes, BrowserLeaves,
                BrowserReturns, AccessRevoked
  <2> QED BY <2>1 DEF Relaying, NoVerdict, Verdict
<1>6. CASE Over
  BY <1>6 DEF Over, vars
<1> QED
  BY <1>1, <1>2, <1>3, <1>4, <1>5, <1>6, Steps DEF Ending

-----------------------------------------------------------------------------
LEMMA InvInit == Init => Inv
<1> SUFFICES ASSUME Init PROVE Inv
  OBVIOUS
<1>1. TypeOK
  BY TypeInit
<1>2. Clocks /\ DeafSince /\ InputSince /\ IdleSince
  BY Durations DEF Init, NoInput, Clocks, DeafSince, InputSince, IdleSince, Age, Unread,
                   SilenceEnds
<1>3. Span(failures + 1) = RevalidateInterval
  BY <1>1, Spans DEF Init
<1>4. RevokedSince /\ AllowedSince
  BY <1>3, Durations DEF Init, RevokedSince, AllowedSince, OutageIsTolerated, NoVerdict, Verdict
<1>5. ClosedClientWasDeaf
  BY DEF Init, ClosedClientWasDeaf, NoVerdict, Verdict
<1> QED BY <1>1, <1>2, <1>4, <1>5 DEF Inv

LEMMA InvStep == Inv /\ [Next]_vars => Inv'
<1> SUFFICES ASSUME Inv, [Next]_vars PROVE Inv'
  OBVIOUS
<1>1. CASE Next
  <2>1. DeafSince'
    BY <1>1, DeafStep DEF Inv
  <2> QED
    BY <1>1, <2>1, TypeStep, ClocksStep, InputStep, IdleStep, RevokedStep, AllowedStep, ClosedStep
       DEF Inv
<1>2. CASE UNCHANGED vars
  BY <1>2 DEF vars, Inv, TypeOK, Clocks, DeafSince, InputSince, IdleSince, RevokedSince,
              AllowedSince, ClosedClientWasDeaf, OutageIsTolerated, SilenceEnds, Age,
              Unread, Relaying
<1> QED BY <1>1, <1>2

(* The inductive invariant of the session's watch.                          *)
THEOREM Invariant == Spec => []Inv
  BY InvInit, InvStep, PTL DEF Spec

-----------------------------------------------------------------------------
(* Every variable keeps its type: no deadline passes unnoticed, which would *)
(* take a countdown below zero, and the count of failures stays under its   *)
(* cap (revalidateLoop, pingLoop).                                          *)
THEOREM TypeCorrect == Spec => []TypeOK
  BY Invariant, PTL DEF Inv

(* The kill switch works through an outage: whatever the api answers after  *)
(* the access was withdrawn, the session is cut within the cap of polls and *)
(* one api timeout (bridge.go:391-399).                                     *)
THEOREM RevokedAreCut == Spec => []RevocationIsBounded
<1>1. Inv => RevocationIsBounded
  <2> SUFFICES ASSUME Inv, Relaying
               PROVE  seen.withdrawn <= Span(RevalidateMaxFailures) + APITimeout
    BY DEF RevocationIsBounded, Span
  <2>1. TypeOK /\ RevokedSince /\ Clocks
    BY DEF Inv
  <2>2. CASE access = "granted"
    BY <2>1, <2>2, Spans, Fields, Durations DEF RevokedSince
  <2>3. CASE access = "withdrawn" /\ ~poll.out
    BY <2>1, <2>3, Spans, Fields, Durations DEF RevokedSince
  <2>4. CASE access = "withdrawn" /\ poll.out
    <3>1. seen.withdrawn + poll.next <= Span(failures + 2)
      BY <2>1, <2>4, Spans, Fields, Durations DEF RevokedSince
    <3>2. poll.next + APITimeout >= RevalidateInterval
      BY <2>1, <2>4, Fields, Durations DEF Clocks
    <3> QED BY <2>1, <3>1, <3>2, Spans, Fields, Durations
  <2> QED BY <2>1, <2>2, <2>3, <2>4 DEF TypeOK
<1> QED BY <1>1, Invariant, PTL

(* An api outage shorter than the cap of polls cuts nobody                  *)
(* (bridge.go:417-436).                                                     *)
THEOREM OutagesAreTolerated == Spec => []OutageIsTolerated
  BY Invariant, PTL DEF Inv, AllowedSince

(* A browser that is gone, and a readLoop stuck in a write, are noticed     *)
(* within one ping (bridge.go:372-389).                                     *)
THEOREM DeafAreNoticed == Spec => []DeafIsNoticed
<1>1. Inv => DeafIsNoticed
  BY Fields, Durations DEF Inv, DeafSince, DeafIsNoticed
<1> QED BY <1>1, Invariant, PTL

(* CLIENT_CLOSED is never reported of a browser whose pongs are read        *)
(* (bridge.go:226-232, 384-387).                                            *)
THEOREM ClosedClientsWereDeaf == Spec => []ClosedClientWasDeaf
  BY Invariant, PTL DEF Inv

(* A silent session is ended, whatever its browser resizes                  *)
(* (bridge.go:339-344, 362-364).                                            *)
THEOREM SilentAreEnded == Spec => []SilenceEnds
<1>1. Inv => SilenceEnds
  BY Fields, Durations DEF Inv, InputSince, SilenceEnds
<1> QED BY <1>1, Invariant, PTL

(* The idle timer runs out on nobody who typed (bridge.go:218-221,          *)
(* 339-344).                                                                *)
THEOREM IdlersWereIdle == Spec => IdleIsTruthful
<1>1. Inv /\ [Next]_vars => [IdleExpires => seen.quiet >= IdleTimeout \/ seen.resizing]_vars
  BY Fields, Durations DEF Inv, IdleSince, IdleExpires
<1> QED BY <1>1, Invariant, PTL DEF Spec, IdleIsTruthful

-----------------------------------------------------------------------------
(* NothingIsLate without ENABLED: what a frame or a timer makes due meets   *)
(* the guard of the step that serves it.                                    *)
DueIsServed ==
  Relaying /\ Due =>
    \/ reader = "reading" /\ InputFirst
    \/ PongReadable
    \/ idle.fired
    \/ idle.left = 0 /\ ~idle.fired
    \/ ping.next = 0 /\ ~ping.out
    \/ ping.out /\ ping.left = 0
    \/ poll.next = 0 /\ ~poll.out
    \/ poll.out /\ poll.left = 0

(* No tick of either loop is dropped, whatever the durations: this is what  *)
(* PaceAssumption is for.                                                   *)
THEOREM NoTickIsDropped == Spec => [](TicksAreTaken /\ DueIsServed)
<1>1. Inv => TicksAreTaken /\ DueIsServed
  <2>1. ASSUME Inv PROVE TicksAreTaken
    <3>1. ping.left \in Nat /\ ping.next \in Nat /\ poll.left \in Nat /\ poll.next \in Nat
      BY <2>1, Durations DEF Inv, TypeOK, Pinger, Poller
    <3> QED BY <2>1, <3>1, Durations DEF Inv, Clocks, TicksAreTaken
  <2> QED BY <2>1 DEF TicksAreTaken, DueIsServed, Due
<1> QED BY <1>1, Invariant, PTL

-----------------------------------------------------------------------------
(***************************************************************************)
(* The watch inside the bridge.  TerminalBridge lets a relaying session be  *)
(* ended at any time; the loops end it when their clocks say so.  The same  *)
(* session seen as a session of the bridge: it has its slot, its upstream,  *)
(* its map entry and its place on the books, and end is claimed when the    *)
(* watch has its verdict.  Nothing else happens in this bridge, so that     *)
(* every step of it is one of the watch.                                    *)
(***************************************************************************)
Watched == "watched"
Only(value) == [s \in {Watched} |-> value]

Bridge == INSTANCE TerminalBridge_proofs WITH
  Session     <- {Watched},
  MaxSessions <- 1,
  handler     <- Only("reading"),
  browser     <- Only("here"),
  ssh         <- Only("open"),
  once        <- Only(IF Relaying THEN "free" ELSE "closing"),
  verdict     <- Only(verdict),
  forced      <- {},
  active      <- 1,
  sessions    <- {Watched},
  closed      <- FALSE,
  main        <- "serving",
  live        <- {},
  registry    <- Only("started"),
  start       <- Only("ok"),
  report      <- Only("none")

(* The bridge's vocabulary of endings is this module's.                     *)
LEMMA SameVerdicts ==
  /\ \A reason : Bridge!CloseCodeForReason(reason) = CloseCodeForReason(reason)
  /\ Bridge!EndVerdict = EndVerdict
  /\ Bridge!NoVerdict = NoVerdict
<1> USE DEF closeTicketInvalid, closeVMNotRunning, closeAccessRevoked, closeDisabled,
            closeMaintenance, closeNormal, closeIdle, closeForce, closeConnFailed,
            Bridge!closeTicketInvalid, Bridge!closeVMNotRunning,
            Bridge!closeAccessRevoked, Bridge!closeDisabled, Bridge!closeMaintenance,
            Bridge!closeNormal, Bridge!closeIdle, Bridge!closeForce, Bridge!closeConnFailed
<1>1. \A reason : Bridge!CloseCodeForReason(reason) = CloseCodeForReason(reason)
  BY DEF CloseCodeForReason, Bridge!CloseCodeForReason
<1>2. Bridge!DenialReason = DenialReason
  BY DEF DenialReason, Bridge!DenialReason
<1>3. Bridge!EndVerdict = EndVerdict
  BY <1>1, <1>2 DEF EndVerdict, Bridge!EndVerdict, Verdict, Bridge!Verdict
<1>4. Bridge!NoVerdict = NoVerdict
  BY DEF NoVerdict, Bridge!NoVerdict, Verdict, Bridge!Verdict
<1> QED BY <1>1, <1>3, <1>4

(* A claim of end for the watched session, whoever makes it.                *)
LEMMA VerdictIsClaimed ==
  ASSUME Relaying, ~Relaying'
  PROVE  Bridge!Trigger(Watched, verdict')
BY DEF Bridge!Trigger, Bridge!Claim, Bridge!connVars, Bridge!poolVars, Bridge!mainVars,
       Bridge!apiVars, Only

(* Each ending of the watch is the trigger of the bridge that claims end    *)
(* with the same verdict.  The read loop's own call of end is put down to   *)
(* the trigger beside it that passes the same arguments: the handler's      *)
(* return from it is not the watch's business.                              *)
LEMMA EndingTriggers ==
  ASSUME Ending
  PROVE  \/ Bridge!WriterFails(Watched) \/ Bridge!PingFails(Watched)
         \/ Bridge!IdleFires(Watched) \/ Bridge!RevalidateExhausted(Watched)
         \/ \E reason \in DenyReason : Bridge!RevalidateDenied(Watched, reason)
<1>1. Bridge!Trigger(Watched, verdict')
  BY EndingDecides, VerdictIsClaimed
<1>2. Only("reading")[Watched] = "reading" /\ "reading" \in Bridge!Shelled
  BY DEF Only, Bridge!Shelled
<1>3. CASE \/ WriteFails \/ WriterFails
  BY <1>1, <1>2, <1>3
  DEF WriteFails, WriterFails, Ends, Bridge!WriterFails, Verdict, Bridge!Verdict,
      closeConnFailed, Bridge!closeConnFailed
<1>4. CASE \/ ReadFails \/ PingFails \/ ShellExits
  BY <1>1, <1>2, <1>4
  DEF ReadFails, PingFails, ShellExits, Ends, Bridge!PingFails, Verdict, Bridge!Verdict,
      closeNormal, Bridge!closeNormal
<1>5. CASE IdleEnds
  BY <1>1, <1>2, <1>5
  DEF IdleEnds, Ends, Bridge!IdleFires, Verdict, Bridge!Verdict, closeIdle, Bridge!closeIdle
<1>6. CASE PollGivesUp
  BY <1>1, <1>2, <1>6
  DEF PollGivesUp, Ends, Bridge!RevalidateExhausted, Verdict, Bridge!Verdict,
      closeMaintenance, Bridge!closeMaintenance
<1>7. CASE PollDenied
  <2>1. PICK reason \in DenyReason : Ends("REVALIDATION_DENIED", CloseCodeForReason(reason))
    BY <1>7 DEF PollDenied
  <2>2. Bridge!CloseCodeForReason(reason) = CloseCodeForReason(reason)
    BY SameVerdicts
  <2>3. Bridge!RevalidateDenied(Watched, reason)
    BY <1>1, <1>2, <2>1, <2>2 DEF Ends, Bridge!RevalidateDenied, Verdict, Bridge!Verdict
  <2> QED BY <2>3
<1> QED
  BY <1>3, <1>4, <1>5, <1>6, <1>7 DEF Ending

(* The steps that do not end the session are none of the bridge.            *)
LEMMA OthersStutter ==
  ASSUME Instant \/ Tick \/ UNCHANGED vars
  PROVE  UNCHANGED Bridge!vars
<1>1. verdict' = verdict
  BY DEF Instant, ReadInput, ReadResize, WriteReturns, IdleExpires, PingSent, PongRead,
         PollSent, PollAllowed, PollMissed, UserTypes, BrowserLeaves, BrowserReturns,
         AccessRevoked, Tick, vars
<1> QED
  BY <1>1 DEF Bridge!vars, Bridge!connVars, Bridge!endVars, Bridge!poolVars,
              Bridge!mainVars, Bridge!apiVars, Only, Relaying

(* Each step of the watch is a step of the bridge or none.                  *)
LEMMA EveryStepIsBridgeStep ==
  ASSUME [Next]_vars
  PROVE  [Bridge!Next]_(Bridge!vars)
<1>1. CASE Ending
  <2>1. Bridge!Background(Watched)
    BY <1>1, EndingTriggers DEF Bridge!Background, Bridge!Up
  <2> QED BY <2>1 DEF Bridge!Next
<1>2. CASE Instant \/ Tick \/ UNCHANGED vars
  BY <1>2, OthersStutter
<1> QED
  BY <1>1, <1>2, Steps DEF Over

(* The watched session is one the bridge can have: it satisfies the         *)
(* invariant that TerminalBridge_proofs shows of every session.             *)
LEMMA WatchedFits == TypeOK => Bridge!Inv
<1> SUFFICES ASSUME TypeOK PROVE Bridge!Inv
  OBVIOUS
<1>1. verdict \in {NoVerdict} \cup EndVerdict
  BY DEF TypeOK
<1>2. Bridge!EndVerdict = EndVerdict /\ Bridge!NoVerdict = NoVerdict
  BY SameVerdicts
<1>3. Bridge!TypeOK
  BY <1>1, <1>2
  DEF Bridge!TypeOK, Only, Bridge!HandlerAt, Bridge!OnceAt, Bridge!MainAt, Bridge!RegistryAt,
      Bridge!StartAt, Bridge!ReportAt, Bridge!VerdictType
<1>4. Bridge!Lifecycle
  BY <1>1, <1>2
  DEF Bridge!Lifecycle, Bridge!EndsLate, Bridge!NamedServes, Bridge!UpstreamHeld,
      Bridge!StartBooks, Bridge!VerdictFits, Bridge!ShutdownWaits, Bridge!ClosedBehind,
      Bridge!Booked, Bridge!Shelled, Bridge!Serving, Only, Relaying
<1>5. Bridge!SlotAccounting
  <2>1. Bridge!Holders = {Watched}
    BY <1>1 DEF Bridge!Holders, Bridge!Serving, Only, Relaying
  <2>2. Bridge!Cardinality({Watched}) = 1
    BY FS_Singleton DEF Bridge!Cardinality, Cardinality
  <2> QED BY <2>1, <2>2 DEF Bridge!SlotAccounting
<1> QED BY <1>3, <1>4, <1>5 DEF Bridge!Inv

(* The clocks of a relaying session drive the bridge: the watch does        *)
(* nothing that a session satisfying the bridge's invariant may not do, so  *)
(* what is proved of a bridge whose triggers fire at any time holds of one  *)
(* whose triggers fire when the loops say so.                               *)
THEOREM WatchDrivesBridge == Spec => []Bridge!Inv /\ [][Bridge!Next]_(Bridge!vars)
<1>1. [Next]_vars => [Bridge!Next]_(Bridge!vars)
  BY EveryStepIsBridgeStep
<1>2. TypeOK => Bridge!Inv
  BY WatchedFits
<1> QED BY <1>1, <1>2, TypeCorrect, PTL DEF Spec

=============================================================================
