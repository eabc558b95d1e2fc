------------------------------ MODULE ProxyFront ------------------------------
(***************************************************************************)
(* The ingress shim in front of sshpiperd (internal/proxyfront/front.go):   *)
(* the accept loop, one handler per connection, the two copies a handler    *)
(* runs, Close, and the two programs at the far ends of a connection.       *)
(*                                                                          *)
(* A connection has two ends, the client and the upstream.  Whatever flows  *)
(* from an end is named by that end: wire[c]["client"] is what the client   *)
(* sent and nobody read yet, copy[c]["client"] the goroutine reading it.    *)
(***************************************************************************)
EXTENDS Integers, FiniteSets

CONSTANTS
  Conn,      \* the connections that are made, each once
  MaxWire    \* how much may wait to be read: the size of a TCP window

ASSUME ConnAssumption == IsFiniteSet(Conn)
ASSUME WireAssumption == MaxWire \in Nat \ {0}

VARIABLES
  listener,  \* s.ln
  serve,     \* where Serve is
  wg,        \* s.wg
  handler,   \* where handle is
  greeting,  \* what a client opens with: a PROXY header from the peer, or not
  socket,    \* the shim's two sockets of a connection
  peer,      \* the programs at the other side of the sockets
  wire,      \* what an end has sent and the shim has not read
  copy,      \* the two goroutines of splice
  first,     \* what upstream has been sent, the header or raw bytes first
  lost       \* whether something an end sent may not have arrived at the other

vars == <<listener, serve, wg, handler, greeting, socket, peer, wire, copy, first, lost>>

End == {"client", "upstream"}
Other(e) == IF e = "client" THEN "upstream" ELSE "client"

Place == {"none", "header", "dialing", "emitting", "splicing", "halfway", "joining",
          "returning", "finishing", "gone"}

(* closed: the program called close, its bytes are still on their way; what *)
(* is written to it now is answered by a reset.                             *)
Peer == {"none", "open", "shut", "closed", "reset"}
Copy == {"none", "reading", "writing", "done"}

TypeOK ==
  /\ listener \in {"open", "closed"}
  /\ serve \in {"accepting", "waiting", "returned"}
  /\ wg \in 0..Cardinality(Conn)
  /\ handler \in [Conn -> Place]
  /\ greeting \in [Conn -> {"valid", "invalid"}]
  /\ socket \in [Conn -> [End -> {"none", "open", "closed"}]]
  /\ peer \in [Conn -> [End -> Peer]]
  /\ wire \in [Conn -> [End -> 0..MaxWire]]
  /\ copy \in [Conn -> [End -> Copy]]
  /\ first \in [Conn -> {"nothing", "header", "raw"}]
  /\ lost \in [Conn -> [End -> BOOLEAN]]

Init ==
  /\ listener = "open"
  /\ serve = "accepting"
  /\ wg = 0
  /\ handler = [c \in Conn |-> "none"]
  /\ greeting \in [Conn -> {"valid", "invalid"}]
  /\ socket = [c \in Conn |-> [e \in End |-> "none"]]
  /\ peer = [c \in Conn |-> [e \in End |-> "none"]]
  /\ wire = [c \in Conn |-> [e \in End |-> 0]]
  /\ copy = [c \in Conn |-> [e \in End |-> "none"]]
  /\ first = [c \in Conn |-> "nothing"]
  /\ lost = [c \in Conn |-> [e \in End |-> FALSE]]

process == <<listener, serve, wg>>
bytes == <<wire, copy, first, lost>>

GoTo(c, place) == handler' = [handler EXCEPT ![c] = place]

-----------------------------------------------------------------------------
(***************************************************************************)
(* Serve and Close.  An Accept that fails for another reason than a closed  *)
(* listener is tried again and changes nothing.                             *)
(***************************************************************************)
Accept(c) ==
  /\ serve = "accepting" /\ listener = "open" /\ handler[c] = "none"
  /\ wg' = wg + 1
  /\ GoTo(c, "header")
  /\ socket' = [socket EXCEPT ![c]["client"] = "open"]
  /\ peer' = [peer EXCEPT ![c]["client"] = "open"]
  /\ UNCHANGED <<listener, serve, greeting, bytes>>

\* faulty variant: a closed listener is one more bad connection
AcceptTriesAgain ==
  /\ serve = "accepting" /\ listener = "closed"
  /\ UNCHANGED vars

AcceptEnds ==
  /\ serve = "accepting" /\ listener = "closed"
  /\ serve' = "waiting"
  /\ UNCHANGED <<listener, wg, handler, greeting, socket, peer, bytes>>

\* faulty variant: Serve does not wait for the handlers
ServeReturnsAtOnce ==
  /\ serve = "waiting"
  /\ serve' = "returned"
  /\ UNCHANGED <<listener, wg, handler, greeting, socket, peer, bytes>>

ServeReturns ==
  /\ serve = "waiting" /\ wg = 0
  /\ serve' = "returned"
  /\ UNCHANGED <<listener, wg, handler, greeting, socket, peer, bytes>>

(* Close returns at once; Serve is what waits.                              *)
Close ==
  /\ listener = "open"
  /\ listener' = "closed"
  /\ UNCHANGED <<serve, wg, handler, greeting, socket, peer, bytes>>

-----------------------------------------------------------------------------
(***************************************************************************)
(* handle, up to splice.                                                    *)
(***************************************************************************)
HeaderRead(c) ==
  /\ handler[c] = "header" /\ greeting[c] = "valid"
  /\ GoTo(c, "dialing")
  /\ UNCHANGED <<process, greeting, socket, peer, bytes>>

(* No header, a malformed or LOCAL one, one of another source than the      *)
(* peer, or none within ReadHeaderTimeout.                                  *)
HeaderRefused(c) ==
  /\ handler[c] = "header"
  /\ GoTo(c, "returning")
  /\ UNCHANGED <<process, greeting, socket, peer, bytes>>

\* faulty variant: client bytes flow before the header is written
DialThenCopy(c) ==
  /\ handler[c] = "dialing"
  /\ GoTo(c, "emitting")
  /\ socket' = [socket EXCEPT ![c]["upstream"] = "open"]
  /\ peer' = [peer EXCEPT ![c]["upstream"] = "open"]
  /\ copy' = [copy EXCEPT ![c]["client"] = "reading"]
  /\ UNCHANGED <<process, greeting, wire, first, lost>>

DialSucceeds(c) ==
  /\ handler[c] = "dialing"
  /\ GoTo(c, "emitting")
  /\ socket' = [socket EXCEPT ![c]["upstream"] = "open"]
  /\ peer' = [peer EXCEPT ![c]["upstream"] = "open"]
  /\ UNCHANGED <<process, greeting, bytes>>

DialFails(c) ==
  /\ handler[c] = "dialing"
  /\ GoTo(c, "returning")
  /\ UNCHANGED <<process, greeting, socket, peer, bytes>>

(* The header fits the empty send buffer of a new socket.  sshpiperd may    *)
(* have closed the connection meanwhile.                                    *)
HeaderSent(c) ==
  /\ handler[c] = "emitting" /\ peer[c]["upstream"] # "reset"
  /\ GoTo(c, "splicing")
  /\ first' = [first EXCEPT ![c] = IF @ = "nothing" THEN "header" ELSE @]
  /\ copy' = [copy EXCEPT ![c] = [e \in End |-> "reading"]]
  /\ peer' = [peer EXCEPT ![c]["upstream"] = IF @ = "closed" THEN "reset" ELSE @]
  /\ UNCHANGED <<process, greeting, socket, wire, lost>>

HeaderNotSent(c) ==
  /\ handler[c] = "emitting" /\ peer[c]["upstream"] = "reset"
  /\ GoTo(c, "returning")
  /\ UNCHANGED <<process, greeting, socket, peer, bytes>>

-----------------------------------------------------------------------------
(***************************************************************************)
(* splice.  A copy reads what there is, or part of it, then writes it.      *)
(***************************************************************************)
CopyDone(c, e, loses) ==
  /\ copy' = [copy EXCEPT ![c][e] = "done"]
  /\ lost' = [lost EXCEPT ![c][e] = @ \/ loses]

CopyReads(c, e) ==
  /\ copy[c][e] = "reading" /\ socket[c][e] = "open" /\ wire[c][e] > 0
  /\ \E left \in 0..(wire[c][e] - 1) : wire' = [wire EXCEPT ![c][e] = left]
  /\ copy' = [copy EXCEPT ![c][e] = "writing"]
  /\ UNCHANGED <<process, handler, greeting, socket, peer, first, lost>>

(* The end has said all it had to say.                                      *)
CopyEnds(c, e) ==
  /\ copy[c][e] = "reading" /\ socket[c][e] = "open" /\ wire[c][e] = 0
  /\ peer[c][e] \in {"shut", "closed"}
  /\ CopyDone(c, e, FALSE)
  /\ UNCHANGED <<process, handler, greeting, socket, peer, wire, first>>

(* The connection was reset, or splice closed the socket.                   *)
ReadFails(c, e) ==
  /\ copy[c][e] = "reading"
  /\ socket[c][e] = "closed" \/ peer[c][e] = "reset"
  /\ CopyDone(c, e, wire[c][e] > 0)
  /\ UNCHANGED <<process, handler, greeting, socket, peer, wire, first>>

(* Only a program that reads makes room for what is written to it.          *)
WriteReturns(c, e) ==
  /\ copy[c][e] = "writing" /\ socket[c][Other(e)] = "open"
  /\ peer[c][Other(e)] \in {"open", "shut"}
  /\ copy' = [copy EXCEPT ![c][e] = "reading"]
  /\ first' = [first EXCEPT ![c] = IF e = "client" /\ @ = "nothing" THEN "raw" ELSE @]
  /\ UNCHANGED <<process, handler, greeting, socket, peer, wire, lost>>

(* The kernel takes the bytes, the answer to them is a reset.               *)
WriteIsReset(c, e) ==
  /\ copy[c][e] = "writing" /\ socket[c][Other(e)] = "open"
  /\ peer[c][Other(e)] = "closed"
  /\ copy' = [copy EXCEPT ![c][e] = "reading"]
  /\ peer' = [peer EXCEPT ![c][Other(e)] = "reset"]
  /\ lost' = [lost EXCEPT ![c][e] = TRUE]
  /\ UNCHANGED <<process, handler, greeting, socket, wire, first>>

WriteFails(c, e) ==
  /\ copy[c][e] = "writing"
  /\ socket[c][Other(e)] = "closed" \/ peer[c][Other(e)] = "reset"
  /\ CopyDone(c, e, TRUE)
  /\ UNCHANGED <<process, handler, greeting, socket, peer, wire, first>>

CopyMoves(c, e) ==
  \/ CopyReads(c, e) \/ CopyEnds(c, e) \/ ReadFails(c, e)
  \/ WriteIsReset(c, e) \/ WriteFails(c, e)

(* A socket closed with something to be read on it is closed by a reset:    *)
(* what is still on its way to that end may go with it.                     *)
CloseSocket(c, e) ==
  /\ socket' = [socket EXCEPT ![c][e] = "closed"]
  /\ lost' = [lost EXCEPT ![c][Other(e)] = @ \/ wire[c][e] > 0]

\* faulty variant: splice does not wait for a copy to end
FirstDoneAtOnce(c) ==
  /\ handler[c] = "splicing"
  /\ GoTo(c, "halfway")
  /\ CloseSocket(c, "client")
  /\ UNCHANGED <<process, greeting, peer, wire, copy, first>>

(* Either copy has ended; the client's socket goes first.                   *)
FirstDone(c) ==
  /\ handler[c] = "splicing"
  /\ \E e \in End : copy[c][e] = "done"
  /\ GoTo(c, "halfway")
  /\ CloseSocket(c, "client")
  /\ UNCHANGED <<process, greeting, peer, wire, copy, first>>

\* faulty variant: the upstream's socket is left to the deferred Close
UpstreamKept(c) ==
  /\ handler[c] = "halfway"
  /\ GoTo(c, "joining")
  /\ UNCHANGED <<process, greeting, socket, peer, bytes>>

UpstreamClosed(c) ==
  /\ handler[c] = "halfway"
  /\ GoTo(c, "joining")
  /\ CloseSocket(c, "upstream")
  /\ UNCHANGED <<process, greeting, peer, wire, copy, first>>

\* faulty variant: splice does not wait for the second copy
SecondLeft(c) ==
  /\ handler[c] = "joining"
  /\ GoTo(c, "returning")
  /\ UNCHANGED <<process, greeting, socket, peer, bytes>>

SecondDone(c) ==
  /\ handler[c] = "joining"
  /\ \A e \in End : copy[c][e] = "done"
  /\ GoTo(c, "returning")
  /\ UNCHANGED <<process, greeting, socket, peer, bytes>>

(* The deferred calls of handle, then that of its goroutine.                *)
HandleReturns(c) ==
  /\ handler[c] = "returning"
  /\ GoTo(c, "finishing")
  /\ socket' = [socket EXCEPT ![c] =
                  [e \in End |-> IF @[e] = "none" THEN "none" ELSE "closed"]]
  /\ UNCHANGED <<process, greeting, peer, bytes>>

\* faulty variant: Done is called twice
DoneTwice(c) ==
  /\ handler[c] = "finishing"
  /\ GoTo(c, "gone")
  /\ wg' = wg - 2
  /\ UNCHANGED <<listener, serve, greeting, socket, peer, bytes>>

Done(c) ==
  /\ handler[c] = "finishing"
  /\ GoTo(c, "gone")
  /\ wg' = wg - 1
  /\ UNCHANGED <<listener, serve, greeting, socket, peer, bytes>>

Handles(c) ==
  \/ HeaderRead(c) \/ HeaderRefused(c) \/ DialSucceeds(c) \/ DialFails(c)
  \/ HeaderSent(c) \/ HeaderNotSent(c)
  \/ FirstDone(c) \/ UpstreamClosed(c) \/ SecondDone(c)
  \/ HandleReturns(c) \/ Done(c)

-----------------------------------------------------------------------------
(***************************************************************************)
(* The far ends: SSH client behind the WireGuard peer, and sshpiperd.       *)
(***************************************************************************)
(* What is sent to a closed socket is answered by a reset as well.          *)
Sends(c, e) ==
  /\ socket[c][e] # "none" /\ peer[c][e] = "open" /\ wire[c][e] < MaxWire
  /\ wire' = [wire EXCEPT ![c][e] = @ + 1]
  /\ lost' = [lost EXCEPT ![c] = [x \in End |-> @[x] \/ socket[c][e] = "closed"]]
  /\ UNCHANGED <<process, handler, greeting, socket, peer, copy, first>>

PeerTurns(c, e, from, to) ==
  /\ socket[c][e] = "open" /\ peer[c][e] \in from
  /\ peer' = [peer EXCEPT ![c][e] = to]
  /\ UNCHANGED <<process, handler, greeting, socket, bytes>>

Shuts(c, e) == PeerTurns(c, e, {"open"}, "shut")
Closes(c, e) == PeerTurns(c, e, {"open", "shut"}, "closed")
Breaks(c, e) == PeerTurns(c, e, {"open", "shut", "closed"}, "reset")

FarEnd(c, e) == Sends(c, e) \/ Shuts(c, e) \/ Closes(c, e) \/ Breaks(c, e)

Over == serve = "returned" /\ UNCHANGED vars

Next ==
  \/ AcceptEnds \/ ServeReturns \/ Close \/ Over
  \/ \E c \in Conn :
       \/ Accept(c) \/ Handles(c)
       \/ \E e \in End : CopyMoves(c, e) \/ WriteReturns(c, e) \/ FarEnd(c, e)

Spec == Init /\ [][Next]_vars

(* Goroutines that can run do.  The header and the dial have their          *)
(* timeouts; the keep-alive that Go sets on every TCP connection turns a    *)
(* peer that vanished into a reset.  Nobody is made to read: WriteReturns   *)
(* is left out, as are the far ends and whoever calls Close.                *)
Fairness ==
  /\ WF_vars(AcceptEnds) /\ WF_vars(ServeReturns)
  /\ \A c \in Conn :
       /\ WF_vars(Handles(c))
       /\ \A e \in End : WF_vars(CopyMoves(c, e))

FairSpec == Spec /\ Fairness

-----------------------------------------------------------------------------
(***************************************************************************)
(* Properties.                                                              *)
(***************************************************************************)
Started(c) == handler[c] \notin {"none", "gone"}
Left(c, e) == peer[c][e] \in {"closed", "reset"}

(* The first bytes sshpiperd sees of a connection are the header of a       *)
(* client that was vouched for, whatever the client had already sent        *)
(* (front.go:11-15).                                                        *)
NoRawBytes ==
  \A c \in Conn : first[c] # "raw" /\ (first[c] = "header" => greeting[c] = "valid")

(* When Serve returns no handler runs, whatever was accepted while the      *)
(* listener was being closed (front.go:120).                                *)
ServeWaits ==
  serve = "returned" => \A c \in Conn : ~Started(c)

(* A handler leaves nothing behind: its copies have ended and its sockets   *)
(* are closed, so that waiting for handlers is waiting for everything.      *)
NothingIsLeftBehind ==
  \A c \in Conn : handler[c] = "gone" =>
    \A e \in End : socket[c][e] # "open" /\ copy[c][e] \notin {"reading", "writing"}

(* What an end sent arrives, unless that end broke off, or the end it was   *)
(* for had ended its own side, or was still talking when splice closed.  So *)
(* sshpiperd's goodbye reaches a client that listens and may miss one that  *)
(* types, and a client that shuts first loses what is on its way to it:     *)
(* splice tears down both directions when one ends (front.go:183).          *)
LastWordsArrive ==
  \A c \in Conn, e \in End :
    lost[c][e] =>
      \/ peer[c][e] = "reset" \/ peer[c][Other(e)] # "open"
      \/ socket[c][Other(e)] = "closed" /\ wire[c][Other(e)] > 0

(* When one end has left, the handler returns, unless its copy is stuck in  *)
(* a write to an end that does not read.                                    *)
AbandonedEnds ==
  \A c \in Conn, e \in End :
    (Started(c) /\ Left(c, e)) ~> (~Started(c) \/ [](copy[c][e] = "writing"))

(* After Close, Serve returns once the ends of every connection have left.  *)
(* One splice that idles is enough to hold it (front.go:120).               *)
ServeEnds ==
  (listener = "closed" /\ \A c \in Conn : Started(c) => \A e \in End : Left(c, e))
  ~> serve = "returned"

-----------------------------------------------------------------------------
(***************************************************************************)
(* The contract the front implements.                                       *)
(***************************************************************************)
DoorOf == IF serve = "returned" THEN "over" ELSE IF listener = "open" THEN "open" ELSE "shut"

StageOf(c) ==
  CASE handler[c] = "none"                             -> "new"
    [] handler[c] \in {"header", "dialing", "emitting"} -> "taken"
    [] handler[c] = "splicing"                         -> "linked"
    [] handler[c] = "gone"                             -> "gone"
    [] OTHER                                           -> "closing"

SideOf(c, e) ==
  CASE peer[c][e] \in {"none", "open"} -> "there"
    [] peer[c][e] = "reset"            -> "broken"
    [] OTHER                           -> peer[c][e]

Vouched == {c \in Conn : greeting[c] = "valid"}
Stage == [c \in Conn |-> StageOf(c)]
Side == [c \in Conn |-> [e \in End |-> SideOf(c, e)]]
Missing == [c \in Conn |-> {e \in End : lost[c][e]}]

Contract == INSTANCE ConnectionContract WITH
  door    <- DoorOf,
  vouched <- Vouched,
  stage   <- Stage,
  side    <- Side,
  missing <- Missing

(* In whatever order the copies, the two closes, the far ends and Close     *)
(* come: who is linked was vouched for, a link is cut only after an end     *)
(* ended and loses nothing before without a cause (front.go:183), and Serve *)
(* returns after everybody was let go (front.go:120).                       *)
ImplementsContract == Contract!Spec

=============================================================================
