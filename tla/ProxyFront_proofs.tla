-------------------------- MODULE ProxyFront_proofs --------------------------
(***************************************************************************)
(* For any number of connections: Serve returns after the last handler, a   *)
(* handler returns after its copies, and no byte is dropped that either end *)
(* could complain about.                                                    *)
(***************************************************************************)
EXTENDS ProxyFront, FiniteSetTheorems, TLAPS

Running(c, e) == copy[c][e] \in {"reading", "writing"}

Serving == {c \in Conn : Started(c)}

(* Everything Serve has counted has not called Done.                        *)
Counted ==
  /\ wg = Cardinality(Serving)
  /\ ServeWaits

AnEndEnded(c) == \E e \in End : peer[c][e] # "open"

(* What a connection looks like at each place of its handler.               *)
Shape(c) ==
  /\ handler[c] \in {"none", "header", "dialing", "emitting"} =>
       /\ first[c] = "nothing"
       /\ \A e \in End : ~lost[c][e]
       /\ \A e \in End : copy[c][e] = "none"
  /\ handler[c] \in {"dialing", "emitting"} => greeting[c] = "valid"
  /\ handler[c] \in {"splicing", "halfway", "joining"} => \A e \in End : copy[c][e] # "none"
  /\ handler[c] \in {"returning", "finishing", "gone"} => \A e \in End : ~Running(c, e)
  /\ handler[c] \in {"finishing", "gone"} => \A e \in End : socket[c][e] # "open"
  /\ handler[c] \notin {"halfway", "joining", "returning", "finishing", "gone"} =>
       \A e \in End : socket[c][e] # "closed"
  /\ handler[c] \in {"none", "header", "dialing"} => peer[c]["upstream"] = "none"
  /\ handler[c] \in {"halfway", "joining", "returning", "finishing", "gone"} => AnEndEnded(c)
  /\ handler[c] = "halfway" => socket[c]["client"] = "closed"

(* A running copy writes behind the header.                                 *)
Headed(c) ==
  /\ first[c] # "raw"
  /\ first[c] = "header" => greeting[c] = "valid"
  /\ \A e \in End : copy[c][e] # "none" => first[c] = "header"

Unread(c, e) == socket[c][e] = "closed" /\ wire[c][e] > 0

(* One end or the other has ended.                                          *)
Ended(c, e) == peer[c][e] = "reset" \/ peer[c][Other(e)] # "open"

Excuse(c, e) == Ended(c, e) \/ Unread(c, Other(e))

(* What end e sends is lost only with an excuse: before a copy drops        *)
(* anything the other copy must have ended, or a socket been closed, which  *)
(* takes a copy that has ended; and a copy ends because an end did.         *)
Fate(c, e) ==
  /\ lost[c][e] => Excuse(c, e)
  /\ Running(c, e) /\ copy[c][Other(e)] = "done" => Ended(c, e)
  /\ Running(c, e) /\ (\E x \in End : socket[c][x] = "closed") => Ended(c, e)
  /\ copy[c][e] = "done" => AnEndEnded(c)

Sound(c) == Shape(c) /\ Headed(c) /\ \A e \in End : Fate(c, e)

Inv == TypeOK /\ Counted /\ \A c \in Conn : Sound(c)

(* A step at one connection leaves all that Sound says of another alone.    *)
Same(c) ==
  /\ handler'[c] = handler[c] /\ greeting'[c] = greeting[c]
  /\ socket'[c] = socket[c] /\ peer'[c] = peer[c]
  /\ wire'[c] = wire[c] /\ copy'[c] = copy[c]
  /\ first'[c] = first[c] /\ lost'[c] = lost[c]

LEMMA SameIsSound ==
  ASSUME NEW c \in Conn, Sound(c), Same(c)
  PROVE  Sound(c)'
  BY DEF Sound, Same, Shape, Headed, Fate, Excuse, Ended, AnEndEnded, Unread, Running

LEMMA Ends ==
  /\ "client" \in End /\ "upstream" \in End /\ "client" # "upstream"
  /\ \A e \in End : e = "client" \/ e = "upstream"
  /\ \A e \in End : Other(e) \in End /\ Other(e) # e /\ Other(Other(e)) = e
  /\ \A e, x \in End : x = e \/ x = Other(e)
  BY DEF End, Other

-----------------------------------------------------------------------------
(* The steps of the process and its environment, and of one connection.     *)
LEMMA TypeStep ==
  ASSUME TypeOK, Counted, Next
  PROVE  TypeOK'
<1> USE DEF TypeOK
<1>1. CASE AcceptEnds
  BY <1>1 DEF AcceptEnds, bytes
<1>2. CASE ServeReturns
  BY <1>2 DEF ServeReturns, bytes
<1>3. CASE Close
  BY <1>3 DEF Close, bytes
<1>4. CASE Over
  BY <1>4 DEF Over, vars
<1>5. ASSUME NEW c \in Conn, Accept(c)
      PROVE  TypeOK'
  <2>1. wg + 1 \in 0..Cardinality(Conn)
    <3>1. c \notin Serving /\ Serving \subseteq Conn
      BY <1>5 DEF Accept, Serving, Started
    <3>2. Serving \cup {c} \subseteq Conn
      BY <3>1
    <3>3. Cardinality(Serving \cup {c}) = wg + 1
      BY <3>1, ConnAssumption, FS_Subset, FS_AddElement DEF Counted
    <3> QED BY <3>2, <3>3, ConnAssumption, FS_Subset, FS_CardinalityType
  <2> QED BY <1>5, <2>1, Ends DEF Accept, bytes, GoTo, Place, Peer
<1>6. ASSUME NEW c \in Conn, Handles(c)
      PROVE  TypeOK'
  <2> USE Ends DEF GoTo, CloseSocket, Place, Peer, Copy, process, bytes
  <2>1. CASE HeaderRead(c)
    BY <2>1 DEF HeaderRead
  <2>2. CASE HeaderRefused(c)
    BY <2>2 DEF HeaderRefused
  <2>3. CASE DialSucceeds(c)
    BY <2>3 DEF DialSucceeds
  <2>4. CASE DialFails(c)
    BY <2>4 DEF DialFails
  <2>5. CASE HeaderSent(c)
    BY <2>5 DEF HeaderSent
  <2>6. CASE HeaderNotSent(c)
    BY <2>6 DEF HeaderNotSent
  <2>7. CASE FirstDone(c)
    BY <2>7 DEF FirstDone
  <2>8. CASE UpstreamClosed(c)
    BY <2>8 DEF UpstreamClosed
  <2>9. CASE SecondDone(c)
    BY <2>9 DEF SecondDone
  <2>10. CASE HandleReturns(c)
    BY <2>10 DEF HandleReturns
  <2>11. CASE Done(c)
    <3>1. c \in Serving /\ Serving \subseteq Conn /\ IsFiniteSet(Serving)
      BY <2>11, ConnAssumption, FS_Subset DEF Done, Serving, Started
    <3>2. Cardinality(Serving) > 0
      BY <3>1, FS_EmptySet, FS_CardinalityType
    <3>3. wg - 1 \in 0..Cardinality(Conn)
      BY <3>2, ConnAssumption, FS_CardinalityType DEF Counted
    <3> QED BY <2>11, <3>3 DEF Done
  <2> QED
    BY <1>6, <2>1, <2>2, <2>3, <2>4, <2>5, <2>6, <2>7, <2>8, <2>9, <2>10, <2>11 DEF Handles
<1>7. ASSUME NEW c \in Conn, NEW e \in End,
             CopyMoves(c, e) \/ WriteReturns(c, e) \/ FarEnd(c, e)
      PROVE  TypeOK'
  <2> USE Ends, WireAssumption DEF Place, Peer, Copy, process, bytes, CopyDone
  <2>1. CASE CopyReads(c, e)
    BY <2>1 DEF CopyReads
  <2>2. CASE CopyEnds(c, e)
    BY <2>2 DEF CopyEnds
  <2>3. CASE ReadFails(c, e)
    BY <2>3 DEF ReadFails
  <2>4. CASE WriteIsReset(c, e)
    BY <2>4 DEF WriteIsReset
  <2>5. CASE WriteFails(c, e)
    BY <2>5 DEF WriteFails
  <2>6. CASE WriteReturns(c, e)
    BY <2>6 DEF WriteReturns
  <2>7. CASE Sends(c, e)
    BY <2>7 DEF Sends
  <2>8. CASE Shuts(c, e) \/ Closes(c, e) \/ Breaks(c, e)
    <3>1. PICK to \in {"shut", "closed", "reset"} : peer' = [peer EXCEPT ![c][e] = to]
      BY <2>8 DEF Shuts, Closes, Breaks, PeerTurns
    <3>2. peer' \in [Conn -> [End -> Peer]]
      BY <3>1
    <3>3. UNCHANGED <<process, handler, greeting, socket, bytes>>
      BY <2>8 DEF Shuts, Closes, Breaks, PeerTurns
    <3> QED BY <3>2, <3>3
  <2> QED
    BY <1>7, <2>1, <2>2, <2>3, <2>4, <2>5, <2>6, <2>7, <2>8 DEF CopyMoves, FarEnd
<1> QED
  BY <1>1, <1>2, <1>3, <1>4, <1>5, <1>6, <1>7 DEF Next

-----------------------------------------------------------------------------
(* A handler starts while Serve accepts and stops when it calls Done.       *)
LEMMA CountedStep ==
  ASSUME TypeOK, Counted, Next
  PROVE  Counted'
<1> USE DEF Counted
<1>1. ASSUME handler' = handler, wg' = wg, serve' = serve
      PROVE  Counted'
  BY <1>1 DEF Serving, ServeWaits, Started
<1>2. CASE AcceptEnds
  BY <1>2 DEF AcceptEnds, Serving, ServeWaits, Started
<1>3. CASE ServeReturns
  <2>1. Serving = {} /\ serve' = "returned" /\ UNCHANGED <<wg, handler>>
    <3>1. IsFiniteSet(Serving) /\ Cardinality(Serving) = 0
      BY <1>3, ConnAssumption, FS_Subset DEF ServeReturns, Serving
    <3> QED BY <1>3, <3>1, FS_EmptySet DEF ServeReturns
  <2> QED BY <2>1 DEF Serving, ServeWaits, Started
<1>4. CASE Close \/ Over
  BY <1>4, <1>1 DEF Close, Over, vars
<1>5. ASSUME NEW c \in Conn, Accept(c)
      PROVE  Counted'
  <2>1. c \notin Serving /\ IsFiniteSet(Serving) /\ serve = "accepting" /\ serve' = serve
        /\ wg' = wg + 1
    BY <1>5, ConnAssumption, FS_Subset DEF Accept, Serving, Started
  <2>2. Serving' = Serving \cup {c}
    BY <1>5 DEF Accept, GoTo, Serving, Started, TypeOK
  <2> QED BY <2>1, <2>2, FS_AddElement DEF ServeWaits
<1>6. ASSUME NEW c \in Conn, Done(c)
      PROVE  Counted'
  <2>1. c \in Serving /\ IsFiniteSet(Serving) /\ serve' = serve /\ wg' = wg - 1
    BY <1>6, ConnAssumption, FS_Subset DEF Done, Serving, Started
  <2>2. Serving' = Serving \ {c}
    BY <1>6 DEF Done, GoTo, Serving, Started, TypeOK
  <2>3. wg' = Cardinality(Serving')
    BY <2>1, <2>2, FS_RemoveElement
  <2>4. ServeWaits'
    BY <2>1 DEF ServeWaits, Serving
  <2> QED BY <2>3, <2>4
<1>7. ASSUME NEW c \in Conn, Handles(c), ~Done(c)
      PROVE  Counted'
  <2>1. wg' = wg /\ serve' = serve
    BY <1>7 DEF Handles, HeaderRead, HeaderRefused, DialSucceeds, DialFails, HeaderSent,
                HeaderNotSent, FirstDone, UpstreamClosed, SecondDone, HandleReturns, process
  <2>2. /\ Started(c)
        /\ \E place \in Place \ {"none", "gone"} : GoTo(c, place)
    BY <1>7 DEF Handles, HeaderRead, HeaderRefused, DialSucceeds, DialFails, HeaderSent,
                HeaderNotSent, FirstDone, UpstreamClosed, SecondDone, HandleReturns,
                Started, Place
  <2>3. \A x \in Conn : Started(x)' = Started(x)
    BY <2>2 DEF GoTo, Started, TypeOK
  <2> QED BY <2>1, <2>3 DEF Serving, ServeWaits
<1>8. ASSUME NEW c \in Conn, NEW e \in End,
             CopyMoves(c, e) \/ WriteReturns(c, e) \/ FarEnd(c, e)
      PROVE  Counted'
  BY <1>8, <1>1 DEF CopyMoves, CopyReads, CopyEnds, ReadFails, WriteIsReset, WriteFails,
                    WriteReturns, FarEnd, Sends, Shuts, Closes, Breaks, PeerTurns, process
<1> QED
  BY <1>2, <1>3, <1>4, <1>5, <1>6, <1>7, <1>8 DEF Next

-----------------------------------------------------------------------------
(* The steps of a handler.                                                  *)
LEMMA HandlerStep ==
  ASSUME TypeOK, NEW c \in Conn, Sound(c), Accept(c) \/ Handles(c)
  PROVE  Sound(c)' /\ \A d \in Conn \ {c} : Same(d)
<1> USE Ends DEF GoTo, CloseSocket, process, bytes, TypeOK
<1>1. \A d \in Conn \ {c} : Same(d)
  BY DEF Handles, Accept, HeaderRead, HeaderRefused, DialSucceeds, DialFails, HeaderSent,
         HeaderNotSent, FirstDone, UpstreamClosed, SecondDone, HandleReturns, Done, Same
<1> SUFFICES Sound(c)'
  BY <1>1
<1> USE DEF Sound, Shape, Headed, Fate, Excuse, Ended, AnEndEnded, Unread, Running
<1>2. CASE Accept(c)
  BY <1>2 DEF Accept
<1>3. CASE HeaderRead(c)
  BY <1>3 DEF HeaderRead
<1>4. CASE HeaderRefused(c)
  BY <1>4 DEF HeaderRefused
<1>5. CASE DialSucceeds(c)
  BY <1>5 DEF DialSucceeds
<1>6. CASE DialFails(c)
  BY <1>6 DEF DialFails
<1>7. CASE HeaderSent(c)
  BY <1>7 DEF HeaderSent
<1>8. CASE HeaderNotSent(c)
  BY <1>8 DEF HeaderNotSent
<1>9. CASE FirstDone(c)
  <2>1. handler[c] = "splicing" /\ \E x \in End : copy[c][x] = "done"
    BY <1>9 DEF FirstDone
  <2>2. /\ handler'[c] = "halfway" /\ socket'[c]["client"] = "closed"
        /\ socket'[c]["upstream"] = socket[c]["upstream"]
        /\ lost'[c]["upstream"] = (lost[c]["upstream"] \/ wire[c]["client"] > 0)
        /\ lost'[c]["client"] = lost[c]["client"]
        /\ UNCHANGED <<greeting, peer, wire, copy, first>>
    BY <1>9 DEF FirstDone
  <2>3. \A x \in End : Running(c, x) => Ended(c, x)
    <3> SUFFICES ASSUME NEW x \in End, Running(c, x)
                 PROVE  Ended(c, x)
      OBVIOUS
    <3> HIDE DEF Sound, Shape, Headed, Fate, Excuse, Ended, AnEndEnded, Unread, TypeOK
    <3>1. PICK y \in End : copy[c][y] = "done"
      BY <2>1
    <3>2. copy[c][Other(x)] = "done"
      BY <3>1, Ends DEF Running
    <3> QED BY <3>2 DEF Sound, Fate
  <2>4. AnEndEnded(c)
    BY <2>1
  <2> QED BY <2>1, <2>2, <2>3, <2>4
<1>10. CASE UpstreamClosed(c)
  BY <1>10 DEF UpstreamClosed
<1>11. CASE SecondDone(c)
  BY <1>11 DEF SecondDone
<1>12. CASE HandleReturns(c)
  BY <1>12 DEF HandleReturns
<1>13. CASE Done(c)
  BY <1>13 DEF Done
<1> QED
  BY <1>2, <1>3, <1>4, <1>5, <1>6, <1>7, <1>8, <1>9, <1>10, <1>11, <1>12, <1>13
     DEF Handles

(* The steps of a copy.                                                     *)
LEMMA CopyStep ==
  ASSUME TypeOK, NEW c \in Conn, Sound(c), NEW e \in End, CopyMoves(c, e) \/ WriteReturns(c, e)
  PROVE  Sound(c)' /\ \A d \in Conn \ {c} : Same(d)
<1> USE Ends DEF process, CopyDone, TypeOK
<1>1. \A d \in Conn \ {c} : Same(d)
  BY DEF CopyMoves, CopyReads, CopyEnds, ReadFails, WriteIsReset, WriteFails, WriteReturns,
         Same
<1> SUFFICES Sound(c)'
  BY <1>1
<1> USE DEF Sound, Shape, Headed, Fate, Excuse, Ended, AnEndEnded, Unread, Running
<1>2. CASE CopyReads(c, e)
  BY <1>2 DEF CopyReads
<1>3. CASE CopyEnds(c, e)
  BY <1>3 DEF CopyEnds
<1>4. CASE ReadFails(c, e)
  BY <1>4 DEF ReadFails
<1>5. CASE WriteIsReset(c, e)
  BY <1>5 DEF WriteIsReset
<1>6. CASE WriteFails(c, e)
  BY <1>6 DEF WriteFails
<1>7. CASE WriteReturns(c, e)
  BY <1>7 DEF WriteReturns
<1> QED
  BY <1>2, <1>3, <1>4, <1>5, <1>6, <1>7 DEF CopyMoves

(* A far end never takes an excuse back, and what it sends to a closed      *)
(* socket is its own fault or the other end's.                              *)
LEMMA FarStep ==
  ASSUME TypeOK, NEW c \in Conn, Sound(c), NEW e \in End, FarEnd(c, e)
  PROVE  Sound(c)' /\ \A d \in Conn \ {c} : Same(d)
<1>1. UNCHANGED <<handler, greeting, socket, copy, first>>
  BY DEF FarEnd, Sends, Shuts, Closes, Breaks, PeerTurns, bytes
<1>2. CASE Sends(c, e)
  <2>1. /\ peer' = peer /\ peer[c][e] = "open"
        /\ wire' = [wire EXCEPT ![c][e] = @ + 1]
        /\ lost' = [lost EXCEPT ![c] = [x \in End |-> @[x] \/ socket[c][e] = "closed"]]
    BY <1>2 DEF Sends
  <2>2. \A d \in Conn \ {c} : Same(d)
    BY <1>1, <2>1 DEF Same, TypeOK
  <2>3. /\ wire[c] \in [End -> Nat] /\ wire'[c] \in [End -> Nat]
        /\ \A x \in End : wire'[c][x] >= wire[c][x]
        /\ wire'[c][e] > 0
    BY <2>1, WireAssumption, Ends DEF TypeOK
  <2>4. \A x \in End : Unread(c, x) => Unread(c, x)'
    BY <1>1, <2>3 DEF Unread
  <2>5. \A x \in End : lost'[c][x] <=> lost[c][x] \/ socket[c][e] = "closed"
    BY <2>1 DEF TypeOK
  <2>6. socket[c][e] = "closed" => Ended(c, e) /\ Unread(c, e)'
    <3>1. socket[c][e] = "closed" => AnEndEnded(c)
      BY DEF Sound, Shape, TypeOK, Place
    <3> QED BY <1>1, <2>1, <2>3, <3>1, Ends DEF AnEndEnded, Ended, Unread
  <2>7. \A x \in End : Ended(c, x)' = Ended(c, x)
    BY <2>1 DEF Ended
  <2>8. \A x \in End : lost'[c][x] => Excuse(c, x)'
    <3>1. \A x \in End : lost[c][x] => Excuse(c, x)
      BY DEF Sound, Fate
    <3> QED BY <3>1, <2>4, <2>5, <2>6, <2>7, Ends DEF Excuse
  <2>9. Shape(c)'
    <3>1. handler[c] \in {"none", "header", "dialing", "emitting"} => socket[c][e] # "closed"
      BY DEF Sound, Shape
    <3> QED BY <1>1, <2>1, <2>5, <3>1 DEF Sound, Shape, Running, AnEndEnded
  <2>10. \A x \in End : Fate(c, x)'
    BY <1>1, <2>1, <2>7, <2>8 DEF Sound, Fate, Running, AnEndEnded
  <2> QED BY <1>1, <2>2, <2>9, <2>10 DEF Sound, Headed
<1>3. CASE Shuts(c, e) \/ Closes(c, e) \/ Breaks(c, e)
  <2>1. PICK to \in {"shut", "closed", "reset"} :
          peer' = [peer EXCEPT ![c][e] = to] /\ peer[c][e] # "reset"
    BY <1>3 DEF Shuts, Closes, Breaks, PeerTurns
  <2>2. UNCHANGED <<wire, lost>>
    BY <1>3 DEF Shuts, Closes, Breaks, PeerTurns, bytes
  <2>3. \A x \in End : Ended(c, x) => Ended(c, x)'
    BY <2>1, Ends DEF Ended, TypeOK
  <2>4. \A x \in End : peer[c][x] # "open" => peer'[c][x] # "open"
    BY <2>1 DEF TypeOK
  <2>5. \A d \in Conn \ {c} : Same(d)
    BY <1>1, <2>1, <2>2 DEF Same, TypeOK
  <2>6. \A x \in End : Excuse(c, x) => Excuse(c, x)'
    BY <1>1, <2>2, <2>3 DEF Excuse, Unread
  <2>7. \A x \in End : Fate(c, x)'
    BY <1>1, <2>2, <2>3, <2>4, <2>6 DEF Sound, Fate, Running, AnEndEnded
  <2>8. Shape(c)'
    <3>1. handler[c] \in {"none", "header", "dialing"} => peer'[c]["upstream"] = "none"
      <4>1. peer[c]["upstream"] = "none" => e = "client"
        BY <1>3, Ends DEF Shuts, Closes, Breaks, PeerTurns
      <4> QED BY <4>1, <2>1, Ends DEF Sound, Shape, TypeOK
    <3> QED BY <1>1, <2>2, <2>4, <3>1 DEF Sound, Shape, Running, AnEndEnded
  <2> QED BY <1>1, <2>2, <2>5, <2>7, <2>8 DEF Sound, Headed
<1> QED BY <1>2, <1>3 DEF FarEnd

-----------------------------------------------------------------------------
(* Inv is an inductive invariant.                                           *)
THEOREM Invariant == Spec => []Inv
<1>1. Init => Inv
  <2> SUFFICES ASSUME Init PROVE Inv
    OBVIOUS
  <2>1. TypeOK
    BY WireAssumption, ConnAssumption, FS_CardinalityType DEF Init, TypeOK, Place, Peer, Copy
  <2>2. Counted
    <3>1. Serving = {}
      BY DEF Init, Serving, Started
    <3> QED BY <3>1, FS_EmptySet DEF Init, Counted, ServeWaits
  <2>3. \A c \in Conn : Sound(c)
    BY Ends DEF Init, Sound, Shape, Headed, Fate, Running
  <2> QED BY <2>1, <2>2, <2>3 DEF Inv
<1>2. Inv /\ [Next]_vars => Inv'
  <2> SUFFICES ASSUME Inv, [Next]_vars PROVE Inv'
    OBVIOUS
  <2> USE DEF Inv
  <2>1. CASE UNCHANGED vars
    <3>1. \A c \in Conn : Same(c)
      BY <2>1 DEF vars, Same
    <3>2. TypeOK' /\ Counted'
      BY <2>1 DEF vars, TypeOK, Counted, ServeWaits, Serving, Started
    <3> QED BY <3>1, <3>2, SameIsSound
  <2>2. CASE Next
    <3>1. TypeOK' /\ Counted'
      BY <2>2, TypeStep, CountedStep
    <3>2. CASE AcceptEnds \/ ServeReturns \/ Close \/ Over
      <4>1. \A c \in Conn : Same(c)
        BY <3>2 DEF AcceptEnds, ServeReturns, Close, Over, Same, bytes, vars
      <4> QED BY <3>1, <4>1, SameIsSound
    <3>3. ASSUME NEW c \in Conn,
                 \/ Accept(c) \/ Handles(c)
                 \/ \E e \in End : CopyMoves(c, e) \/ WriteReturns(c, e) \/ FarEnd(c, e)
          PROVE  \A d \in Conn : Sound(d)'
      <4>1. Sound(c)' /\ \A d \in Conn \ {c} : Same(d)
        BY <3>3, HandlerStep, CopyStep, FarStep
      <4> QED BY <4>1, SameIsSound
    <3> QED BY <2>2, <3>1, <3>2, <3>3 DEF Next
  <2> QED BY <2>1, <2>2
<1> QED BY <1>1, <1>2, PTL DEF Spec

(* Every variable keeps its type; wg in particular never goes below zero,   *)
(* where WaitGroup panics.                                                  *)
THEOREM TypeCorrect == Spec => []TypeOK
<1>1. Inv => TypeOK
  BY DEF Inv
<1> QED BY Invariant, <1>1, PTL

(* Serve returns after the last handler, however many there were and        *)
(* whenever Close came.                                                     *)
THEOREM ServeWaitsForAll == Spec => []ServeWaits
<1>1. Inv => ServeWaits
  BY DEF Inv, Counted
<1> QED BY Invariant, <1>1, PTL

(* A handler that returned left no copy running and no socket open.         *)
THEOREM HandlersLeaveNothing == Spec => []NothingIsLeftBehind
<1>1. Inv => NothingIsLeftBehind
  BY DEF Inv, Sound, Shape, Running, NothingIsLeftBehind
<1> QED BY Invariant, <1>1, PTL

(* sshpiperd never sees a client's bytes before the header of that client.  *)
THEOREM HeadersGoFirst == Spec => []NoRawBytes
<1>1. Inv => NoRawBytes
  BY DEF Inv, Sound, Headed, NoRawBytes
<1> QED BY Invariant, <1>1, PTL

(* Tearing a connection down loses nothing of an end that closed in order   *)
(* for an end that only listened.                                           *)
THEOREM LastWordsAreDelivered == Spec => []LastWordsArrive
<1>1. Inv => LastWordsArrive
  BY DEF Inv, Sound, Fate, Excuse, Ended, Unread, LastWordsArrive
<1> QED BY Invariant, <1>1, PTL

-----------------------------------------------------------------------------
(***************************************************************************)
(* What the end of Serve means.  main returns after Serve, so nothing that  *)
(* matters may still be running; only the far ends can still move.          *)
(***************************************************************************)
shim == <<listener, serve, wg, handler, greeting, socket, copy, first>>

DoorShut == serve # "accepting" => listener = "closed"

ServeIsLast == [][serve = "returned" => UNCHANGED shim]_vars

(* Serve stops accepting only once the listener is closed, for good.        *)
LEMMA DoorStep == DoorShut /\ [Next]_vars => DoorShut'
<1> SUFFICES ASSUME DoorShut, [Next]_vars PROVE DoorShut'
  OBVIOUS
<1> USE DEF DoorShut, process
<1>1. CASE AcceptEnds \/ ServeReturns \/ Close \/ Over
  BY <1>1 DEF AcceptEnds, ServeReturns, Close, Over, vars
<1>2. ASSUME NEW c \in Conn,
             \/ Accept(c) \/ Handles(c)
             \/ \E e \in End : CopyMoves(c, e) \/ WriteReturns(c, e) \/ FarEnd(c, e)
      PROVE  listener' = listener /\ serve' = serve
  BY <1>2
     DEF Accept, Handles, HeaderRead, HeaderRefused, DialSucceeds, DialFails, HeaderSent,
         HeaderNotSent, FirstDone, UpstreamClosed, SecondDone, HandleReturns, Done,
         CopyMoves, CopyReads, CopyEnds, ReadFails, WriteIsReset, WriteFails, WriteReturns,
         FarEnd, Sends, Shuts, Closes, Breaks, PeerTurns
<1>3. CASE UNCHANGED vars
  BY <1>3 DEF vars
<1> QED BY <1>1, <1>2, <1>3 DEF Next

(* After Serve has returned no goroutine of the shim takes a step: none     *)
(* accepts, no handler is on its way, no copy reads or writes.              *)
THEOREM NothingRunsAfterServe == Spec => ServeIsLast
<1>1. Init => DoorShut
  BY DEF Init, DoorShut
<1>2. DoorShut /\ [Next]_vars => DoorShut'
  BY DoorStep
<1>3. Inv /\ DoorShut /\ [Next]_vars => (serve = "returned" => UNCHANGED shim)
  <2> SUFFICES ASSUME Inv, DoorShut, [Next]_vars, serve = "returned"
               PROVE  UNCHANGED shim
    OBVIOUS
  <2> USE DEF shim
  <2>1. listener = "closed" /\ \A c \in Conn : handler[c] \in {"none", "gone"}
    BY DEF DoorShut, Inv, Counted, ServeWaits, Started
  <2>2. \A c \in Conn, e \in End : ~Running(c, e)
    BY <2>1 DEF Inv, Sound, Shape, Running
  <2>3. CASE AcceptEnds \/ ServeReturns \/ Close \/ Over \/ UNCHANGED vars
    BY <2>1, <2>3 DEF AcceptEnds, ServeReturns, Close, Over, vars
  <2>4. ASSUME NEW c \in Conn, Accept(c) \/ Handles(c)
        PROVE  FALSE
    BY <2>1, <2>4
       DEF Accept, Handles, HeaderRead, HeaderRefused, DialSucceeds, DialFails, HeaderSent,
           HeaderNotSent, FirstDone, UpstreamClosed, SecondDone, HandleReturns, Done
  <2>5. ASSUME NEW c \in Conn, NEW e \in End, CopyMoves(c, e) \/ WriteReturns(c, e)
        PROVE  FALSE
    BY <2>2, <2>5
       DEF Running, CopyMoves, CopyReads, CopyEnds, ReadFails, WriteIsReset, WriteFails,
           WriteReturns
  <2>6. ASSUME NEW c \in Conn, NEW e \in End, FarEnd(c, e)
        PROVE  UNCHANGED shim
    BY <2>6 DEF FarEnd, Sends, Shuts, Closes, Breaks, PeerTurns, process, bytes
  <2> HIDE DEF shim
  <2> QED BY <2>3, <2>4, <2>5, <2>6 DEF Next
<1> QED BY <1>1, <1>2, <1>3, Invariant, PTL DEF Spec, ServeIsLast

=============================================================================
