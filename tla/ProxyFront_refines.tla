-------------------------- MODULE ProxyFront_refines --------------------------
(***************************************************************************)
(* The proxy front implements ConnectionContract, for any number of         *)
(* connections; what follows from that contract alone; and that splice      *)
(* waits for nobody once it has closed both sockets.                        *)
(***************************************************************************)
EXTENDS ProxyFront_proofs

(* The two ends of a connection are met one after the other, and both are   *)
(* closed before the second copy is waited for.                             *)
Met(c) ==
  /\ handler[c] = "none" =>
       \A e \in End : socket[c][e] = "none" /\ peer[c][e] = "none"
  /\ handler[c] \in {"header", "dialing"} =>
       socket[c]["client"] # "none" /\ peer[c]["client"] # "none"
  /\ handler[c] \in {"emitting", "splicing", "halfway", "joining"} =>
       \A e \in End : socket[c][e] # "none" /\ peer[c][e] # "none"
  /\ handler[c] = "joining" => \A e \in End : socket[c][e] = "closed"

Meetings == \A c \in Conn : Met(c)

Step(c) ==
  \/ Accept(c) \/ Handles(c)
  \/ \E e \in End : CopyMoves(c, e) \/ WriteReturns(c, e) \/ FarEnd(c, e)

(* The steps of the process have nothing to do with any one connection.     *)
Process == AcceptEnds \/ ServeReturns \/ Close \/ Over

LEMMA OneAtATime ==
  ASSUME Inv, NEW c \in Conn, Step(c)
  PROVE  \A d \in Conn \ {c} : Same(d)
BY HandlerStep, CopyStep, FarStep DEF Inv, Step

LEMMA GreetingStays ==
  ASSUME [Next]_vars
  PROVE  greeting' = greeting
<1>1. CASE Process \/ UNCHANGED vars
  BY <1>1 DEF Process, AcceptEnds, ServeReturns, Close, Over, vars
<1>2. ASSUME NEW c \in Conn, Step(c) PROVE greeting' = greeting
  BY <1>2
     DEF Step, Accept, Handles, HeaderRead, HeaderRefused, DialSucceeds, DialFails, HeaderSent,
         HeaderNotSent, FirstDone, UpstreamClosed, SecondDone, HandleReturns, Done,
         CopyMoves, CopyReads, CopyEnds, ReadFails, WriteIsReset, WriteFails, WriteReturns,
         FarEnd, Sends, Shuts, Closes, Breaks, PeerTurns
<1> QED BY <1>1, <1>2 DEF Next, Process, Step

LEMMA MetStep ==
  ASSUME Inv, NEW c \in Conn, Met(c), Step(c)
  PROVE  Met(c)'
<1>1. TypeOK /\ Shape(c)
  BY DEF Inv, Sound
<1> USE <1>1, Ends DEF GoTo, CloseSocket, process, bytes, TypeOK, Met
<1>2. CASE Accept(c)
  BY <1>2 DEF Accept, Shape
<1>3. CASE Handles(c)
  <2>1. CASE DialSucceeds(c)
    BY <2>1 DEF DialSucceeds
  <2>2. CASE HeaderSent(c)
    BY <2>2 DEF HeaderSent
  <2>3. CASE HeaderRead(c) \/ HeaderRefused(c) \/ DialFails(c) \/ HeaderNotSent(c)
    BY <2>3 DEF HeaderRead, HeaderRefused, DialFails, HeaderNotSent
  <2>4. CASE FirstDone(c) \/ SecondDone(c)
    BY <2>4 DEF FirstDone, SecondDone
  <2>6. CASE UpstreamClosed(c)
    <3>1. /\ handler[c] = "halfway" /\ handler'[c] = "joining" /\ peer' = peer
          /\ socket'[c]["upstream"] = "closed" /\ socket'[c]["client"] = "closed"
      BY <2>6 DEF UpstreamClosed, Shape
    <3> QED BY <3>1
  <2>5. CASE HandleReturns(c) \/ Done(c)
    BY <2>5 DEF HandleReturns, Done
  <2> QED BY <1>3, <2>1, <2>2, <2>3, <2>4, <2>5, <2>6 DEF Handles
<1>4. ASSUME NEW e \in End, CopyMoves(c, e) \/ WriteReturns(c, e)
      PROVE  Met(c)'
  <2>1. handler' = handler /\ socket' = socket /\ copy[c][e] # "none"
        /\ \/ peer' = peer
           \/ peer' = [peer EXCEPT ![c][Other(e)] = "reset"]
    BY <1>4 DEF CopyMoves, CopyReads, CopyEnds, ReadFails, WriteIsReset, WriteFails,
                WriteReturns, CopyDone
  <2> QED BY <2>1 DEF Shape
<1>5. ASSUME NEW e \in End, FarEnd(c, e)
      PROVE  Met(c)'
  <2>1. handler' = handler /\ socket' = socket /\ socket[c][e] # "none"
        /\ \/ peer' = peer
           \/ \E to \in {"shut", "closed", "reset"} : peer' = [peer EXCEPT ![c][e] = to]
    BY <1>5 DEF FarEnd, Sends, Shuts, Closes, Breaks, PeerTurns
  <2> QED BY <2>1
<1> QED BY <1>2, <1>3, <1>4, <1>5 DEF Step

LEMMA MeetingsInvariant == Spec => [](Inv /\ DoorShut /\ Meetings)
<1>1. Init => Meetings /\ DoorShut
  BY DEF Init, Meetings, Met, DoorShut
<1>2. Inv /\ Meetings /\ [Next]_vars => Meetings'
  <2> SUFFICES ASSUME Inv, Meetings, [Next]_vars PROVE Meetings'
    OBVIOUS
  <2>1. CASE Process \/ UNCHANGED vars
    BY <2>1 DEF Process, AcceptEnds, ServeReturns, Close, Over, vars, Meetings, Met
  <2>2. ASSUME NEW c \in Conn, Step(c) PROVE Meetings'
    <3>1. Met(c)'
      BY <2>2, MetStep DEF Meetings
    <3>2. \A d \in Conn \ {c} : Met(d)'
      BY <2>2, OneAtATime DEF Meetings, Met, Same
    <3> QED BY <3>1, <3>2 DEF Meetings
  <2> QED BY <2>1, <2>2 DEF Next, Process, Step
<1> QED BY <1>1, <1>2, Invariant, DoorStep, PTL DEF Spec

-----------------------------------------------------------------------------
(* What the contract sees of a step at one connection.                      *)
LEMMA View ==
  ASSUME NEW c \in Conn, \A d \in Conn \ {c} : Same(d), greeting' = greeting
  PROVE  /\ Vouched' = Vouched
         /\ Stage' = [Stage EXCEPT ![c] = StageOf(c)']
         /\ Side' = [Side EXCEPT ![c] = [e \in End |-> SideOf(c, e)']]
         /\ Missing' = [Missing EXCEPT ![c] = {e \in End : lost'[c][e]}]
<1>1. Vouched' = Vouched
  BY DEF Vouched
<1>2. \A d \in Conn \ {c} : StageOf(d)' = StageOf(d)
  BY DEF Same, StageOf
<1>3. \A d \in Conn \ {c} : \A e \in End : SideOf(d, e)' = SideOf(d, e)
  BY DEF Same, SideOf
<1>4. \A d \in Conn \ {c} : lost'[d] = lost[d]
  BY DEF Same
<1> QED BY <1>1, <1>2, <1>3, <1>4 DEF Stage, Side, Missing

LEMMA SameEnds == Contract!End = End /\ \A e \in End : Contract!Other(e) = Other(e)
BY DEF Contract!End, End, Contract!Other, Other

LEMMA Fields ==
  ASSUME NEW c \in Conn
  PROVE  /\ Stage[c] = StageOf(c)
         /\ \A e \in End : Side[c][e] = SideOf(c, e)
         /\ Missing[c] = {e \in End : lost[c][e]}
BY DEF Stage, Side, Missing

LEMMA SideStays ==
  ASSUME NEW c \in Conn, \A e \in End : SideOf(c, e)' = SideOf(c, e),
         Side' = [Side EXCEPT ![c] = [e \in End |-> SideOf(c, e)']]
  PROVE  Side' = Side
<1>1. [e \in End |-> SideOf(c, e)'] = Side[c]
  BY DEF Side
<1> QED BY <1>1 DEF Side

LEMMA Places ==
  ASSUME NEW c \in Conn
  PROVE  /\ StageOf(c) = "new" <=> handler[c] = "none"
         /\ StageOf(c) = "taken" <=> handler[c] \in {"header", "dialing", "emitting"}
         /\ StageOf(c) = "linked" <=> handler[c] = "splicing"
         /\ StageOf(c) = "gone" <=> handler[c] = "gone"
BY DEF StageOf

-----------------------------------------------------------------------------
(* A step of the handler.  DialSucceeds, HeaderRead, SecondDone and         *)
(* HandleReturns are the front's own business.                              *)
LEMMA HandlerRefines ==
  ASSUME Inv, NEW c \in Conn, Met(c), Accept(c) \/ Handles(c)
  PROVE  Contract!Next \/ UNCHANGED Contract!contractVars
<1>1. \A d \in Conn \ {c} : Same(d)
  BY HandlerStep DEF Inv
<1>2. greeting' = greeting
  BY DEF Accept, Handles, HeaderRead, HeaderRefused, DialSucceeds, DialFails, HeaderSent,
         HeaderNotSent, FirstDone, UpstreamClosed, SecondDone, HandleReturns, Done
<1>3. /\ Vouched' = Vouched
      /\ Stage' = [Stage EXCEPT ![c] = StageOf(c)']
      /\ Side' = [Side EXCEPT ![c] = [e \in End |-> SideOf(c, e)']]
      /\ Missing' = [Missing EXCEPT ![c] = {e \in End : lost'[c][e]}]
  BY <1>1, <1>2, View
<1>4. TypeOK /\ Shape(c)
  BY DEF Inv, Sound
<1>5. ASSUME StageOf(c)' = StageOf(c), lost' = lost,
             \A e \in End : SideOf(c, e)' = SideOf(c, e), DoorOf' = DoorOf
      PROVE  UNCHANGED Contract!contractVars
  <2>1. Stage' = Stage
    BY <1>3, <1>5 DEF Stage
  <2>2. Side' = Side
    BY <1>3, <1>5, SideStays
  <2>3. Missing' = Missing
    BY <1>5 DEF Missing
  <2> QED BY <1>3, <1>5, <2>1, <2>2, <2>3 DEF Contract!contractVars
<1>6. CASE Accept(c)
  <2>1. Contract!Takes(c)
    <3>1. /\ DoorOf = "open" /\ DoorOf' = DoorOf
          /\ StageOf(c) = "new" /\ StageOf(c)' = "taken" /\ lost' = lost
      BY <1>4, <1>6 DEF Accept, GoTo, bytes, DoorOf, StageOf, TypeOK
    <3>2. \A e \in End : SideOf(c, e)' = SideOf(c, e)
      BY <1>4, <1>6, Ends DEF Accept, GoTo, SideOf, Met, TypeOK
    <3>3. Side' = Side
      BY <1>3, <3>2, SideStays
    <3>4. Missing' = Missing
      BY <3>1 DEF Missing
    <3> QED
      BY <1>3, <3>1, <3>3, <3>4, Fields DEF Contract!Takes
  <2> QED BY <2>1 DEF Contract!Next
<1>7. ASSUME Handles(c), ~Done(c)
      PROVE  DoorOf' = DoorOf
  BY <1>7 DEF Handles, HeaderRead, HeaderRefused, DialSucceeds, DialFails, HeaderSent,
         HeaderNotSent, FirstDone, UpstreamClosed, SecondDone, HandleReturns, process, DoorOf
<1>8. CASE HeaderRead(c) \/ SecondDone(c) \/ HandleReturns(c)
  <2>1. /\ StageOf(c)' = StageOf(c) /\ lost' = lost
        /\ \A e \in End : SideOf(c, e)' = SideOf(c, e)
    BY <1>4, <1>8 DEF HeaderRead, SecondDone, HandleReturns, GoTo, bytes, StageOf, SideOf, TypeOK
  <2>2. DoorOf' = DoorOf
    BY <1>8 DEF HeaderRead, SecondDone, HandleReturns, process, DoorOf
  <2> QED BY <1>5, <2>1, <2>2
<1>9. CASE DialSucceeds(c)
  <2>1. /\ StageOf(c)' = StageOf(c) /\ lost' = lost /\ DoorOf' = DoorOf
    BY <1>4, <1>9 DEF DialSucceeds, GoTo, bytes, StageOf, TypeOK, process, DoorOf
  <2>2. \A e \in End : SideOf(c, e)' = SideOf(c, e)
    BY <1>4, <1>9, Ends DEF DialSucceeds, SideOf, Shape, TypeOK
  <2> QED BY <1>5, <2>1, <2>2
<1>10. CASE HeaderRefused(c) \/ DialFails(c) \/ HeaderNotSent(c)
  <2>1. Contract!Refuses(c)
    <3>1. /\ StageOf(c) = "taken" /\ StageOf(c)' = "closing"
          /\ lost' = lost /\ peer' = peer /\ DoorOf' = DoorOf
      BY <1>4, <1>10 DEF HeaderRefused, DialFails, HeaderNotSent, GoTo, bytes, StageOf,
                         TypeOK, process, DoorOf
    <3> QED
      BY <1>3, <3>1 DEF Contract!Refuses, Stage, Side, Missing, SideOf
  <2> QED BY <2>1 DEF Contract!Next
<1>11. CASE HeaderSent(c)
  <2>1. Contract!Links(c)
    <3>1. /\ StageOf(c) = "taken" /\ StageOf(c)' = "linked" /\ c \in Vouched
          /\ lost' = lost /\ DoorOf' = DoorOf
      BY <1>4, <1>11 DEF HeaderSent, GoTo, StageOf, Vouched, Shape, TypeOK, process, DoorOf
    <3>2. /\ SideOf(c, "client")' = SideOf(c, "client")
          /\ SideOf(c, "upstream")' = Contract!Answered(SideOf(c, "upstream"))
      BY <1>4, <1>11, Ends DEF HeaderSent, SideOf, Contract!Answered, TypeOK, Peer
    <3>3. [e \in End |-> SideOf(c, e)']
            = [Side[c] EXCEPT !["upstream"] = Contract!Answered(@)]
      BY <3>2, Ends DEF Side
    <3>4. Side' = [Side EXCEPT ![c]["upstream"] = Contract!Answered(@)]
      BY <1>3, <3>3 DEF Side
    <3> QED
      BY <1>3, <3>1, <3>4 DEF Contract!Links, Stage, Missing
  <2> QED BY <2>1 DEF Contract!Next
<1>12. CASE FirstDone(c)
  <2> DEFINE unheard == {e \in {"upstream"} : wire[c]["client"] > 0}
  <2>1. Contract!Cuts(c, unheard)
    <3>1. /\ StageOf(c) = "linked" /\ StageOf(c)' = "closing"
          /\ peer' = peer /\ DoorOf' = DoorOf
      BY <1>4, <1>12 DEF FirstDone, GoTo, StageOf, TypeOK, process, DoorOf
    <3>2. \E e \in End : SideOf(c, e) # "there"
      <4>1. AnEndEnded(c)
        BY <1>12, Ends DEF FirstDone, Inv, Sound, Fate
      <4>2. \A e \in End : peer[c][e] # "none"
        BY <1>12 DEF FirstDone, Met
      <4> QED BY <1>4, <4>1, <4>2 DEF AnEndEnded, SideOf, TypeOK, Peer
    <3>3. {e \in End : lost'[c][e]} = Missing[c] \cup unheard
      <4>1. /\ lost'[c]["upstream"] = (lost[c]["upstream"] \/ wire[c]["client"] > 0)
            /\ lost'[c]["client"] = lost[c]["client"]
        BY <1>4, <1>12, Ends DEF FirstDone, CloseSocket, TypeOK
      <4>2. \A x \in End : lost'[c][x] <=> lost[c][x] \/ x \in unheard
        BY <4>1, Ends
      <4> HIDE DEF unheard
      <4>3. unheard \subseteq End
        BY Ends DEF unheard
      <4> QED BY <4>2, <4>3 DEF Missing
    <3> HIDE DEF unheard
    <3>4. Side' = Side
      BY <3>1 DEF Side, SideOf
    <3>5. Missing' = [Missing EXCEPT ![c] = @ \cup unheard]
      BY <1>3, <3>3 DEF Missing
    <3> QED
      BY <1>3, <3>1, <3>2, <3>4, <3>5, Fields, SameEnds DEF Contract!Cuts
  <2>2. unheard \in SUBSET End
    BY Ends
  <2> QED BY <2>1, <2>2, SameEnds DEF Contract!Next
<1>13. CASE UpstreamClosed(c)
  <2> DEFINE unheard == {e \in {"client"} : wire[c]["upstream"] > 0}
  <2>1. Contract!Loses(c, unheard)
    <3>1. /\ StageOf(c) = "closing" /\ StageOf(c)' = "closing"
          /\ peer' = peer /\ DoorOf' = DoorOf
      BY <1>4, <1>13 DEF UpstreamClosed, GoTo, StageOf, TypeOK, process, DoorOf
    <3>2. {e \in End : lost'[c][e]} = Missing[c] \cup unheard
      <4>1. /\ lost'[c]["client"] = (lost[c]["client"] \/ wire[c]["upstream"] > 0)
            /\ lost'[c]["upstream"] = lost[c]["upstream"]
        BY <1>4, <1>13, Ends DEF UpstreamClosed, CloseSocket, TypeOK
      <4>2. \A x \in End : lost'[c][x] <=> lost[c][x] \/ x \in unheard
        BY <4>1, Ends
      <4> HIDE DEF unheard
      <4>3. unheard \subseteq End
        BY Ends DEF unheard
      <4> QED BY <4>2, <4>3 DEF Missing
    <3>3. Side' = Side
      BY <3>1 DEF Side, SideOf
    <3> HIDE DEF unheard
    <3> QED
      BY <1>3, <3>1, <3>2, <3>3 DEF Contract!Loses, Contract!MayLose, Stage, Missing
  <2>2. unheard \in SUBSET End
    BY Ends
  <2> QED BY <2>1, <2>2, SameEnds DEF Contract!Next
<1>14. CASE Done(c)
  <2>1. Contract!LetsGo(c)
    <3>1. /\ StageOf(c) = "closing" /\ StageOf(c)' = "gone"
          /\ peer' = peer /\ lost' = lost /\ DoorOf' = DoorOf
      BY <1>4, <1>14 DEF Done, GoTo, bytes, StageOf, TypeOK, DoorOf
    <3> QED
      BY <1>3, <3>1 DEF Contract!LetsGo, Stage, Side, SideOf, Missing
  <2> QED BY <2>1 DEF Contract!Next
<1> QED
  BY <1>6, <1>8, <1>9, <1>10, <1>11, <1>12, <1>13, <1>14 DEF Handles

(* A step of a copy or of a far end is a loss, a turn, or nothing.          *)
LEMMA EndsRefine ==
  ASSUME Inv, NEW c \in Conn, Met(c), NEW e \in End,
         CopyMoves(c, e) \/ WriteReturns(c, e) \/ FarEnd(c, e)
  PROVE  Contract!Next \/ UNCHANGED Contract!contractVars
<1>1. \A d \in Conn \ {c} : Same(d)
  BY CopyStep, FarStep DEF Inv
<1>2. /\ greeting' = greeting /\ handler' = handler
      /\ DoorOf' = DoorOf
  BY DEF CopyMoves, CopyReads, CopyEnds, ReadFails, WriteIsReset, WriteFails, WriteReturns,
         FarEnd, Sends, Shuts, Closes, Breaks, PeerTurns, process, DoorOf
<1>3. /\ Vouched' = Vouched /\ Stage' = Stage
      /\ Side' = [Side EXCEPT ![c] = [x \in End |-> SideOf(c, x)']]
      /\ Missing' = [Missing EXCEPT ![c] = {x \in End : lost'[c][x]}]
  BY <1>1, <1>2, View DEF Stage, StageOf
<1>4. TypeOK /\ Shape(c)
  BY DEF Inv, Sound
<1>5. CASE lost' = lost /\ peer' = peer
  BY <1>2, <1>3, <1>5 DEF Contract!contractVars, Side, SideOf, Missing
<1>6. ASSUME NEW unheard \in SUBSET End, \A x \in unheard : Contract!MayLose(c, x),
             {x \in End : lost'[c][x]} = Missing[c] \cup unheard,
             \/ Side' = Side
             \/ \E x \in unheard :
                  Side' = [Side EXCEPT ![c][Contract!Other(x)] = Contract!Answered(@)]
      PROVE  Contract!Next
  <2>1. Contract!Loses(c, unheard)
    <3>1. Missing' = [Missing EXCEPT ![c] = @ \cup unheard]
      BY <1>3, <1>6 DEF Missing
    <3> QED BY <1>2, <1>3, <1>6, <3>1 DEF Contract!Loses
  <2> QED BY <2>1, SameEnds DEF Contract!Next
<1>7. ASSUME Running(c, e)
      PROVE  StageOf(c) \in {"linked", "closing"}
  BY <1>4, <1>7 DEF Running, Shape, StageOf
<1>8. ASSUME \A x \in End : lost'[c][x] => lost[c][x] \/ x = e,
             \A x \in End : lost[c][x] => lost'[c][x],
             Contract!MayLose(c, e), peer' = peer
      PROVE  Contract!Next
  <2> DEFINE unheard == {x \in {e} : lost'[c][x]}
  <2>1. {x \in End : lost'[c][x]} = Missing[c] \cup unheard
    BY <1>8 DEF Missing
  <2>2. Side' = Side
    BY <1>3, <1>8 DEF Side, SideOf
  <2> QED BY <1>6, <1>8, <2>1, <2>2
<1>9. CASE ReadFails(c, e) \/ WriteFails(c, e)
  <2>1. /\ peer' = peer /\ lost' = [lost EXCEPT ![c][e] = lost'[c][e]]
        /\ lost[c][e] => lost'[c][e]
        /\ Running(c, e)
    BY <1>4, <1>9 DEF ReadFails, WriteFails, CopyDone, Running, TypeOK
  <2>2. handler[c] = "splicing" =>
           peer[c][e] = "reset" \/ peer[c][Other(e)] = "reset"
    BY <1>4, <1>9, Ends DEF ReadFails, WriteFails, Shape
  <2>3. Contract!MayLose(c, e)
    <3>1. StageOf(c) = "linked" => SideOf(c, e) = "broken" \/ SideOf(c, Other(e)) = "broken"
      BY <2>2, Places DEF SideOf
    <3> QED BY <1>7, <2>1, <3>1, Fields, SameEnds, Ends DEF Contract!MayLose
  <2>4. \A x \in End : x # e => lost'[c][x] = lost[c][x]
    BY <1>4, <2>1 DEF TypeOK
  <2>5. \A x \in End : lost'[c][x] => lost[c][x] \/ x = e
    BY <2>4
  <2>6. \A x \in End : lost[c][x] => lost'[c][x]
    BY <2>1, <2>4
  <2> QED BY <1>8, <2>1, <2>3, <2>5, <2>6
<1>10. CASE WriteIsReset(c, e)
  <2>1. /\ peer' = [peer EXCEPT ![c][Other(e)] = "reset"] /\ peer[c][Other(e)] = "closed"
        /\ lost' = [lost EXCEPT ![c][e] = TRUE]
        /\ Running(c, e)
    BY <1>10 DEF WriteIsReset, Running
  <2>2. Contract!MayLose(c, e)
    <3>1. SideOf(c, Other(e)) = "closed"
      BY <2>1 DEF SideOf
    <3> QED BY <1>7, <2>1, <3>1, Fields, SameEnds, Ends DEF Contract!MayLose
  <2>3. {x \in End : lost'[c][x]} = Missing[c] \cup {e}
    BY <1>4, <2>1 DEF Missing, TypeOK
  <2>4. Side' = [Side EXCEPT ![c][Other(e)] = Contract!Answered(@)]
    <3>1. /\ SideOf(c, e)' = SideOf(c, e)
          /\ SideOf(c, Other(e))' = Contract!Answered(SideOf(c, Other(e)))
      BY <1>4, <2>1, Ends DEF SideOf, Contract!Answered, TypeOK
    <3>2. [x \in End |-> SideOf(c, x)'] = [Side[c] EXCEPT ![Other(e)] = Contract!Answered(@)]
      BY <3>1, Ends DEF Side
    <3> QED BY <1>3, <3>2 DEF Side
  <2> DEFINE unheard == {e}
  <2>5. Contract!Other(e) = Other(e)
    BY SameEnds
  <2>6. /\ unheard \in SUBSET End
        /\ \A x \in unheard : Contract!MayLose(c, x)
        /\ {x \in End : lost'[c][x]} = Missing[c] \cup unheard
        /\ \E x \in unheard :
             Side' = [Side EXCEPT ![c][Contract!Other(x)] = Contract!Answered(@)]
    BY <2>2, <2>3, <2>4, <2>5
  <2> HIDE DEF unheard
  <2> QED BY <1>6, <2>6
<1>11. CASE CopyReads(c, e) \/ CopyEnds(c, e) \/ WriteReturns(c, e)
  <2>1. peer' = peer /\ lost' = lost
    BY <1>4, <1>11 DEF CopyReads, CopyEnds, WriteReturns, CopyDone, TypeOK
  <2> QED BY <1>5, <2>1
<1>12. CASE Sends(c, e)
  <2> DEFINE unheard == {x \in End : lost'[c][x]}
  <2>1. /\ peer' = peer
        /\ lost' = [lost EXCEPT ![c] = [x \in End |-> @[x] \/ socket[c][e] = "closed"]]
    BY <1>12 DEF Sends
  <2>2. CASE socket[c][e] # "closed"
    BY <1>4, <1>5, <2>1, <2>2 DEF TypeOK
  <2>3. CASE socket[c][e] = "closed"
    <3>1. StageOf(c) \in {"closing", "gone"}
      BY <1>4, <2>3 DEF Shape, StageOf
    <3>2. \A x \in unheard : Contract!MayLose(c, x)
      BY <3>1, Fields DEF Contract!MayLose
    <3>3. Side' = Side
      BY <1>3, <2>1 DEF Side, SideOf
    <3>4. {x \in End : lost'[c][x]} = Missing[c] \cup unheard
      BY <1>4, <2>1 DEF Missing, TypeOK
    <3> HIDE DEF unheard
    <3>5. unheard \in SUBSET End
      BY DEF unheard
    <3> QED BY <1>6, <3>2, <3>3, <3>4, <3>5
  <2> QED BY <2>2, <2>3
<1>13. CASE Shuts(c, e) \/ Closes(c, e) \/ Breaks(c, e)
  <2>1. PICK to \in {"shut", "closed", "reset"} :
          /\ peer' = [peer EXCEPT ![c][e] = to]
          /\ \/ peer[c][e] = "open"
             \/ peer[c][e] = "shut" /\ to # "shut"
             \/ peer[c][e] = "closed" /\ to = "reset"
    BY <1>13 DEF Shuts, Closes, Breaks, PeerTurns
  <2>2. lost' = lost /\ StageOf(c) # "new"
    BY <1>13, Places DEF Shuts, Closes, Breaks, PeerTurns, bytes, Met
  <2> DEFINE there == IF to = "reset" THEN "broken" ELSE to
  <2>3. Contract!Turns(c, e, there)
    <3>1. SideOf(c, e)' = there /\ SideOf(c, Other(e))' = SideOf(c, Other(e))
      BY <1>4, <2>1, Ends DEF SideOf, TypeOK
    <3>2. [x \in End |-> SideOf(c, x)'] = [Side[c] EXCEPT ![e] = there]
      BY <3>1, Ends DEF Side
    <3>3. Side' = [Side EXCEPT ![c][e] = there]
      BY <1>3, <3>2 DEF Side
    <3>4. \/ SideOf(c, e) = "there" /\ there # "there"
          \/ SideOf(c, e) = "shut" /\ there \in {"closed", "broken"}
          \/ SideOf(c, e) = "closed" /\ there = "broken"
      BY <2>1 DEF SideOf
    <3>5. Missing' = Missing
      BY <2>2 DEF Missing
    <3> HIDE DEF there
    <3> QED BY <1>2, <1>3, <2>2, <3>3, <3>4, <3>5, Fields DEF Contract!Turns
  <2>4. there \in Contract!Side
    BY <2>1 DEF Contract!Side
  <2> HIDE DEF there
  <2> QED BY <2>3, <2>4, SameEnds DEF Contract!Next
<1> QED
  BY <1>9, <1>10, <1>11, <1>12, <1>13 DEF CopyMoves, FarEnd

(* The steps of Serve and Close.                                            *)
LEMMA ProcessRefines ==
  ASSUME Inv, DoorShut, Process \/ UNCHANGED vars
  PROVE  Contract!Next \/ UNCHANGED Contract!contractVars
<1>1. Vouched' = Vouched /\ Stage' = Stage /\ Side' = Side /\ Missing' = Missing
  BY DEF Process, AcceptEnds, ServeReturns, Close, Over, vars, bytes, Vouched, Stage, StageOf,
         Side, SideOf, Missing
<1>2. CASE AcceptEnds \/ Over \/ UNCHANGED vars
  <2>1. DoorOf' = DoorOf
    BY <1>2 DEF AcceptEnds, Over, vars, DoorOf
  <2> QED BY <1>1, <2>1 DEF Contract!contractVars
<1>3. CASE Close
  <2>1. DoorOf = "open" /\ DoorOf' = "shut"
    BY <1>3 DEF Close, DoorOf, DoorShut
  <2> QED BY <1>1, <2>1 DEF Contract!Shuts, Contract!Next
<1>4. CASE ServeReturns
  <2>1. DoorOf = "shut" /\ DoorOf' = "over"
    BY <1>4 DEF ServeReturns, DoorOf, DoorShut
  <2>2. \A c \in Conn : StageOf(c) \in {"new", "gone"}
    <3>1. ServeWaits'
      BY <1>4, CountedStep DEF Inv, Counted, Next
    <3> QED BY <1>4, <3>1 DEF ServeReturns, ServeWaits, Started, StageOf
  <2> QED BY <1>1, <2>1, <2>2, Fields DEF Contract!Finishes, Contract!Next
<1> QED BY <1>2, <1>3, <1>4 DEF Process

(* Every behaviour of the front is one the contract allows: linked only     *)
(* when vouched for, cut only when an end has ended, nothing lost before    *)
(* without a cause, over only when everybody was let go.                    *)
THEOREM FrontImplementsContract == Spec => ImplementsContract
<1>1. Init => Contract!Init
  BY DEF Init, Contract!Init, DoorOf, Vouched, Stage, StageOf, Side, SideOf, Missing,
         Contract!End, End
<1>2. Inv /\ DoorShut /\ Meetings /\ [Next]_vars => [Contract!Next]_(Contract!contractVars)
  <2> SUFFICES ASSUME Inv, DoorShut, Meetings, [Next]_vars
               PROVE  Contract!Next \/ UNCHANGED Contract!contractVars
    OBVIOUS
  <2>1. ASSUME NEW c \in Conn, Accept(c) \/ Handles(c)
        PROVE  Contract!Next \/ UNCHANGED Contract!contractVars
    BY <2>1, HandlerRefines DEF Meetings
  <2>2. ASSUME NEW c \in Conn, NEW e \in End,
               CopyMoves(c, e) \/ WriteReturns(c, e) \/ FarEnd(c, e)
        PROVE  Contract!Next \/ UNCHANGED Contract!contractVars
    BY <2>2, EndsRefine DEF Meetings
  <2> QED BY <2>1, <2>2, ProcessRefines DEF Next, Process
<1> QED BY <1>1, <1>2, MeetingsInvariant, PTL DEF Spec, ImplementsContract, Contract!Spec

-----------------------------------------------------------------------------
(***************************************************************************)
(* What follows from the contract alone, said of the front.  The proofs     *)
(* use the actions of ConnectionContract and nothing of the front's.        *)
(***************************************************************************)

(* Nobody's words are lost before a link stands; while it stands, those of  *)
(* an end that did not break arrive at an end that still listens, even one  *)
(* that has shut its own side.  Who is linked was vouched for, and once the *)
(* service is over nobody is being served.                                  *)
LinkHolds(c) ==
  /\ Stage[c] = "new" => \A e \in End : Side[c][e] = "there"
  /\ Stage[c] \in {"new", "taken"} => Missing[c] = {}
  /\ Stage[c] = "linked" =>
       /\ c \in Vouched
       /\ \A e \in Missing[c] :
            Side[c][e] = "broken" \/ Side[c][Other(e)] \in {"closed", "broken"}
  /\ DoorOf = "over" => Stage[c] \in {"new", "gone"}

LinksHold == \A c \in Conn : LinkHolds(c)

(* A link whose ends are both there is not cut, one that is let go does not *)
(* come back, nobody is taken once the door is shut, what went missing      *)
(* stays missing and an end that is broken stays broken.                    *)
LinkLasts(c) ==
  /\ Stage[c] = "linked" /\ (\A e \in End : Side[c][e] = "there") => Stage'[c] = "linked"
  /\ Stage[c] = "gone" => Stage'[c] = "gone"
  /\ DoorOf # "open" /\ Stage[c] = "new" => Stage'[c] = "new"
  /\ Missing[c] \subseteq Missing'[c]
  /\ \A e \in End : Side[c][e] = "broken" => Side'[c][e] = "broken"

LinksLast == \A c \in Conn : LinkLasts(c)

(* The mappings are functions, whose values a step replaces one at a time.  *)
LEMMA Functions ==
  /\ Stage = [c \in Conn |-> Stage[c]]
  /\ Side = [c \in Conn |-> Side[c]]
  /\ \A c \in Conn : Side[c] = [e \in End |-> Side[c][e]]
  /\ Missing = [c \in Conn |-> Missing[c]]
BY DEF Stage, Side, Missing

(* What a step does at one connection is all there is to look at.           *)
LEMMA Elsewhere ==
  ASSUME LinksHold, NEW c \in Conn, Vouched' = Vouched, DoorOf' = DoorOf,
         \A d \in Conn \ {c} : Stage'[d] = Stage[d] /\ Side'[d] = Side[d]
                               /\ Missing'[d] = Missing[d],
         LinkHolds(c)', LinkLasts(c)
  PROVE  LinksHold' /\ LinksLast
<1>1. \A d \in Conn \ {c} : LinkHolds(d)'
  BY DEF LinksHold, LinkHolds
<1>2. \A d \in Conn \ {c} : LinkLasts(d)
  BY DEF LinkLasts
<1> QED BY <1>1, <1>2 DEF LinksHold, LinksLast

(* Each step of the contract keeps the one and makes the other.             *)
LEMMA ContractStepHolds ==
  ASSUME LinksHold, [Contract!Next]_(Contract!contractVars)
  PROVE  LinksHold' /\ LinksLast
<1> USE Functions, Ends, SameEnds DEF LinksHold, LinkHolds, LinksLast, LinkLasts
<1>1. ASSUME NEW c \in Conn, Contract!Takes(c) PROVE LinksHold' /\ LinksLast
  BY <1>1 DEF Contract!Takes
<1>2. ASSUME NEW c \in Conn, Contract!Links(c) PROVE LinksHold' /\ LinksLast
  <2>1. /\ Stage[c] = "taken" /\ Stage'[c] = "linked" /\ Missing' = Missing
        /\ Vouched' = Vouched /\ DoorOf' = DoorOf /\ c \in Vouched
        /\ \A d \in Conn \ {c} : Stage'[d] = Stage[d] /\ Side'[d] = Side[d]
    BY <1>2 DEF Contract!Links
  <2>2. \A e \in End : Side[c][e] = "broken" => Side'[c][e] = "broken"
    BY <1>2 DEF Contract!Links, Contract!Answered
  <2>3. LinkHolds(c)'
    BY <2>1
  <2>4. LinkLasts(c)
    BY <2>1, <2>2
  <2> QED BY <2>1, <2>3, <2>4, Elsewhere
<1>3. ASSUME NEW c \in Conn, Contract!Refuses(c) \/ Contract!LetsGo(c)
      PROVE  LinksHold' /\ LinksLast
  BY <1>3 DEF Contract!Refuses, Contract!LetsGo
<1>4. ASSUME NEW c \in Conn, NEW unheard \in SUBSET End, Contract!Cuts(c, unheard)
      PROVE  LinksHold' /\ LinksLast
  BY <1>4 DEF Contract!Cuts
<1>5. ASSUME NEW c \in Conn, NEW unheard \in SUBSET End, Contract!Loses(c, unheard)
      PROVE  LinksHold' /\ LinksLast
  <2>1. /\ Stage' = Stage /\ Vouched' = Vouched /\ DoorOf' = DoorOf
        /\ Missing'[c] = Missing[c] \cup unheard
        /\ \A d \in Conn \ {c} : Missing'[d] = Missing[d]
        /\ \A e \in unheard : Contract!MayLose(c, e)
    BY <1>5 DEF Contract!Loses
  <2>2. \/ Side' = Side
        \/ \E e \in unheard : Side' = [Side EXCEPT ![c][Other(e)] = Contract!Answered(@)]
    BY <1>5 DEF Contract!Loses
  <2>3. /\ \A d \in Conn \ {c} : Side'[d] = Side[d]
        /\ \A e \in End : \/ Side'[c][e] = Side[c][e]
                          \/ Side[c][e] = "closed" /\ Side'[c][e] = "broken"
    BY <2>2 DEF Contract!Answered
  <2>4. Stage[c] \in {"new", "taken"} => unheard = {}
    BY <2>1 DEF Contract!MayLose
  <2>5. LinkHolds(c)
    OBVIOUS
  <2> HIDE DEF LinksHold, LinksLast
  <2>6. ASSUME Stage[c] = "linked", NEW e \in Missing'[c]
        PROVE  Side'[c][e] = "broken" \/ Side'[c][Other(e)] \in {"closed", "broken"}
    <3>1. e \in End /\ Other(e) \in End
      BY <2>1, <2>6 DEF Missing
    <3>2. Side[c][e] = "broken" \/ Side[c][Other(e)] \in {"closed", "broken"}
      BY <2>1, <2>5, <2>6, <3>1 DEF Contract!MayLose
    <3> QED BY <2>3, <3>1, <3>2
  <2>7. LinkHolds(c)'
    BY <2>1, <2>3, <2>4, <2>5, <2>6
  <2>8. LinkLasts(c)
    BY <2>1, <2>3
  <2> QED BY <2>1, <2>3, <2>7, <2>8, Elsewhere
<1>6. ASSUME NEW c \in Conn, NEW e \in End, NEW to \in Contract!Side, Contract!Turns(c, e, to)
      PROVE  LinksHold' /\ LinksLast
  <2>1. /\ Stage' = Stage /\ Vouched' = Vouched /\ DoorOf' = DoorOf /\ Missing' = Missing
        /\ Stage[c] # "new"
        /\ \A d \in Conn \ {c} : Side'[d] = Side[d]
        /\ Side'[c][e] = to /\ Side'[c][Other(e)] = Side[c][Other(e)]
    BY <1>6 DEF Contract!Turns
  <2>2. /\ Side[c][e] = "closed" => to = "broken"
        /\ Side[c][e] # "broken"
    BY <1>6 DEF Contract!Turns
  <2>3. LinkHolds(c)
    OBVIOUS
  <2>4. \A x \in End : /\ Side[c][x] = "broken" => Side'[c][x] = "broken"
                       /\ Side[c][x] = "closed" => Side'[c][x] \in {"closed", "broken"}
    BY <2>1, <2>2
  <2> HIDE DEF LinksHold, LinksLast
  <2>5. \A x \in Missing[c] : x \in End /\ Other(x) \in End
    BY DEF Missing
  <2>6. LinkHolds(c)'
    BY <2>1, <2>3, <2>4, <2>5
  <2>7. LinkLasts(c)
    BY <2>1, <2>4
  <2> QED BY <2>1, <2>6, <2>7, Elsewhere
<1>7. CASE Contract!Shuts \/ Contract!Finishes
  BY <1>7 DEF Contract!Shuts, Contract!Finishes
<1>8. CASE UNCHANGED Contract!contractVars
  BY <1>8 DEF Contract!contractVars
<1> QED
  BY <1>1, <1>2, <1>3, <1>4, <1>5, <1>6, <1>7, <1>8 DEF Contract!Next

(* No link stands at first and nothing is missing.                          *)
LEMMA ContractInitHolds == Contract!Init => LinksHold
  BY SameEnds DEF Contract!Init, LinksHold, LinkHolds

(* Nothing is lost without a cause while a link stands, only the vouched    *)
(* for are linked, and nobody is served when Serve has returned.            *)
THEOREM LinksAreSound == Spec => []LinksHold
  BY FrontImplementsContract, ContractInitHolds, ContractStepHolds, PTL
     DEF ImplementsContract, Contract!Spec

(* The front never cuts a link both of whose ends are there, and never      *)
(* takes a connection after Close.                                          *)
THEOREM LinksStand == Spec => [][LinksLast]_(Contract!contractVars)
<1>1. LinksHold /\ [Contract!Next]_(Contract!contractVars) => LinksLast
  BY ContractStepHolds
<1> QED
  BY <1>1, FrontImplementsContract, LinksAreSound, PTL
     DEF ImplementsContract, Contract!Spec

-----------------------------------------------------------------------------
(***************************************************************************)
(* The part of AbandonedEnds that needs no fairness: who waits for what.    *)
(***************************************************************************)

(* What a copy waits for has come: the guard of one of CopyMoves.           *)
Ready(c, e) ==
  \/ /\ copy[c][e] = "reading"
     /\ \/ socket[c][e] = "closed" \/ peer[c][e] = "reset"
        \/ socket[c][e] = "open" /\ (wire[c][e] > 0 \/ peer[c][e] \in {"shut", "closed"})
  \/ /\ copy[c][e] = "writing"
     /\ \/ socket[c][Other(e)] = "closed" \/ peer[c][Other(e)] = "reset"
        \/ socket[c][Other(e)] = "open" /\ peer[c][Other(e)] = "closed"

(* While splice waits for a first copy to end, the copy of an end that left *)
(* is done or can go on, unless it is in a write; while it waits for the    *)
(* second, both are done or can go on, wherever they are.                   *)
NobodyIsAwaited ==
  \A c \in Conn, e \in End :
    /\ handler[c] = "splicing" /\ Left(c, e) /\ copy[c][e] # "writing" =>
         copy[c][e] = "done" \/ Ready(c, e)
    /\ handler[c] = "joining" => copy[c][e] = "done" \/ Ready(c, e)

(* And then a copy has only one step left: it is done.                      *)
JoinsAreShort ==
  [][\A c \in Conn, e \in End :
       handler[c] = "joining" => copy'[c][e] \in {copy[c][e], "done"}]_vars

(* Neither end of an abandoned connection is waited for, but for a write to *)
(* an end that does not read (front.go:170-191).                            *)
THEOREM AbandonedWaitForNobody == Spec => []NobodyIsAwaited
<1>1. Inv /\ Meetings => NobodyIsAwaited
  <2> SUFFICES ASSUME Inv, Meetings, NEW c \in Conn, NEW e \in End
               PROVE  /\ handler[c] = "splicing" /\ Left(c, e) /\ copy[c][e] # "writing" =>
                           copy[c][e] = "done" \/ Ready(c, e)
                      /\ handler[c] = "joining" => copy[c][e] = "done" \/ Ready(c, e)
    BY DEF NobodyIsAwaited
  <2>1. TypeOK /\ Shape(c) /\ Met(c)
    BY DEF Inv, Sound, Meetings
  <2>2. copy[c][e] \in Copy /\ socket[c][e] \in {"none", "open", "closed"}
    BY <2>1 DEF TypeOK
  <2>3. CASE handler[c] = "splicing" /\ Left(c, e) /\ copy[c][e] # "writing"
    <3>1. copy[c][e] # "none" /\ socket[c][e] # "closed"
      BY <2>1, <2>3 DEF Shape
    <3>2. copy[c][e] \in {"reading", "done"} /\ (peer[c][e] = "closed" \/ peer[c][e] = "reset")
      BY <2>2, <2>3, <3>1 DEF Copy, Left
    <3>3. socket[c][e] = "open"
      BY <2>1, <2>2, <2>3, <3>1 DEF Met, Shape
    <3> QED BY <2>3, <3>2, <3>3 DEF Ready
  <2>4. CASE handler[c] = "joining"
    <3>1. copy[c][e] # "none" /\ \A x \in End : socket[c][x] = "closed"
      BY <2>1, <2>4 DEF Shape, Met
    <3> QED BY <2>2, <2>4, <3>1, Ends DEF Copy, Ready
  <2> QED BY <2>3, <2>4
<1> QED BY <1>1, MeetingsInvariant, PTL

(* splice's second receive waits for at most one step of each copy.         *)
THEOREM SecondCopiesJustEnd == Spec => JoinsAreShort
<1> DEFINE Short == \A c \in Conn, e \in End :
                      handler[c] = "joining" => copy'[c][e] \in {copy[c][e], "done"}
<1>1. Inv /\ Meetings /\ [Next]_vars => Short
  <2> SUFFICES ASSUME Inv, Meetings, [Next]_vars PROVE Short
    OBVIOUS
  <2>1. CASE Process \/ UNCHANGED vars
    BY <2>1 DEF Process, AcceptEnds, ServeReturns, Close, Over, vars, bytes
  <2>2. ASSUME NEW d \in Conn, Accept(d) \/ Handles(d)
        PROVE  Short
    BY <2>2
       DEF Accept, Handles, HeaderRead, HeaderRefused, DialSucceeds, DialFails, HeaderSent,
           HeaderNotSent, FirstDone, UpstreamClosed, SecondDone, HandleReturns, Done, bytes,
           Inv, TypeOK
  <2>3. ASSUME NEW d \in Conn, NEW x \in End, CopyMoves(d, x) \/ WriteReturns(d, x)
        PROVE  Short
    <3>1. \/ copy' = [copy EXCEPT ![d][x] = "done"]
          \/ /\ \E y \in End : socket[d][y] = "open"
             /\ \E to \in Copy : copy' = [copy EXCEPT ![d][x] = to]
      BY <2>3, Ends DEF CopyMoves, CopyReads, CopyEnds, ReadFails, WriteIsReset, WriteFails,
                        WriteReturns, CopyDone, Copy
    <3>2. copy \in [Conn -> [End -> Copy]]
      BY DEF Inv, TypeOK
    <3>3. CASE copy' = [copy EXCEPT ![d][x] = "done"]
      BY <3>2, <3>3
    <3>4. CASE /\ \E y \in End : socket[d][y] = "open"
               /\ \E to \in Copy : copy' = [copy EXCEPT ![d][x] = to]
      <4>1. handler[d] # "joining"
        BY <3>4 DEF Meetings, Met
      <4> QED BY <3>2, <3>4, <4>1
    <3> QED BY <3>1, <3>3, <3>4
  <2>4. ASSUME NEW d \in Conn, NEW x \in End, FarEnd(d, x)
        PROVE  Short
    BY <2>4 DEF FarEnd, Sends, Shuts, Closes, Breaks, PeerTurns, bytes
  <2> HIDE DEF Short
  <2> QED BY <2>1, <2>2, <2>3, <2>4 DEF Next, Process
<1> QED BY <1>1, MeetingsInvariant, PTL DEF Spec, JoinsAreShort

=============================================================================
