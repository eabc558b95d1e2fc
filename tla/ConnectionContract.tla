-------------------------- MODULE ConnectionContract --------------------------
(***************************************************************************)
(* What the proxy front promises about the connections it relays, without   *)
(* goroutines, sockets or headers on the wire (the comments of              *)
(* internal/proxyfront/front.go): only a client that was vouched for is     *)
(* linked with the upstream; a link is cut only after one of its ends has   *)
(* ended; before the cut nothing is lost of an end that did not break for   *)
(* an end that is still there to hear it; and the service is over only when *)
(* it has let go of every connection it took.                               *)
(***************************************************************************)
CONSTANT Conn

VARIABLES
  door,      \* open, shut (nobody is taken any more), or over
  vouched,   \* the connections whose client was vouched for
  stage,     \* how far a connection is
  side,      \* what its two ends have done
  missing    \* the ends of whose words some may not have arrived

contractVars == <<door, vouched, stage, side, missing>>

End == {"client", "upstream"}
Other(e) == IF e = "client" THEN "upstream" ELSE "client"

(* An end that shuts its side still listens, one that closed does not, one  *)
(* that is broken did not even finish its sentence.                         *)
Side == {"there", "shut", "closed", "broken"}

(* Words sent to an end that closed come back as a reset.                   *)
Answered(x) == IF x = "closed" THEN "broken" ELSE x

Init ==
  /\ door = "open"
  /\ vouched \in SUBSET Conn
  /\ stage = [c \in Conn |-> "new"]
  /\ side = [c \in Conn |-> [e \in End |-> "there"]]
  /\ missing = [c \in Conn |-> {}]

Takes(c) ==
  /\ door = "open" /\ stage[c] = "new"
  /\ stage' = [stage EXCEPT ![c] = "taken"]
  /\ UNCHANGED <<door, vouched, side, missing>>

Links(c) ==
  /\ stage[c] = "taken" /\ c \in vouched
  /\ stage' = [stage EXCEPT ![c] = "linked"]
  /\ side' = [side EXCEPT ![c]["upstream"] = Answered(@)]
  /\ UNCHANGED <<door, vouched, missing>>

Refuses(c) ==
  /\ stage[c] = "taken"
  /\ stage' = [stage EXCEPT ![c] = "closing"]
  /\ UNCHANGED <<door, vouched, side, missing>>

Cuts(c, unheard) ==
  /\ stage[c] = "linked"
  /\ \E e \in End : side[c][e] # "there"
  /\ stage' = [stage EXCEPT ![c] = "closing"]
  /\ missing' = [missing EXCEPT ![c] = @ \cup unheard]
  /\ UNCHANGED <<door, vouched, side>>

LetsGo(c) ==
  /\ stage[c] = "closing"
  /\ stage' = [stage EXCEPT ![c] = "gone"]
  /\ UNCHANGED <<door, vouched, side, missing>>

(* While the link stands, words get lost only of an end that broke, or for  *)
(* an end that left.                                                        *)
MayLose(c, e) ==
  \/ stage[c] \in {"closing", "gone"}
  \/ /\ stage[c] = "linked"
     /\ side[c][e] = "broken" \/ side[c][Other(e)] \in {"closed", "broken"}

Loses(c, unheard) ==
  /\ \A e \in unheard : MayLose(c, e)
  /\ missing' = [missing EXCEPT ![c] = @ \cup unheard]
  /\ side' \in {side} \cup {[side EXCEPT ![c][Other(e)] = Answered(@)] : e \in unheard}
  /\ UNCHANGED <<door, vouched, stage>>

(* An end goes on to leave, whatever the front does.                        *)
Turns(c, e, to) ==
  /\ stage[c] # "new"
  /\ \/ side[c][e] = "there" /\ to # "there"
     \/ side[c][e] = "shut" /\ to \in {"closed", "broken"}
     \/ side[c][e] = "closed" /\ to = "broken"
  /\ side' = [side EXCEPT ![c][e] = to]
  /\ UNCHANGED <<door, vouched, stage, missing>>

Shuts ==
  /\ door = "open"
  /\ door' = "shut"
  /\ UNCHANGED <<vouched, stage, side, missing>>

Finishes ==
  /\ door = "shut"
  /\ \A c \in Conn : stage[c] \in {"new", "gone"}
  /\ door' = "over"
  /\ UNCHANGED <<vouched, stage, side, missing>>

Next ==
  \/ Shuts \/ Finishes
  \/ \E c \in Conn :
       \/ Takes(c) \/ Links(c) \/ Refuses(c) \/ LetsGo(c)
       \/ \E unheard \in SUBSET End : Cuts(c, unheard) \/ Loses(c, unheard)
       \/ \E e \in End, to \in Side : Turns(c, e, to)

Spec == Init /\ [][Next]_contractVars

=============================================================================
