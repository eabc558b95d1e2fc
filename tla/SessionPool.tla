------------------------------ MODULE SessionPool ------------------------------
(***************************************************************************)
(* What the bridge promises about its slots, without goroutines, mutexes or *)
(* an api: at most Cap sessions hold one; a session is admitted at most     *)
(* once and only while the pool accepts; it gives its slot back once, and   *)
(* only after its single final verdict; the pool never accepts again after  *)
(* it stopped (the comments of acquire, end and Shutdown in                 *)
(* internal/terminal/bridge.go).                                            *)
(***************************************************************************)
EXTENDS Integers, FiniteSets

CONSTANTS Session, Cap, Ending, Undecided

VARIABLES
  holders,    \* sessions that hold a slot
  admitted,   \* sessions that ever held one
  ending,     \* the final verdict of each session, or Undecided
  accepting   \* whether the pool still admits

poolState == <<holders, admitted, ending, accepting>>

Init ==
  /\ holders = {}
  /\ admitted = {}
  /\ ending = [s \in Session |-> Undecided]
  /\ accepting = TRUE

Admit(s) ==
  /\ accepting
  /\ s \notin admitted
  /\ Cardinality(holders) < Cap
  /\ holders' = holders \cup {s}
  /\ admitted' = admitted \cup {s}
  /\ UNCHANGED <<ending, accepting>>

Decide(s, v) ==
  /\ s \in holders
  /\ ending[s] = Undecided
  /\ ending' = [ending EXCEPT ![s] = v]
  /\ UNCHANGED <<holders, admitted, accepting>>

GiveBack(s) ==
  /\ s \in holders
  /\ ending[s] # Undecided
  /\ holders' = holders \ {s}
  /\ UNCHANGED <<admitted, ending, accepting>>

Stop ==
  /\ accepting
  /\ accepting' = FALSE
  /\ UNCHANGED <<holders, admitted, ending>>

Next ==
  \/ \E s \in Session :
       Admit(s) \/ GiveBack(s) \/ \E v \in Ending : Decide(s, v)
  \/ Stop

Spec == Init /\ [][Next]_poolState

=============================================================================
