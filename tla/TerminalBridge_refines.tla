----------------------- MODULE TerminalBridge_refines -----------------------
(***************************************************************************)
(* The bridge implements the session pool: acquire is an admission, the     *)
(* claim of the Once a decision, release the return of the slot, SIGTERM or *)
(* a failing listener the stop; every other step leaves the pool alone.     *)
(***************************************************************************)
EXTENDS TerminalBridge_proofs

PoolStep == [Pool!Next]_(Pool!poolState)

(* The bridge's view of the pool does not change.                           *)
PoolKept ==
  /\ Holders' = Holders
  /\ Admitted' = Admitted
  /\ EndingOf' = EndingOf
  /\ Accepting' = Accepting

(* A step that keeps the view is a stutter of the pool.                     *)
LEMMA KeepingIsStuttering == PoolKept => PoolStep
BY DEF PoolKept, PoolStep, Pool!poolState

(* acquire is an admission: Shutdown has not begun and the count is the set.*)
LEMMA AcquireAdmits ==
  ASSUME Inv, Up, NEW s \in Session, Acquire(s)
  PROVE  Pool!Admit(s)
<1>1. Accepting /\ Accepting' = Accepting
  BY DEF Acquire, CanAcquire, Inv, TypeOK, MainAt, Lifecycle, ClosedBehind, Up,
         Accepting, mainVars
<1>2. s \notin Holders /\ Holders' = Holders \cup {s}
  BY AcquireAddsHolder DEF Inv
<1>3. Cardinality(Holders) < MaxSessions
  BY DEF Acquire, CanAcquire, Inv, SlotAccounting
<1>4. s \notin Admitted /\ Admitted' = Admitted \cup {s}
  BY DEF Acquire, Admitted, Inv, TypeOK, Lifecycle, EndsLate, Serving, Shelled,
         GoTo, endVars
<1>5. EndingOf' = EndingOf
  BY DEF Acquire, EndingOf, endVars
<1>6. Pool!Cardinality(Holders) = Cardinality(Holders)
  BY DEF Pool!Cardinality, Cardinality
<1> QED  BY <1>1, <1>2, <1>3, <1>4, <1>5, <1>6 DEF Pool!Admit

(* release returns a held slot, after the verdict.                          *)
LEMMA ReleaseGivesBack ==
  ASSUME Inv, NEW s \in Session, Release(s)
  PROVE  Pool!GiveBack(s)
<1>1. s \in Holders /\ Holders' = Holders \ {s}
  BY ReleaseRemovesHolder DEF Inv
<1>2. EndingOf[s] # NoVerdict
  BY EndVerdictsReport DEF Release, EndingOf, Inv, Lifecycle, VerdictFits
<1>3. EndingOf' = EndingOf /\ Admitted' = Admitted /\ Accepting' = Accepting
  BY DEF Release, EndingOf, Admitted, Accepting, Inv, TypeOK, connVars, mainVars
<1> QED  BY <1>1, <1>2, <1>3 DEF Pool!GiveBack

(* A claim decides the session, whether the claimant leaves the handler     *)
(* where it is or is the handler on its way into end.                       *)
LEMMA ClaimDecides ==
  ASSUME Inv, NEW s \in Session, NEW v \in EndVerdict, Claim(s, v),
         handler[s] \in Serving, main' = main,
         handler' = handler \/ GoTo(s, "ending")
  PROVE  PoolStep
<1>1. s \in Holders /\ Holders' = Holders
  BY DEF Claim, Holders, Inv, TypeOK, GoTo
<1>2. Admitted' = Admitted
  BY DEF Claim, Admitted, Inv, TypeOK, GoTo
<1>3. EndingOf[s] = NoVerdict
  BY DEF Claim, EndingOf
<1>4. EndingOf' = [EndingOf EXCEPT ![s] = v]
  BY DEF Claim, EndingOf, Inv, TypeOK
<1>5. Pool!Decide(s, v)
  BY <1>1, <1>2, <1>3, <1>4 DEF Pool!Decide, Accepting
<1> QED  BY <1>5 DEF PoolStep, Pool!Next

(* The goroutines beside the handler.                                       *)
LEMMA TriggerIsPoolStep ==
  ASSUME Inv, NEW s \in Session, handler[s] \in Serving,
         \E v \in EndVerdict : Trigger(s, v)
  PROVE  PoolStep
BY ClaimDecides DEF Trigger, connVars, mainVars

(* The handler: the first caller decides, a later one only waits.           *)
LEMMA HandlerEndsIsPoolStep ==
  ASSUME Inv, NEW s \in Session, handler[s] \in Serving, main' = main,
         \E v \in EndVerdict : HandlerEnds(s, v)
  PROVE  PoolStep
<1>1. PICK v \in EndVerdict : HandlerEnds(s, v)
  OBVIOUS
<1>2. CASE Claim(s, v)
  BY <1>1, <1>2, ClaimDecides DEF HandlerEnds
<1>3. CASE once[s] # "free" /\ UNCHANGED endVars
  <2>1. PoolKept
    BY <1>1, <1>3
    DEF HandlerEnds, PoolKept, Holders, Admitted, EndingOf, Accepting, endVars,
        GoTo, Inv, TypeOK
  <2> QED  BY <2>1, KeepingIsStuttering
<1> QED  BY <1>1, <1>2, <1>3 DEF HandlerEnds

-----------------------------------------------------------------------------
(* The empty bridge is the empty pool.                                      *)
LEMMA PoolInit == Init => Pool!Init
BY DEF Init, Pool!Init, Holders, Admitted, EndingOf, Accepting, Serving

(* Each step of the bridge is a step of the pool or none.                   *)
LEMMA EveryStepIsPoolStep == Inv /\ [Next]_vars => PoolStep
<1> SUFFICES ASSUME Inv, [Next]_vars PROVE PoolStep
  OBVIOUS
<1> USE DEF connVars, endVars, poolVars, mainVars, apiVars, GoTo, Holders,
            Admitted, EndingOf, Accepting, Serving, Shelled, Inv, TypeOK,
            Lifecycle, EndsLate, NamedServes
<1>1. ASSUME NEW s \in Session, RedeemAllowed(s)
       PROVE  PoolStep
  <2>1. PoolKept
    BY <1>1 DEF PoolKept, RedeemAllowed
  <2> QED  BY <2>1, KeepingIsStuttering
<1>2. ASSUME NEW s \in Session, NEW reason \in DenyReason, RedeemDenied(s, reason)
       PROVE  PoolStep
  <2>1. PoolKept
    BY <1>2 DEF PoolKept, RedeemDenied, CloseWith
  <2> QED  BY <2>1, KeepingIsStuttering
<1>3. ASSUME NEW s \in Session, RedeemWithoutHostKeys(s)
       PROVE  PoolStep
  <2>1. PoolKept
    BY <1>3 DEF PoolKept, RedeemWithoutHostKeys, CloseWith
  <2> QED  BY <2>1, KeepingIsStuttering
<1>4. ASSUME NEW s \in Session, RedeemFails(s)
       PROVE  PoolStep
  <2>1. PoolKept
    BY <1>4 DEF PoolKept, RedeemFails, CloseWith
  <2> QED  BY <2>1, KeepingIsStuttering
<1>5. ASSUME NEW s \in Session, Up, Acquire(s)
       PROVE  PoolStep
  BY <1>5, AcquireAdmits DEF PoolStep, Pool!Next
<1>6. ASSUME NEW s \in Session, RefuseAdmission(s)
       PROVE  PoolStep
  <2>1. PoolKept
    BY <1>6 DEF PoolKept, RefuseAdmission, CloseWith
  <2> QED  BY <2>1, KeepingIsStuttering
<1>7. ASSUME NEW s \in Session, DialSucceeds(s)
       PROVE  PoolStep
  <2>1. PoolKept
    BY <1>7 DEF PoolKept, DialSucceeds
  <2> QED  BY <2>1, KeepingIsStuttering
<1>8. ASSUME NEW s \in Session, DialFails(s)
       PROVE  PoolStep
  <2>1. handler[s] \in Serving /\ main' = main
    BY <1>8 DEF DialFails, Serving, mainVars
  <2>2. \E v \in EndVerdict : HandlerEnds(s, v)
    BY <1>8, CallersPassEndVerdicts DEF DialFails
  <2> QED  BY <2>1, <2>2, HandlerEndsIsPoolStep
<1>9. ASSUME NEW s \in Session, StartAccepted(s)
       PROVE  PoolStep
  <2>1. PoolKept
    BY <1>9 DEF PoolKept, StartAccepted
  <2> QED  BY <2>1, KeepingIsStuttering
<1>10. ASSUME NEW s \in Session, StartConflicts(s)
       PROVE  PoolStep
  <2>1. handler[s] \in Serving /\ main' = main
    BY <1>10 DEF StartConflicts, Serving, mainVars
  <2>2. \E v \in EndVerdict : HandlerEnds(s, v)
    BY <1>10, CallersPassEndVerdicts DEF StartConflicts
  <2> QED  BY <2>1, <2>2, HandlerEndsIsPoolStep
<1>11. ASSUME NEW s \in Session, StartFails(s)
       PROVE  PoolStep
  <2>1. handler[s] \in Serving /\ main' = main
    BY <1>11 DEF StartFails, Serving, mainVars
  <2>2. \E v \in EndVerdict : HandlerEnds(s, v)
    BY <1>11, CallersPassEndVerdicts DEF StartFails
  <2> QED  BY <2>1, <2>2, HandlerEndsIsPoolStep
<1>12. ASSUME NEW s \in Session, Register(s)
       PROVE  PoolStep
  <2>1. PoolKept
    BY <1>12 DEF PoolKept, Register
  <2> QED  BY <2>1, KeepingIsStuttering
<1>13. ASSUME NEW s \in Session, StartLoops(s)
       PROVE  PoolStep
  <2>1. PoolKept
    BY <1>13 DEF PoolKept, StartLoops
  <2> QED  BY <2>1, KeepingIsStuttering
<1>14. ASSUME NEW s \in Session, HandlerReturns(s)
       PROVE  PoolStep
  <2>1. PoolKept
    BY <1>14 DEF PoolKept, HandlerReturns
  <2> QED  BY <2>1, KeepingIsStuttering
<1>15. ASSUME NEW s \in Session, RejectHandshake(s)
       PROVE  PoolStep
  <2>1. PoolKept
    BY <1>15 DEF PoolKept, RejectHandshake
  <2> QED  BY <2>1, KeepingIsStuttering
<1>16. ASSUME NEW s \in Session, Upgrade(s)
       PROVE  PoolStep
  <2>1. PoolKept
    BY <1>16 DEF PoolKept, Upgrade
  <2> QED  BY <2>1, KeepingIsStuttering
<1>17. ASSUME NEW s \in Session, OpenSucceeds(s)
       PROVE  PoolStep
  <2>1. PoolKept
    BY <1>17 DEF PoolKept, OpenSucceeds
  <2> QED  BY <2>1, KeepingIsStuttering
<1>18. ASSUME NEW s \in Session, OpenFails(s)
       PROVE  PoolStep
  <2>1. handler[s] \in Serving /\ main' = main
    BY <1>18 DEF OpenFails, Serving, mainVars
  <2>2. \E v \in EndVerdict : HandlerEnds(s, v)
    BY <1>18, CallersPassEndVerdicts DEF OpenFails
  <2> QED  BY <2>1, <2>2, HandlerEndsIsPoolStep
<1>19. ASSUME NEW s \in Session, ReadEnds(s)
       PROVE  PoolStep
  <2>1. handler[s] \in Serving /\ main' = main
    BY <1>19 DEF ReadEnds, Serving, mainVars
  <2>2. \E v \in EndVerdict : HandlerEnds(s, v)
    BY <1>19, CallersPassEndVerdicts DEF ReadEnds
  <2> QED  BY <2>1, <2>2, HandlerEndsIsPoolStep
<1>20. ASSUME NEW s \in Session, WriterFails(s)
       PROVE  PoolStep
  <2>1. handler[s] \in Serving
    BY <1>20 DEF Trigger, Claim, WriterFails
  <2>2. \E v \in EndVerdict : Trigger(s, v)
    BY <1>20, CallersPassEndVerdicts DEF WriterFails
  <2> QED  BY <2>1, <2>2, TriggerIsPoolStep
<1>21. ASSUME NEW s \in Session, PingFails(s)
       PROVE  PoolStep
  <2>1. handler[s] \in Serving
    BY <1>21 DEF Trigger, Claim, PingFails
  <2>2. \E v \in EndVerdict : Trigger(s, v)
    BY <1>21, CallersPassEndVerdicts DEF PingFails
  <2> QED  BY <2>1, <2>2, TriggerIsPoolStep
<1>22. ASSUME NEW s \in Session, ShellExits(s)
       PROVE  PoolStep
  <2>1. handler[s] \in Serving
    BY <1>22 DEF Trigger, Claim, ShellExits
  <2>2. \E v \in EndVerdict : Trigger(s, v)
    BY <1>22, CallersPassEndVerdicts DEF ShellExits
  <2> QED  BY <2>1, <2>2, TriggerIsPoolStep
<1>23. ASSUME NEW s \in Session, IdleFires(s)
       PROVE  PoolStep
  <2>1. handler[s] \in Serving
    BY <1>23 DEF Trigger, Claim, IdleFires
  <2>2. \E v \in EndVerdict : Trigger(s, v)
    BY <1>23, CallersPassEndVerdicts DEF IdleFires
  <2> QED  BY <2>1, <2>2, TriggerIsPoolStep
<1>24. ASSUME NEW s \in Session, RevalidateExhausted(s)
       PROVE  PoolStep
  <2>1. handler[s] \in Serving
    BY <1>24 DEF Trigger, Claim, RevalidateExhausted
  <2>2. \E v \in EndVerdict : Trigger(s, v)
    BY <1>24, CallersPassEndVerdicts DEF RevalidateExhausted
  <2> QED  BY <2>1, <2>2, TriggerIsPoolStep
<1>25. ASSUME NEW s \in Session, NEW reason \in DenyReason, RevalidateDenied(s, reason)
       PROVE  PoolStep
  <2>1. handler[s] \in Serving
    BY <1>25 DEF Trigger, Claim, RevalidateDenied
  <2>2. \E v \in EndVerdict : Trigger(s, v)
    BY <1>25, CallersPassEndVerdicts DEF RevalidateDenied
  <2> QED  BY <2>1, <2>2, TriggerIsPoolStep
<1>26. ASSUME NEW s \in Session, CloseTransports(s)
       PROVE  PoolStep
  <2>1. PoolKept
    BY <1>26 DEF PoolKept, CloseTransports
  <2> QED  BY <2>1, KeepingIsStuttering
<1>27. ASSUME NEW s \in Session, Unregister(s)
       PROVE  PoolStep
  <2>1. PoolKept
    BY <1>27 DEF PoolKept, Unregister
  <2> QED  BY <2>1, KeepingIsStuttering
<1>28. ASSUME NEW s \in Session, Release(s)
       PROVE  PoolStep
  BY <1>28, ReleaseGivesBack DEF PoolStep, Pool!Next
<1>29. ASSUME NEW s \in Session, SendReport(s)
       PROVE  PoolStep
  <2>1. PoolKept
    BY <1>29 DEF PoolKept, SendReport
  <2> QED  BY <2>1, KeepingIsStuttering
<1>30. ASSUME NEW s \in Session, ReportReturns(s)
       PROVE  PoolStep
  <2>1. PoolKept
    BY <1>30 DEF PoolKept, ReportReturns
  <2> QED  BY <2>1, KeepingIsStuttering
<1>31. ASSUME NEW s \in Session, Terminate(s)
       PROVE  PoolStep
  <2>1. PoolKept
    BY <1>31 DEF PoolKept, Terminate
  <2> QED  BY <2>1, KeepingIsStuttering
<1>32. ASSUME NEW s \in Session, ForceRuns(s)
       PROVE  PoolStep
  <2>1. handler[s] \in Serving
    BY <1>32 DEF Trigger, Claim, ForceRuns
  <2>2. \E v \in EndVerdict : Trigger(s, v)
    BY <1>32, CallersPassEndVerdicts DEF ForceRuns
  <2> QED  BY <2>1, <2>2, TriggerIsPoolStep
<1>33. ASSUME NEW s \in Session, ShutdownEnds(s)
       PROVE  PoolStep
  <2>1. handler[s] \in Serving
    BY <1>33 DEF Trigger, Claim, ShutdownEnds
  <2>2. \E v \in EndVerdict : Trigger(s, v)
    BY <1>33, CallersPassEndVerdicts DEF ShutdownEnds
  <2> QED  BY <2>1, <2>2, TriggerIsPoolStep
<1>34. ASSUME NEW s \in Session, ApiHandlesStart(s)
       PROVE  PoolStep
  <2>1. PoolKept
    BY <1>34 DEF PoolKept, ApiHandlesStart
  <2> QED  BY <2>1, KeepingIsStuttering
<1>35. ASSUME NEW s \in Session, ApiHandlesReport(s)
       PROVE  PoolStep
  <2>1. PoolKept
    BY <1>35 DEF PoolKept, ApiHandlesReport
  <2> QED  BY <2>1, KeepingIsStuttering
<1>36. ASSUME NEW s \in Session, ApiRetires(s)
       PROVE  PoolStep
  <2>1. PoolKept
    BY <1>36 DEF PoolKept, ApiRetires
  <2> QED  BY <2>1, KeepingIsStuttering
<1>37. ASSUME NEW s \in Session, BrowserLeaves(s)
       PROVE  PoolStep
  <2>1. PoolKept
    BY <1>37 DEF PoolKept, BrowserLeaves
  <2> QED  BY <2>1, KeepingIsStuttering
<1>38. CASE ShutdownStarts
  <2>1. Pool!Stop
    BY <1>38 DEF ShutdownStarts, Pool!Stop
  <2> QED  BY <2>1 DEF PoolStep, Pool!Next
<1>39. CASE ShutdownReturns
  <2>1. PoolKept
    BY <1>39 DEF PoolKept, ShutdownReturns
  <2> QED  BY <2>1, KeepingIsStuttering
<1>40. CASE Drained
  <2>1. PoolKept
    BY <1>40 DEF PoolKept, Drained
  <2> QED  BY <2>1, KeepingIsStuttering
<1>41. CASE ListenerFails
  <2>1. Pool!Stop
    BY <1>41 DEF ListenerFails, Pool!Stop
  <2> QED  BY <2>1 DEF PoolStep, Pool!Next
<1>42. CASE UNCHANGED vars
  <2>1. PoolKept
    BY <1>42 DEF vars, PoolKept
  <2> QED  BY <2>1, KeepingIsStuttering
<1>43. ASSUME NEW s \in Session, CloseStalls(s)
       PROVE  PoolStep
  <2>1. PoolKept
    BY <1>43 DEF PoolKept, CloseStalls
  <2> QED  BY <2>1, KeepingIsStuttering
<1>44. ASSUME NEW s \in Session, CloseReturns(s)
       PROVE  PoolStep
  <2>1. PoolKept
    BY <1>44 DEF PoolKept, CloseReturns
  <2> QED  BY <2>1, KeepingIsStuttering
<1> QED
  BY <1>1, <1>2, <1>3, <1>4, <1>5, <1>6, <1>7, <1>8, <1>9, <1>10, <1>11,
     <1>12, <1>13, <1>14, <1>15, <1>16, <1>17, <1>18, <1>19, <1>20,
     <1>21, <1>22, <1>23, <1>24, <1>25, <1>26, <1>27, <1>28, <1>29,
     <1>30, <1>31, <1>32, <1>33, <1>34, <1>35, <1>36, <1>37, <1>38,
     <1>39, <1>40, <1>41, <1>42, <1>43, <1>44 DEF Next, Prompt, Unprompted,
     Background, Teardown, RedeemAnswered, ShuttingDown, Environment,
     Exited

(* The bridge implements the pool of slots.                                 *)
THEOREM BridgeImplementsPool == Spec => ImplementsPool
<1>1. Init => Pool!Init
  BY PoolInit
<1>2. Inv /\ [Next]_vars => [Pool!Next]_(Pool!poolState)
  BY EveryStepIsPoolStep DEF PoolStep
<1> QED  BY <1>1, <1>2, Invariant, PTL DEF Spec, ImplementsPool, Pool!Spec

-----------------------------------------------------------------------------
(***************************************************************************)
(* What follows from the pool alone, said of the bridge.  The proofs use    *)
(* the actions of SessionPool and nothing of the bridge's.                  *)
(***************************************************************************)

(* A slot is held by an admitted session, and an admitted session that      *)
(* holds none any more has its verdict.                                     *)
SlotsAreSettled ==
  /\ EndingOf \in [Session -> EndVerdict \cup {NoVerdict}]
  /\ Holders \subseteq Admitted
  /\ \A s \in Admitted \ Holders : EndingOf[s] \in EndVerdict
  /\ \A s \in Session \ Admitted : EndingOf[s] = NoVerdict

(* Nobody is admitted twice or after the stop, the stop is final, a slot    *)
(* given back is never taken again by the same session, and a verdict once  *)
(* given stays.                                                             *)
SlotsMoveOn ==
  /\ Admitted \subseteq Admitted'
  /\ ~Accepting => Admitted' = Admitted /\ ~Accepting'
  /\ \A s \in Admitted \ Holders : s \notin Holders'
  /\ \A s \in Session : EndingOf[s] # NoVerdict => EndingOf'[s] = EndingOf[s]

(* Each step of the pool keeps the one and makes the other.                 *)
LEMMA PoolStepSettles ==
  ASSUME SlotsAreSettled, Admitted \subseteq Session, PoolStep
  PROVE  SlotsAreSettled' /\ SlotsMoveOn
<1> USE DEF SlotsAreSettled, SlotsMoveOn
<1>1. NoVerdict \notin EndVerdict
  BY EndVerdictsReport
<1>2. ASSUME NEW s \in Session, Pool!Admit(s)
      PROVE  SlotsAreSettled' /\ SlotsMoveOn
  BY <1>2 DEF Pool!Admit
<1>3. ASSUME NEW s \in Session, NEW v \in EndVerdict, Pool!Decide(s, v)
      PROVE  SlotsAreSettled' /\ SlotsMoveOn
  BY <1>1, <1>3 DEF Pool!Decide
<1>4. ASSUME NEW s \in Session, Pool!GiveBack(s)
      PROVE  SlotsAreSettled' /\ SlotsMoveOn
  BY <1>1, <1>4 DEF Pool!GiveBack
<1>5. CASE Pool!Stop
  BY <1>5 DEF Pool!Stop
<1>6. CASE UNCHANGED Pool!poolState
  BY <1>6 DEF Pool!poolState
<1> QED  BY <1>2, <1>3, <1>4, <1>5, <1>6 DEF PoolStep, Pool!Next

(* Slots are settled at first: nobody has been admitted.                    *)
LEMMA PoolInitSettles == Pool!Init => SlotsAreSettled
BY DEF Pool!Init, SlotsAreSettled

(* Whoever was admitted and holds no slot has ended with a verdict that was *)
(* passed to end.                                                           *)
THEOREM SlotsSettle == Spec => []SlotsAreSettled
<1>1. Init => SlotsAreSettled
  BY PoolInit, PoolInitSettles
<1>2. Inv /\ SlotsAreSettled /\ [Next]_vars => SlotsAreSettled'
  BY EveryStepIsPoolStep, PoolStepSettles DEF Admitted
<1> QED  BY <1>1, <1>2, Invariant, PTL DEF Spec

(* Slots only move forward: admitted once, decided once, returned once,     *)
(* and none handed out after Shutdown began.                                *)
THEOREM SlotsOnlyMoveOn == Spec => [][SlotsMoveOn]_vars
<1>1. Inv /\ SlotsAreSettled /\ [Next]_vars => SlotsMoveOn
  BY EveryStepIsPoolStep, PoolStepSettles DEF Admitted
<1> QED  BY <1>1, SlotsSettle, Invariant, PTL DEF Spec

=============================================================================
