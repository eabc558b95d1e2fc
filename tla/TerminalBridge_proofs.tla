------------------------ MODULE TerminalBridge_proofs ------------------------
(***************************************************************************)
(* The safety of TerminalBridge, for every finite set of sessions, every    *)
(* cap and every set of deny reasons.                                       *)
(***************************************************************************)
EXTENDS TerminalBridge, TLAPS, FiniteSetTheorems

(* What may stand in the verdict of a session.                              *)
LEMMA EndVerdictsAreVerdicts ==
  /\ EndVerdict \subseteq VerdictType
  /\ NoVerdict \in VerdictType
  /\ \A code \in CloseCode : Refusal(code) \in VerdictType
BY DEF VerdictType

(* The arguments of every call of end in the code.                          *)
LEMMA CallersPassEndVerdicts ==
  /\ Verdict("SSH_FAILED", closeConnFailed) \in EndVerdict
  /\ Verdict("CLIENT_CLOSED", closeNormal) \in EndVerdict
  /\ Verdict("IDLE_TIMEOUT", closeIdle) \in EndVerdict
  /\ Verdict("FORCE_TERMINATED", closeForce) \in EndVerdict
  /\ Verdict("BRIDGE_SHUTDOWN", closeMaintenance) \in EndVerdict
  /\ Verdict("REVALIDATION_DENIED", closeMaintenance) \in EndVerdict
  /\ \A reason \in DenyReason :
       Verdict("REVALIDATION_DENIED", CloseCodeForReason(reason)) \in EndVerdict
<1>1. "OTHER" \in DenialReason /\ CloseCodeForReason("OTHER") = closeMaintenance
  BY DEF DenialReason, CloseCodeForReason
<1> QED  BY <1>1, DenyAssumption DEF EndVerdict

(* The arguments of every call of closeWith.                                *)
LEMMA MappedCodes ==
  /\ \A reason : CloseCodeForReason(reason) \in CloseCode
  /\ closeConnFailed \in CloseCode /\ closeMaintenance \in CloseCode
BY DEF CloseCodeForReason, CloseCode

(* A verdict passed to end, a refusal and no verdict are told apart.        *)
LEMMA EndVerdictsReport ==
  /\ \A v \in EndVerdict : v.reason # "UNREPORTED" /\ v.reason # "NONE"
  /\ \A v \in EndVerdict : v # NoVerdict
  /\ \A code : Refusal(code) # NoVerdict
  /\ \A code : Refusal(code).reason = "UNREPORTED"
BY DEF EndVerdict, Verdict, NoVerdict, Refusal

(***************************************************************************)
(* Type correctness.  Every step of every goroutine keeps each variable in  *)
(* its type; acquire and release keep the counter between zero and the cap, *)
(* whatever the counter counts.                                             *)
(***************************************************************************)
THEOREM TypeCorrect == Spec => []TypeOK
<1> USE DEF connVars, endVars, poolVars, mainVars, apiVars, GoTo
<1>1. Init => TypeOK
  <2> SUFFICES ASSUME Init PROVE TypeOK
    OBVIOUS
  <2>1. closed \in BOOLEAN
    BY Zenon DEF Init
  <2>2. verdict \in [Session -> VerdictType]
    BY EndVerdictsAreVerdicts DEF Init
  <2>3. active \in 0..MaxSessions
    BY CapAssumption DEF Init
  <2>4. /\ handler \in [Session -> HandlerAt]
        /\ browser \in [Session -> {"here", "gone"}]
        /\ ssh \in [Session -> {"none", "open", "closed"}]
        /\ once \in [Session -> OnceAt]
        /\ main \in MainAt
        /\ forced \subseteq Session /\ sessions \subseteq Session /\ live \subseteq Session
    BY DEF Init, HandlerAt, OnceAt, MainAt
  <2>5. /\ registry \in [Session -> RegistryAt]
        /\ start \in [Session -> StartAt]
        /\ report \in [Session -> ReportAt]
    BY DEF Init, RegistryAt, StartAt, ReportAt
  <2> QED  BY <2>1, <2>2, <2>3, <2>4, <2>5 DEF TypeOK
<1>2. TypeOK /\ [Next]_vars => TypeOK'
  <2> SUFFICES ASSUME TypeOK, [Next]_vars PROVE TypeOK'
    OBVIOUS
  <2> USE DEF TypeOK, HandlerAt, OnceAt, MainAt, RegistryAt, StartAt, ReportAt
  <2>1. ASSUME NEW s \in Session, RedeemAllowed(s)
         PROVE  TypeOK'
    BY <2>1
    DEF RedeemAllowed
  <2>2. ASSUME NEW s \in Session, NEW reason \in DenyReason, RedeemDenied(s, reason)
         PROVE  TypeOK'
    BY <2>2, MappedCodes, EndVerdictsAreVerdicts
    DEF RedeemDenied, CloseWith
  <2>3. ASSUME NEW s \in Session, RedeemWithoutHostKeys(s)
         PROVE  TypeOK'
    BY <2>3, MappedCodes, EndVerdictsAreVerdicts
    DEF RedeemWithoutHostKeys, CloseWith
  <2>4. ASSUME NEW s \in Session, RedeemFails(s)
         PROVE  TypeOK'
    BY <2>4, MappedCodes, EndVerdictsAreVerdicts
    DEF RedeemFails, CloseWith
  <2>5. ASSUME NEW s \in Session, Acquire(s)
         PROVE  TypeOK'
    BY <2>5, CapAssumption
    DEF Acquire, CanAcquire
  <2>6. ASSUME NEW s \in Session, RefuseAdmission(s)
         PROVE  TypeOK'
    BY <2>6, MappedCodes, EndVerdictsAreVerdicts
    DEF RefuseAdmission, CloseWith
  <2>7. ASSUME NEW s \in Session, DialSucceeds(s)
         PROVE  TypeOK'
    BY <2>7
    DEF DialSucceeds
  <2>8. ASSUME NEW s \in Session, DialFails(s)
         PROVE  TypeOK'
    BY <2>8, CallersPassEndVerdicts, EndVerdictsAreVerdicts
    DEF DialFails, HandlerEnds, Claim
  <2>9. ASSUME NEW s \in Session, StartAccepted(s)
         PROVE  TypeOK'
    BY <2>9
    DEF StartAccepted
  <2>10. ASSUME NEW s \in Session, StartConflicts(s)
         PROVE  TypeOK'
    BY <2>10, CallersPassEndVerdicts, EndVerdictsAreVerdicts
    DEF StartConflicts, HandlerEnds, Claim
  <2>11. ASSUME NEW s \in Session, StartFails(s)
         PROVE  TypeOK'
    BY <2>11, CallersPassEndVerdicts, EndVerdictsAreVerdicts
    DEF StartFails, HandlerEnds, Claim
  <2>12. ASSUME NEW s \in Session, Register(s)
         PROVE  TypeOK'
    BY <2>12
    DEF Register
  <2>13. ASSUME NEW s \in Session, StartLoops(s)
         PROVE  TypeOK'
    BY <2>13
    DEF StartLoops
  <2>14. ASSUME NEW s \in Session, HandlerReturns(s)
         PROVE  TypeOK'
    BY <2>14
    DEF HandlerReturns
  <2>15. ASSUME NEW s \in Session, RejectHandshake(s)
         PROVE  TypeOK'
    BY <2>15
    DEF RejectHandshake
  <2>16. ASSUME NEW s \in Session, Upgrade(s)
         PROVE  TypeOK'
    BY <2>16
    DEF Upgrade
  <2>17. ASSUME NEW s \in Session, OpenSucceeds(s)
         PROVE  TypeOK'
    BY <2>17
    DEF OpenSucceeds
  <2>18. ASSUME NEW s \in Session, OpenFails(s)
         PROVE  TypeOK'
    BY <2>18, CallersPassEndVerdicts, EndVerdictsAreVerdicts
    DEF OpenFails, HandlerEnds, Claim
  <2>19. ASSUME NEW s \in Session, ReadEnds(s)
         PROVE  TypeOK'
    BY <2>19, CallersPassEndVerdicts, EndVerdictsAreVerdicts
    DEF ReadEnds, HandlerEnds, Claim
  <2>20. ASSUME NEW s \in Session, WriterFails(s)
         PROVE  TypeOK'
    BY <2>20, CallersPassEndVerdicts, EndVerdictsAreVerdicts
    DEF WriterFails, Trigger, Claim
  <2>21. ASSUME NEW s \in Session, PingFails(s)
         PROVE  TypeOK'
    BY <2>21, CallersPassEndVerdicts, EndVerdictsAreVerdicts
    DEF PingFails, Trigger, Claim
  <2>22. ASSUME NEW s \in Session, ShellExits(s)
         PROVE  TypeOK'
    BY <2>22, CallersPassEndVerdicts, EndVerdictsAreVerdicts
    DEF ShellExits, Trigger, Claim
  <2>23. ASSUME NEW s \in Session, IdleFires(s)
         PROVE  TypeOK'
    BY <2>23, CallersPassEndVerdicts, EndVerdictsAreVerdicts
    DEF IdleFires, Trigger, Claim
  <2>24. ASSUME NEW s \in Session, RevalidateExhausted(s)
         PROVE  TypeOK'
    BY <2>24, CallersPassEndVerdicts, EndVerdictsAreVerdicts
    DEF RevalidateExhausted, Trigger, Claim
  <2>25. ASSUME NEW s \in Session, NEW reason \in DenyReason, RevalidateDenied(s, reason)
         PROVE  TypeOK'
    BY <2>25, CallersPassEndVerdicts, EndVerdictsAreVerdicts
    DEF RevalidateDenied, Trigger, Claim
  <2>26. ASSUME NEW s \in Session, CloseTransports(s)
         PROVE  TypeOK'
    BY <2>26
    DEF CloseTransports
  <2>27. ASSUME NEW s \in Session, Unregister(s)
         PROVE  TypeOK'
    BY <2>27
    DEF Unregister
  <2>28. ASSUME NEW s \in Session, Release(s)
         PROVE  TypeOK'
    BY <2>28, CapAssumption
    DEF Release
  <2>29. ASSUME NEW s \in Session, SendReport(s)
         PROVE  TypeOK'
    BY <2>29
    DEF SendReport
  <2>30. ASSUME NEW s \in Session, ReportReturns(s)
         PROVE  TypeOK'
    BY <2>30
    DEF ReportReturns
  <2>31. ASSUME NEW s \in Session, Terminate(s)
         PROVE  TypeOK'
    BY <2>31
    DEF Terminate
  <2>32. ASSUME NEW s \in Session, ForceRuns(s)
         PROVE  TypeOK'
    BY <2>32, CallersPassEndVerdicts, EndVerdictsAreVerdicts
    DEF ForceRuns, Trigger, Claim
  <2>33. ASSUME NEW s \in Session, ShutdownEnds(s)
         PROVE  TypeOK'
    BY <2>33, CallersPassEndVerdicts, EndVerdictsAreVerdicts
    DEF ShutdownEnds, Trigger, Claim
  <2>34. ASSUME NEW s \in Session, ApiHandlesStart(s)
         PROVE  TypeOK'
    BY <2>34
    DEF ApiHandlesStart
  <2>35. ASSUME NEW s \in Session, ApiHandlesReport(s)
         PROVE  TypeOK'
    BY <2>35
    DEF ApiHandlesReport
  <2>36. ASSUME NEW s \in Session, ApiRetires(s)
         PROVE  TypeOK'
    BY <2>36
    DEF ApiRetires
  <2>37. ASSUME NEW s \in Session, BrowserLeaves(s)
         PROVE  TypeOK'
    BY <2>37
    DEF BrowserLeaves
  <2>38. CASE ShutdownStarts
    BY <2>38
    DEF ShutdownStarts
  <2>39. CASE ShutdownReturns
    BY <2>39
    DEF ShutdownReturns
  <2>40. CASE Drained
    BY <2>40
    DEF Drained
  <2>41. CASE ListenerFails
    BY <2>41
    DEF ListenerFails
  <2>42. CASE UNCHANGED vars
    BY <2>42 DEF vars
  <2>43. ASSUME NEW s \in Session, CloseStalls(s)
         PROVE  TypeOK'
    BY <2>43
    DEF CloseStalls
  <2>44. ASSUME NEW s \in Session, CloseReturns(s)
         PROVE  TypeOK'
    BY <2>44
    DEF CloseReturns
  <2> QED
    BY <2>1, <2>2, <2>3, <2>4, <2>5, <2>6, <2>7, <2>8, <2>9, <2>10, <2>11,
       <2>12, <2>13, <2>14, <2>15, <2>16, <2>17, <2>18, <2>19, <2>20,
       <2>21, <2>22, <2>23, <2>24, <2>25, <2>26, <2>27, <2>28, <2>29,
       <2>30, <2>31, <2>32, <2>33, <2>34, <2>35, <2>36, <2>37, <2>38,
       <2>39, <2>40, <2>41, <2>42, <2>43, <2>44 DEF Next, Prompt, Unprompted,
       Background, Teardown, RedeemAnswered, ShuttingDown, Environment,
       Exited
<1> QED  BY <1>1, <1>2, PTL DEF Spec

-----------------------------------------------------------------------------
(***************************************************************************)
(* The inductive invariant.  TypeOK and the safety properties do not carry  *)
(* themselves: that no goroutine can end a session before its handler has   *)
(* a slot, an upstream and an audited start follows from where the handler  *)
(* stands, what is in the map, and how far the Once has come.               *)
(***************************************************************************)

(* end runs at the earliest where the handler fails itself or the writer    *)
(* goroutines exist; a handler inside end has found the Once taken and      *)
(* leaves when its body is through.                                         *)
EndsLate(s) ==
  /\ once[s] # "free" => handler[s] \in (Shelled \cup {"ending", "gone"})
  /\ handler[s] = "ending" => once[s] # "free"
  /\ handler[s] = "gone" => once[s] \in {"free", "done"}

(* The map, a Shutdown snapshot and a force-terminate only name sessions    *)
(* past register, and those not ended yet still have a serving handler.     *)
NamedServes(s) ==
  s \in sessions \cup live \cup forced =>
    /\ handler[s] \in {"arming", "reading", "ending", "gone"}
    /\ once[s] = "free" => handler[s] \in {"arming", "reading"}

(* The upstream opens after the dial and is closed before the teardown gets *)
(* to unregister.                                                           *)
UpstreamHeld(s) ==
  /\ ssh[s] = "open" => \/ once[s] = "free" /\ handler[s] \in Serving
                        \/ once[s] \in {"closing", "stalled"}
  /\ handler[s] \in {"idle", "redeeming", "admitting", "dialing"} => ssh[s] = "none"

(* The api's positive answer means the session is on its books until it has *)
(* handled the report.                                                      *)
StartBooks(s) ==
  /\ start[s] = "ok" => Booked(s)
  /\ handler[s] \in {"registering", "arming", "reading"} => start[s] = "ok"
  /\ handler[s] \in {"idle", "redeeming", "admitting", "dialing", "opening"}
       => start[s] = "none"
  /\ report[s] # "none" => once[s] \in {"reporting", "done"}

(* Before the Once is taken there is no verdict, except on a connection     *)
(* refused for good; afterwards the verdict is one that is reported.        *)
VerdictFits(s) ==
  /\ once[s] = "free" =>
       \/ verdict[s] = NoVerdict
       \/ /\ verdict[s].reason = "UNREPORTED"
          /\ handler[s] = "gone"
          /\ ssh[s] = "none" /\ start[s] = "none" /\ report[s] = "none"
  /\ once[s] # "free" => verdict[s] \in EndVerdict

(* Shutdown is past its wait group only when every body has been run.       *)
ShutdownWaits ==
  main = "draining" => \A s \in live : once[s] = "done"

(* From its first step on, Shutdown has closed the door to acquire.         *)
ClosedBehind == main \in {"closing", "draining"} => closed = TRUE

Lifecycle ==
  /\ \A s \in Session : /\ EndsLate(s)
                        /\ NamedServes(s)
                        /\ UpstreamHeld(s)
                        /\ StartBooks(s)
                        /\ VerdictFits(s)
  /\ ShutdownWaits
  /\ ClosedBehind

(* A bridge that just started has no session beyond "idle".                 *)
LEMMA LifecycleInit == Init => Lifecycle
BY EndVerdictsReport
DEF Init, Lifecycle, EndsLate, NamedServes, UpstreamHeld, StartBooks, VerdictFits,
    ShutdownWaits, ClosedBehind, Shelled, Serving, Booked

(* One step per action; each keeps the conjuncts of its own session and     *)
(* leaves those of the others alone.                                        *)
LEMMA LifecycleStep == TypeOK /\ Lifecycle /\ [Next]_vars => Lifecycle'
<1> SUFFICES ASSUME TypeOK, Lifecycle, [Next]_vars PROVE Lifecycle'
  OBVIOUS
<1> USE DEF connVars, endVars, poolVars, mainVars, apiVars, GoTo, TypeOK,
            HandlerAt, OnceAt, MainAt, RegistryAt, StartAt, ReportAt,
            Lifecycle, EndsLate, NamedServes, UpstreamHeld, StartBooks,
            VerdictFits, ShutdownWaits, ClosedBehind, Shelled, Serving, Booked
<1>1. ASSUME NEW s \in Session, RedeemAllowed(s)
       PROVE  Lifecycle'
  BY <1>1
  DEF RedeemAllowed
<1>2. ASSUME NEW s \in Session, NEW reason \in DenyReason, RedeemDenied(s, reason)
       PROVE  Lifecycle'
  BY <1>2, EndVerdictsReport
  DEF RedeemDenied, CloseWith
<1>3. ASSUME NEW s \in Session, RedeemWithoutHostKeys(s)
       PROVE  Lifecycle'
  BY <1>3, EndVerdictsReport
  DEF RedeemWithoutHostKeys, CloseWith
<1>4. ASSUME NEW s \in Session, RedeemFails(s)
       PROVE  Lifecycle'
  BY <1>4, EndVerdictsReport
  DEF RedeemFails, CloseWith
<1>5. ASSUME NEW s \in Session, Acquire(s)
       PROVE  Lifecycle'
  BY <1>5
  DEF Acquire, CanAcquire
<1>6. ASSUME NEW s \in Session, RefuseAdmission(s)
       PROVE  Lifecycle'
  BY <1>6, EndVerdictsReport
  DEF RefuseAdmission, CloseWith
<1>7. ASSUME NEW s \in Session, DialSucceeds(s)
       PROVE  Lifecycle'
  BY <1>7
  DEF DialSucceeds
<1>8. ASSUME NEW s \in Session, DialFails(s)
       PROVE  Lifecycle'
  BY <1>8, CallersPassEndVerdicts
  DEF DialFails, HandlerEnds, Claim
<1>9. ASSUME NEW s \in Session, StartAccepted(s)
       PROVE  Lifecycle'
  BY <1>9
  DEF StartAccepted
<1>10. ASSUME NEW s \in Session, StartConflicts(s)
       PROVE  Lifecycle'
  BY <1>10, CallersPassEndVerdicts
  DEF StartConflicts, HandlerEnds, Claim
<1>11. ASSUME NEW s \in Session, StartFails(s)
       PROVE  Lifecycle'
  BY <1>11, CallersPassEndVerdicts
  DEF StartFails, HandlerEnds, Claim
<1>12. ASSUME NEW s \in Session, Register(s)
       PROVE  Lifecycle'
  BY <1>12
  DEF Register
<1>13. ASSUME NEW s \in Session, StartLoops(s)
       PROVE  Lifecycle'
  BY <1>13
  DEF StartLoops
<1>14. ASSUME NEW s \in Session, HandlerReturns(s)
       PROVE  Lifecycle'
  BY <1>14
  DEF HandlerReturns
<1>15. ASSUME NEW s \in Session, RejectHandshake(s)
       PROVE  Lifecycle'
  BY <1>15
  DEF RejectHandshake
<1>16. ASSUME NEW s \in Session, Upgrade(s)
       PROVE  Lifecycle'
  BY <1>16
  DEF Upgrade
<1>17. ASSUME NEW s \in Session, OpenSucceeds(s)
       PROVE  Lifecycle'
  BY <1>17
  DEF OpenSucceeds
<1>18. ASSUME NEW s \in Session, OpenFails(s)
       PROVE  Lifecycle'
  BY <1>18, CallersPassEndVerdicts
  DEF OpenFails, HandlerEnds, Claim
<1>19. ASSUME NEW s \in Session, ReadEnds(s)
       PROVE  Lifecycle'
  BY <1>19, CallersPassEndVerdicts
  DEF ReadEnds, HandlerEnds, Claim
<1>20. ASSUME NEW s \in Session, WriterFails(s)
       PROVE  Lifecycle'
  BY <1>20, CallersPassEndVerdicts
  DEF WriterFails, Trigger, Claim
<1>21. ASSUME NEW s \in Session, PingFails(s)
       PROVE  Lifecycle'
  BY <1>21, CallersPassEndVerdicts
  DEF PingFails, Trigger, Claim
<1>22. ASSUME NEW s \in Session, ShellExits(s)
       PROVE  Lifecycle'
  BY <1>22, CallersPassEndVerdicts
  DEF ShellExits, Trigger, Claim
<1>23. ASSUME NEW s \in Session, IdleFires(s)
       PROVE  Lifecycle'
  BY <1>23, CallersPassEndVerdicts
  DEF IdleFires, Trigger, Claim
<1>24. ASSUME NEW s \in Session, RevalidateExhausted(s)
       PROVE  Lifecycle'
  BY <1>24, CallersPassEndVerdicts
  DEF RevalidateExhausted, Trigger, Claim
<1>25. ASSUME NEW s \in Session, NEW reason \in DenyReason, RevalidateDenied(s, reason)
       PROVE  Lifecycle'
  BY <1>25, CallersPassEndVerdicts
  DEF RevalidateDenied, Trigger, Claim
<1>26. ASSUME NEW s \in Session, CloseTransports(s)
       PROVE  Lifecycle'
  BY <1>26
  DEF CloseTransports
<1>27. ASSUME NEW s \in Session, Unregister(s)
       PROVE  Lifecycle'
  BY <1>27
  DEF Unregister
<1>28. ASSUME NEW s \in Session, Release(s)
       PROVE  Lifecycle'
  BY <1>28
  DEF Release
<1>29. ASSUME NEW s \in Session, SendReport(s)
       PROVE  Lifecycle'
  BY <1>29
  DEF SendReport
<1>30. ASSUME NEW s \in Session, ReportReturns(s)
       PROVE  Lifecycle'
  BY <1>30
  DEF ReportReturns
<1>31. ASSUME NEW s \in Session, Terminate(s)
       PROVE  Lifecycle'
  BY <1>31
  DEF Terminate
<1>32. ASSUME NEW s \in Session, ForceRuns(s)
       PROVE  Lifecycle'
  BY <1>32, CallersPassEndVerdicts
  DEF ForceRuns, Trigger, Claim
<1>33. ASSUME NEW s \in Session, ShutdownEnds(s)
       PROVE  Lifecycle'
  BY <1>33, CallersPassEndVerdicts
  DEF ShutdownEnds, Trigger, Claim
<1>34. ASSUME NEW s \in Session, ApiHandlesStart(s)
       PROVE  Lifecycle'
  BY <1>34
  DEF ApiHandlesStart
<1>35. ASSUME NEW s \in Session, ApiHandlesReport(s)
       PROVE  Lifecycle'
  BY <1>35
  DEF ApiHandlesReport
<1>36. ASSUME NEW s \in Session, ApiRetires(s)
       PROVE  Lifecycle'
  BY <1>36
  DEF ApiRetires
<1>37. ASSUME NEW s \in Session, BrowserLeaves(s)
       PROVE  Lifecycle'
  BY <1>37
  DEF BrowserLeaves
<1>38. CASE ShutdownStarts
  BY <1>38
  DEF ShutdownStarts
<1>39. CASE ShutdownReturns
  BY <1>39
  DEF ShutdownReturns
<1>40. CASE Drained
  BY <1>40
  DEF Drained
<1>41. CASE ListenerFails
  BY <1>41
  DEF ListenerFails
<1>42. CASE UNCHANGED vars
  BY <1>42 DEF vars
<1>43. ASSUME NEW s \in Session, CloseStalls(s)
       PROVE  Lifecycle'
  BY <1>43
  DEF CloseStalls
<1>44. ASSUME NEW s \in Session, CloseReturns(s)
       PROVE  Lifecycle'
  BY <1>44
  DEF CloseReturns
<1> QED
  BY <1>1, <1>2, <1>3, <1>4, <1>5, <1>6, <1>7, <1>8, <1>9, <1>10, <1>11,
     <1>12, <1>13, <1>14, <1>15, <1>16, <1>17, <1>18, <1>19, <1>20,
     <1>21, <1>22, <1>23, <1>24, <1>25, <1>26, <1>27, <1>28, <1>29,
     <1>30, <1>31, <1>32, <1>33, <1>34, <1>35, <1>36, <1>37, <1>38,
     <1>39, <1>40, <1>41, <1>42, <1>43, <1>44 DEF Next, Prompt, Unprompted,
     Background, Teardown, RedeemAnswered, ShuttingDown, Environment,
     Exited

-----------------------------------------------------------------------------
(***************************************************************************)
(* Slot accounting.  Only acquire adds a holder and only release removes    *)
(* one, both together with the counter; every other step leaves both alone. *)
(***************************************************************************)
(* The holders can be counted.                                              *)
LEMMA HoldersFinite == IsFiniteSet(Holders) /\ Cardinality(Holders) \in Nat
<1>1. Holders \subseteq Session
  BY DEF Holders
<1> QED  BY <1>1, SessionAssumption, FS_Subset, FS_CardinalityType

(* acquire adds its caller, which held nothing.                             *)
LEMMA AcquireAddsHolder ==
  ASSUME TypeOK, Lifecycle, NEW s \in Session, Acquire(s)
  PROVE  s \notin Holders /\ Holders' = Holders \cup {s} /\ active' = active + 1
BY DEF Acquire, Holders, Lifecycle, EndsLate, Serving, Shelled, TypeOK, GoTo, endVars

(* release removes its caller, which held a slot.                           *)
LEMMA ReleaseRemovesHolder ==
  ASSUME TypeOK, NEW s \in Session, Release(s)
  PROVE  /\ s \in Holders /\ Holders' = Holders \ {s}
         /\ active' = IF active > 0 THEN active - 1 ELSE active
BY DEF Release, Holders, TypeOK, connVars

(* Every other step keeps the holders and the counter.                      *)
LEMMA OthersKeepHolders ==
  ASSUME TypeOK, Lifecycle, [Next]_vars,
       ~ \E s \in Session : Acquire(s) \/ Release(s)
  PROVE  Holders' = Holders /\ active' = active
<1> USE DEF connVars, endVars, poolVars, mainVars, apiVars, GoTo, TypeOK,
            Holders, Serving, Shelled, Lifecycle, EndsLate, NamedServes
<1>1. ASSUME NEW s \in Session, RedeemAllowed(s)
       PROVE  Holders' = Holders /\ active' = active
  BY <1>1
  DEF RedeemAllowed
<1>2. ASSUME NEW s \in Session, NEW reason \in DenyReason, RedeemDenied(s, reason)
       PROVE  Holders' = Holders /\ active' = active
  BY <1>2
  DEF RedeemDenied, CloseWith
<1>3. ASSUME NEW s \in Session, RedeemWithoutHostKeys(s)
       PROVE  Holders' = Holders /\ active' = active
  BY <1>3
  DEF RedeemWithoutHostKeys, CloseWith
<1>4. ASSUME NEW s \in Session, RedeemFails(s)
       PROVE  Holders' = Holders /\ active' = active
  BY <1>4
  DEF RedeemFails, CloseWith
<1>5. ASSUME NEW s \in Session, RefuseAdmission(s)
       PROVE  Holders' = Holders /\ active' = active
  BY <1>5
  DEF RefuseAdmission, CloseWith
<1>6. ASSUME NEW s \in Session, DialSucceeds(s)
       PROVE  Holders' = Holders /\ active' = active
  BY <1>6
  DEF DialSucceeds
<1>7. ASSUME NEW s \in Session, DialFails(s)
       PROVE  Holders' = Holders /\ active' = active
  BY <1>7
  DEF DialFails, HandlerEnds, Claim
<1>8. ASSUME NEW s \in Session, StartAccepted(s)
       PROVE  Holders' = Holders /\ active' = active
  BY <1>8
  DEF StartAccepted
<1>9. ASSUME NEW s \in Session, StartConflicts(s)
       PROVE  Holders' = Holders /\ active' = active
  BY <1>9
  DEF StartConflicts, HandlerEnds, Claim
<1>10. ASSUME NEW s \in Session, StartFails(s)
       PROVE  Holders' = Holders /\ active' = active
  BY <1>10
  DEF StartFails, HandlerEnds, Claim
<1>11. ASSUME NEW s \in Session, Register(s)
       PROVE  Holders' = Holders /\ active' = active
  BY <1>11
  DEF Register
<1>12. ASSUME NEW s \in Session, StartLoops(s)
       PROVE  Holders' = Holders /\ active' = active
  BY <1>12
  DEF StartLoops
<1>13. ASSUME NEW s \in Session, HandlerReturns(s)
       PROVE  Holders' = Holders /\ active' = active
  BY <1>13
  DEF HandlerReturns
<1>14. ASSUME NEW s \in Session, RejectHandshake(s)
       PROVE  Holders' = Holders /\ active' = active
  BY <1>14
  DEF RejectHandshake
<1>15. ASSUME NEW s \in Session, Upgrade(s)
       PROVE  Holders' = Holders /\ active' = active
  BY <1>15
  DEF Upgrade
<1>16. ASSUME NEW s \in Session, OpenSucceeds(s)
       PROVE  Holders' = Holders /\ active' = active
  BY <1>16
  DEF OpenSucceeds
<1>17. ASSUME NEW s \in Session, OpenFails(s)
       PROVE  Holders' = Holders /\ active' = active
  BY <1>17
  DEF OpenFails, HandlerEnds, Claim
<1>18. ASSUME NEW s \in Session, ReadEnds(s)
       PROVE  Holders' = Holders /\ active' = active
  BY <1>18
  DEF ReadEnds, HandlerEnds, Claim
<1>19. ASSUME NEW s \in Session, WriterFails(s)
       PROVE  Holders' = Holders /\ active' = active
  BY <1>19
  DEF WriterFails, Trigger, Claim
<1>20. ASSUME NEW s \in Session, PingFails(s)
       PROVE  Holders' = Holders /\ active' = active
  BY <1>20
  DEF PingFails, Trigger, Claim
<1>21. ASSUME NEW s \in Session, ShellExits(s)
       PROVE  Holders' = Holders /\ active' = active
  BY <1>21
  DEF ShellExits, Trigger, Claim
<1>22. ASSUME NEW s \in Session, IdleFires(s)
       PROVE  Holders' = Holders /\ active' = active
  BY <1>22
  DEF IdleFires, Trigger, Claim
<1>23. ASSUME NEW s \in Session, RevalidateExhausted(s)
       PROVE  Holders' = Holders /\ active' = active
  BY <1>23
  DEF RevalidateExhausted, Trigger, Claim
<1>24. ASSUME NEW s \in Session, NEW reason \in DenyReason, RevalidateDenied(s, reason)
       PROVE  Holders' = Holders /\ active' = active
  BY <1>24
  DEF RevalidateDenied, Trigger, Claim
<1>25. ASSUME NEW s \in Session, CloseTransports(s)
       PROVE  Holders' = Holders /\ active' = active
  BY <1>25
  DEF CloseTransports
<1>26. ASSUME NEW s \in Session, Unregister(s)
       PROVE  Holders' = Holders /\ active' = active
  BY <1>26
  DEF Unregister
<1>27. ASSUME NEW s \in Session, SendReport(s)
       PROVE  Holders' = Holders /\ active' = active
  BY <1>27
  DEF SendReport
<1>28. ASSUME NEW s \in Session, ReportReturns(s)
       PROVE  Holders' = Holders /\ active' = active
  BY <1>28
  DEF ReportReturns
<1>29. ASSUME NEW s \in Session, Terminate(s)
       PROVE  Holders' = Holders /\ active' = active
  BY <1>29
  DEF Terminate
<1>30. ASSUME NEW s \in Session, ForceRuns(s)
       PROVE  Holders' = Holders /\ active' = active
  BY <1>30
  DEF ForceRuns, Trigger, Claim
<1>31. ASSUME NEW s \in Session, ShutdownEnds(s)
       PROVE  Holders' = Holders /\ active' = active
  BY <1>31
  DEF ShutdownEnds, Trigger, Claim
<1>32. ASSUME NEW s \in Session, ApiHandlesStart(s)
       PROVE  Holders' = Holders /\ active' = active
  BY <1>32
  DEF ApiHandlesStart
<1>33. ASSUME NEW s \in Session, ApiHandlesReport(s)
       PROVE  Holders' = Holders /\ active' = active
  BY <1>33
  DEF ApiHandlesReport
<1>34. ASSUME NEW s \in Session, ApiRetires(s)
       PROVE  Holders' = Holders /\ active' = active
  BY <1>34
  DEF ApiRetires
<1>35. ASSUME NEW s \in Session, BrowserLeaves(s)
       PROVE  Holders' = Holders /\ active' = active
  BY <1>35
  DEF BrowserLeaves
<1>36. CASE ShutdownStarts
  BY <1>36
  DEF ShutdownStarts
<1>37. CASE ShutdownReturns
  BY <1>37
  DEF ShutdownReturns
<1>38. CASE Drained
  BY <1>38
  DEF Drained
<1>39. CASE ListenerFails
  BY <1>39
  DEF ListenerFails
<1>40. CASE UNCHANGED vars
  BY <1>40 DEF vars
<1>41. ASSUME NEW s \in Session, CloseStalls(s)
       PROVE  Holders' = Holders /\ active' = active
  BY <1>41
  DEF CloseStalls
<1>42. ASSUME NEW s \in Session, CloseReturns(s)
       PROVE  Holders' = Holders /\ active' = active
  BY <1>42
  DEF CloseReturns
<1> QED
  BY <1>1, <1>2, <1>3, <1>4, <1>5, <1>6, <1>7, <1>8, <1>9, <1>10, <1>11,
     <1>12, <1>13, <1>14, <1>15, <1>16, <1>17, <1>18, <1>19, <1>20,
     <1>21, <1>22, <1>23, <1>24, <1>25, <1>26, <1>27, <1>28, <1>29,
     <1>30, <1>31, <1>32, <1>33, <1>34, <1>35, <1>36, <1>37, <1>38,
     <1>39, <1>40, <1>41, <1>42 DEF Next, Prompt, Unprompted, Background, Teardown,
     RedeemAnswered, ShuttingDown, Environment, Exited

(* The count follows the set.                                               *)
LEMMA AccountingStep ==
  TypeOK /\ Lifecycle /\ SlotAccounting /\ [Next]_vars => SlotAccounting'
<1> SUFFICES ASSUME TypeOK, Lifecycle, SlotAccounting, [Next]_vars
             PROVE  SlotAccounting'
  OBVIOUS
<1>1. ASSUME NEW s \in Session, Acquire(s)
      PROVE  SlotAccounting'
  <2>1. s \notin Holders /\ Holders' = Holders \cup {s} /\ active' = active + 1
    BY <1>1, AcquireAddsHolder
  <2>2. Cardinality(Holders \cup {s}) = Cardinality(Holders) + 1
    BY <2>1, HoldersFinite, FS_AddElement
  <2> QED  BY <2>1, <2>2 DEF SlotAccounting
<1>2. ASSUME NEW s \in Session, Release(s)
      PROVE  SlotAccounting'
  <2>1. /\ s \in Holders /\ Holders' = Holders \ {s}
        /\ active' = IF active > 0 THEN active - 1 ELSE active
    BY <1>2, ReleaseRemovesHolder
  <2>2. Cardinality(Holders \ {s}) = Cardinality(Holders) - 1
    BY <2>1, HoldersFinite, FS_RemoveElement
  <2>3. Cardinality(Holders) > 0
    <3>1. Cardinality(Holders) # 0
      BY <2>1, HoldersFinite, FS_EmptySet
    <3> QED  BY <3>1, HoldersFinite
  <2> QED  BY <2>1, <2>2, <2>3 DEF SlotAccounting
<1>3. CASE ~ \E s \in Session : Acquire(s) \/ Release(s)
  <2>1. Holders' = Holders /\ active' = active
    BY <1>3, OthersKeepHolders
  <2> QED  BY <2>1 DEF SlotAccounting
<1> QED  BY <1>1, <1>2, <1>3

(* Nothing is held at first.                                                *)
LEMMA AccountingInit == Init => SlotAccounting
<1> SUFFICES ASSUME Init PROVE SlotAccounting
  OBVIOUS
<1>1. Holders = {}
  BY DEF Init, Holders, Serving
<1> QED  BY <1>1, FS_EmptySet DEF Init, SlotAccounting

(* The whole inductive invariant.                                           *)
Inv == TypeOK /\ Lifecycle /\ SlotAccounting

(* In every reachable state the three parts hold together.                  *)
THEOREM Invariant == Spec => []Inv
<1>1. Init /\ TypeOK => Inv
  BY LifecycleInit, AccountingInit DEF Inv
<1>2. Inv /\ TypeOK' /\ [Next]_vars => Inv'
  BY LifecycleStep, AccountingStep DEF Inv
<1> QED  BY <1>1, <1>2, TypeCorrect, PTL DEF Spec

-----------------------------------------------------------------------------
(* acquire and release balance: the counter is the number of sessions       *)
(* between the two, for every number of sessions and every cap.             *)
THEOREM SlotsAreAccounted == Spec => []SlotAccounting
<1>1. Inv => SlotAccounting
  BY DEF Inv
<1> QED  BY <1>1, Invariant, PTL

(* The cap bounds the SSH connections into VMs, because each belongs to a   *)
(* session that still holds its slot.                                       *)
THEOREM UpstreamsAreCapped == Spec => []UpstreamCap
<1>1. Inv => UpstreamCap
  <2> SUFFICES ASSUME Inv PROVE UpstreamCap
    OBVIOUS
  <2>1. Upstreams \subseteq Holders
    BY DEF Inv, Lifecycle, UpstreamHeld, Upstreams, Holders
  <2>2. Cardinality(Upstreams) \in Nat /\ Cardinality(Upstreams) <= Cardinality(Holders)
    BY <2>1, HoldersFinite, FS_Subset, FS_CardinalityType
  <2>3. Cardinality(Holders) <= MaxSessions
    BY CapAssumption DEF Inv, SlotAccounting, TypeOK
  <2> QED  BY <2>2, <2>3, HoldersFinite, CapAssumption DEF UpstreamCap
<1> QED  BY <1>1, Invariant, PTL

(* No SSH connection outlives the teardown of its session.                  *)
THEOREM UpstreamsAreClosed == Spec => []NoUpstreamOutlivesEnd
<1>1. Inv => NoUpstreamOutlivesEnd
  BY DEF Inv, TypeOK, OnceAt, Lifecycle, UpstreamHeld, NoUpstreamOutlivesEnd
<1> QED  BY <1>1, Invariant, PTL

(* Input reaches the VM only for a session on the audit books of the api;   *)
(* output reaches the browser off them only while the session-start is out  *)
(* or the handler is ending the session.                                    *)
THEOREM RelaysAreAudited == Spec => []RelayIsAudited
<1>1. ASSUME Inv, NEW s \in Session, handler[s] = "reading"
      PROVE  Booked(s)
  BY <1>1 DEF Inv, Lifecycle, StartBooks
<1>2. ASSUME Inv, NEW s \in Session, Showing(s), ~Booked(s)
      PROVE  \/ handler[s] = "starting"
             \/ handler[s] = "ending" /\ once[s] = "closing"
  <2>1. handler[s] \in {"starting", "ending", "gone"}
    BY <1>2 DEF Inv, Lifecycle, StartBooks, TypeOK, HandlerAt, Showing
  <2>2. handler[s] # "gone"
    BY <1>2 DEF Inv, Lifecycle, EndsLate, UpstreamHeld, Serving, Showing
  <2>3. handler[s] = "ending" => once[s] = "closing"
    BY <1>2 DEF Inv, Lifecycle, EndsLate, Showing
  <2> QED  BY <2>1, <2>2, <2>3
<1>3. Inv => RelayIsAudited
  BY <1>1, <1>2 DEF RelayIsAudited
<1> QED  BY <1>3, Invariant, PTL

(* A refused connection is never registered, dialled or reported.           *)
THEOREM RefusedAreUnseen == Spec => []RefusedIsUnseen
<1>1. Inv => RefusedIsUnseen
  <2> SUFFICES ASSUME Inv, NEW s \in Session, verdict[s].reason = "UNREPORTED"
               PROVE  /\ s \notin sessions
                      /\ start[s] = "none" /\ report[s] = "none"
                      /\ ssh[s] = "none"
    BY DEF RefusedIsUnseen
  <2>1. once[s] = "free" /\ verdict[s] # NoVerdict
    BY EndVerdictsReport DEF Inv, Lifecycle, VerdictFits, NoVerdict, Verdict
  <2> QED  BY <2>1 DEF Inv, Lifecycle, VerdictFits, NamedServes
<1> QED  BY <1>1, Invariant, PTL

-----------------------------------------------------------------------------
(***************************************************************************)
(* The first caller wins.  A verdict is written by closeWith, on a          *)
(* connection that has none, and at the claim of a free Once, whose         *)
(* claimant always is a serving session without a verdict.                  *)
(***************************************************************************)
VerdictsKept == \A s \in Session : verdict[s] # NoVerdict => verdict'[s] = verdict[s]

(* No action replaces a verdict.                                            *)
LEMMA VerdictStep == Inv /\ [Next]_vars => VerdictsKept
<1> SUFFICES ASSUME Inv, [Next]_vars PROVE VerdictsKept
  OBVIOUS
<1> USE DEF connVars, endVars, poolVars, mainVars, apiVars, GoTo, TypeOK, Inv,
            Lifecycle, EndsLate, NamedServes, VerdictFits, Shelled, VerdictsKept
<1>1. ASSUME NEW s \in Session, RedeemAllowed(s)
       PROVE  VerdictsKept
  BY <1>1
  DEF RedeemAllowed
<1>2. ASSUME NEW s \in Session, NEW reason \in DenyReason, RedeemDenied(s, reason)
       PROVE  VerdictsKept
  BY <1>2
  DEF RedeemDenied, CloseWith
<1>3. ASSUME NEW s \in Session, RedeemWithoutHostKeys(s)
       PROVE  VerdictsKept
  BY <1>3
  DEF RedeemWithoutHostKeys, CloseWith
<1>4. ASSUME NEW s \in Session, RedeemFails(s)
       PROVE  VerdictsKept
  BY <1>4
  DEF RedeemFails, CloseWith
<1>5. ASSUME NEW s \in Session, Acquire(s)
       PROVE  VerdictsKept
  BY <1>5
  DEF Acquire, CanAcquire
<1>6. ASSUME NEW s \in Session, RefuseAdmission(s)
       PROVE  VerdictsKept
  BY <1>6
  DEF RefuseAdmission, CloseWith
<1>7. ASSUME NEW s \in Session, DialSucceeds(s)
       PROVE  VerdictsKept
  BY <1>7
  DEF DialSucceeds
<1>8. ASSUME NEW s \in Session, DialFails(s)
       PROVE  VerdictsKept
  BY <1>8
  DEF DialFails, HandlerEnds, Claim
<1>9. ASSUME NEW s \in Session, StartAccepted(s)
       PROVE  VerdictsKept
  BY <1>9
  DEF StartAccepted
<1>10. ASSUME NEW s \in Session, StartConflicts(s)
       PROVE  VerdictsKept
  BY <1>10
  DEF StartConflicts, HandlerEnds, Claim
<1>11. ASSUME NEW s \in Session, StartFails(s)
       PROVE  VerdictsKept
  BY <1>11
  DEF StartFails, HandlerEnds, Claim
<1>12. ASSUME NEW s \in Session, Register(s)
       PROVE  VerdictsKept
  BY <1>12
  DEF Register
<1>13. ASSUME NEW s \in Session, StartLoops(s)
       PROVE  VerdictsKept
  BY <1>13
  DEF StartLoops
<1>14. ASSUME NEW s \in Session, HandlerReturns(s)
       PROVE  VerdictsKept
  BY <1>14
  DEF HandlerReturns
<1>15. ASSUME NEW s \in Session, RejectHandshake(s)
       PROVE  VerdictsKept
  BY <1>15
  DEF RejectHandshake
<1>16. ASSUME NEW s \in Session, Upgrade(s)
       PROVE  VerdictsKept
  BY <1>16
  DEF Upgrade
<1>17. ASSUME NEW s \in Session, OpenSucceeds(s)
       PROVE  VerdictsKept
  BY <1>17
  DEF OpenSucceeds
<1>18. ASSUME NEW s \in Session, OpenFails(s)
       PROVE  VerdictsKept
  BY <1>18
  DEF OpenFails, HandlerEnds, Claim
<1>19. ASSUME NEW s \in Session, ReadEnds(s)
       PROVE  VerdictsKept
  BY <1>19
  DEF ReadEnds, HandlerEnds, Claim
<1>20. ASSUME NEW s \in Session, WriterFails(s)
       PROVE  VerdictsKept
  BY <1>20
  DEF WriterFails, Trigger, Claim
<1>21. ASSUME NEW s \in Session, PingFails(s)
       PROVE  VerdictsKept
  BY <1>21
  DEF PingFails, Trigger, Claim
<1>22. ASSUME NEW s \in Session, ShellExits(s)
       PROVE  VerdictsKept
  BY <1>22
  DEF ShellExits, Trigger, Claim
<1>23. ASSUME NEW s \in Session, IdleFires(s)
       PROVE  VerdictsKept
  BY <1>23
  DEF IdleFires, Trigger, Claim
<1>24. ASSUME NEW s \in Session, RevalidateExhausted(s)
       PROVE  VerdictsKept
  BY <1>24
  DEF RevalidateExhausted, Trigger, Claim
<1>25. ASSUME NEW s \in Session, NEW reason \in DenyReason, RevalidateDenied(s, reason)
       PROVE  VerdictsKept
  BY <1>25
  DEF RevalidateDenied, Trigger, Claim
<1>26. ASSUME NEW s \in Session, CloseTransports(s)
       PROVE  VerdictsKept
  BY <1>26
  DEF CloseTransports
<1>27. ASSUME NEW s \in Session, Unregister(s)
       PROVE  VerdictsKept
  BY <1>27
  DEF Unregister
<1>28. ASSUME NEW s \in Session, Release(s)
       PROVE  VerdictsKept
  BY <1>28
  DEF Release
<1>29. ASSUME NEW s \in Session, SendReport(s)
       PROVE  VerdictsKept
  BY <1>29
  DEF SendReport
<1>30. ASSUME NEW s \in Session, ReportReturns(s)
       PROVE  VerdictsKept
  BY <1>30
  DEF ReportReturns
<1>31. ASSUME NEW s \in Session, Terminate(s)
       PROVE  VerdictsKept
  BY <1>31
  DEF Terminate
<1>32. ASSUME NEW s \in Session, ForceRuns(s)
       PROVE  VerdictsKept
  BY <1>32
  DEF ForceRuns, Trigger, Claim
<1>33. ASSUME NEW s \in Session, ShutdownEnds(s)
       PROVE  VerdictsKept
  BY <1>33
  DEF ShutdownEnds, Trigger, Claim
<1>34. ASSUME NEW s \in Session, ApiHandlesStart(s)
       PROVE  VerdictsKept
  BY <1>34
  DEF ApiHandlesStart
<1>35. ASSUME NEW s \in Session, ApiHandlesReport(s)
       PROVE  VerdictsKept
  BY <1>35
  DEF ApiHandlesReport
<1>36. ASSUME NEW s \in Session, ApiRetires(s)
       PROVE  VerdictsKept
  BY <1>36
  DEF ApiRetires
<1>37. ASSUME NEW s \in Session, BrowserLeaves(s)
       PROVE  VerdictsKept
  BY <1>37
  DEF BrowserLeaves
<1>38. CASE ShutdownStarts
  BY <1>38
  DEF ShutdownStarts
<1>39. CASE ShutdownReturns
  BY <1>39
  DEF ShutdownReturns
<1>40. CASE Drained
  BY <1>40
  DEF Drained
<1>41. CASE ListenerFails
  BY <1>41
  DEF ListenerFails
<1>42. CASE UNCHANGED vars
  BY <1>42 DEF vars
<1>43. ASSUME NEW s \in Session, CloseStalls(s)
       PROVE  VerdictsKept
  BY <1>43
  DEF CloseStalls
<1>44. ASSUME NEW s \in Session, CloseReturns(s)
       PROVE  VerdictsKept
  BY <1>44
  DEF CloseReturns
<1> QED
  BY <1>1, <1>2, <1>3, <1>4, <1>5, <1>6, <1>7, <1>8, <1>9, <1>10, <1>11,
     <1>12, <1>13, <1>14, <1>15, <1>16, <1>17, <1>18, <1>19, <1>20,
     <1>21, <1>22, <1>23, <1>24, <1>25, <1>26, <1>27, <1>28, <1>29,
     <1>30, <1>31, <1>32, <1>33, <1>34, <1>35, <1>36, <1>37, <1>38,
     <1>39, <1>40, <1>41, <1>42, <1>43, <1>44 DEF Next, Prompt, Unprompted,
     Background, Teardown, RedeemAnswered, ShuttingDown, Environment,
     Exited

(* A session has one verdict, the one of the first caller of end.           *)
THEOREM FirstVerdictWins == Spec => VerdictIsFinal
<1>1. Inv /\ [Next]_vars => VerdictsKept
  BY VerdictStep
<1> QED  BY <1>1, Invariant, PTL DEF Spec, VerdictIsFinal, VerdictsKept

-----------------------------------------------------------------------------
(***************************************************************************)
(* What a finished session leaves behind.  A session can only be in the map *)
(* after its own unregister, or started at the api after its own report, if *)
(* end ran before register or before the session-start was handled; there   *)
(* the handler itself and the writer are the only callers of end, and the   *)
(* verdict of both is SSHFailure.                                           *)
(***************************************************************************)

(* Where an end claimed in set-up can have left traces: in the map, in a    *)
(* handler on its way to register, in a session-start still unanswered, in  *)
(* an end report the api handled before the start.                          *)
LeftBySetup(s) ==
  /\ s \in sessions /\ once[s] \in {"unregistered", "released", "reporting", "done"}
       => verdict[s] = SSHFailure
  /\ once[s] # "free" /\ handler[s] \in {"starting", "registering"}
       => verdict[s] = SSHFailure
  /\ start[s] = "sent" => IF once[s] = "free" THEN handler[s] = "starting"
                                              ELSE verdict[s] = SSHFailure
  /\ once[s] \in {"reporting", "done"} => report[s] # "none"
  /\ report[s] = "handled" /\ registry[s] \in {"started", "terminated"}
       => verdict[s] = SSHFailure

Remains == \A s \in Session : LeftBySetup(s)

(* At first there is nothing to leave.                                      *)
LEMMA RemainsInit == Init => Remains
BY DEF Init, Remains, LeftBySetup

(* Every action keeps it; the force-terminates, Shutdown and the loops find *)
(* a session past register, whose start was answered (NamedServes).         *)
LEMMA RemainsStep == Inv /\ Remains /\ [Next]_vars => Remains'
<1> SUFFICES ASSUME Inv, Remains, [Next]_vars PROVE Remains'
  OBVIOUS
<1> USE DEF connVars, endVars, poolVars, mainVars, apiVars, GoTo, TypeOK, Inv,
            Lifecycle, EndsLate, NamedServes, StartBooks, Shelled, OnceAt,
            Remains, LeftBySetup
<1>1. ASSUME NEW s \in Session, RedeemAllowed(s)
       PROVE  Remains'
  BY <1>1
  DEF RedeemAllowed
<1>2. ASSUME NEW s \in Session, NEW reason \in DenyReason, RedeemDenied(s, reason)
       PROVE  Remains'
  BY <1>2
  DEF RedeemDenied, CloseWith
<1>3. ASSUME NEW s \in Session, RedeemWithoutHostKeys(s)
       PROVE  Remains'
  BY <1>3
  DEF RedeemWithoutHostKeys, CloseWith
<1>4. ASSUME NEW s \in Session, RedeemFails(s)
       PROVE  Remains'
  BY <1>4
  DEF RedeemFails, CloseWith
<1>5. ASSUME NEW s \in Session, Acquire(s)
       PROVE  Remains'
  BY <1>5
  DEF Acquire, CanAcquire
<1>6. ASSUME NEW s \in Session, RefuseAdmission(s)
       PROVE  Remains'
  BY <1>6
  DEF RefuseAdmission, CloseWith
<1>7. ASSUME NEW s \in Session, DialSucceeds(s)
       PROVE  Remains'
  BY <1>7
  DEF DialSucceeds
<1>8. ASSUME NEW s \in Session, DialFails(s)
       PROVE  Remains'
  BY <1>8
  DEF DialFails, HandlerEnds, Claim
<1>9. ASSUME NEW s \in Session, StartAccepted(s)
       PROVE  Remains'
  BY <1>9
  DEF StartAccepted
<1>10. ASSUME NEW s \in Session, StartConflicts(s)
       PROVE  Remains'
  BY <1>10
  DEF StartConflicts, HandlerEnds, Claim
<1>11. ASSUME NEW s \in Session, StartFails(s)
       PROVE  Remains'
  BY <1>11
  DEF StartFails, HandlerEnds, Claim, SSHFailure
<1>12. ASSUME NEW s \in Session, Register(s)
       PROVE  Remains'
  BY <1>12
  DEF Register
<1>13. ASSUME NEW s \in Session, StartLoops(s)
       PROVE  Remains'
  BY <1>13
  DEF StartLoops
<1>14. ASSUME NEW s \in Session, HandlerReturns(s)
       PROVE  Remains'
  BY <1>14
  DEF HandlerReturns
<1>15. ASSUME NEW s \in Session, RejectHandshake(s)
       PROVE  Remains'
  BY <1>15
  DEF RejectHandshake
<1>16. ASSUME NEW s \in Session, Upgrade(s)
       PROVE  Remains'
  BY <1>16
  DEF Upgrade
<1>17. ASSUME NEW s \in Session, OpenSucceeds(s)
       PROVE  Remains'
  BY <1>17
  DEF OpenSucceeds
<1>18. ASSUME NEW s \in Session, OpenFails(s)
       PROVE  Remains'
  BY <1>18
  DEF OpenFails, HandlerEnds, Claim
<1>19. ASSUME NEW s \in Session, ReadEnds(s)
       PROVE  Remains'
  BY <1>19
  DEF ReadEnds, HandlerEnds, Claim
<1>20. ASSUME NEW s \in Session, WriterFails(s)
       PROVE  Remains'
  BY <1>20
  DEF WriterFails, Trigger, Claim, SSHFailure
<1>21. ASSUME NEW s \in Session, PingFails(s)
       PROVE  Remains'
  BY <1>21
  DEF PingFails, Trigger, Claim
<1>22. ASSUME NEW s \in Session, ShellExits(s)
       PROVE  Remains'
  BY <1>22
  DEF ShellExits, Trigger, Claim
<1>23. ASSUME NEW s \in Session, IdleFires(s)
       PROVE  Remains'
  BY <1>23
  DEF IdleFires, Trigger, Claim
<1>24. ASSUME NEW s \in Session, RevalidateExhausted(s)
       PROVE  Remains'
  BY <1>24
  DEF RevalidateExhausted, Trigger, Claim
<1>25. ASSUME NEW s \in Session, NEW reason \in DenyReason, RevalidateDenied(s, reason)
       PROVE  Remains'
  BY <1>25
  DEF RevalidateDenied, Trigger, Claim
<1>26. ASSUME NEW s \in Session, CloseTransports(s)
       PROVE  Remains'
  BY <1>26
  DEF CloseTransports
<1>27. ASSUME NEW s \in Session, Unregister(s)
       PROVE  Remains'
  BY <1>27
  DEF Unregister
<1>28. ASSUME NEW s \in Session, Release(s)
       PROVE  Remains'
  BY <1>28
  DEF Release
<1>29. ASSUME NEW s \in Session, SendReport(s)
       PROVE  Remains'
  BY <1>29
  DEF SendReport
<1>30. ASSUME NEW s \in Session, ReportReturns(s)
       PROVE  Remains'
  BY <1>30
  DEF ReportReturns
<1>31. ASSUME NEW s \in Session, Terminate(s)
       PROVE  Remains'
  BY <1>31
  DEF Terminate
<1>32. ASSUME NEW s \in Session, ForceRuns(s)
       PROVE  Remains'
  BY <1>32
  DEF ForceRuns, Trigger, Claim
<1>33. ASSUME NEW s \in Session, ShutdownEnds(s)
       PROVE  Remains'
  BY <1>33
  DEF ShutdownEnds, Trigger, Claim
<1>34. ASSUME NEW s \in Session, ApiHandlesStart(s)
       PROVE  Remains'
  BY <1>34
  DEF ApiHandlesStart
<1>35. ASSUME NEW s \in Session, ApiHandlesReport(s)
       PROVE  Remains'
  BY <1>35
  DEF ApiHandlesReport
<1>36. ASSUME NEW s \in Session, ApiRetires(s)
       PROVE  Remains'
  BY <1>36
  DEF ApiRetires
<1>37. ASSUME NEW s \in Session, BrowserLeaves(s)
       PROVE  Remains'
  BY <1>37
  DEF BrowserLeaves
<1>38. CASE ShutdownStarts
  BY <1>38
  DEF ShutdownStarts
<1>39. CASE ShutdownReturns
  BY <1>39
  DEF ShutdownReturns
<1>40. CASE Drained
  BY <1>40
  DEF Drained
<1>41. CASE ListenerFails
  BY <1>41
  DEF ListenerFails
<1>42. CASE UNCHANGED vars
  BY <1>42 DEF vars
<1>43. ASSUME NEW s \in Session, CloseStalls(s)
       PROVE  Remains'
  BY <1>43
  DEF CloseStalls
<1>44. ASSUME NEW s \in Session, CloseReturns(s)
       PROVE  Remains'
  BY <1>44
  DEF CloseReturns
<1> QED
  BY <1>1, <1>2, <1>3, <1>4, <1>5, <1>6, <1>7, <1>8, <1>9, <1>10, <1>11,
     <1>12, <1>13, <1>14, <1>15, <1>16, <1>17, <1>18, <1>19, <1>20,
     <1>21, <1>22, <1>23, <1>24, <1>25, <1>26, <1>27, <1>28, <1>29,
     <1>30, <1>31, <1>32, <1>33, <1>34, <1>35, <1>36, <1>37, <1>38,
     <1>39, <1>40, <1>41, <1>42, <1>43, <1>44 DEF Next, Prompt, Unprompted,
     Background, Teardown, RedeemAnswered, ShuttingDown, Environment,
     Exited

(* Only a session ended by an SSH failure stays in the map or, though its   *)
(* end report was handled, on the books of the api.                         *)
THEOREM OnlyFailuresRemain == Spec => []OnlyFailuresLinger
<1>1. Init => Remains
  BY RemainsInit
<1>2. Inv /\ Remains /\ [Next]_vars => Remains'
  BY RemainsStep
<1>3. Inv /\ Remains => OnlyFailuresLinger
  BY DEF Inv, TypeOK, OnceAt, ReportAt, Remains, LeftBySetup, OnlyFailuresLinger
<1> QED  BY <1>1, <1>2, <1>3, Invariant, PTL DEF Spec

(* Shutdown settles the whole snapshot, whoever ran the teardowns.          *)
THEOREM ShutdownSettles == Spec => []SnapshotSettled
<1>1. Init => Remains
  BY RemainsInit
<1>2. Inv /\ Remains /\ [Next]_vars => Remains'
  BY RemainsStep
<1>3. Inv /\ Remains => SnapshotSettled
  <2> SUFFICES ASSUME Inv, Remains, main = "draining", NEW s \in live
               PROVE  /\ s \notin Holders /\ s \notin Upstreams
                      /\ verdict[s] \in EndVerdict
                      /\ report[s] # "none"
                      /\ verdict[s] # SSHFailure => s \notin sessions
    BY DEF SnapshotSettled
  <2>1. s \in Session /\ once[s] = "done"
    BY DEF Inv, TypeOK, Lifecycle, ShutdownWaits
  <2>2. s \notin Holders /\ s \notin Upstreams
    BY <2>1 DEF Holders, Upstreams, Inv, Lifecycle, UpstreamHeld
  <2>3. verdict[s] \in EndVerdict
    BY <2>1 DEF Inv, Lifecycle, VerdictFits
  <2>4. report[s] # "none" /\ (verdict[s] # SSHFailure => s \notin sessions)
    BY <2>1 DEF Remains, LeftBySetup
  <2> QED  BY <2>2, <2>3, <2>4
<1> QED  BY <1>1, <1>2, <1>3, Invariant, PTL DEF Spec

-----------------------------------------------------------------------------
(***************************************************************************)
(* The safety half of ShutdownCompletes.  A teardown goes through its       *)
(* stages in their order and never back, a stage waits for nothing but the  *)
(* one before it (the guards of Teardown) or, in sshSession.Close, for the  *)
(* VM, and the snapshot stays as it was taken: Shutdown waits for a number  *)
(* of steps that only falls.  That fair goroutines take them is what TLC    *)
(* checks and no theorem states.                                            *)
(***************************************************************************)
(* The stages of end's body, in the order of the code; only the closes may  *)
(* stall.                                                                   *)
NextStages ==
  [free |-> {"closing"}, closing |-> {"stalled", "closed"}, stalled |-> {"closed"},
   closed |-> {"unregistered"}, unregistered |-> {"released"},
   released |-> {"reporting"}, reporting |-> {"done"}]

TeardownAdvances ==
  /\ \A s \in Session : once'[s] # once[s] =>
       once[s] # "done" /\ once'[s] \in NextStages[once[s]]
  /\ main # "serving" => live' = live /\ main' # "serving"

(* Of the session s nothing but its Once moves, by one stage or not at all. *)
OneAdvances(s) ==
  \/ once' = once
  \/ /\ once[s] # "done"
     /\ \E stage \in NextStages[once[s]] : once' = [once EXCEPT ![s] = stage]

(* A claim is the first stage.                                              *)
LEMMA ClaimAdvances ==
  ASSUME NEW s \in Session, NEW v, Claim(s, v)
  PROVE  OneAdvances(s)
<1>1. once[s] = "free" /\ once' = [once EXCEPT ![s] = "closing"]
  BY DEF Claim
<1>2. "closing" \in NextStages[once[s]]
  BY <1>1 DEF NextStages
<1> QED  BY <1>1, <1>2 DEF OneAdvances

(* The body of the Once runs the others.                                    *)
LEMMA BodyAdvances ==
  ASSUME NEW s \in Session, Teardown(s) \/ CloseReturns(s)
  PROVE  OneAdvances(s)
BY DEF OneAdvances, Teardown, CloseTransports, CloseStalls, CloseReturns, Unregister,
       Release, SendReport, ReportReturns, NextStages

(* Every step advances one teardown by one stage or none.                   *)
LEMMA AdvanceStep == TypeOK /\ [Next]_vars => TeardownAdvances
<1> SUFFICES ASSUME TypeOK, [Next]_vars PROVE TeardownAdvances
  OBVIOUS
<1> USE DEF connVars, endVars, poolVars, mainVars, apiVars
<1>1. ASSUME NEW s \in Session, Prompt(s)
      PROVE  OneAdvances(s) /\ UNCHANGED mainVars
  BY <1>1, ClaimAdvances
  DEF OneAdvances, Prompt, RedeemAnswered, RedeemAllowed, RedeemDenied, RedeemWithoutHostKeys,
      RedeemFails, CloseWith, Acquire, RefuseAdmission, DialSucceeds, DialFails, StartAccepted,
      StartConflicts, StartFails, HandlerEnds, Register, StartLoops, HandlerReturns
<1>2. ASSUME NEW s \in Session, Unprompted(s)
      PROVE  OneAdvances(s) /\ UNCHANGED mainVars
  BY <1>2, ClaimAdvances, BodyAdvances
  DEF OneAdvances, Unprompted, RejectHandshake, Upgrade, OpenSucceeds, OpenFails, ReadEnds,
      HandlerEnds, CloseReturns
<1>3. ASSUME NEW s \in Session, Background(s) \/ ForceRuns(s) \/ ShutdownEnds(s)
      PROVE  OneAdvances(s) /\ UNCHANGED mainVars
  BY <1>3, ClaimAdvances
  DEF Background, WriterFails, PingFails, ShellExits, IdleFires, RevalidateExhausted,
      RevalidateDenied, ForceRuns, ShutdownEnds, Trigger
<1>4. ASSUME NEW s \in Session, Teardown(s)
      PROVE  OneAdvances(s) /\ UNCHANGED mainVars
  BY <1>4, BodyAdvances
  DEF Teardown, CloseTransports, CloseStalls, Unregister, Release, SendReport,
      ReportReturns
<1>5. ASSUME NEW s \in Session, Terminate(s) \/ Environment(s)
      PROVE  OneAdvances(s) /\ UNCHANGED mainVars
  BY <1>5
  DEF OneAdvances, Terminate, Environment, ApiHandlesStart, ApiHandlesReport, ApiRetires,
      BrowserLeaves
<1>6. ASSUME NEW s \in Session, OneAdvances(s), UNCHANGED mainVars
      PROVE  TeardownAdvances
  BY <1>6 DEF OneAdvances, TeardownAdvances, TypeOK
<1>7. CASE ShutdownStarts \/ ShuttingDown \/ ListenerFails \/ UNCHANGED vars
  BY <1>7
  DEF ShutdownStarts, ShuttingDown, ShutdownReturns, Drained, ListenerFails, vars,
      TeardownAdvances
<1> QED
  BY <1>1, <1>2, <1>3, <1>4, <1>5, <1>6, <1>7 DEF Next, Exited

(* Teardowns run forward only, and Shutdown waits for a fixed set of them.  *)
THEOREM TeardownsAdvance == Spec => [][TeardownAdvances]_vars
<1>1. TypeOK /\ [Next]_vars => TeardownAdvances
  BY AdvanceStep
<1> QED  BY <1>1, TypeCorrect, PTL DEF Spec

=============================================================================
