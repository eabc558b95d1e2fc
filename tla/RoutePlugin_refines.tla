-------------------------- MODULE RoutePlugin_refines --------------------------
(***************************************************************************)
(* The route plugin, its store and sshpiperd implement LoginContract, for   *)
(* any number of connections, keys and host keys and any TTL.               *)
(***************************************************************************)
EXTENDS RoutePlugin_proofs

(* A host key is accepted for one attempt, and exactly one for a login.     *)
Attempt(c) ==
  /\ place[c] \in {"new", "auth", "resolving", "dialing"} => seen[c].accepted = {}
  /\ place[c] \in {"verified", "piped"} => \E h \in HostKey : seen[c].accepted = {h}

Attempts == \A c \in Conn : Attempt(c)

(* What the contract sees of a connection.                                  *)
Unchanged(c) ==
  /\ LoginOf(c)' = LoginOf(c) /\ EnteredOf(c)' = EnteredOf(c)
  /\ seen'[c].barred = seen[c].barred
  /\ seen'[c].granted = seen[c].granted /\ seen'[c].named = seen[c].named

LEMMA AttemptStep ==
  ASSUME TypeOK, Attempts, NEW c \in Conn, Sshpiperd(c) \/ Callback(c)
  PROVE  Attempt(c)'
<1> USE DEF Attempts, Attempt, GoTo, TypeOK
<1>1. CASE Connect(c)
  BY <1>1 DEF Connect
<1>2. CASE UpstreamFails(c)
  BY <1>2 DEF UpstreamFails
<1>3. CASE Disconnect(c)
  BY <1>3 DEF Disconnect
<1>4. ASSUME NEW k \in Key, CachedKey(c, k) PROVE Attempt(c)'
  BY <1>4 DEF CachedKey
<1>5. ASSUME NEW k \in Key, NEW signed \in BOOLEAN, KeyRemembered(c, k, signed)
      PROVE  Attempt(c)'
  BY <1>5 DEF KeyRemembered, RouteAllowed
<1>6. ASSUME NEW k \in Key, NEW signed \in BOOLEAN, KeyAsked(c, k, signed)
      PROVE  Attempt(c)'
  BY <1>6 DEF KeyAsked
<1>7. CASE PasswordAsked(c)
  BY <1>7 DEF PasswordAsked
<1>8. ASSUME NEW keys \in SUBSET HostKey, ResolveAllows(c, keys) PROVE Attempt(c)'
  BY <1>8 DEF ResolveAllows, RouteAllowed
<1>9. CASE ResolveDenies(c)
  BY <1>9 DEF ResolveDenies
<1>10. CASE ResolveFails(c)
  BY <1>10 DEF ResolveFails
<1>11. ASSUME NEW h \in HostKey, HostKeyVerified(c, h) PROVE Attempt(c)'
  BY <1>11 DEF HostKeyVerified
<1>12. ASSUME NEW h \in HostKey, HostKeyRefused(c, h) PROVE Attempt(c)'
  BY <1>12 DEF HostKeyRefused
<1>13. CASE PipeStart(c)
  BY <1>13 DEF PipeStart
<1> QED
  BY <1>1, <1>2, <1>3, <1>4, <1>5, <1>6, <1>7, <1>8, <1>9, <1>10, <1>11, <1>12, <1>13
     DEF Sshpiperd, Callback

LEMMA AttemptsInvariant == Spec => [](Inv /\ Attempts)
<1>1. Init => Attempts
  BY DEF Init, Attempts, Attempt, Unseen
<1>2. Inv /\ Attempts /\ [Next]_vars => Attempts'
  <2> SUFFICES ASSUME Inv, Attempts, [Next]_vars PROVE Attempts'
    OBVIOUS
  <2> USE DEF Attempts, Attempt
  <2>1. ASSUME NEW c \in Conn, Sshpiperd(c) \/ Callback(c)
        PROVE  Attempts'
    BY <2>1, AttemptStep, OthersStay DEF Inv, Same
  <2>2. ASSUME NEW k \in Key, Revoke(k) PROVE Attempts'
    BY <2>2 DEF Revoke
  <2>3. CASE Tick
    BY <2>3 DEF Tick
  <2>4. CASE UNCHANGED vars
    BY <2>4 DEF vars
  <2> QED BY <2>1, <2>2, <2>3, <2>4 DEF Next
<1> QED BY <1>1, <1>2, Invariant, PTL DEF Spec

-----------------------------------------------------------------------------
LEMMA Stutter ==
  ASSUME revoked' = revoked, \A c \in Conn : Unchanged(c)
  PROVE  UNCHANGED Contract!contractVars
  BY DEF Unchanged, Contract!contractVars, Login, Barred, Granted, Named, Entered

(* A step at a connection is one of the contract's, or none.                *)
LEMMA ConnectionStep ==
  ASSUME Inv, Attempts, NEW c \in Conn, Sshpiperd(c) \/ Callback(c)
  PROVE  Contract!Next \/ UNCHANGED Contract!contractVars
<1>1. \A d \in Conn \ {c} : Unchanged(d)
  BY OthersStay DEF Inv, Same, Unchanged, LoginOf, EnteredOf
<1>2. ASSUME revoked' = revoked, Unchanged(c)
      PROVE  UNCHANGED Contract!contractVars
  BY <1>1, <1>2, Stutter
<1>3. TypeOK /\ Attempt(c) /\ Sound(c)
  BY DEF Inv, Attempts
<1> USE <1>3 DEF GoTo, TypeOK
<1>4. CASE Connect(c)
  <2>1. Contract!Opens(c)
    <3>1. /\ LoginOf(c) = "waiting" /\ LoginOf(c)' = "open"
          /\ EnteredOf(c)' = EnteredOf(c)
          /\ seen'[c].barred = revoked /\ revoked' = revoked
          /\ seen'[c].granted = seen[c].granted /\ seen'[c].named = seen[c].named
      BY <1>4 DEF Connect, LoginOf, EnteredOf
    <3> QED
      BY <1>1, <3>1
         DEF Contract!Opens, Unchanged, Login, Barred, Granted, Named, Entered
  <2> QED BY <2>1 DEF Contract!Next
<1>5. CASE Disconnect(c)
  <2>1. Contract!Leaves(c)
    <3>1. /\ LoginOf(c) \in {"open", "in"} /\ LoginOf(c)' = "out"
          /\ EnteredOf(c)' = EnteredOf(c)
          /\ seen' = seen /\ revoked' = revoked
      BY <1>5 DEF Disconnect, LoginOf, EnteredOf, Attempt
    <3> QED
      BY <1>1, <3>1
         DEF Contract!Leaves, Unchanged, Login, Barred, Granted, Named, Entered
  <2> QED BY <2>1 DEF Contract!Next
<1>6. ASSUME NEW keys \in SUBSET HostKey, ResolveAllows(c, keys)
      PROVE  Contract!Next
  <2>1. Contract!Grants(c, offer[c].by, keys)
    <3>1. /\ LoginOf(c) = "open" /\ LoginOf(c)' = "open"
          /\ EnteredOf(c)' = EnteredOf(c)
          /\ seen'[c].barred = seen[c].barred /\ revoked' = revoked
          /\ seen'[c].granted = seen[c].granted \cup {offer[c].by}
          /\ seen'[c].named = seen[c].named \cup keys
          /\ place[c] = "resolving" /\ offer[c].good /\ keys # {}
      BY <1>6 DEF ResolveAllows, RouteAllowed, LoginOf, EnteredOf
    <3>2. offer[c].by \notin seen[c].barred
      BY <3>1 DEF Sound, Bars
    <3>3. /\ Login[c] = "open" /\ offer[c].by \notin Barred[c] /\ keys # {}
          /\ revoked' = revoked
      BY <3>1, <3>2 DEF Login, Barred
    <3>4. Login' = Login /\ Barred' = Barred /\ Entered' = Entered
      BY <1>1, <3>1 DEF Unchanged, Login, Barred, Entered
    <3>5. /\ Granted' = [Granted EXCEPT ![c] = @ \cup {offer[c].by}]
          /\ Named' = [Named EXCEPT ![c] = @ \cup keys]
      BY <1>1, <3>1 DEF Unchanged, Granted, Named
    <3> QED BY <3>3, <3>4, <3>5 DEF Contract!Grants
  <2> QED BY <2>1, Fields DEF Contract!Next
<1>7. CASE PipeStart(c)
  <2>1. PICK h \in HostKey : seen[c].accepted = {h}
    BY <1>7 DEF PipeStart, Attempt
  <2>2. Contract!Enters(c, offer[c].by, h)
    <3>1. /\ LoginOf(c) = "open" /\ LoginOf(c)' = "in"
          /\ EnteredOf(c)' = {[by |-> offer[c].by, host |-> h]}
          /\ seen' = seen /\ revoked' = revoked
      BY <1>7, <2>1 DEF PipeStart, LoginOf, EnteredOf
    <3>2. offer[c].by \in seen[c].granted \ seen[c].barred /\ h \in seen[c].named
      BY <1>7, <2>1 DEF PipeStart, Sound, Grants, Bars
    <3> QED
      BY <1>1, <3>1, <3>2
         DEF Contract!Enters, Unchanged, Login, Barred, Granted, Named, Entered
  <2> QED BY <2>2, Fields DEF Contract!Next
<1>8. CASE UpstreamFails(c)
  BY <1>2, <1>8 DEF UpstreamFails, Unchanged, LoginOf, EnteredOf
<1>9. ASSUME NEW k \in Key, CachedKey(c, k) PROVE UNCHANGED Contract!contractVars
  BY <1>2, <1>9 DEF CachedKey, Unchanged, LoginOf, EnteredOf
<1>10. ASSUME NEW k \in Key, NEW signed \in BOOLEAN, KeyRemembered(c, k, signed)
       PROVE  UNCHANGED Contract!contractVars
  BY <1>2, <1>10 DEF KeyRemembered, RouteAllowed, Unchanged, LoginOf, EnteredOf
<1>11. ASSUME NEW k \in Key, NEW signed \in BOOLEAN, KeyAsked(c, k, signed)
       PROVE  UNCHANGED Contract!contractVars
  BY <1>2, <1>11 DEF KeyAsked, Unchanged, LoginOf, EnteredOf
<1>12. CASE PasswordAsked(c) \/ ResolveFails(c)
  BY <1>2, <1>12 DEF PasswordAsked, ResolveFails, Unchanged, LoginOf, EnteredOf
<1>13. CASE ResolveDenies(c)
  BY <1>2, <1>13 DEF ResolveDenies, Unchanged, LoginOf, EnteredOf
<1>14. ASSUME NEW h \in HostKey, HostKeyVerified(c, h) \/ HostKeyRefused(c, h)
       PROVE  UNCHANGED Contract!contractVars
  <2>1. CASE HostKeyVerified(c, h)
    <3>1. /\ place[c] = "dialing" /\ place'[c] = "verified"
          /\ seen'[c] = [seen[c] EXCEPT !.accepted = {h}] /\ revoked' = revoked
      BY <2>1 DEF HostKeyVerified
    <3>2. Unchanged(c)
      BY <3>1 DEF Unchanged, LoginOf, EnteredOf, Seen
    <3> QED BY <1>2, <3>1, <3>2
  <2>2. CASE HostKeyRefused(c, h)
    BY <1>2, <2>2 DEF HostKeyRefused, Unchanged, LoginOf, EnteredOf
  <2> QED BY <1>14, <2>1, <2>2
<1> HIDE DEF GoTo, TypeOK
<1>15. CASE Sshpiperd(c)
  BY ONLY <1>15, <1>4, <1>5, <1>8, <1>9, Zenon DEF Sshpiperd
<1>16. CASE Callback(c)
  BY ONLY <1>16, <1>6, <1>7, <1>10, <1>11, <1>12, <1>13, <1>14, Zenon DEF Callback
<1> QED BY <1>15, <1>16, Zenon

(* Every login the gateway pipes is one the contract allows: granted and    *)
(* named on this connection, not revoked before it, and final, whatever     *)
(* caches on the way from pickle-api to sshpiperd answered.                 *)
THEOREM PluginImplementsContract == Spec => ImplementsContract
<1>1. Init => Contract!Init
  <2> SUFFICES ASSUME Init PROVE Contract!Init
    OBVIOUS
  <2>1. \A c \in Conn : place[c] = "new" /\ seen[c] = Unseen
    BY DEF Init
  <2>2. \A c \in Conn : /\ LoginOf(c) = "waiting" /\ EnteredOf(c) = {}
                        /\ seen[c].barred = {} /\ seen[c].granted = {} /\ seen[c].named = {}
    BY <2>1 DEF LoginOf, EnteredOf, Unseen
  <2> QED
    BY <2>2 DEF Init, Contract!Init, Login, Barred, Granted, Named, Entered
<1>2. Inv /\ Attempts /\ [Next]_vars => [Contract!Next]_(Contract!contractVars)
  <2> SUFFICES ASSUME Inv, Attempts, [Next]_vars
               PROVE  Contract!Next \/ UNCHANGED Contract!contractVars
    OBVIOUS
  <2>1. ASSUME NEW c \in Conn, Sshpiperd(c) \/ Callback(c)
        PROVE  Contract!Next \/ UNCHANGED Contract!contractVars
    BY <2>1, ConnectionStep
  <2>2. ASSUME NEW k \in Key, Revoke(k)
        PROVE  Contract!Next
    <3>1. Contract!Revokes(k)
      BY <2>2 DEF Revoke, Contract!Revokes, Login, LoginOf, Barred, Granted, Named,
                  Entered, EnteredOf
    <3> QED BY <3>1 DEF Contract!Next, Credential
  <2>3. CASE Tick
    <3>1. \A c \in Conn : Unchanged(c)
      BY <2>3 DEF Tick, Unchanged, LoginOf, EnteredOf
    <3> QED BY <2>3, <3>1, Stutter DEF Tick
  <2>4. CASE UNCHANGED vars
    BY <2>4, Stutter DEF vars, Unchanged, LoginOf, EnteredOf
  <2> QED BY <2>1, <2>2, <2>3, <2>4 DEF Next
<1> QED BY <1>1, <1>2, AttemptsInvariant, PTL DEF Spec, ImplementsContract, Contract!Spec

-----------------------------------------------------------------------------
(***************************************************************************)
(* What follows from the contract alone, said of the plugin.  The proofs    *)
(* use the actions of LoginContract and nothing of the plugin's.            *)
(***************************************************************************)

(* A connection got in at most once, with a granted credential that was not *)
(* revoked when it opened and to a named host key; and what was revoked by  *)
(* then is not even granted on it.                                          *)
EntryStands(c) ==
  /\ Login[c] \in {"waiting", "open"} => Entered[c] = {}
  /\ Login[c] = "waiting" => Barred[c] = {} /\ Granted[c] = {} /\ Named[c] = {}
  /\ \A one, other \in Entered[c] : one = other
  /\ \A entry \in Entered[c] : entry.by \in Granted[c] /\ entry.host \in Named[c]
  /\ Barred[c] \subseteq revoked
  /\ Granted[c] \cap Barred[c] = {}

EntriesStand == \A c \in Conn : EntryStands(c)

(* An entry is never changed or withdrawn, a connection that is out stays   *)
(* out, what bars a connection is fixed when it opens, grants and names are *)
(* added to an open connection only, and no revocation is forgotten.        *)
EntriesAreFinal ==
  /\ revoked \subseteq revoked'
  /\ \A c \in Conn :
       /\ Entered[c] # {} => Entered'[c] = Entered[c]
       /\ Login[c] = "out" => Login'[c] = "out"
       /\ Login[c] # "waiting" => Barred'[c] = Barred[c]
       /\ Granted[c] \subseteq Granted'[c] /\ Named[c] \subseteq Named'[c]
       /\ Login[c] # "open" => Granted'[c] = Granted[c] /\ Named'[c] = Named[c]

(* Each step of the contract keeps the one and makes the other.             *)
LEMMA ContractStepStands ==
  ASSUME EntriesStand, [Contract!Next]_(Contract!contractVars)
  PROVE  EntriesStand' /\ EntriesAreFinal
<1> DEFINE Functions == /\ Login = [c \in Conn |-> Login[c]]
                        /\ Barred = [c \in Conn |-> Barred[c]]
                        /\ Granted = [c \in Conn |-> Granted[c]]
                        /\ Named = [c \in Conn |-> Named[c]]
                        /\ Entered = [c \in Conn |-> Entered[c]]
<1>1. Functions
  BY DEF Login, Barred, Granted, Named, Entered
<1> USE DEF EntriesStand, EntryStands, EntriesAreFinal
<1>2. ASSUME NEW c \in Conn, Contract!Opens(c)
      PROVE  EntriesStand' /\ EntriesAreFinal
  <2> USE DEF Contract!Opens
  <2>1. /\ Login[c] = "waiting" /\ Login'[c] = "open" /\ Barred'[c] = revoked
        /\ \A d \in Conn \ {c} : Login'[d] = Login[d] /\ Barred'[d] = Barred[d]
    BY <1>1, <1>2
  <2>2. Granted' = Granted /\ Named' = Named /\ Entered' = Entered /\ revoked' = revoked
    BY <1>2
  <2> HIDE DEF Contract!Opens
  <2>3. \A d \in Conn : EntryStands(d)'
    BY <2>1, <2>2
  <2> QED BY <2>1, <2>2, <2>3
<1>3. ASSUME NEW c \in Conn, NEW by \in Credential, NEW keys \in SUBSET HostKey,
             Contract!Grants(c, by, keys)
      PROVE  EntriesStand' /\ EntriesAreFinal
  BY <1>1, <1>3 DEF Contract!Grants
<1>4. ASSUME NEW c \in Conn, NEW by \in Credential, NEW h \in HostKey,
             Contract!Enters(c, by, h)
      PROVE  EntriesStand' /\ EntriesAreFinal
  BY <1>1, <1>4 DEF Contract!Enters
<1>5. ASSUME NEW c \in Conn, Contract!Leaves(c)
      PROVE  EntriesStand' /\ EntriesAreFinal
  BY <1>1, <1>5 DEF Contract!Leaves
<1>6. ASSUME NEW by \in Credential, Contract!Revokes(by)
      PROVE  EntriesStand' /\ EntriesAreFinal
  BY <1>6 DEF Contract!Revokes
<1>7. CASE UNCHANGED Contract!contractVars
  BY <1>7 DEF Contract!contractVars
<1> QED
  BY <1>2, <1>3, <1>4, <1>5, <1>6, <1>7 DEF Contract!Next

(* No connection has an entry at first.                                     *)
LEMMA ContractInitStands == Contract!Init => EntriesStand
  BY DEF Contract!Init, EntriesStand, EntryStands

(* Every entry stands on a grant and a name of its own connection, and a    *)
(* credential revoked before the connection opened is never granted on it.  *)
THEOREM EntriesAreVouchedFor == Spec => []EntriesStand
  BY PluginImplementsContract, ContractInitStands, ContractStepStands, PTL
     DEF ImplementsContract, Contract!Spec

(* What the gateway decided about a login is final.                         *)
THEOREM EntriesStay == Spec => [][EntriesAreFinal]_(Contract!contractVars)
<1>1. EntriesStand /\ [Contract!Next]_(Contract!contractVars) => EntriesAreFinal
  BY ContractStepStands
<1> QED
  BY <1>1, PluginImplementsContract, EntriesAreVouchedFor, PTL
     DEF ImplementsContract, Contract!Spec

=============================================================================
