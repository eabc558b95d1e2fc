----------------------------- MODULE RoutePlugin -----------------------------
(***************************************************************************)
(* The sshpiperd plugin that routes SSH logins (internal/gateway/plugin.go, *)
(* connstore.go, internal/route/client.go).                                 *)
(*                                                                          *)
(* sshpiperd calls the plugin for every key or password a connection        *)
(* offers, when the upstream presents its host key, and when it starts to   *)
(* pipe.  The callbacks of one connection come one after the other, those   *)
(* of different connections interleave.  Between the callbacks the plugin   *)
(* remembers what it needs in connStore, and the store forgets on a clock.  *)
(*                                                                          *)
(* Time is counted in ticks and passes while a callback waits for the api,  *)
(* sshpiperd for the VM, or everybody for the client; the code between two  *)
(* waits takes no time.  Each record carries the ticks it has left.  An     *)
(* expired record reads as an absent one: the getters compare with the      *)
(* clock, and the two writers that read a record first sweep under the same *)
(* lock.  So a record disappears when it expires.                           *)
(***************************************************************************)
EXTENDS Naturals, FiniteSets

CONSTANTS
  Conn,      \* connections, by the unique id sshpiperd gives them
  Key,       \* user keys, by fingerprint
  HostKey,   \* host keys a VM may present
  Password,  \* the credential of the password path
  TTL        \* life of a record (defaultMemoTTL)

ASSUME TTLAssumption == TTL \in Nat \ {0}
ASSUME PasswordAssumption == Password \notin Key

VARIABLES
  place,    \* where sshpiperd stands with the connection
  offer,    \* the credential of the current attempt, whether it is signed, and
            \* whether the api accepted it when it was asked (external)
  memo,     \* connStore.memo
  host,     \* connStore.host
  sess,     \* connStore.sess
  audit,    \* the session-audit request PipeStart built
  revoked,  \* keys the api no longer accepts
  seen      \* what has happened on the connection; no code reads it

storeVars == <<memo, host, sess>>
vars == <<place, offer, storeVars, audit, revoked, seen>>

Place == {"new", "auth", "resolving", "dialing", "verified", "piped", "closed"}
Credential == Key \cup {Password}
Offer == [by : Credential, signed : BOOLEAN, good : BOOLEAN]

AuthPublicKey == "publickey"
AuthPassword == "password"

Expired == [left |-> 0]
Memo == {Expired}
  \cup [answer : {"allow"}, keys : SUBSET HostKey, left : 1..TTL]
  \cup [answer : {"deny"}, left : 1..TTL]
Pin == {Expired} \cup [keys : SUBSET HostKey, left : 1..TTL]
Attribution == {Expired}
  \cup [method : {AuthPublicKey, AuthPassword}, candidates : SUBSET Key, left : 1..TTL]
NoAudit == [method |-> "none", candidates |-> {}]
Audit == [method : {"none", AuthPublicKey, AuthPassword}, candidates : SUBSET Key]

Live(record) == record.left > 0

(* The candidates an attribution holds; setSessionPassword on a fresh       *)
(* connection leaves the set nil.                                           *)
Candidates(c) == IF Live(sess[c]) THEN sess[c].candidates ELSE {}

(***************************************************************************)
(* seen[c]: the credentials the api granted, the host keys it named, how    *)
(* long ago it named the pinned ones, how long ago it last settled a key by *)
(* an allow or a denial, the age of the connection, the keys revoked before *)
(* it, and the host key that was accepted.  Ages stop at their bound.       *)
(***************************************************************************)
Unseen == [granted |-> {}, named |-> {}, pinAge |-> 0, settled |-> [k \in Key |-> TTL],
           age |-> 0, barred |-> {}, accepted |-> {}]
Seen == [granted : SUBSET Credential, named : SUBSET HostKey, pinAge : 0..(2 * TTL),
         settled : [Key -> 0..TTL], age : 0..TTL, barred : SUBSET Key,
         accepted : SUBSET HostKey]

Init ==
  /\ place = [c \in Conn |-> "new"]
  /\ offer = [c \in Conn |-> [by |-> Password, signed |-> TRUE, good |-> TRUE]]
  /\ memo = [c \in Conn |-> [k \in Key |-> Expired]]
  /\ host = [c \in Conn |-> Expired]
  /\ sess = [c \in Conn |-> Expired]
  /\ audit = [c \in Conn |-> NoAudit]
  /\ revoked = {}
  /\ seen = [c \in Conn |-> Unseen]

GoTo(c, there) == place' = [place EXCEPT ![c] = there]

-----------------------------------------------------------------------------
(***************************************************************************)
(* connStore.                                                               *)
(***************************************************************************)
\* faulty variant: the memo is keyed by the fingerprint alone
MemoGetAnyConnection(c, k) ==
  IF \E d \in Conn : Live(memo[d][k])
  THEN memo[CHOOSE d \in Conn : Live(memo[d][k])][k]
  ELSE Expired

MemoGet(c, k) == memo[c][k]

\* faulty variant: off by one at the expiry
PutHostKeysLate(c, keys) ==
  host' = [host EXCEPT ![c] = [keys |-> keys, left |-> TTL + 1]]

PutHostKeys(c, keys) == host' = [host EXCEPT ![c] = [keys |-> keys, left |-> TTL]]

\* faulty variant: a later key replaces the earlier candidates
ReplaceSessionCandidate(c, k) ==
  sess' = [sess EXCEPT ![c] = [method |-> AuthPublicKey, candidates |-> {k}, left |-> TTL]]

AddSessionCandidate(c, k) ==
  sess' = [sess EXCEPT ![c] = [method     |-> AuthPublicKey,
                               candidates |-> Candidates(c) \cup {k},
                               left       |-> TTL]]

SetSessionPassword(c) ==
  sess' = [sess EXCEPT ![c] = [method     |-> AuthPassword,
                               candidates |-> Candidates(c),
                               left       |-> TTL]]

(***************************************************************************)
(* What a callback does with an allowed route: pin, attribute, and let      *)
(* sshpiperd go on.  Only a signed key or a password reaches the upstream.  *)
(***************************************************************************)
RouteAllowed(c, by, signed, keys) ==
  /\ PutHostKeys(c, keys)
  /\ IF by = Password THEN SetSessionPassword(c) ELSE AddSessionCandidate(c, by)
  /\ offer' = [offer EXCEPT ![c] = [by |-> by, signed |-> signed, good |-> TRUE]]
  /\ GoTo(c, IF signed THEN "dialing" ELSE "auth")

-----------------------------------------------------------------------------
(***************************************************************************)
(* sshpiperd and the client, as far as the plugin can see them.             *)
(***************************************************************************)
Connect(c) ==
  /\ place[c] = "new"
  /\ GoTo(c, "auth")
  /\ seen' = [seen EXCEPT ![c].barred = revoked]
  /\ UNCHANGED <<offer, storeVars, audit, revoked>>

(* sshpiperd caches the callbacks per user and key: the signed offer of a   *)
(* key it asked about before may go to the upstream without the plugin.     *)
CachedKey(c, k) ==
  /\ place[c] = "auth"
  /\ k \in seen[c].granted
  /\ offer' = [offer EXCEPT ![c] = [by |-> k, signed |-> TRUE, good |-> TRUE]]
  /\ GoTo(c, "dialing")
  /\ UNCHANGED <<storeVars, audit, revoked, seen>>

(* The dial fails, or the VM refuses the credential.                        *)
UpstreamFails(c) ==
  /\ place[c] \in {"dialing", "verified"}
  /\ GoTo(c, "auth")
  /\ seen' = [seen EXCEPT ![c].accepted = {}]
  /\ UNCHANGED <<offer, storeVars, audit, revoked>>

Disconnect(c) ==
  /\ place[c] \in {"auth", "piped"}
  /\ GoTo(c, "closed")
  /\ UNCHANGED <<offer, storeVars, audit, revoked, seen>>

-----------------------------------------------------------------------------
(***************************************************************************)
(* publicKeyCallback and passwordCallback up to the api call.  A memoized   *)
(* denial refuses the offer and changes nothing, so it is no step.  A key   *)
(* that does not parse is refused likewise.                                 *)
(***************************************************************************)
\* faulty variant: a hit renews the memo
KeyRememberedAnew(c, k, signed) ==
  /\ place[c] = "auth"
  /\ LET record == MemoGet(c, k) IN
       /\ Live(record) /\ record.answer = "allow"
       /\ RouteAllowed(c, k, signed, record.keys)
       /\ memo' = [memo EXCEPT ![c][k].left = TTL]
       /\ seen' = [seen EXCEPT ![c].pinAge = seen[c].settled[k]]
  /\ UNCHANGED <<audit, revoked>>

KeyRemembered(c, k, signed) ==
  /\ place[c] = "auth"
  /\ LET record == MemoGet(c, k) IN
       /\ Live(record) /\ record.answer = "allow"
       /\ RouteAllowed(c, k, signed, record.keys)
       /\ seen' = [seen EXCEPT ![c].pinAge = seen[c].settled[k]]
  /\ UNCHANGED <<memo, audit, revoked>>

KeyAsked(c, k, signed) ==
  /\ place[c] = "auth"
  /\ ~Live(MemoGet(c, k))
  /\ offer' = [offer EXCEPT ![c] = [by |-> k, signed |-> signed, good |-> k \notin revoked]]
  /\ GoTo(c, "resolving")
  /\ UNCHANGED <<storeVars, audit, revoked, seen>>

(* The password path is never memoized.                                     *)
PasswordAsked(c) ==
  /\ place[c] = "auth"
  /\ offer' = [offer EXCEPT ![c] = [by |-> Password, signed |-> TRUE, good |-> TRUE]]
  /\ GoTo(c, "resolving")
  /\ UNCHANGED <<storeVars, audit, revoked, seen>>

(***************************************************************************)
(* Resolve returns.  Only an allow or a denial is memoized, and only for a  *)
(* key.  A route without host keys is an error.  The api allows what it     *)
(* accepted at some moment of the call, hence when it was asked; the key    *)
(* may be revoked before the answer is here and memoized.                   *)
(***************************************************************************)
MemoPut(c, by, record) ==
  memo' = IF by \in Key THEN [memo EXCEPT ![c][by] = record] ELSE memo

Settle(c, by) ==
  IF by \in Key THEN [seen[c].settled EXCEPT ![by] = 0] ELSE seen[c].settled

ResolveAllows(c, keys) ==
  LET by == offer[c].by IN
  /\ place[c] = "resolving"
  /\ offer[c].good
  /\ keys # {}
  /\ MemoPut(c, by, [answer |-> "allow", keys |-> keys, left |-> TTL])
  /\ RouteAllowed(c, by, offer[c].signed, keys)
  /\ seen' = [seen EXCEPT ![c] = [granted  |-> @.granted \cup {by},
                                  named    |-> @.named \cup keys,
                                  pinAge   |-> 0,
                                  settled  |-> Settle(c, by),
                                  age      |-> @.age,
                                  barred   |-> @.barred,
                                  accepted |-> @.accepted]]
  /\ UNCHANGED <<audit, revoked>>

\* faulty variant: a denial is treated like a transport error
ResolveDeniesForgetfully(c) ==
  LET by == offer[c].by IN
  /\ place[c] = "resolving"
  /\ seen' = [seen EXCEPT ![c].settled = Settle(c, by)]
  /\ GoTo(c, "auth")
  /\ UNCHANGED <<offer, memo, host, sess, audit, revoked>>

ResolveDenies(c) ==
  LET by == offer[c].by IN
  /\ place[c] = "resolving"
  /\ MemoPut(c, by, [answer |-> "deny", left |-> TTL])
  /\ seen' = [seen EXCEPT ![c].settled = Settle(c, by)]
  /\ GoTo(c, "auth")
  /\ UNCHANGED <<offer, host, sess, audit, revoked>>

ResolveFails(c) ==
  /\ place[c] = "resolving"
  /\ GoTo(c, "auth")
  /\ UNCHANGED <<offer, storeVars, audit, revoked, seen>>

-----------------------------------------------------------------------------
(***************************************************************************)
(* verifyHostKeyCallback and pipeStartCallback.                             *)
(***************************************************************************)
\* faulty variant: a connection without pins trusts what it sees
PinnedOrUnknown(c, h) == Live(host[c]) => h \in host[c].keys

Pinned(c, h) == Live(host[c]) /\ h \in host[c].keys

HostKeyVerified(c, h) ==
  /\ place[c] = "dialing"
  /\ Pinned(c, h)
  /\ GoTo(c, "verified")
  /\ seen' = [seen EXCEPT ![c].accepted = {h}]
  /\ UNCHANGED <<offer, storeVars, audit, revoked>>

HostKeyRefused(c, h) ==
  /\ place[c] = "dialing"
  /\ ~Pinned(c, h)
  /\ GoTo(c, "auth")
  /\ UNCHANGED <<offer, storeVars, audit, revoked, seen>>

\* faulty variant: the candidates travel on the password path too
SessionRequestWithCandidates(c) ==
  IF Live(sess[c])
  THEN [method |-> sess[c].method, candidates |-> sess[c].candidates]
  ELSE NoAudit

(* buildSessionRequest: no attribution, no audit.                           *)
SessionRequest(c) ==
  IF ~Live(sess[c]) THEN NoAudit
  ELSE [method     |-> sess[c].method,
        candidates |-> IF sess[c].method = AuthPublicKey THEN sess[c].candidates ELSE {}]

\* faulty variant: sshpiperd pipes whether or not the host key was accepted
PipeStartUnverified(c) ==
  /\ place[c] \in {"dialing", "verified"}
  /\ GoTo(c, "piped")
  /\ audit' = [audit EXCEPT ![c] = SessionRequest(c)]
  /\ UNCHANGED <<offer, storeVars, revoked, seen>>

PipeStart(c) ==
  /\ place[c] = "verified"
  /\ GoTo(c, "piped")
  /\ audit' = [audit EXCEPT ![c] = SessionRequest(c)]
  /\ UNCHANGED <<offer, storeVars, revoked, seen>>

-----------------------------------------------------------------------------
(* The api stops accepting a key: it was deleted, or its owner left.        *)
Revoke(k) ==
  /\ revoked' = revoked \cup {k}
  /\ UNCHANGED <<place, offer, storeVars, audit, seen>>

(***************************************************************************)
(* The clock, with the expiry of sweepLocked and of the getters.            *)
(***************************************************************************)
Aged(record) == IF record.left <= 1 THEN Expired ELSE [record EXCEPT !.left = @ - 1]

UpTo(bound, n) == IF n < bound THEN n ELSE bound

LoggingIn(c) == place[c] \in {"auth", "resolving", "dialing", "verified"}

Tick ==
  /\ memo' = [c \in Conn |-> [k \in Key |-> Aged(memo[c][k])]]
  /\ host' = [c \in Conn |-> Aged(host[c])]
  /\ sess' = [c \in Conn |-> Aged(sess[c])]
  /\ seen' = [c \in Conn |->
       [granted  |-> seen[c].granted,
        named    |-> seen[c].named,
        pinAge   |-> IF Live(host'[c]) THEN UpTo(2 * TTL, seen[c].pinAge + 1) ELSE 0,
        settled  |-> [k \in Key |-> UpTo(TTL, seen[c].settled[k] + 1)],
        age      |-> IF LoggingIn(c) THEN UpTo(TTL, seen[c].age + 1) ELSE seen[c].age,
        barred   |-> seen[c].barred,
        accepted |-> seen[c].accepted]]
  /\ UNCHANGED <<place, offer, audit, revoked>>

Sshpiperd(c) ==
  \/ Connect(c) \/ UpstreamFails(c) \/ Disconnect(c)
  \/ \E k \in Key : CachedKey(c, k)

Callback(c) ==
  \/ \E k \in Key, signed \in BOOLEAN : KeyRemembered(c, k, signed) \/ KeyAsked(c, k, signed)
  \/ PasswordAsked(c)
  \/ \E keys \in SUBSET HostKey : ResolveAllows(c, keys)
  \/ ResolveDenies(c) \/ ResolveFails(c)
  \/ \E h \in HostKey : HostKeyVerified(c, h) \/ HostKeyRefused(c, h)
  \/ PipeStart(c)

Next ==
  \/ \E c \in Conn : Sshpiperd(c) \/ Callback(c)
  \/ \E k \in Key : Revoke(k)
  \/ Tick

Spec == Init /\ [][Next]_vars

-----------------------------------------------------------------------------
(***************************************************************************)
(* Properties.                                                              *)
(***************************************************************************)

(* Every variable has its type; no record outlives the TTL (connStore).     *)
TypeOK ==
  /\ place \in [Conn -> Place]
  /\ offer \in [Conn -> Offer]
  /\ memo \in [Conn -> [Key -> Memo]]
  /\ host \in [Conn -> Pin]
  /\ sess \in [Conn -> Attribution]
  /\ audit \in [Conn -> Audit]
  /\ revoked \subseteq Key
  /\ seen \in [Conn -> Seen]

(* Fail-closed: a session is piped only with a credential the api granted   *)
(* on this very connection, to a VM that presented a host key the api named *)
(* on it, also when sshpiperd answered the last offer from its own cache    *)
(* and when every record of the plugin has expired meanwhile.               *)
PipedIsVouchedFor ==
  \A c \in Conn :
    place[c] \in {"verified", "piped"} =>
      /\ offer[c].by \in seen[c].granted
      /\ seen[c].accepted # {} /\ seen[c].accepted \subseteq seen[c].named

(* connstore.go:15-16: revocation takes effect from the next connection; no    *)
(* memoized answer reaches another connection.                              *)
RevokedStaysOut ==
  \A c \in Conn : place[c] = "piped" => offer[c].by \notin seen[c].barred

(* A login that takes less than one auth window is always audited: with the *)
(* password method if the password authenticated it, and never under a set  *)
(* of candidates that misses the key that did.                              *)
LoginIsAudited ==
  \A c \in Conn :
    place[c] = "piped" /\ seen[c].age < TTL =>
      /\ audit[c] # NoAudit
      /\ offer[c].by = Password => audit[c].method = AuthPassword
      /\ audit[c].method = AuthPublicKey => offer[c].by \in audit[c].candidates

(* The audit blames nobody: candidates are keys the api allowed on this     *)
(* connection, and an audit with the password method names none.            *)
AuditIsHonest ==
  \A c \in Conn :
    /\ audit[c].candidates \subseteq seen[c].granted
    /\ audit[c].method = AuthPassword =>
         Password \in seen[c].granted /\ audit[c].candidates = {}

(* A pin taken from a memoized route starts a new TTL, so host keys may be  *)
(* trusted for longer than one window, but always for less than two.        *)
PinsAreRecent ==
  \A c \in Conn : Live(host[c]) => seen[c].pinAge < 2 * TTL - 1

(* A client offers a key twice and more: within one window the api is asked *)
(* again only if it has not answered (resolveMemoized).                     *)
OneCallPerWindow ==
  [][\A c \in Conn :
       place[c] # "resolving" /\ place'[c] = "resolving" /\ offer'[c].by \in Key
         => seen[c].settled[offer'[c].by] = TTL]_vars

(* plugin.go:237-239: the audit is for the credential that actually         *)
(* authenticated.  Here: an audited method is the method of the login.      *)
AuditNamesTheMethod ==
  \A c \in Conn :
    place[c] = "piped" /\ audit[c].method = AuthPassword => offer[c].by = Password

-----------------------------------------------------------------------------
(***************************************************************************)
(* The contract the plugin implements.                                      *)
(***************************************************************************)
LoginOf(c) ==
  CASE place[c] = "new"    -> "waiting"
    [] place[c] = "piped"  -> "in"
    [] place[c] = "closed" -> "out"
    [] OTHER               -> "open"

(* accepted is emptied with every attempt that fails.                       *)
EnteredOf(c) ==
  IF place[c] \in {"piped", "closed"}
  THEN {[by |-> offer[c].by, host |-> h] : h \in seen[c].accepted}
  ELSE {}

Login == [c \in Conn |-> LoginOf(c)]
Barred == [c \in Conn |-> seen[c].barred]
Granted == [c \in Conn |-> seen[c].granted]
Named == [c \in Conn |-> seen[c].named]
Entered == [c \in Conn |-> EnteredOf(c)]

Contract == INSTANCE LoginContract WITH
  login   <- Login,
  barred  <- Barred,
  granted <- Granted,
  named   <- Named,
  entered <- Entered

(* Whatever sshpiperd offers in whatever order, from its cache or to the    *)
(* plugin, and whatever the memo answers after a revocation or a change of  *)
(* host keys: every login is one the contract allows.                       *)
ImplementsContract == Contract!Spec

=============================================================================
