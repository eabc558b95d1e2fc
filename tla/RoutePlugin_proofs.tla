-------------------------- MODULE RoutePlugin_proofs --------------------------
(***************************************************************************)
(* What RoutePlugin promises of a login, for any number of connections,     *)
(* keys and host keys and any TTL.                                          *)
(***************************************************************************)
EXTENDS RoutePlugin, TLAPS

(* The memo forgets a key when the window since the last answer is over,    *)
(* and remembers an allow as the api gave it on this connection.            *)
Remembers(c) ==
  \A k \in Key :
    /\ memo[c][k].left + seen[c].settled[k] = TTL
    /\ Live(memo[c][k]) /\ memo[c][k].answer = "allow" =>
         k \in seen[c].granted /\ memo[c][k].keys \subseteq seen[c].named

(* A pin is what the api named; a pin renewed from the memo was not older   *)
(* than the memo.                                                           *)
Pins(c) ==
  Live(host[c]) =>
    /\ host[c].keys \subseteq seen[c].named
    /\ seen[c].pinAge + host[c].left <= 2 * TTL - 1

(* Only a granted credential reaches the VM.                                *)
Grants(c) ==
  /\ place[c] = "new" => seen[c].granted = {}
  /\ place[c] \in {"dialing", "verified", "piped"} => offer[c].by \in seen[c].granted
  /\ place[c] \in {"verified", "piped"} =>
       seen[c].accepted # {} /\ seen[c].accepted \subseteq seen[c].named

(* An attribution is made of grants.  Within the first window of a login it *)
(* has been alive since the first grant, so that it holds them all, and the *)
(* last callback before the dial has set the method of a password.          *)
Attributes(c) ==
  /\ Live(sess[c]) =>
       /\ sess[c].candidates \subseteq seen[c].granted
       /\ sess[c].method = AuthPassword => Password \in seen[c].granted
  /\ LoggingIn(c) /\ seen[c].age < TTL /\ seen[c].granted # {} =>
       /\ Live(sess[c]) /\ sess[c].left + seen[c].age >= TTL
       /\ seen[c].granted \cap Key \subseteq sess[c].candidates
       /\ place[c] \in {"dialing", "verified"} /\ offer[c].by = Password =>
            sess[c].method = AuthPassword

Audits(c) ==
  /\ audit[c].candidates \subseteq seen[c].granted
  /\ audit[c].method = AuthPassword =>
       Password \in seen[c].granted /\ audit[c].candidates = {}
  /\ place[c] = "piped" /\ seen[c].age < TTL =>
       /\ audit[c] # NoAudit
       /\ offer[c].by = Password => audit[c].method = AuthPassword
       /\ audit[c].method = AuthPublicKey => offer[c].by \in audit[c].candidates

(* What was revoked before the connection is never granted on it, nor was   *)
(* it good when the api was asked.                                          *)
Bars(c) ==
  /\ seen[c].barred \subseteq revoked
  /\ place[c] = "resolving" /\ offer[c].good => offer[c].by \notin seen[c].barred
  /\ seen[c].barred \cap seen[c].granted = {}

Sound(c) ==
  Remembers(c) /\ Pins(c) /\ Grants(c) /\ Attributes(c) /\ Audits(c) /\ Bars(c)

Inv == TypeOK /\ \A c \in Conn : Sound(c)

-----------------------------------------------------------------------------
(* A record that ages loses a tick and nothing else, or expires.            *)
LEMMA MemoAges ==
  ASSUME NEW r \in Memo
  PROVE  /\ Aged(r) \in Memo /\ r.left \in 0..TTL
         /\ Aged(r).left = IF r.left = 0 THEN 0 ELSE r.left - 1
         /\ Live(Aged(r)) => Live(r) /\ Aged(r).answer = r.answer
         /\ Live(Aged(r)) /\ r.answer = "allow" => Aged(r).keys = r.keys
<1>1. CASE r = Expired
  BY <1>1, TTLAssumption DEF Aged, Expired, Live, Memo
<1>2. CASE r \in [answer : {"allow"}, keys : SUBSET HostKey, left : 1..TTL]
  BY <1>2, TTLAssumption DEF Aged, Expired, Live, Memo
<1>3. CASE r \in [answer : {"deny"}, left : 1..TTL]
  BY <1>3, TTLAssumption DEF Aged, Expired, Live, Memo
<1> QED BY <1>1, <1>2, <1>3 DEF Memo

LEMMA PinAges ==
  ASSUME NEW r \in Pin
  PROVE  /\ Aged(r) \in Pin /\ r.left \in 0..TTL
         /\ Aged(r).left = IF r.left = 0 THEN 0 ELSE r.left - 1
         /\ Live(Aged(r)) => Live(r) /\ Aged(r).keys = r.keys
<1>1. CASE r = Expired
  BY <1>1, TTLAssumption DEF Aged, Expired, Live, Pin
<1>2. CASE r \in [keys : SUBSET HostKey, left : 1..TTL]
  BY <1>2, TTLAssumption DEF Aged, Expired, Live, Pin
<1> QED BY <1>1, <1>2 DEF Pin

LEMMA AttributionAges ==
  ASSUME NEW r \in Attribution
  PROVE  /\ Aged(r) \in Attribution /\ r.left \in 0..TTL
         /\ Aged(r).left = IF r.left = 0 THEN 0 ELSE r.left - 1
         /\ Live(Aged(r)) => /\ Live(r) /\ Aged(r).method = r.method
                             /\ Aged(r).candidates = r.candidates
         /\ Live(r) => r.candidates \subseteq Key /\ r.method \in {AuthPublicKey, AuthPassword}
<1>1. CASE r = Expired
  BY <1>1, TTLAssumption DEF Aged, Expired, Live, Attribution
<1>2. CASE r \in [method : {AuthPublicKey, AuthPassword}, candidates : SUBSET Key, left : 1..TTL]
  BY <1>2, TTLAssumption DEF Aged, Expired, Live, Attribution
<1> QED BY <1>1, <1>2 DEF Attribution

(* The records the store writes.                                            *)
LEMMA Written ==
  ASSUME NEW keys \in SUBSET HostKey, NEW candidates \in SUBSET Key
  PROVE  /\ [answer |-> "allow", keys |-> keys, left |-> TTL] \in Memo
         /\ [answer |-> "deny", left |-> TTL] \in Memo
         /\ [keys |-> keys, left |-> TTL] \in Pin
         /\ \A m \in {AuthPublicKey, AuthPassword} :
              [method |-> m, candidates |-> candidates, left |-> TTL] \in Attribution
  BY TTLAssumption DEF Memo, Pin, Attribution

LEMMA Fields ==
  ASSUME TypeOK, NEW c \in Conn
  PROVE  /\ seen[c].granted \subseteq Credential /\ seen[c].named \subseteq HostKey
         /\ seen[c].pinAge \in 0..(2 * TTL) /\ seen[c].settled \in [Key -> 0..TTL]
         /\ seen[c].age \in 0..TTL /\ seen[c].barred \subseteq Key
         /\ seen[c].accepted \subseteq HostKey
         /\ offer[c].by \in Credential /\ offer[c].signed \in BOOLEAN
         /\ offer[c].good \in BOOLEAN
         /\ \A k \in Key : memo[c][k] \in Memo
         /\ host[c] \in Pin /\ sess[c] \in Attribution
         /\ Candidates(c) \subseteq Key
<1>1. Candidates(c) \subseteq Key
  BY AttributionAges DEF TypeOK, Candidates
<1>2. seen[c] \in Seen /\ offer[c] \in Offer
  BY DEF TypeOK
<1> QED BY <1>1, <1>2 DEF TypeOK, Seen, Offer

-----------------------------------------------------------------------------
LEMMA RouteType ==
  ASSUME TypeOK, NEW c \in Conn, NEW by \in Credential, NEW signed \in BOOLEAN,
         NEW keys \in SUBSET HostKey, RouteAllowed(c, by, signed, keys)
  PROVE  /\ place' \in [Conn -> Place] /\ offer' \in [Conn -> Offer]
         /\ host' \in [Conn -> Pin] /\ sess' \in [Conn -> Attribution]
<1>1. host' \in [Conn -> Pin]
  BY Written DEF RouteAllowed, PutHostKeys, TypeOK
<1>2. sess' \in [Conn -> Attribution]
  <2>1. Candidates(c) \subseteq Key /\ (by # Password => by \in Key)
    BY Fields DEF Credential
  <2>2. CASE by = Password
    <3>1. [method |-> AuthPassword, candidates |-> Candidates(c), left |-> TTL] \in Attribution
      BY <2>1, Written
    <3> QED BY <2>2, <3>1 DEF RouteAllowed, SetSessionPassword, TypeOK
  <2>3. CASE by # Password
    <3>1. Candidates(c) \cup {by} \in SUBSET Key
      BY <2>1, <2>3
    <3> QED BY <2>3, <3>1, Written DEF RouteAllowed, AddSessionCandidate, TypeOK
  <2> QED BY <2>2, <2>3
<1>3. offer' \in [Conn -> Offer]
  <2>1. [by |-> by, signed |-> signed, good |-> TRUE] \in Offer
    BY Zenon DEF Offer
  <2> QED BY <2>1 DEF RouteAllowed, TypeOK
<1>4. place' \in [Conn -> Place]
  BY DEF RouteAllowed, GoTo, Place, TypeOK
<1> QED BY <1>1, <1>2, <1>3, <1>4

LEMMA CallbackType ==
  ASSUME TypeOK, NEW c \in Conn, Sshpiperd(c) \/ Callback(c)
  PROVE  TypeOK'
<1> USE DEF GoTo, Place, storeVars
<1>1. CASE Connect(c)
  BY <1>1 DEF Connect, TypeOK, Seen
<1>2. CASE UpstreamFails(c)
  BY <1>2 DEF UpstreamFails, TypeOK, Seen
<1>3. CASE Disconnect(c)
  BY <1>3 DEF Disconnect, TypeOK
<1>4. ASSUME NEW k \in Key, CachedKey(c, k) PROVE TypeOK'
  <2>1. [by |-> k, signed |-> TRUE, good |-> TRUE] \in Offer
    BY Zenon DEF Offer, Credential
  <2> QED BY <1>4, <2>1 DEF CachedKey, TypeOK
<1>5. ASSUME NEW k \in Key, NEW signed \in BOOLEAN, KeyRemembered(c, k, signed)
      PROVE  TypeOK'
  <2>1. /\ memo[c][k] \in Memo /\ Live(memo[c][k]) /\ memo[c][k].answer = "allow"
        /\ RouteAllowed(c, k, signed, memo[c][k].keys)
        /\ seen' = [seen EXCEPT ![c].pinAge = seen[c].settled[k]]
        /\ UNCHANGED <<memo, audit, revoked>>
    BY <1>5, Fields DEF KeyRemembered, MemoGet
  <2>2. memo[c][k].keys \in SUBSET HostKey
    BY <2>1 DEF Memo, Expired, Live
  <2>3. seen' \in [Conn -> Seen]
    <3>1. seen[c].settled[k] \in 0..(2 * TTL)
      BY Fields, TTLAssumption
    <3>2. seen \in [Conn -> Seen]
      BY DEF TypeOK
    <3>3. [seen[c] EXCEPT !.pinAge = seen[c].settled[k]] \in Seen
      BY <3>1, <3>2 DEF Seen
    <3>4. seen' = [seen EXCEPT ![c] = [seen[c] EXCEPT !.pinAge = seen[c].settled[k]]]
      BY <2>1, <3>2
    <3> QED BY <3>2, <3>3, <3>4
  <2>4. k \in Credential
    BY DEF Credential
  <2> QED BY <2>1, <2>2, <2>3, <2>4, RouteType DEF TypeOK
<1>6. ASSUME NEW k \in Key, NEW signed \in BOOLEAN, KeyAsked(c, k, signed)
      PROVE  TypeOK'
  <2>1. [by |-> k, signed |-> signed, good |-> k \notin revoked] \in Offer
    BY Zenon DEF Offer, Credential
  <2> QED BY <1>6, <2>1 DEF KeyAsked, TypeOK
<1>7. CASE PasswordAsked(c)
  <2>1. [by |-> Password, signed |-> TRUE, good |-> TRUE] \in Offer
    BY Zenon DEF Offer, Credential
  <2> QED BY <1>7, <2>1 DEF PasswordAsked, TypeOK
<1>8. ASSUME NEW keys \in SUBSET HostKey, ResolveAllows(c, keys)
      PROVE  TypeOK'
  <2> DEFINE by == offer[c].by
  <2>1. /\ by \in Credential /\ offer[c].signed \in BOOLEAN
        /\ Settle(c, by) \in [Key -> 0..TTL]
    BY Fields, TTLAssumption DEF Settle
  <2>2. RouteAllowed(c, by, offer[c].signed, keys) /\ UNCHANGED <<audit, revoked>>
    BY <1>8 DEF ResolveAllows
  <2>3. memo' \in [Conn -> [Key -> Memo]]
    BY <1>8, Written DEF ResolveAllows, MemoPut, TypeOK
  <2>4. seen' \in [Conn -> Seen]
    <3>1. [granted |-> seen[c].granted \cup {by}, named |-> seen[c].named \cup keys,
           pinAge |-> 0, settled |-> Settle(c, by), age |-> seen[c].age,
           barred |-> seen[c].barred, accepted |-> seen[c].accepted] \in Seen
      BY <2>1, Fields, TTLAssumption DEF Seen
    <3> QED BY <1>8, <3>1 DEF ResolveAllows, TypeOK
  <2> QED BY <2>1, <2>2, <2>3, <2>4, RouteType DEF TypeOK
<1>9. CASE ResolveDenies(c)
  <2>1. Settle(c, offer[c].by) \in [Key -> 0..TTL]
    BY Fields, TTLAssumption DEF Settle
  <2>2. seen' \in [Conn -> Seen]
    <3>1. seen' = [seen EXCEPT ![c].settled = Settle(c, offer[c].by)]
      BY <1>9 DEF ResolveDenies
    <3>2. [seen[c] EXCEPT !.settled = Settle(c, offer[c].by)] \in Seen
      BY <2>1 DEF TypeOK, Seen
    <3> QED BY <3>1, <3>2 DEF TypeOK
  <2>3. memo' \in [Conn -> [Key -> Memo]]
    <3>1. [answer |-> "deny", left |-> TTL] \in Memo
      BY Written
    <3> QED BY <1>9, <3>1 DEF ResolveDenies, MemoPut, TypeOK
  <2> QED BY <1>9, <2>2, <2>3 DEF ResolveDenies, TypeOK
<1>10. CASE ResolveFails(c)
  BY <1>10 DEF ResolveFails, TypeOK
<1>11. ASSUME NEW h \in HostKey, HostKeyVerified(c, h) PROVE TypeOK'
  BY <1>11 DEF HostKeyVerified, TypeOK, Seen
<1>12. ASSUME NEW h \in HostKey, HostKeyRefused(c, h) PROVE TypeOK'
  BY <1>12 DEF HostKeyRefused, TypeOK
<1>13. CASE PipeStart(c)
  <2>1. SessionRequest(c) \in Audit
    BY AttributionAges DEF TypeOK, SessionRequest, Audit, NoAudit
  <2> QED BY <1>13, <2>1 DEF PipeStart, TypeOK
<1> QED
  BY <1>1, <1>2, <1>3, <1>4, <1>5, <1>6, <1>7, <1>8, <1>9, <1>10, <1>11, <1>12, <1>13
     DEF Sshpiperd, Callback

LEMMA TickType ==
  ASSUME TypeOK, Tick
  PROVE  TypeOK'
<1>1. memo' \in [Conn -> [Key -> Memo]] /\ host' \in [Conn -> Pin]
      /\ sess' \in [Conn -> Attribution]
  BY MemoAges, PinAges, AttributionAges DEF TypeOK, Tick
<1>2. seen' \in [Conn -> Seen]
  <2> SUFFICES ASSUME NEW c \in Conn PROVE seen'[c] \in Seen
    BY DEF Tick
  <2>1. [k \in Key |-> UpTo(TTL, seen[c].settled[k] + 1)] \in [Key -> 0..TTL]
    BY Fields, TTLAssumption DEF UpTo
  <2>2. (IF Live(host'[c]) THEN UpTo(2 * TTL, seen[c].pinAge + 1) ELSE 0) \in 0..(2 * TTL)
    BY Fields, TTLAssumption DEF UpTo
  <2>3. (IF LoggingIn(c) THEN UpTo(TTL, seen[c].age + 1) ELSE seen[c].age) \in 0..TTL
    BY Fields, TTLAssumption DEF UpTo
  <2> QED BY <2>1, <2>2, <2>3, Fields DEF Tick, Seen
<1> QED BY <1>1, <1>2 DEF TypeOK, Tick

-----------------------------------------------------------------------------
(* A step at one connection leaves all that Sound says of another alone.    *)
Same(c) ==
  /\ place'[c] = place[c] /\ offer'[c] = offer[c] /\ memo'[c] = memo[c]
  /\ host'[c] = host[c] /\ sess'[c] = sess[c] /\ audit'[c] = audit[c]
  /\ seen'[c] = seen[c]

LEMMA SameIsSound ==
  ASSUME NEW c \in Conn, Sound(c), Same(c), revoked \subseteq revoked'
  PROVE  Sound(c)'
<1> USE DEF Same
<1>1. Remembers(c)'
  BY DEF Sound, Remembers, Live
<1>2. Pins(c)'
  BY DEF Sound, Pins, Live
<1>3. Grants(c)'
  BY DEF Sound, Grants
<1>4. Attributes(c)'
  BY DEF Sound, Attributes, Live, LoggingIn
<1>5. Audits(c)'
  BY DEF Sound, Audits
<1>6. Bars(c)'
  BY DEF Sound, Bars
<1> QED BY <1>1, <1>2, <1>3, <1>4, <1>5, <1>6 DEF Sound

LEMMA OthersStay ==
  ASSUME TypeOK, NEW c \in Conn, Sshpiperd(c) \/ Callback(c)
  PROVE  revoked' = revoked /\ \A d \in Conn \ {c} : Same(d)
<1> USE DEF Same, GoTo, storeVars, TypeOK
<1>1. CASE Sshpiperd(c)
  BY <1>1 DEF Sshpiperd, Connect, UpstreamFails, Disconnect, CachedKey
<1>2. ASSUME NEW by \in Credential, NEW signed \in BOOLEAN, NEW keys \in SUBSET HostKey,
             RouteAllowed(c, by, signed, keys)
      PROVE  \A d \in Conn \ {c} : /\ place'[d] = place[d] /\ offer'[d] = offer[d]
                                    /\ host'[d] = host[d] /\ sess'[d] = sess[d]
  BY <1>2 DEF RouteAllowed, PutHostKeys, SetSessionPassword, AddSessionCandidate
<1>3. ASSUME NEW k \in Key, NEW signed \in BOOLEAN, KeyRemembered(c, k, signed)
      PROVE  revoked' = revoked /\ \A d \in Conn \ {c} : Same(d)
  <2>1. memo[c][k].keys \in SUBSET HostKey /\ k \in Credential
    BY <1>3, Fields DEF KeyRemembered, MemoGet, Memo, Expired, Live, Credential
  <2> QED BY <1>3, <1>2, <2>1 DEF KeyRemembered, MemoGet
<1>4. ASSUME NEW keys \in SUBSET HostKey, ResolveAllows(c, keys)
      PROVE  revoked' = revoked /\ \A d \in Conn \ {c} : Same(d)
  <2>1. offer[c].by \in Credential /\ offer[c].signed \in BOOLEAN
    BY Fields
  <2> QED BY <1>4, <1>2, <2>1 DEF ResolveAllows, MemoPut
<1>5. CASE ResolveDenies(c)
  BY <1>5 DEF ResolveDenies, MemoPut
<1> QED
  BY <1>1, <1>3, <1>4, <1>5
     DEF Callback, KeyAsked, PasswordAsked, ResolveFails, HostKeyVerified, HostKeyRefused,
         PipeStart

-----------------------------------------------------------------------------
(* What an allowed route leaves behind, be it the memo or the api that      *)
(* allowed it.                                                              *)
Routed(c, by, signed, keys) ==
  /\ place'[c] = IF signed THEN "dialing" ELSE "auth"
  /\ offer'[c].by = by
  /\ host'[c].keys = keys /\ host'[c].left = TTL
  /\ sess'[c].left = TTL
  /\ sess'[c].method = IF by = Password THEN AuthPassword ELSE AuthPublicKey
  /\ sess'[c].candidates =
       IF by = Password THEN Candidates(c) ELSE Candidates(c) \cup {by}

LEMMA RouteFields ==
  ASSUME TypeOK, NEW c \in Conn, NEW by \in Credential, NEW signed \in BOOLEAN,
         NEW keys \in SUBSET HostKey, RouteAllowed(c, by, signed, keys)
  PROVE  Routed(c, by, signed, keys)
<1>1. sess'[c] = IF by = Password
                 THEN [method |-> AuthPassword, candidates |-> Candidates(c), left |-> TTL]
                 ELSE [method |-> AuthPublicKey, candidates |-> Candidates(c) \cup {by},
                       left |-> TTL]
  BY DEF RouteAllowed, SetSessionPassword, AddSessionCandidate, TypeOK
<1>2. /\ place'[c] = IF signed THEN "dialing" ELSE "auth"
      /\ offer'[c] = [by |-> by, signed |-> signed, good |-> TRUE]
      /\ host'[c] = [keys |-> keys, left |-> TTL]
  BY DEF RouteAllowed, GoTo, PutHostKeys, TypeOK
<1> QED BY <1>1, <1>2 DEF Routed

LEMMA RouteIsSound ==
  ASSUME TypeOK, NEW c \in Conn, Sound(c),
         place[c] \in {"auth", "resolving"},
         NEW by \in Credential, NEW signed \in BOOLEAN, NEW keys \in SUBSET HostKey,
         RouteAllowed(c, by, signed, keys),
         seen'[c].granted = seen[c].granted \cup {by},
         seen'[c].named = seen[c].named \cup keys,
         seen'[c].pinAge \in 0..(TTL - 1),
         seen'[c].age = seen[c].age, seen'[c].barred = seen[c].barred,
         by \notin seen[c].barred,
         audit' = audit, revoked' = revoked
  PROVE  Pins(c)' /\ Grants(c)' /\ Attributes(c)' /\ Audits(c)' /\ Bars(c)'
<1>0. Routed(c, by, signed, keys)
  BY RouteFields
<1>1. Pins(c)'
  BY <1>0, TTLAssumption DEF Pins, Live, Routed
<1>2. Grants(c)'
  BY <1>0 DEF Routed, Grants
<1>3. Attributes(c)'
  <2>1. Candidates(c) \subseteq seen[c].granted
    BY DEF Candidates, Sound, Attributes
  <2>2. seen[c].age < TTL => seen[c].granted \cap Key \subseteq Candidates(c)
    <3>1. LoggingIn(c)
      BY DEF LoggingIn
    <3> QED BY <3>1 DEF Candidates, Sound, Attributes
  <2>3. /\ sess'[c].candidates \subseteq seen'[c].granted
        /\ seen[c].age < TTL => seen'[c].granted \cap Key \subseteq sess'[c].candidates
    BY <2>1, <2>2, <1>0, PasswordAssumption DEF Routed
  <2>4. sess'[c].method = AuthPassword => by = Password
    BY <1>0 DEF Routed, AuthPassword, AuthPublicKey
  <2>5. sess'[c].left + seen'[c].age >= TTL
    BY <1>0, Fields, TTLAssumption DEF Routed
  <2> QED BY <2>3, <2>4, <2>5, <1>0, TTLAssumption DEF Attributes, Routed, Live
<1>4. Audits(c)'
  BY <1>0 DEF Routed, Sound, Audits
<1>5. Bars(c)'
  BY <1>0 DEF Routed, Sound, Bars
<1> QED BY <1>1, <1>2, <1>3, <1>4, <1>5

(* An answer settles its key and starts its memo anew.                      *)
LEMMA AnswerRemembers ==
  ASSUME TypeOK, NEW c \in Conn, Sound(c), NEW by \in Credential, NEW record \in Memo,
         record.left = TTL, MemoPut(c, by, record),
         seen'[c].settled = Settle(c, by),
         seen[c].granted \subseteq seen'[c].granted,
         seen[c].named \subseteq seen'[c].named,
         record.answer = "allow" => by \in seen'[c].granted /\ record.keys \subseteq seen'[c].named
  PROVE  Remembers(c)'
<1> SUFFICES ASSUME NEW k \in Key
             PROVE  /\ memo'[c][k].left + seen'[c].settled[k] = TTL
                    /\ Live(memo'[c][k]) /\ memo'[c][k].answer = "allow" =>
                         /\ k \in seen'[c].granted
                         /\ memo'[c][k].keys \subseteq seen'[c].named
  BY DEF Remembers, Live
<1>1. CASE k = by
  <2>1. memo'[c][k] = record /\ seen'[c].settled[k] = 0
    BY <1>1, Fields DEF MemoPut, Settle, TypeOK
  <2> QED BY <1>1, <2>1, TTLAssumption
<1>2. CASE k # by
  <2>1. memo'[c][k] = memo[c][k] /\ seen'[c].settled[k] = seen[c].settled[k]
    BY <1>2, Fields DEF MemoPut, Settle, TypeOK
  <2> QED BY <2>1 DEF Sound, Remembers, Live
<1> QED BY <1>1, <1>2

(* The steps of one connection keep it sound.                               *)
LEMMA CallbackStep ==
  ASSUME TypeOK, NEW c \in Conn, Sound(c), Sshpiperd(c) \/ Callback(c)
  PROVE  Sound(c)'
<1> USE DEF GoTo, storeVars
(* Moved: the step writes nothing to the store.                             *)
<1> DEFINE Moved ==
       /\ UNCHANGED <<memo, host, sess, audit, revoked>>
       /\ seen'[c].settled = seen[c].settled /\ seen'[c].granted = seen[c].granted
       /\ seen'[c].named = seen[c].named /\ seen'[c].pinAge = seen[c].pinAge
       /\ seen'[c].age = seen[c].age
       /\ place'[c] # "piped"
       /\ place'[c] \in {"dialing", "verified"} => offer'[c].by \in seen[c].granted
       /\ place'[c] \in {"dialing", "verified"} /\ offer'[c].by = Password =>
            place[c] = "dialing" /\ offer[c].by = Password
       /\ place'[c] = "verified" =>
            seen'[c].accepted # {} /\ seen'[c].accepted \subseteq seen'[c].named
       /\ LoggingIn(c)' => LoggingIn(c) \/ seen[c].granted = {}
       /\ place'[c] # "new"
       /\ seen'[c].barred \subseteq revoked /\ seen'[c].barred \cap seen[c].granted = {}
       /\ place'[c] = "resolving" /\ offer'[c].good => offer'[c].by \notin seen'[c].barred
<1>1. ASSUME Moved
      PROVE  Sound(c)'
  <2>1. Remembers(c)' /\ Pins(c)'
    BY <1>1 DEF Sound, Remembers, Pins, Live
  <2>2. Grants(c)' /\ Audits(c)' /\ Bars(c)'
    BY <1>1 DEF Sound, Grants, Audits, Bars
  <2>3. Attributes(c)'
    BY <1>1 DEF Sound, Attributes, Live
  <2> QED BY <2>1, <2>2, <2>3 DEF Sound
<1>2. CASE Connect(c)
  <2>1. /\ place[c] = "new" /\ place'[c] = "auth" /\ seen[c].granted = {}
        /\ UNCHANGED <<offer, memo, host, sess, audit, revoked>>
    BY <1>2 DEF Connect, TypeOK, Sound, Grants
  <2>2. /\ seen'[c].settled = seen[c].settled /\ seen'[c].granted = seen[c].granted
        /\ seen'[c].named = seen[c].named /\ seen'[c].pinAge = seen[c].pinAge
        /\ seen'[c].age = seen[c].age /\ seen'[c].barred = revoked
    BY <1>2 DEF Connect, TypeOK, Seen
  <2> QED BY <1>1, <2>1, <2>2
<1>3. CASE UpstreamFails(c)
  <2>1. /\ LoggingIn(c) /\ place'[c] = "auth"
        /\ UNCHANGED <<offer, memo, host, sess, audit, revoked>>
    BY <1>3 DEF UpstreamFails, LoggingIn, TypeOK
  <2>2. /\ seen'[c].settled = seen[c].settled /\ seen'[c].granted = seen[c].granted
        /\ seen'[c].named = seen[c].named /\ seen'[c].pinAge = seen[c].pinAge
        /\ seen'[c].age = seen[c].age /\ seen'[c].barred = seen[c].barred
    BY <1>3 DEF UpstreamFails, TypeOK, Seen
  <2> QED BY <1>1, <2>1, <2>2 DEF Sound, Bars
<1>4. CASE Disconnect(c)
  <2>1. place'[c] = "closed" /\ UNCHANGED <<offer, memo, host, sess, audit, revoked, seen>>
    BY <1>4 DEF Disconnect, TypeOK
  <2> QED BY <1>1, <2>1 DEF Sound, Bars, LoggingIn
<1>5. ASSUME NEW k \in Key, CachedKey(c, k) PROVE Sound(c)'
  <2>1. /\ LoggingIn(c) /\ place'[c] = "dialing" /\ offer'[c].by = k /\ k \in seen[c].granted
        /\ UNCHANGED <<memo, host, sess, audit, revoked, seen>>
    BY <1>5 DEF CachedKey, LoggingIn, TypeOK
  <2> QED BY <1>1, <2>1, PasswordAssumption DEF Sound, Bars
<1>6. ASSUME NEW k \in Key, NEW signed \in BOOLEAN, KeyAsked(c, k, signed) PROVE Sound(c)'
  <2>1. /\ LoggingIn(c) /\ place'[c] = "resolving"
        /\ UNCHANGED <<memo, host, sess, audit, revoked, seen>>
    BY <1>6 DEF KeyAsked, LoggingIn, TypeOK
  <2>2. offer'[c].good => offer'[c].by \notin revoked
    BY <1>6 DEF KeyAsked, TypeOK
  <2> QED BY <1>1, <2>1, <2>2 DEF Sound, Bars
<1>7. CASE PasswordAsked(c)
  <2>1. /\ LoggingIn(c) /\ place'[c] = "resolving"
        /\ UNCHANGED <<memo, host, sess, audit, revoked, seen>>
    BY <1>7 DEF PasswordAsked, LoggingIn, TypeOK
  <2>2. offer'[c].by = Password /\ seen[c].barred \subseteq Key
    BY <1>7, Fields DEF PasswordAsked, TypeOK
  <2> QED BY <1>1, <2>1, <2>2, PasswordAssumption DEF Sound, Bars
<1>8. ASSUME ResolveFails(c) \/ \E h \in HostKey : HostKeyRefused(c, h) PROVE Sound(c)'
  <2>1. /\ LoggingIn(c) /\ place'[c] = "auth"
        /\ UNCHANGED <<offer, memo, host, sess, audit, revoked, seen>>
    BY <1>8 DEF ResolveFails, HostKeyRefused, LoggingIn, TypeOK
  <2> QED BY <1>1, <2>1 DEF Sound, Bars
<1>9. ASSUME NEW h \in HostKey, HostKeyVerified(c, h) PROVE Sound(c)'
  <2>1. /\ place[c] = "dialing" /\ LoggingIn(c) /\ place'[c] = "verified"
        /\ offer[c].by \in seen[c].granted /\ h \in seen[c].named
        /\ UNCHANGED <<offer, memo, host, sess, audit, revoked>>
    BY <1>9 DEF HostKeyVerified, Pinned, LoggingIn, TypeOK, Sound, Grants, Pins
  <2>2. /\ seen'[c].settled = seen[c].settled /\ seen'[c].granted = seen[c].granted
        /\ seen'[c].named = seen[c].named /\ seen'[c].pinAge = seen[c].pinAge
        /\ seen'[c].age = seen[c].age /\ seen'[c].barred = seen[c].barred
        /\ seen'[c].accepted = {h}
    BY <1>9 DEF HostKeyVerified, TypeOK, Seen
  <2> QED BY <1>1, <2>1, <2>2 DEF Sound, Bars
<1>10. ASSUME NEW k \in Key, NEW signed \in BOOLEAN, KeyRemembered(c, k, signed)
       PROVE  Sound(c)'
  <2> DEFINE keys == memo[c][k].keys
  <2>1. /\ place[c] = "auth" /\ Live(memo[c][k]) /\ memo[c][k].answer = "allow"
        /\ RouteAllowed(c, k, signed, keys) /\ UNCHANGED <<memo, audit, revoked>>
    BY <1>10 DEF KeyRemembered, MemoGet
  <2>2. keys \in SUBSET HostKey /\ k \in Credential
    BY <2>1, Fields DEF Memo, Expired, Live, Credential
  <2>3. /\ seen'[c].settled = seen[c].settled /\ seen'[c].granted = seen[c].granted
        /\ seen'[c].named = seen[c].named /\ seen'[c].age = seen[c].age
        /\ seen'[c].barred = seen[c].barred /\ seen'[c].pinAge = seen[c].settled[k]
    BY <1>10 DEF KeyRemembered, TypeOK, Seen
  <2>4. /\ k \in seen[c].granted /\ keys \subseteq seen[c].named
        /\ memo[c][k].left + seen[c].settled[k] = TTL
    BY <2>1 DEF Sound, Remembers
  <2>5. seen'[c].pinAge \in 0..(TTL - 1)
    <3>1. memo[c][k].left \in 0..TTL /\ memo[c][k].left > 0 /\ seen[c].settled[k] \in 0..TTL
      BY <2>1, Fields, MemoAges DEF Live
    <3> QED BY <2>3, <2>4, <3>1, TTLAssumption
  <2>6. k \notin seen[c].barred
    BY <2>4 DEF Sound, Bars
  <2>7. Remembers(c)'
    BY <2>1, <2>3 DEF Sound, Remembers, Live
  <2> QED BY <2>1, <2>2, <2>3, <2>4, <2>5, <2>6, <2>7, RouteIsSound DEF Sound
<1>11. ASSUME NEW keys \in SUBSET HostKey, ResolveAllows(c, keys)
       PROVE  Sound(c)'
  <2> DEFINE by == offer[c].by
  <2>1. /\ place[c] = "resolving" /\ offer[c].good
        /\ RouteAllowed(c, by, offer[c].signed, keys) /\ UNCHANGED <<audit, revoked>>
        /\ MemoPut(c, by, [answer |-> "allow", keys |-> keys, left |-> TTL])
    BY <1>11 DEF ResolveAllows
  <2>2. by \in Credential /\ offer[c].signed \in BOOLEAN
    BY Fields
  <2>3. /\ seen'[c].settled = Settle(c, by) /\ seen'[c].granted = seen[c].granted \cup {by}
        /\ seen'[c].named = seen[c].named \cup keys /\ seen'[c].age = seen[c].age
        /\ seen'[c].barred = seen[c].barred /\ seen'[c].pinAge = 0
    BY <1>11 DEF ResolveAllows, TypeOK
  <2>4. 0 \in 0..(TTL - 1)
    BY TTLAssumption
  <2>5. by \notin seen[c].barred
    BY <2>1 DEF Sound, Bars
  <2>6. Remembers(c)'
    <3> DEFINE record == [answer |-> "allow", keys |-> keys, left |-> TTL]
    <3>1. record \in Memo /\ record.left = TTL /\ record.keys = keys
      BY Written
    <3> HIDE DEF record
    <3> QED BY <2>1, <2>2, <2>3, <3>1, AnswerRemembers DEF record
  <2> QED BY <2>1, <2>2, <2>3, <2>4, <2>5, <2>6, RouteIsSound DEF Sound
<1>12. CASE ResolveDenies(c)
  <2> DEFINE by == offer[c].by
             record == [answer |-> "deny", left |-> TTL]
  <2>1. /\ LoggingIn(c) /\ place'[c] = "auth" /\ MemoPut(c, by, record)
        /\ UNCHANGED <<offer, host, sess, audit, revoked>>
    BY <1>12 DEF ResolveDenies, LoggingIn, TypeOK
  <2>2. /\ seen'[c].granted = seen[c].granted /\ seen'[c].settled = Settle(c, by)
        /\ seen'[c].named = seen[c].named /\ seen'[c].pinAge = seen[c].pinAge
        /\ seen'[c].age = seen[c].age /\ seen'[c].barred = seen[c].barred
    BY <1>12 DEF ResolveDenies, TypeOK, Seen
  <2>3. Remembers(c)'
    <3>1. record \in Memo /\ record.left = TTL /\ record.answer # "allow" /\ by \in Credential
      BY Written, Fields
    <3> QED BY <2>1, <2>2, <3>1, AnswerRemembers
  <2>4. Pins(c)' /\ Grants(c)'
    BY <2>1, <2>2 DEF Sound, Pins, Grants, Live
  <2>5. Attributes(c)'
    BY <2>1, <2>2 DEF Sound, Attributes, Live
  <2>6. Audits(c)' /\ Bars(c)'
    BY <2>1, <2>2 DEF Sound, Audits, Bars
  <2> QED BY <2>3, <2>4, <2>5, <2>6 DEF Sound
<1>13. CASE PipeStart(c)
  <2>1. /\ place[c] = "verified" /\ LoggingIn(c) /\ place'[c] = "piped"
        /\ audit'[c] = SessionRequest(c)
        /\ UNCHANGED <<offer, memo, host, sess, revoked, seen>>
    BY <1>13 DEF PipeStart, LoggingIn, TypeOK
  <2>2. Remembers(c)' /\ Pins(c)' /\ Bars(c)'
    BY <2>1 DEF Sound, Remembers, Pins, Bars, Live
  <2>3. Grants(c)' /\ Attributes(c)'
    BY <2>1 DEF Sound, Grants, Attributes, Live, LoggingIn
  <2>4. Audits(c)'
    <3>1. offer[c].by \in seen[c].granted /\ offer[c].by \in Credential
      BY <2>1, Fields DEF Sound, Grants
    <3>2. ASSUME ~Live(sess[c]) PROVE Audits(c)'
      <4>1. SessionRequest(c) = NoAudit /\ ~(seen[c].age < TTL)
        BY <2>1, <3>1, <3>2 DEF SessionRequest, Sound, Attributes
      <4> QED BY <2>1, <4>1 DEF Audits, NoAudit, AuthPassword
    <3>3. ASSUME Live(sess[c]) PROVE Audits(c)'
      <4>1. /\ audit'[c].method = sess[c].method
            /\ audit'[c].candidates =
                 IF sess[c].method = AuthPublicKey THEN sess[c].candidates ELSE {}
        BY <2>1, <3>3 DEF SessionRequest
      <4>2. sess[c].method \in {AuthPublicKey, AuthPassword}
        BY <3>3, Fields, AttributionAges
      <4>3. audit'[c] # NoAudit
        BY <4>1, <4>2 DEF NoAudit, AuthPublicKey, AuthPassword
      <4> QED
        BY <2>1, <3>1, <3>3, <4>1, <4>2, <4>3
           DEF Sound, Attributes, Audits, Credential, AuthPublicKey, AuthPassword
    <3> QED BY <3>2, <3>3
  <2> QED BY <2>2, <2>3, <2>4 DEF Sound
<1> QED
  BY <1>2, <1>3, <1>4, <1>5, <1>6, <1>7, <1>8, <1>9, <1>10, <1>11, <1>12, <1>13
     DEF Sshpiperd, Callback

(* What the memo, a pin and an attribution lose, the ages gain.             *)
LEMMA TickStep ==
  ASSUME TypeOK, NEW c \in Conn, Sound(c), Tick
  PROVE  Sound(c)'
<1>1. /\ \A k \in Key : memo'[c][k] = Aged(memo[c][k])
      /\ host'[c] = Aged(host[c]) /\ sess'[c] = Aged(sess[c])
      /\ UNCHANGED <<place, offer, audit, revoked>>
  BY DEF Tick
<1>2. /\ seen'[c].granted = seen[c].granted /\ seen'[c].named = seen[c].named
      /\ seen'[c].barred = seen[c].barred /\ seen'[c].accepted = seen[c].accepted
      /\ seen'[c].pinAge = IF Live(host'[c]) THEN UpTo(2 * TTL, seen[c].pinAge + 1) ELSE 0
      /\ \A k \in Key : seen'[c].settled[k] = UpTo(TTL, seen[c].settled[k] + 1)
      /\ seen'[c].age = IF LoggingIn(c) THEN UpTo(TTL, seen[c].age + 1) ELSE seen[c].age
  BY DEF Tick
<1>3. Remembers(c)'
  <2> SUFFICES ASSUME NEW k \in Key
               PROVE  /\ memo'[c][k].left + seen'[c].settled[k] = TTL
                      /\ Live(memo'[c][k]) /\ memo'[c][k].answer = "allow" =>
                           /\ k \in seen'[c].granted
                           /\ memo'[c][k].keys \subseteq seen'[c].named
    BY DEF Remembers, Live
  <2>1. memo[c][k] \in Memo /\ seen[c].settled[k] \in 0..TTL
    BY Fields
  <2>2. memo[c][k].left + seen[c].settled[k] = TTL
    BY DEF Sound, Remembers
  <2>3. memo'[c][k].left + seen'[c].settled[k] = TTL
    BY <1>1, <1>2, <2>1, <2>2, MemoAges, TTLAssumption DEF UpTo
  <2>4. Live(memo'[c][k]) /\ memo'[c][k].answer = "allow" =>
          Live(memo[c][k]) /\ memo[c][k].answer = "allow" /\ memo'[c][k].keys = memo[c][k].keys
    BY <1>1, <2>1, MemoAges
  <2> QED BY <1>2, <2>3, <2>4 DEF Sound, Remembers
<1>4. Pins(c)'
  <2>1. host[c] \in Pin /\ seen[c].pinAge \in Nat
    BY Fields, TTLAssumption
  <2>2. Live(host'[c]) => /\ Live(host[c]) /\ host'[c].keys = host[c].keys
                         /\ host'[c].left = host[c].left - 1 /\ host[c].left \in 1..TTL
    BY <1>1, <2>1, PinAges, TTLAssumption DEF Live
  <2>3. Live(host'[c]) => seen'[c].pinAge <= seen[c].pinAge + 1 /\ seen'[c].pinAge \in Nat
    BY <1>2, <2>1, TTLAssumption DEF UpTo
  <2>4. Live(host'[c]) => seen'[c].pinAge + host'[c].left <= 2 * TTL - 1
    BY <2>1, <2>2, <2>3, TTLAssumption DEF Sound, Pins
  <2> QED BY <1>2, <2>2, <2>4 DEF Sound, Pins, Live
<1>5. Attributes(c)'
  <2>1. sess[c] \in Attribution /\ seen[c].age \in 0..TTL
    BY Fields
  <2>2. /\ sess'[c].left = IF sess[c].left = 0 THEN 0 ELSE sess[c].left - 1
        /\ sess[c].left \in 0..TTL
        /\ Live(sess'[c]) => /\ Live(sess[c]) /\ sess'[c].method = sess[c].method
                             /\ sess'[c].candidates = sess[c].candidates
    BY <1>1, <2>1, AttributionAges
  <2>3. Live(sess'[c]) =>
          /\ sess'[c].candidates \subseteq seen'[c].granted
          /\ sess'[c].method = AuthPassword => Password \in seen'[c].granted
    BY <1>2, <2>2 DEF Sound, Attributes
  <2>4. ASSUME LoggingIn(c)', seen'[c].age < TTL, seen'[c].granted # {}
        PROVE  /\ Live(sess'[c]) /\ sess'[c].left + seen'[c].age >= TTL
               /\ seen'[c].granted \cap Key \subseteq sess'[c].candidates
               /\ place'[c] \in {"dialing", "verified"} /\ offer'[c].by = Password =>
                    sess'[c].method = AuthPassword
    <3>1. LoggingIn(c) /\ seen'[c].age = seen[c].age + 1 /\ seen[c].age < TTL
      BY <1>1, <1>2, <2>1, <2>4, TTLAssumption DEF LoggingIn, UpTo
    <3>2. Live(sess[c]) /\ sess[c].left + seen[c].age >= TTL
      BY <1>2, <2>4, <3>1 DEF Sound, Attributes
    <3>3. Live(sess'[c]) /\ sess'[c].left + seen'[c].age >= TTL
      BY <2>1, <2>2, <2>4, <3>1, <3>2, TTLAssumption DEF Live
    <3> QED BY <1>1, <1>2, <2>2, <2>4, <3>1, <3>3 DEF Sound, Attributes
  <2> QED BY <2>3, <2>4 DEF Attributes, Live
<1>6. Grants(c)' /\ Bars(c)'
  BY <1>1, <1>2 DEF Sound, Grants, Bars
<1>7. Audits(c)'
  <2>1. place[c] = "piped" => seen'[c].age = seen[c].age
    BY <1>2 DEF LoggingIn
  <2> QED BY <1>1, <1>2, <2>1 DEF Sound, Audits
<1> QED BY <1>3, <1>4, <1>5, <1>6, <1>7 DEF Sound

-----------------------------------------------------------------------------
(* Inv is an inductive invariant.                                           *)
THEOREM Invariant == Spec => []Inv
<1>1. Init => Inv
  <2> SUFFICES ASSUME Init PROVE Inv
    OBVIOUS
  <2>1. TypeOK
    <3>1. [by |-> Password, signed |-> TRUE, good |-> TRUE] \in Offer
      BY Zenon DEF Offer, Credential
    <3>2. Unseen \in Seen
      BY TTLAssumption DEF Unseen, Seen
    <3>3. Expired \in Memo /\ Expired \in Pin /\ Expired \in Attribution
      BY DEF Memo, Pin, Attribution
    <3>4. NoAudit \in Audit
      BY DEF NoAudit, Audit
    <3> QED BY <3>1, <3>2, <3>3, <3>4 DEF Init, TypeOK, Place
  <2>2. ASSUME NEW c \in Conn PROVE Sound(c)
    <3>1. /\ place[c] = "new" /\ audit[c] = NoAudit /\ host[c] = Expired /\ sess[c] = Expired
          /\ \A k \in Key : memo[c][k] = Expired
          /\ seen[c] = Unseen
      BY DEF Init
    <3>2. ~Live(Expired) /\ Expired.left = 0
      BY DEF Live, Expired
    <3> QED
      BY <3>1, <3>2, TTLAssumption
         DEF Sound, Remembers, Pins, Grants, Attributes, Audits, Bars, Unseen, NoAudit,
             LoggingIn, AuthPassword
  <2> QED BY <2>1, <2>2 DEF Inv
<1>2. Inv /\ [Next]_vars => Inv'
  <2> SUFFICES ASSUME Inv, [Next]_vars PROVE Inv'
    OBVIOUS
  <2> USE DEF Inv
  <2>1. ASSUME NEW c \in Conn, Sshpiperd(c) \/ Callback(c)
        PROVE  Inv'
    BY <2>1, CallbackType, CallbackStep, OthersStay, SameIsSound
  <2>2. ASSUME NEW k \in Key, Revoke(k)
        PROVE  Inv'
    <3>1. TypeOK' /\ revoked \subseteq revoked'
      BY <2>2 DEF Revoke, TypeOK, storeVars
    <3>2. \A c \in Conn : Same(c)
      BY <2>2 DEF Revoke, Same, storeVars
    <3> QED BY <3>1, <3>2, SameIsSound
  <2>3. CASE Tick
    BY <2>3, TickType, TickStep
  <2>4. CASE UNCHANGED vars
    <3>1. TypeOK' /\ revoked \subseteq revoked'
      BY <2>4 DEF vars, storeVars, TypeOK
    <3>2. \A c \in Conn : Same(c)
      BY <2>4 DEF vars, storeVars, Same
    <3> QED BY <3>1, <3>2, SameIsSound
  <2> QED BY <2>1, <2>2, <2>3, <2>4 DEF Next
<1> QED BY <1>1, <1>2, PTL DEF Spec

(* Every variable keeps its type; no record of connStore outlives the TTL.  *)
THEOREM TypeCorrect == Spec => []TypeOK
<1>1. Inv => TypeOK
  BY DEF Inv
<1> QED BY Invariant, <1>1, PTL

(* No login is piped without a granted credential and a named host key.     *)
THEOREM PipedAreVouchedFor == Spec => []PipedIsVouchedFor
<1>1. Inv => PipedIsVouchedFor
  BY DEF Inv, Sound, Grants, PipedIsVouchedFor
<1> QED BY Invariant, <1>1, PTL

(* A key revoked before a connection began never pipes it.                  *)
THEOREM RevokedStayOut == Spec => []RevokedStaysOut
<1>1. Inv => RevokedStaysOut
  BY DEF Inv, Sound, Grants, Bars, RevokedStaysOut
<1> QED BY Invariant, <1>1, PTL

(* A login faster than the window is audited, with the right method if it   *)
(* was a password and with the key that did it if it names keys.            *)
THEOREM LoginsAreAudited == Spec => []LoginIsAudited
<1>1. Inv => LoginIsAudited
  BY DEF Inv, Sound, Audits, LoginIsAudited
<1> QED BY Invariant, <1>1, PTL

(* An audit names only keys the api allowed on the connection.              *)
THEOREM AuditsAreHonest == Spec => []AuditIsHonest
<1>1. Inv => AuditIsHonest
  BY DEF Inv, Sound, Audits, AuditIsHonest
<1> QED BY Invariant, <1>1, PTL

(* Host keys are trusted for less than two windows after the api named them. *)
THEOREM PinsStayRecent == Spec => []PinsAreRecent
<1>1. Inv => PinsAreRecent
  <2> SUFFICES ASSUME Inv, NEW c \in Conn, Live(host[c])
               PROVE  seen[c].pinAge < 2 * TTL - 1
    BY DEF PinsAreRecent
  <2>1. host[c].left \in 1..TTL /\ seen[c].pinAge \in 0..(2 * TTL)
    BY Fields, PinAges, TTLAssumption DEF Inv, Live
  <2> QED BY <2>1, TTLAssumption DEF Inv, Sound, Pins
<1> QED BY Invariant, <1>1, PTL

(* The api is asked about a key again only when the window of its last      *)
(* answer is over.                                                          *)
THEOREM OneCallAWindow == Spec => OneCallPerWindow
<1> DEFINE Asks == \A c \in Conn :
             place[c] # "resolving" /\ place'[c] = "resolving" /\ offer'[c].by \in Key
               => seen[c].settled[offer'[c].by] = TTL
<1>1. Inv /\ [Next]_vars => [Asks]_vars
  <2> SUFFICES ASSUME Inv, Next, NEW c \in Conn,
                      place[c] # "resolving", place'[c] = "resolving", offer'[c].by \in Key
               PROVE  seen[c].settled[offer'[c].by] = TTL
    OBVIOUS
  <2>1. ~Tick /\ \A k \in Key : ~Revoke(k)
    BY DEF Tick, Revoke
  <2>2. PICK d \in Conn : Sshpiperd(d) \/ Callback(d)
    BY <2>1 DEF Next
  <2>3. d = c
    BY <2>2, OthersStay DEF Inv, Same
  <2>4. ASSUME NEW k \in Key, NEW signed \in BOOLEAN, KeyRemembered(c, k, signed)
        PROVE  FALSE
    <3>1. place'[c] \in {"dialing", "auth"}
      BY <2>4 DEF KeyRemembered, RouteAllowed, GoTo, Inv, TypeOK
    <3> QED BY <3>1
  <2>5. ASSUME NEW k \in Key, NEW signed \in BOOLEAN, KeyAsked(c, k, signed)
        PROVE  seen[c].settled[k] = TTL /\ offer'[c].by = k
    <3>1. ~Live(memo[c][k]) /\ offer'[c].by = k
      BY <2>5 DEF KeyAsked, MemoGet, Inv, TypeOK
    <3>2. memo[c][k].left \in 0..TTL /\ seen[c].settled[k] \in 0..TTL
      BY Fields, MemoAges DEF Inv
    <3> QED BY <3>1, <3>2, TTLAssumption DEF Inv, Sound, Remembers, Live
  <2>6. ASSUME PasswordAsked(c)
        PROVE  FALSE
    <3>1. offer'[c].by = Password
      BY <2>6 DEF PasswordAsked, Inv, TypeOK
    <3> QED BY <3>1, PasswordAssumption
  <2>7. CASE Sshpiperd(c)
    BY <2>7 DEF Sshpiperd, Connect, UpstreamFails, Disconnect, CachedKey, GoTo, Inv, TypeOK
  <2>8. CASE Callback(c)
    BY <2>4, <2>5, <2>6, <2>8
       DEF Callback, ResolveAllows, ResolveDenies, ResolveFails, HostKeyVerified,
           HostKeyRefused, PipeStart, GoTo, Inv, TypeOK
  <2> QED BY <2>2, <2>3, <2>7, <2>8
<1> QED BY Invariant, <1>1, PTL DEF Spec, OneCallPerWindow

=============================================================================
