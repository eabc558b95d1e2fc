---------------------------- MODULE LoginContract ----------------------------
(***************************************************************************)
(* What the gateway promises about SSH logins, without callbacks, caches or *)
(* clocks (the comments of internal/gateway/plugin.go and connstore.go): a  *)
(* connection gets in at most once, with a credential pickle-api granted on *)
(* that connection and to a host key it named there; and a key that was     *)
(* revoked before the connection opened is not granted on it.  One that is  *)
(* revoked later may be: the answer may have been on its way.               *)
(***************************************************************************)
CONSTANTS Conn, Credential, HostKey

VARIABLES
  revoked,   \* what pickle-api grants no more
  login,     \* how far a connection is
  barred,    \* what was revoked when it opened
  granted,   \* the credentials granted on it
  named,     \* the host keys named with them
  entered    \* how it got in: at most one credential and host key

contractVars == <<revoked, login, barred, granted, named, entered>>

Init ==
  /\ revoked = {}
  /\ login = [c \in Conn |-> "waiting"]
  /\ barred = [c \in Conn |-> {}]
  /\ granted = [c \in Conn |-> {}]
  /\ named = [c \in Conn |-> {}]
  /\ entered = [c \in Conn |-> {}]

Opens(c) ==
  /\ login[c] = "waiting"
  /\ login' = [login EXCEPT ![c] = "open"]
  /\ barred' = [barred EXCEPT ![c] = revoked]
  /\ UNCHANGED <<revoked, granted, named, entered>>

Grants(c, by, keys) ==
  /\ login[c] = "open"
  /\ by \notin barred[c] /\ keys # {}
  /\ granted' = [granted EXCEPT ![c] = @ \cup {by}]
  /\ named' = [named EXCEPT ![c] = @ \cup keys]
  /\ UNCHANGED <<revoked, login, barred, entered>>

Enters(c, by, h) ==
  /\ login[c] = "open"
  /\ by \in granted[c] \ barred[c] /\ h \in named[c]
  /\ login' = [login EXCEPT ![c] = "in"]
  /\ entered' = [entered EXCEPT ![c] = {[by |-> by, host |-> h]}]
  /\ UNCHANGED <<revoked, barred, granted, named>>

Leaves(c) ==
  /\ login[c] \in {"open", "in"}
  /\ login' = [login EXCEPT ![c] = "out"]
  /\ UNCHANGED <<revoked, barred, granted, named, entered>>

Revokes(by) ==
  /\ revoked' = revoked \cup {by}
  /\ UNCHANGED <<login, barred, granted, named, entered>>

Next ==
  \/ \E c \in Conn :
       \/ Opens(c) \/ Leaves(c)
       \/ \E by \in Credential, keys \in SUBSET HostKey : Grants(c, by, keys)
       \/ \E by \in Credential, h \in HostKey : Enters(c, by, h)
  \/ \E by \in Credential : Revokes(by)

Spec == Init /\ [][Next]_contractVars

=============================================================================
