------------------------------ MODULE PinnedKeys ------------------------------
(***************************************************************************)
(* The two verifiers of an upstream host key: the bridge's callback, built  *)
(* before it dials (internal/terminal/ssh.go), and the plugin's, which      *)
(* reads the pinned lines whenever sshpiperd presents a key                 *)
(* (internal/gateway/plugin.go).  Neither depends on the order of lines.    *)
(***************************************************************************)
CONSTANT HostKey

(* An authorized_keys line, or a key on the wire; what does not parse has   *)
(* no key to speak of.                                                      *)
Encoded == [parses : BOOLEAN, key : HostKey]

Parsed(lines) == {line.key : line \in {l \in lines : l.parses}}

(* pinnedHostKeyCallback fails, and nothing is dialled.                     *)
Unpinnable(lines) == lines = {} \/ Parsed(lines) = {}

(* The callback DialVM hands to the handshake, where the key has parsed.    *)
DialAccepts(lines, presented) ==
  ~Unpinnable(lines) /\ presented.key \in Parsed(lines)

(* stored: getHostKeys found a record that has not expired.                 *)
VerifyHostKey(stored, lines, presented) ==
  /\ stored /\ lines # {}
  /\ presented.parses
  /\ \E line \in lines : line.parses /\ line.key = presented.key

=============================================================================
