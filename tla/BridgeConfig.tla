----------------------------- MODULE BridgeConfig -----------------------------
(***************************************************************************)
(* The configuration of the web-terminal bridge: what run reads from flags  *)
(* and environment, what Validate refuses, and what it makes of the rest    *)
(* (internal/terminal/config.go, cmd/sshgw-terminal-bridge/main.go).  The   *)
(* assumptions of TerminalBridge and SessionWatch on their constants are    *)
(* consequences of it, or are seen here not to be.                          *)
(***************************************************************************)
EXTENDS Integers

(* The strings Validate wants filled, blanks not counting.                  *)
Mandatory == {"APIBase", "GatewayToken", "ControlToken", "ConsoleOrigin",
              "TerminalKeyFile", "WSAllowedSourceIP", "ControlAllowedSourceIP"}

(* What run sets from flags, durations in milliseconds.                     *)
Flagged == {"IdleTimeout", "PingInterval", "RevalidateInterval", "MaxFrameBytes",
            "MaxSessions"}

Tunable == Flagged \cup {"RevalidateMaxFailures", "SSHConnectTimeout", "WSWriteTimeout",
                         "APITimeout"}

Seconds(n) == n * 1000

Default == [t \in Tunable |->
  CASE t = "IdleTimeout"           -> Seconds(900)
    [] t = "PingInterval"          -> Seconds(30)
    [] t = "RevalidateInterval"    -> Seconds(60)
    [] t = "RevalidateMaxFailures" -> 5
    [] t = "MaxFrameBytes"         -> 1048576
    [] t = "MaxSessions"           -> 200
    [] t = "SSHConnectTimeout"     -> Seconds(10)
    [] t = "WSWriteTimeout"        -> Seconds(10)
    [] t = "APITimeout"            -> Seconds(5)]

(* filled: the mandatory strings that are.                                  *)
Config == [filled : SUBSET Mandatory, tunable : [Tunable -> Int]]

(* The fields run does not mention are zero.                                *)
FromFlags(filled, flag) ==
  [filled |-> filled, tunable |-> [t \in Tunable |-> IF t \in Flagged THEN flag[t] ELSE 0]]

ApplyDefaults(tunable) ==
  [t \in Tunable |-> IF tunable[t] <= 0 THEN Default[t] ELSE tunable[t]]

Accepts(config) == Mandatory \subseteq config.filled

(* What Validate leaves of a configuration it accepts.                      *)
Validate(config) ==
  [filled |-> config.filled, tunable |-> ApplyDefaults(config.tunable)]

(* SessionWatch's PaceAssumption.                                           *)
Paced(tunable) ==
  /\ tunable["APITimeout"] <= tunable["RevalidateInterval"]
  /\ tunable["WSWriteTimeout"] <= tunable["PingInterval"]
  /\ tunable["PingInterval"] + tunable["WSWriteTimeout"] < tunable["IdleTimeout"]

=============================================================================
