-------------------------- MODULE ReconnectPolicy ---------------------------
(***************************************************************************)
(* The reconnect controller of crates/tunnel/src/reconnect.rs: from the    *)
(* number of attempts so far and the event that ended the last one, the    *)
(* decision to retry, to switch to another node, or to stop.               *)
(***************************************************************************)
EXTENDS VpnState

CONSTANTS
    MaxAttempts,      \* ReconnectPolicy.max_attempts
    BaseDelay,        \* ReconnectPolicy.base_delay, in seconds
    MaxDelay,         \* ReconnectPolicy.max_delay, in seconds
    SwitchNodeAfter   \* ReconnectPolicy.switch_node_after

ASSUME PolicyAssumption ==
    /\ MaxAttempts \in Nat
    /\ MaxAttempts < MaxU32
    /\ BaseDelay \in Nat
    /\ MaxDelay \in Nat
    /\ SwitchNodeAfter \in Nat

ReconnectEvents == {"HandshakeTimeout", "IdleTimeout", "ServerKickOut",
                    "NetworkChanged", "TransportFailed"}

DecisionKinds == {"Retry", "SwitchNode", "Stop"}

delay_for_attempt(attempt) ==
    LET exponent == IF attempt - 1 < 5 THEN attempt - 1 ELSE 5
        delay    == BaseDelay * 2 ^ exponent
    IN  IF delay < MaxDelay THEN delay ELSE MaxDelay

\* ReconnectController::record: the new attempt count, the decision and the
\* delay before the next attempt.
record(attempts, event) ==
    LET n == SaturatingIncr(attempts) IN
    [attempts |-> n,
     kind     |-> IF n > MaxAttempts THEN "Stop"
                  ELSE IF event = "ServerKickOut" \/ n >= SwitchNodeAfter
                  THEN "SwitchNode" ELSE "Retry",
     after    |-> IF n > MaxAttempts THEN 0 ELSE delay_for_attempt(n)]

=============================================================================
