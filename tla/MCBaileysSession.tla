-------------------------- MODULE MCBaileysSession --------------------------
(* Instances of BaileysSession for TLC. *)
EXTENDS BaileysSession, TLC

Symmetry == Permutations(Tasks) \cup Permutations(Socks) \cup Permutations(Calls)

Called == \E c \in Calls : call[c] # NoRequest \/ \E t \in Tasks : task[t].origin = c

Paired == pending # "none" \/ Promotions # {}

Registers == boot = "up" /\ bootLeft # {}

\* A request that waits for an outcome, with the open it started, a pairing and the
\* registration of a workspace run one at a time, with no restart behind them, no
\* disconnect or QR request under way, and one loop besides at most: for a request
\* that waits it is the cron's. A QR request runs beside the cron too.
OneKindAtATime ==
    /\ Called \/ Paired \/ Registers =>
          /\ restarts = 0 /\ qrLeft = {} /\ qrCur = NoSession
          /\ \A t \in Tasks : task[t].pc # "saveDisconnected"
          /\ wsPc = "idle" \/ cronLeft = {}
    /\ Called => wsPc = "idle" /\ ~wsTimer
    /\ qrLeft # {} \/ qrCur # NoSession => restarts = 0 /\ wsPc = "idle"
    /\ ~(Called /\ Paired) /\ ~(Called /\ Registers) /\ ~(Paired /\ Registers)
=============================================================================
