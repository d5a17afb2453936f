----------------------------- MODULE MCLockPorts -----------------------------
(* Two parts that reclaim what dead processes left, each on its own: three    *)
(* lives of processes on one stack lock, and allocations on one port, of      *)
(* which a1 and a2 are of one process.                                        *)
EXTENDS StackLock, PortBroker

CONSTANTS a1, a2, a3, a4, q1, q2, q3

VARIABLE which

Processes == [a \in {a1, a2, a3, a4} |-> IF a \in {a1, a2} THEN q1 ELSE IF a = a3 THEN q2 ELSE q3]

(* While the lock runs the port waits in one of its initial states.           *)
PortWaits == reservation = Nothing /\ step[a4] = "over"

EitherInit ==
  /\ Init /\ PortInit
  /\ \/ which = "lock" /\ PortWaits
     \/ which = "port"

(* The attempts on a port come to an end; the lock always goes on.            *)
EitherNext ==
  /\ UNCHANGED which
  /\ \/ which = "lock" /\ Next /\ UNCHANGED portVars
     \/ which = "port" /\ (PortNext \/ UNCHANGED portVars) /\ UNCHANGED vars

EitherSpec ==
  /\ EitherInit /\ [][EitherNext]_<<vars, portVars, which>>
  /\ LockFairness
=============================================================================
