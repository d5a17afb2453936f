----------------------------- MODULE PortBroker -----------------------------
(* substrate/runtime/port-broker/service.ts: the attempts on one port, by the *)
(* allocations of several processes.  A process keeps a slot per port in its  *)
(* memory; across processes a reservation file, created by link, counts,      *)
(* unless its holder is dead or its body cannot be decoded.                   *)
EXTENDS Naturals, FiniteSets

CONSTANTS
  Allocs,   \* calls of attemptSlot on this port
  Proc,     \* Proc[a]: the process of an allocation
  Mortal,   \* processes that may be killed
  Unnoted, \* allocations whose fiber yields after the write, before it is noted
  Contending, \* bound: the sets of allocations that contend in a behaviour
  Nothing,  \* no reservation file
  Garbage   \* a reservation that cannot be decoded

PortProcs == {Proc[a] : a \in Allocs}

ASSUME PortAssumption ==
  /\ Mortal \subseteq PortProcs /\ Contending \subseteq SUBSET Allocs
  /\ Unnoted \subseteq Allocs
  /\ Nothing \notin Allocs /\ Garbage \notin Allocs /\ Nothing # Garbage

VARIABLES
  slot,       \* the process has the port in its map
  reservation, \* the reservation file: whose it is
  step,       \* where each allocation is
  seen,       \* the reservation its decision is about
  healed,     \* reclaimedUndecodable
  again,      \* release was called explicitly: the finalizer is still to come
  alive,      \* processes that run
  lost        \* history: whose reservation a decision about another file unlinked

portVars == <<slot, reservation, step, seen, healed, again, alive, lost>>

PortInit ==
  /\ slot = [p \in PortProcs |-> FALSE]
  /\ reservation \in {Nothing, Garbage}
  /\ \E g \in Contending : step = [a \in Allocs |-> IF a \in g THEN "new" ELSE "over"]
  /\ seen = [a \in Allocs |-> Nothing]
  /\ healed = {} /\ again = {}
  /\ alive = PortProcs
  /\ lost = {}

To(a, s) == step' = [step EXCEPT ![a] = s]
PortAt(a, s) == step[a] = s /\ Proc[a] \in alive
Holding(a) == step[a] \in {"held", "listening"}

-----------------------------------------------------------------------------
TryReserve(a) ==
  /\ PortAt(a, "new")
  /\ IF slot[Proc[a]] THEN To(a, "over") /\ UNCHANGED slot
                      ELSE To(a, "write") /\ slot' = [slot EXCEPT ![Proc[a]] = TRUE]
  /\ UNCHANGED <<reservation, seen, healed, again, alive, lost>>

(* tryWriteReservationSync: link, or EEXIST and then a read.                  *)
WriteReservation(a) ==
  /\ PortAt(a, "write")
  /\ \/ /\ reservation = Nothing /\ reservation' = a
        /\ To(a, IF a \in Unnoted THEN "written" ELSE "probe")
     \/ reservation # Nothing /\ UNCHANGED reservation /\ To(a, "read")
  /\ UNCHANGED <<slot, seen, healed, again, alive, lost>>

(* The fiber goes on, or is interrupted before reservationCell is set: the    *)
(* slot is dropped, the file is not.                                          *)
Note(a) ==
  /\ PortAt(a, "written")
  /\ \/ To(a, "probe") /\ UNCHANGED slot
     \/ To(a, "over") /\ slot' = [slot EXCEPT ![Proc[a]] = FALSE]
  /\ UNCHANGED <<reservation, seen, healed, again, alive, lost>>

(* Mutant: any holder is taken for dead.                                      *)
ReadAsStale(a) ==
  /\ PortAt(a, "read")
  /\ seen' = [seen EXCEPT ![a] = reservation]
  /\ To(a, IF reservation = Nothing THEN "write" ELSE "reclaim")
  /\ UNCHANGED <<slot, reservation, healed, again, alive, lost>>

(* The read, and the probe of the holder it names: gone, undecodable (healed  *)
(* once), dead, or busy.                                                      *)
ReadReservation(a) ==
  /\ PortAt(a, "read")
  /\ seen' = [seen EXCEPT ![a] = reservation]
  /\ To(a, CASE reservation = Nothing -> "write"
             [] reservation = Garbage -> IF a \in healed THEN "drop" ELSE "unlink"
             [] OTHER -> IF Proc[reservation] \in alive THEN "drop" ELSE "reclaim")
  /\ UNCHANGED <<slot, reservation, healed, again, alive, lost>>

(* reclaimReservationIfOwnerSync reads the file again before it unlinks.      *)
Reclaim(a) ==
  /\ PortAt(a, "reclaim")
  /\ To(a, IF reservation = seen[a] THEN "unlink" ELSE "drop")
  /\ UNCHANGED <<slot, reservation, seen, healed, again, alive, lost>>

Lose(a, decided) == lost' = IF reservation # decided THEN lost \cup {reservation} ELSE lost

Unlink(a) ==
  /\ PortAt(a, "unlink")
  /\ IF reservation = Nothing
     THEN To(a, "drop") /\ UNCHANGED <<reservation, healed, lost>>
     ELSE /\ reservation' = Nothing /\ To(a, "write")
          /\ Lose(a, seen[a])
          /\ healed' = IF seen[a] = Garbage THEN healed \cup {a} ELSE healed
  /\ UNCHANGED <<slot, seen, again, alive>>

(* The port is free for the kernel: finishAllocation arms the finalizer.      *)
PortProbe(a) ==
  /\ PortAt(a, "probe")
  /\ \A b \in Allocs : step[b] # "listening"
  /\ To(a, "held")
  /\ UNCHANGED <<slot, reservation, seen, healed, again, alive, lost>>

(* The probe misses, the write fails, or the attempt is interrupted.          *)
PortMiss(a) ==
  /\ PortAt(a, "write") \/ PortAt(a, "read") \/ PortAt(a, "probe")
  /\ To(a, "drop")
  /\ UNCHANGED <<slot, reservation, seen, healed, again, alive, lost>>

(* The caller's server binds the port, if the kernel lets it.                 *)
Listen(a) ==
  /\ PortAt(a, "held") /\ \A b \in Allocs : step[b] # "listening"
  /\ To(a, "listening")
  /\ UNCHANGED <<slot, reservation, seen, healed, again, alive, lost>>

-----------------------------------------------------------------------------
(* AllocatedPort.release: explicitly, with the finalizer to follow, ...       *)
ReleaseEarly(a) ==
  /\ PortAt(a, "held") \/ PortAt(a, "listening")
  /\ To(a, "drop") /\ again' = again \cup {a}
  /\ UNCHANGED <<slot, reservation, seen, healed, alive, lost>>

(* ... or by the finalizer alone, or a second time.                           *)
Finalize(a) ==
  /\ PortAt(a, "held") \/ PortAt(a, "listening") \/ PortAt(a, "released")
  /\ To(a, "drop")
  /\ again' = again \ {a}
  /\ UNCHANGED <<slot, reservation, seen, healed, alive, lost>>

(* drop takes the slot of the port, whoever has it now (the attempt's own     *)
(* variables are gone), ...                                                   *)
Drop(a) ==
  /\ PortAt(a, "drop")
  /\ slot' = [slot EXCEPT ![Proc[a]] = FALSE]
  /\ To(a, "unreserve")
  /\ seen' = [seen EXCEPT ![a] = Nothing]
  /\ healed' = healed \ {a} /\ lost' = lost \ {a}
  /\ UNCHANGED <<reservation, again, alive>>

(* ... and unlinkReservationIfOwnerSync reads the owner and unlinks.          *)
Left(a) == To(a, IF a \in again THEN "released" ELSE "over")

(* Mutant: an attempt that missed forgets its reservation.                    *)
UnreserveHeld(a) ==
  /\ PortAt(a, "unreserve")
  /\ IF reservation = a /\ a \in again THEN To(a, "remove") ELSE Left(a)
  /\ UNCHANGED <<slot, reservation, seen, healed, again, alive, lost>>

Unreserve(a) ==
  /\ PortAt(a, "unreserve")
  /\ IF reservation = a THEN To(a, "remove") ELSE Left(a)
  /\ UNCHANGED <<slot, reservation, seen, healed, again, alive, lost>>

RemoveReservation(a) ==
  /\ PortAt(a, "remove")
  /\ reservation' = Nothing
  /\ lost' = IF reservation \notin {a, Nothing} THEN lost \cup {reservation} ELSE lost
  /\ Left(a)
  /\ UNCHANGED <<slot, seen, healed, again, alive>>

KillProcess(p) ==
  /\ p \in alive \cap Mortal
  /\ alive' = alive \ {p}
  /\ step' = [a \in Allocs |-> IF Proc[a] = p THEN "over" ELSE step[a]]
  /\ UNCHANGED <<slot, reservation, seen, healed, again, lost>>

PortAttempt(a) == TryReserve(a) \/ WriteReservation(a) \/ Note(a) \/ ReadReservation(a)
                \/ Reclaim(a) \/ Unlink(a) \/ PortProbe(a) \/ PortMiss(a)
PortNext ==
  \/ \E a \in Allocs : \/ PortAttempt(a) \/ Listen(a) \/ ReleaseEarly(a) \/ Finalize(a)
                       \/ Drop(a) \/ Unreserve(a) \/ RemoveReservation(a)
  \/ \E p \in Mortal : KillProcess(p)

PortSpec == PortInit /\ [][PortNext]_portVars

-----------------------------------------------------------------------------
(* Whoever was given the port has the reservation file, so that no peer gets  *)
(* it, unless an unlink took a file its decision was not about.               *)
HolderIsReserved == \A a \in Allocs : Holding(a) => reservation = a \/ a \in lost

(* No reservation of a running process is left behind by an attempt that      *)
(* ended (service.ts:409: the port would be busy for the supervisor's whole   *)
(* lifetime), unless the fiber was preempted between the write and its note.  *)
NoLeakedReservation ==
  \A a \in Allocs : reservation = a /\ Proc[a] \in alive =>
    a \in Unnoted \/ step[a] \in {"probe", "held", "listening", "drop", "unreserve", "remove"}
=============================================================================
