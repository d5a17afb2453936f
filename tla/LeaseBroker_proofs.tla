-------------------------- MODULE LeaseBroker_proofs --------------------------
(* LeaseInv is inductive.  The queue is looked into by three lemmas only, one *)
(* per way it changes; the steps then reason about who is Queued.             *)
EXTENDS LeaseBroker, TLAPS

(* The queue's part of an update: what happens to its order and members.      *)
QueueIs(S) == /\ waiters' \in Seq(Calls)
              /\ NoDuplicates'
              /\ \A d \in Calls : Queued(d)' <=> d \in S

(* Appending a call that is not queued.                                       *)
LEMMA AppendFacts ==
  ASSUME waiters \in Seq(Calls), NoDuplicates,
         NEW c \in Calls, ~Queued(c), waiters' = Append(waiters, c)
  PROVE  QueueIs({d \in Calls : Queued(d) \/ d = c})
<1>1. waiters' \in Seq(Calls) /\ Len(waiters') = Len(waiters) + 1
  OBVIOUS
<1>2. \A i \in 1 .. Len(waiters) : waiters'[i] = waiters[i]
  OBVIOUS
<1>3. waiters'[Len(waiters) + 1] = c
  OBVIOUS
<1>4. DOMAIN waiters = 1 .. Len(waiters) /\ DOMAIN waiters' = 1 .. Len(waiters) + 1
  BY <1>1
<1>5. Len(waiters) \in Nat
  OBVIOUS
<1>6. NoDuplicates'
  BY <1>2, <1>3, <1>4, <1>5 DEF NoDuplicates, Queued
<1>7. ASSUME NEW d \in Calls PROVE Queued(d)' <=> (Queued(d) \/ d = c)
  BY <1>2, <1>3, <1>4, <1>5 DEF Queued
<1> QED
  BY <1>1, <1>6, <1>7 DEF QueueIs

(* Taking the first waiter.                                                   *)
LEMMA TailFacts ==
  ASSUME waiters \in Seq(Calls), NoDuplicates, waiters # <<>>, waiters' = Tail(waiters)
  PROVE  /\ Head(waiters) \in Calls /\ Queued(Head(waiters))
         /\ QueueIs({d \in Calls : Queued(d) /\ d # Head(waiters)})
<1>1. Len(waiters) \in Nat /\ Len(waiters) >= 1 /\ DOMAIN waiters = 1 .. Len(waiters)
  OBVIOUS
<1>2. Head(waiters) = waiters[1] /\ waiters[1] \in Calls
  BY <1>1
<1>3. waiters' \in Seq(Calls) /\ Len(waiters') = Len(waiters) - 1
  BY <1>1
<1>4. \A i \in 1 .. Len(waiters) - 1 : waiters'[i] = waiters[i + 1]
  BY <1>1
<1>5. DOMAIN waiters' = 1 .. Len(waiters) - 1
  BY <1>3, <1>1
<1>6. NoDuplicates'
  BY <1>1, <1>4, <1>5 DEF NoDuplicates
<1>7. ASSUME NEW d \in Calls PROVE Queued(d)' <=> (Queued(d) /\ d # Head(waiters))
  <2>1. ASSUME Queued(d)' PROVE Queued(d) /\ d # Head(waiters)
    <3>1. PICK i \in 1 .. Len(waiters) - 1 : waiters[i + 1] = d
      BY <2>1, <1>4, <1>5 DEF Queued
    <3>2. i + 1 \in DOMAIN waiters /\ 1 \in DOMAIN waiters /\ i + 1 # 1
      BY <1>1
    <3> QED
      BY <3>1, <3>2, <1>2 DEF Queued, NoDuplicates
  <2>2. ASSUME Queued(d), d # Head(waiters) PROVE Queued(d)'
    <3>1. PICK i \in 1 .. Len(waiters) : waiters[i] = d
      BY <2>2, <1>1 DEF Queued
    <3>2. i # 1
      BY <3>1, <2>2, <1>2
    <3>3. i - 1 \in 1 .. Len(waiters) - 1 /\ (i - 1) + 1 = i
      BY <3>2, <1>1
    <3>4. waiters'[i - 1] = d
      BY <3>1, <3>3, <1>4
    <3> QED
      BY <3>3, <3>4, <1>5 DEF Queued
  <2> QED
    BY <2>1, <2>2
<1>8. Queued(Head(waiters))
  BY <1>1, <1>2 DEF Queued
<1> QED
  BY <1>2, <1>3, <1>6, <1>7, <1>8 DEF QueueIs

(* Leaving from anywhere in the queue.                                        *)
LEMMA DequeueFacts ==
  ASSUME waiters \in Seq(Calls), NoDuplicates, NEW c \in Calls, Dequeue(c)
  PROVE  QueueIs({d \in Calls : Queued(d) /\ d # c})
<1>1. CASE ~Queued(c) /\ UNCHANGED waiters
  BY <1>1 DEF QueueIs, NoDuplicates, Queued
<1>2. CASE \E i \in DOMAIN waiters : waiters[i] = c /\ waiters' = Without(i)
  <2>1. PICK i \in DOMAIN waiters : waiters[i] = c /\ waiters' = Without(i)
    BY <1>2
  <2>2. Len(waiters) \in Nat /\ DOMAIN waiters = 1 .. Len(waiters) /\ i \in 1 .. Len(waiters)
    OBVIOUS
  <2>3. \A j \in 1 .. Len(waiters) : waiters[j] \in Calls
    BY <2>2
  <2>4. \A j \in 1 .. Len(waiters) - 1 :
          waiters'[j] = IF j < i THEN waiters[j] ELSE waiters[j + 1]
    BY <2>1 DEF Without
  <2>5. waiters' \in [1 .. Len(waiters) - 1 -> Calls]
    BY <2>1, <2>2, <2>3 DEF Without
  <2>6. waiters' \in Seq(Calls) /\ DOMAIN waiters' = 1 .. Len(waiters) - 1
    BY <2>5, <2>2
  <2>7. NoDuplicates'
    <3> SUFFICES ASSUME NEW j \in 1 .. Len(waiters) - 1, NEW k \in 1 .. Len(waiters) - 1,
                        waiters'[j] = waiters'[k]
                 PROVE  j = k
      BY <2>6 DEF NoDuplicates
    <3> DEFINE J == IF j < i THEN j ELSE j + 1
               K == IF k < i THEN k ELSE k + 1
    <3>1. J \in DOMAIN waiters /\ K \in DOMAIN waiters
      BY <2>2
    <3>2. waiters[J] = waiters[K]
      BY <2>4
    <3>3. J = K
      BY <3>1, <3>2 DEF NoDuplicates
    <3> QED
      BY <3>3, <2>2
  <2>8. ASSUME NEW d \in Calls PROVE Queued(d)' <=> (Queued(d) /\ d # c)
    <3>1. ASSUME Queued(d)' PROVE Queued(d) /\ d # c
      <4>1. PICK j \in 1 .. Len(waiters) - 1 : waiters'[j] = d
        BY <3>1, <2>6 DEF Queued
      <4> DEFINE J == IF j < i THEN j ELSE j + 1
      <4>2. J \in DOMAIN waiters /\ J # i
        BY <2>2
      <4>3. waiters[J] = d
        BY <4>1, <2>4
      <4> QED
        BY <4>2, <4>3, <2>1 DEF Queued, NoDuplicates
    <3>2. ASSUME Queued(d), d # c PROVE Queued(d)'
      <4>1. PICK j \in 1 .. Len(waiters) : waiters[j] = d
        BY <3>2, <2>2 DEF Queued
      <4>2. j # i
        BY <4>1, <3>2, <2>1
      <4> DEFINE J == IF j < i THEN j ELSE j - 1
      <4>3. J \in 1 .. Len(waiters) - 1
        BY <4>2, <2>2
      <4>4. waiters'[J] = d
        BY <4>1, <4>2, <4>3, <2>2, <2>4
      <4> QED
        BY <4>3, <4>4, <2>6 DEF Queued
    <3> QED
      BY <3>1, <3>2
  <2> QED
    BY <2>6, <2>7, <2>8 DEF QueueIs
<1> QED
  BY <1>1, <1>2 DEF Dequeue
-----------------------------------------------------------------------------
LEMMA InitLease == LeaseInit => LeaseInv
BY LeaseAssumption DEF LeaseInit, LeaseInv, LeaseTypeOK, Exclusive, QueueInv, NoDuplicates, SignalInv,
   LeakInv, Has, Queued, Points

(* A call that is not queued and enters or leaves nothing of the queue.       *)
LEMMA QueueKept ==
  ASSUME waiters \in Seq(Calls), NoDuplicates, UNCHANGED waiters
  PROVE  QueueIs({d \in Calls : Queued(d)})
BY DEF QueueIs, NoDuplicates, Queued

LEMMA NextLease == LeaseInv /\ [LeaseNext]_leaseVars => LeaseInv'
<1> SUFFICES ASSUME LeaseInv, [LeaseNext]_leaseVars PROVE LeaseInv'
  OBVIOUS
<1> USE LeaseAssumption
<1> USE DEF LeaseInv, LeaseTypeOK, Points
<1>0. CASE UNCHANGED leaseVars
  BY <1>0 DEF leaseVars, Exclusive, QueueInv, NoDuplicates, SignalInv, LeakInv, Has, Queued
<1>1. ASSUME NEW c \in Calls, Claim(c) PROVE LeaseInv'
  <2>0. Claim(c)
    BY <1>1
  <2>1. QueueIs({d \in Calls : FALSE})
    BY <2>0 DEF Claim, QueueIs, NoDuplicates, Queued, QueueInv
  <2>2. LeaseTypeOK'
    BY <2>0, <2>1 DEF Claim, GoTo, QueueIs
  <2>3. Exclusive'
    <3>1. ASSUME NEW d \in Calls PROVE ~Has(d) /\ ~Queued(d)
      <4>1. holder = Nobody
        BY <2>0 DEF Claim
      <4>2. waiters = <<>>
        BY <4>1 DEF QueueInv
      <4>3. ~Queued(d)
        BY <4>2 DEF Queued
      <4>4. ~Has(d)
        BY <4>1 DEF Exclusive
      <4> QED
        BY <4>3, <4>4
    <3>2. ASSUME NEW d \in Calls, d # c PROVE at'[d] = at[d] /\ ~Has(d)'
      <4>1. at'[d] = at[d] /\ d \in Calls /\ ~Queued(d)'
        BY <2>0, <2>1, <3>2 DEF Claim, GoTo, QueueIs
      <4>2. ~Has(d) /\ ~Queued(d)
        BY <3>1
      <4> QED
        BY <4>1, <4>2 DEF Has
    <3>3. Has(c)' /\ holder' = Owner[c]
      BY <2>0 DEF Claim, GoTo, Has
    <3> QED
      BY <3>2, <3>3 DEF Exclusive
  <2>4. QueueInv'
    BY <2>0, <2>1 DEF Claim, GoTo, QueueIs, Exclusive, Has, QueueInv
  <2>5. SignalInv'
    BY <2>0, <2>1 DEF Claim, GoTo, QueueIs, SignalInv, QueueInv
  <2>6. LeakInv'
    BY <2>0, <2>1 DEF Claim, GoTo, QueueIs, LeakInv, Exclusive, Has
  <2> QED
    BY <2>2, <2>3, <2>4, <2>5, <2>6
<1>2. ASSUME NEW c \in Calls, Enqueue(c) PROVE LeaseInv'
  <2>0. Enqueue(c)
    BY <1>2
  <2>1. QueueIs({d \in Calls : Queued(d) \/ d = c})
    BY <2>0, AppendFacts DEF Enqueue, QueueInv
  <2>2. LeaseTypeOK'
    BY <2>0, <2>1 DEF Enqueue, GoTo, QueueIs
  <2>3. Exclusive'
    BY <2>0, <2>1 DEF Enqueue, GoTo, QueueIs, Exclusive, Has, QueueInv, LeakInv, SignalInv
  <2>4. QueueInv'
    BY <2>0, <2>1 DEF Enqueue, GoTo, QueueIs, Exclusive, Has, QueueInv
  <2>5. SignalInv'
    BY <2>0, <2>1 DEF Enqueue, GoTo, QueueIs, SignalInv, QueueInv
  <2>6. LeakInv'
    BY <2>0, <2>1 DEF Enqueue, GoTo, QueueIs, LeakInv, Exclusive, Has
  <2> QED
    BY <2>2, <2>3, <2>4, <2>5, <2>6
<1>3. ASSUME NEW c \in Calls, TurnAway(c) PROVE LeaseInv'
  <2>0. TurnAway(c)
    BY <1>3
  <2>1. QueueIs({d \in Calls : Queued(d)})
    BY <2>0, QueueKept DEF TurnAway, QueueInv
  <2>2. LeaseTypeOK'
    BY <2>0, <2>1 DEF TurnAway, GoTo, QueueIs
  <2>3. Exclusive'
    BY <2>0, <2>1 DEF TurnAway, GoTo, QueueIs, Exclusive, Has, QueueInv, LeakInv, SignalInv
  <2>4. QueueInv'
    BY <2>0, <2>1 DEF TurnAway, GoTo, QueueIs, Exclusive, Has, QueueInv
  <2>5. SignalInv'
    BY <2>0, <2>1 DEF TurnAway, GoTo, QueueIs, SignalInv, QueueInv
  <2>6. LeakInv'
    BY <2>0, <2>1 DEF TurnAway, GoTo, QueueIs, LeakInv, Exclusive, Has
  <2> QED
    BY <2>2, <2>3, <2>4, <2>5, <2>6
<1>4. ASSUME NEW c \in Calls, Wake(c) PROVE LeaseInv'
  <2>0. Wake(c)
    BY <1>4
  <2>1. QueueIs({d \in Calls : Queued(d)})
    BY <2>0, QueueKept DEF Wake, QueueInv
  <2>2. LeaseTypeOK'
    BY <2>0, <2>1 DEF Wake, GoTo, QueueIs
  <2>3. Exclusive'
    BY <2>0, <2>1 DEF Wake, GoTo, QueueIs, Exclusive, Has, QueueInv, LeakInv, SignalInv
  <2>4. QueueInv'
    BY <2>0, <2>1 DEF Wake, GoTo, QueueIs, QueueInv, SignalInv
  <2>5. SignalInv'
    BY <2>0, <2>1 DEF Wake, GoTo, QueueIs, SignalInv, QueueInv
  <2>6. LeakInv'
    BY <2>0, <2>1 DEF Wake, GoTo, QueueIs, LeakInv, Exclusive, Has
  <2> QED
    BY <2>2, <2>3, <2>4, <2>5, <2>6
<1>5. ASSUME NEW c \in Calls, Interrupt(c) PROVE LeaseInv'
  <2>0. Interrupt(c)
    BY <1>5
  <2>1. QueueIs({d \in Calls : Queued(d)})
    BY <2>0, QueueKept DEF Interrupt, QueueInv
  <2>2. LeaseTypeOK'
    BY <2>0, <2>1 DEF Interrupt, GoTo, QueueIs
  <2>3. Exclusive'
    BY <2>0, <2>1 DEF Interrupt, GoTo, QueueIs, Exclusive, Has, QueueInv, LeakInv, SignalInv
  <2>4. QueueInv'
    BY <2>0, <2>1 DEF Interrupt, GoTo, QueueIs, Exclusive, Has, QueueInv
  <2>5. SignalInv'
    BY <2>0, <2>1 DEF Interrupt, GoTo, QueueIs, SignalInv, QueueInv
  <2>6. LeakInv'
    BY <2>0, <2>1 DEF Interrupt, GoTo, QueueIs, LeakInv, Exclusive, Has
  <2> QED
    BY <2>2, <2>3, <2>4, <2>5, <2>6
<1>6. ASSUME NEW c \in Calls, Check(c) PROVE LeaseInv'
  <2>0. at[c] = "cancelled" /\ UNCHANGED <<holder, promoted, signalled>>
    BY <1>6 DEF Check
  <2>1. CASE holder = Owner[c] /\ ~Queued(c) /\ GoTo(c, "relinquish") /\ UNCHANGED waiters
    <3>1. QueueIs({d \in Calls : Queued(d)})
      BY <2>1, QueueKept DEF QueueInv
    <3> QED
      BY <2>0, <2>1, <3>1 DEF GoTo, QueueIs, Exclusive, QueueInv, SignalInv, LeakInv, Has
  <2>2. CASE /\ ~(holder = Owner[c] /\ ~Queued(c))
             /\ c \in Preempted /\ GoTo(c, "remove") /\ UNCHANGED waiters
    <3>1. QueueIs({d \in Calls : Queued(d)})
      BY <2>2, QueueKept DEF QueueInv
    <3> QED
      BY <2>0, <2>2, <3>1 DEF GoTo, QueueIs, Exclusive, QueueInv, SignalInv, LeakInv, Has
  <2>3. CASE ~(holder = Owner[c] /\ ~Queued(c)) /\ GoTo(c, "done") /\ Dequeue(c)
    <3>1. QueueIs({d \in Calls : Queued(d) /\ d # c})
      BY <2>3, DequeueFacts DEF QueueInv
    <3>2. waiters = <<>> => waiters' = <<>>
      BY <2>3 DEF Dequeue
    <3>3. ASSUME Has(c) PROVE FALSE
      BY <2>0, <2>3, <3>3 DEF Has, Exclusive
    <3>4. QueueInv' /\ LeaseTypeOK'
      BY <2>0, <2>3, <3>1, <3>2 DEF GoTo, QueueIs, QueueInv
    <3>5. \A d \in Calls : Has(d)' <=> Has(d)
      BY <2>0, <2>3, <3>1, <3>3 DEF GoTo, QueueIs, Has
    <3>6. Exclusive'
      BY <2>0, <3>5 DEF Exclusive
    <3>7. SignalInv' /\ LeakInv'
      BY <2>0, <2>3, <3>1 DEF GoTo, QueueIs, SignalInv, LeakInv
    <3> QED
      BY <3>4, <3>6, <3>7
  <2> QED
    BY <1>6, <2>1, <2>2, <2>3 DEF Check
<1>7. ASSUME NEW c \in Calls, Remove(c) PROVE LeaseInv'
  <2>0. Remove(c)
    BY <1>7
  <2>1. QueueIs({d \in Calls : Queued(d) /\ d # c})
    BY <2>0, DequeueFacts DEF Remove, QueueInv
  <2>2. LeaseTypeOK'
    BY <2>0, <2>1 DEF Remove, GoTo, QueueIs
  <2>3. Exclusive'
    BY <2>0, <2>1 DEF Remove, GoTo, QueueIs, Exclusive, Has, QueueInv, LeakInv, SignalInv
  <2>4. QueueInv'
    <3>1. waiters = <<>> => waiters' = <<>>
      BY <2>0 DEF Remove, Dequeue
    <3> QED
      BY <2>0, <2>1, <3>1 DEF Remove, GoTo, QueueIs, QueueInv
  <2>5. SignalInv'
    BY <2>0, <2>1 DEF Remove, GoTo, QueueIs, SignalInv, QueueInv
  <2>6. LeakInv'
    BY <2>0, <2>1 DEF Remove, GoTo, QueueIs, LeakInv, Exclusive, Has
  <2> QED
    BY <2>2, <2>3, <2>4, <2>5, <2>6
<1>8. ASSUME NEW c \in Calls, Release(c) PROVE LeaseInv'
  <2>0. Release(c)
    BY <1>8
  <2>1. QueueIs({d \in Calls : Queued(d) /\ d # Head(waiters)})
    BY <2>0, TailFacts DEF Release, QueueInv
  <2>2. LeaseTypeOK'
    BY <2>0, <2>1, TailFacts DEF Release, GoTo, QueueIs, QueueInv
  <2>3. Exclusive'
    BY <2>0, <2>1, TailFacts DEF Release, GoTo, QueueIs, Exclusive, Has, QueueInv, LeakInv, SignalInv
  <2>4. QueueInv'
    BY <2>0, <2>1, TailFacts DEF Release, GoTo, QueueIs, Exclusive, Has, QueueInv
  <2>5. SignalInv'
    BY <2>0, <2>1, TailFacts DEF Release, GoTo, QueueIs, SignalInv, QueueInv
  <2>6. LeakInv'
    BY <2>0, <2>1, TailFacts DEF Release, GoTo, QueueIs, LeakInv, Exclusive, Has
  <2> QED
    BY <2>2, <2>3, <2>4, <2>5, <2>6
<1>9. ASSUME NEW c \in Calls, ReleaseLast(c) PROVE LeaseInv'
  <2>0. ReleaseLast(c)
    BY <1>9
  <2>1. QueueIs({d \in Calls : Queued(d)})
    BY <2>0, QueueKept DEF ReleaseLast, QueueInv
  <2>2. LeaseTypeOK'
    BY <2>0, <2>1 DEF ReleaseLast, GoTo, QueueIs
  <2>3. Exclusive'
    BY <2>0, <2>1 DEF ReleaseLast, GoTo, QueueIs, Exclusive, Has, QueueInv, LeakInv, SignalInv
  <2>4. QueueInv'
    BY <2>0, <2>1 DEF ReleaseLast, GoTo, QueueIs, Exclusive, Has, QueueInv
  <2>5. SignalInv'
    BY <2>0, <2>1 DEF ReleaseLast, GoTo, QueueIs, SignalInv, QueueInv
  <2>6. LeakInv'
    BY <2>0, <2>1 DEF ReleaseLast, GoTo, QueueIs, LeakInv, Exclusive, Has
  <2> QED
    BY <2>2, <2>3, <2>4, <2>5, <2>6
<1>10. ASSUME NEW c \in Calls, Signal(c) PROVE LeaseInv'
  <2>0. Signal(c)
    BY <1>10
  <2>1. QueueIs({d \in Calls : Queued(d)})
    BY <2>0, QueueKept DEF Signal, QueueInv
  <2>2. LeaseTypeOK'
    BY <2>0, <2>1 DEF Signal, GoTo, QueueIs, SignalInv
  <2>3. Exclusive'
    BY <2>0, <2>1 DEF Signal, GoTo, QueueIs, Exclusive, Has, QueueInv, LeakInv, SignalInv
  <2>4. QueueInv'
    BY <2>0, <2>1 DEF Signal, GoTo, QueueIs, Exclusive, Has, QueueInv
  <2>5. SignalInv'
    BY <2>0, <2>1 DEF Signal, GoTo, QueueIs, SignalInv, QueueInv
  <2>6. LeakInv'
    BY <2>0, <2>1 DEF Signal, GoTo, QueueIs, LeakInv, Exclusive, Has
  <2> QED
    BY <2>2, <2>3, <2>4, <2>5, <2>6
<1> QED
  BY <1>0, <1>1, <1>2, <1>3, <1>4, <1>5, <1>6, <1>7, <1>8, <1>9, <1>10 DEF LeaseNext, LeaseStep
-----------------------------------------------------------------------------
(* Any calls, owners and preemptions: at most one call has the lease, the     *)
(* entry names its owner, and the queue holds each waiter once.               *)
THEOREM LeaseInvHolds == LeaseSpec => []LeaseInv
BY InitLease, NextLease, PTL DEF LeaseSpec

(* Where no clean-up is preempted, an entry always belongs to a call that     *)
(* will still release it: no lease leaks.                                     *)
THEOREM NothingLeaks ==
  ASSUME Preempted = {}
  PROVE  LeaseSpec => [](holder # Nobody => \E c \in Calls : Has(c) /\ at[c] # "leaked")
<1>1. LeaseInv => (holder # Nobody => \E c \in Calls : Has(c) /\ at[c] # "leaked")
  BY DEF LeaseInv, Exclusive, LeakInv
<1> QED
  BY <1>1, LeaseInvHolds, PTL

-----------------------------------------------------------------------------
LEMMA ConsFacts ==
  ASSUME NEW a \in Calls, NEW w \in Seq(Calls)
  PROVE  /\ <<a>> \o w \in Seq(Calls)
         /\ Len(<<a>> \o w) = Len(w) + 1
         /\ (<<a>> \o w)[1] = a
         /\ \A j \in 1 .. Len(w) : (<<a>> \o w)[j + 1] = w[j]
OBVIOUS

(* The first of the line leaves.                                              *)
LEMMA LeaveFirst ==
  ASSUME NEW a \in Calls, NEW w \in Seq(Calls), NEW s, s = <<a>> \o w
  PROVE  /\ 1 \in DOMAIN s
         /\ w = [j \in 1 .. Len(s) - 1 |-> IF j < 1 THEN s[j] ELSE s[j + 1]]
<1> DEFINE r == [j \in 1 .. Len(s) - 1 |-> IF j < 1 THEN s[j] ELSE s[j + 1]]
<1>1. Len(w) \in Nat /\ w = [j \in 1 .. Len(w) |-> w[j]]
  OBVIOUS
<1>2. Len(s) = Len(w) + 1 /\ s \in Seq(Calls)
  BY ConsFacts
<1>3. r = [j \in 1 .. Len(w) |-> s[j + 1]]
  BY <1>1, <1>2
<1>4. \A j \in 1 .. Len(w) : s[j + 1] = w[j]
  BY ConsFacts
<1> QED
  BY <1>1, <1>2, <1>3, <1>4

(* A waiter leaves.                                                           *)
LEMMA LeaveLater ==
  ASSUME NEW a \in Calls, NEW w \in Seq(Calls), NEW i \in 1 .. Len(w), NEW s, s = <<a>> \o w,
         NEW v, v = [j \in 1 .. Len(w) - 1 |-> IF j < i THEN w[j] ELSE w[j + 1]]
  PROVE  /\ i + 1 \in DOMAIN s
         /\ <<a>> \o v = [j \in 1 .. Len(s) - 1 |-> IF j < i + 1 THEN s[j] ELSE s[j + 1]]
<1> DEFINE r == [j \in 1 .. Len(s) - 1 |-> IF j < i + 1 THEN s[j] ELSE s[j + 1]]
<1>1. Len(w) \in Nat /\ Len(w) >= 1
  OBVIOUS
<1>2. Len(s) = Len(w) + 1 /\ s \in Seq(Calls) /\ s[1] = a
      /\ \A j \in 1 .. Len(w) : s[j + 1] = w[j]
  BY ConsFacts
<1>3. v \in [1 .. Len(w) - 1 -> Calls]
  BY <1>1
<1>4. v \in Seq(Calls) /\ Len(v) = Len(w) - 1
  BY <1>1, <1>3
<1>5. <<a>> \o v \in Seq(Calls) /\ Len(<<a>> \o v) = Len(w) /\ (<<a>> \o v)[1] = a
      /\ \A j \in 1 .. Len(w) - 1 : (<<a>> \o v)[j + 1] = v[j]
  BY <1>1, <1>4, ConsFacts
<1>6. <<a>> \o v = [j \in 1 .. Len(w) |-> (<<a>> \o v)[j]]
  BY <1>5
<1>7. r = [j \in 1 .. Len(w) |-> IF j < i + 1 THEN s[j] ELSE s[j + 1]]
  BY <1>1, <1>2
<1>8. ASSUME NEW j \in 1 .. Len(w)
      PROVE  (<<a>> \o v)[j] = IF j < i + 1 THEN s[j] ELSE s[j + 1]
  <2>1. CASE j = 1
    BY <2>1, <1>2, <1>5
  <2>2. CASE j # 1
    <3>1. j - 1 \in 1 .. Len(w) - 1 /\ (j - 1) + 1 = j /\ j - 1 \in 1 .. Len(w)
      BY <2>2, <1>1
    <3>2. (<<a>> \o v)[j] = v[j - 1]
      BY <3>1, <1>5
    <3>3. v[j - 1] = IF j - 1 < i THEN w[j - 1] ELSE w[j]
      BY <3>1
    <3>4. s[j] = w[j - 1] /\ s[j + 1] = w[j]
      BY <3>1, <1>2
    <3> QED
      BY <3>2, <3>3, <3>4
  <2> QED
    BY <2>1, <2>2
<1>9. i + 1 \in DOMAIN s
  BY <1>1, <1>2
<1> QED
  BY <1>6, <1>7, <1>8, <1>9
(* Who has the lease is who leads the line.                                   *)
LEMMA FrontFacts ==
  ASSUME LeaseInv
  PROVE  /\ holder = Nobody => Front \o waiters = <<>>
         /\ \A c \in Calls : Has(c) => Front = <<c>> /\ holder # Nobody
         /\ holder # Nobody => \E c \in Calls : Has(c)
<1>1. holder = Nobody => Front \o waiters = <<>>
  BY DEF LeaseInv, QueueInv, Front
<1>2. ASSUME NEW c \in Calls, Has(c) PROVE Front = <<c>> /\ holder # Nobody
  <2>1. holder # Nobody /\ \A d \in Calls : Has(d) => d = c
    BY <1>2, LeaseAssumption DEF LeaseInv, Exclusive
  <2>2. (CHOOSE d \in Calls : Has(d)) = c
    BY <1>2, <2>1
  <2> QED
    BY <2>1, <2>2 DEF Front
<1> QED
  BY <1>1, <1>2 DEF LeaseInv, Exclusive

LEMMA FrontFactsNext ==
  ASSUME LeaseInv'
  PROVE  /\ holder' = Nobody => (Front \o waiters)' = <<>>
         /\ \A c \in Calls : Has(c)' => Front' = <<c>> /\ holder' # Nobody
<1>1. holder' = Nobody => (Front \o waiters)' = <<>>
  BY DEF LeaseInv, QueueInv, Front
<1>2. ASSUME NEW c \in Calls, Has(c)' PROVE Front' = <<c>> /\ holder' # Nobody
  <2>1. holder' # Nobody /\ \A d \in Calls : Has(d)' => d = c
    BY <1>2, LeaseAssumption DEF LeaseInv, Exclusive
  <2>2. (CHOOSE d \in Calls : Has(d)') = c
    BY <1>2, <2>1
  <2> QED
    BY <2>1, <2>2 DEF Front
<1> QED
  BY <1>1, <1>2

(* A step that leaves the holder in place and takes c off the queue.          *)
LEMMA DequeueLeaves ==
  ASSUME LeaseInv, LeaseInv', NEW c \in Calls, Queued(c), Dequeue(c),
         NEW a \in Calls, Has(a), Has(a)'
  PROVE  Line!Next
<1> DEFINE s == Front \o waiters
<1>1. PICK i \in DOMAIN waiters : waiters[i] = c /\ waiters' = Without(i)
  BY DEF Dequeue
<1>2. Front = <<a>> /\ Front' = <<a>>
  BY FrontFacts, FrontFactsNext
<1>3. waiters \in Seq(Calls) /\ i \in 1 .. Len(waiters)
  BY DEF LeaseInv, LeaseTypeOK
<1>4. waiters' = [j \in 1 .. Len(waiters) - 1 |-> IF j < i THEN waiters[j] ELSE waiters[j + 1]]
  BY <1>1 DEF Without
<1>5. s = <<a>> \o waiters
  BY <1>2
<1> HIDE DEF s
<1>6. /\ i + 1 \in DOMAIN s
      /\ <<a>> \o waiters' = [j \in 1 .. Len(s) - 1 |-> IF j < i + 1 THEN s[j] ELSE s[j + 1]]
  BY <1>3, <1>4, <1>5, LeaveLater, SMTT(40)
<1>7. (Front \o waiters)' = <<a>> \o waiters'
  BY <1>2
<1> QED
  BY <1>6, <1>7 DEF s, Line!Next, Line!Leave

(* A call at its start is not in the line.                                    *)
LEMMA NewNotInLine ==
  ASSUME LeaseInv, NEW c \in Calls, at[c] = "new"
  PROVE  ~Line!InLine(c)
<1>1. CASE holder = Nobody
  BY <1>1, FrontFacts DEF Line!InLine
<1>2. CASE holder # Nobody
  <2>1. PICK a \in Calls : Has(a)
    BY <1>2, FrontFacts
  <2>2. Front = <<a>> /\ a # c
    BY <2>1, FrontFacts DEF Has
  <2>3. ~Queued(c) /\ waiters \in Seq(Calls)
    BY DEF LeaseInv, LeaseTypeOK, QueueInv
  <2> DEFINE s == <<a>> \o waiters
  <2>4. s \in Seq(Calls) /\ Len(s) = Len(waiters) + 1 /\ s[1] = a
        /\ \A j \in 1 .. Len(waiters) : s[j + 1] = waiters[j]
    BY <2>3, ConsFacts
  <2> HIDE DEF s
  <2>5. ASSUME NEW i \in DOMAIN s, s[i] = c PROVE FALSE
    <3>1. i # 1 /\ i \in 1 .. Len(waiters) + 1 /\ Len(waiters) \in Nat
      BY <2>2, <2>3, <2>4, <2>5
    <3>2. i - 1 \in 1 .. Len(waiters) /\ (i - 1) + 1 = i
      BY <3>1
    <3>3. waiters[i - 1] = c /\ i - 1 \in DOMAIN waiters
      BY <2>3, <2>4, <2>5, <3>2
    <3> QED
      BY <2>3, <3>3 DEF Queued
  <2> QED
    BY <2>2, <2>5 DEF s, Line!InLine
<1> QED
  BY <1>1, <1>2

(* Nobody waits for a key without an entry.                                   *)
LEMMA WaitersNeedEntry ==
  ASSUME LeaseInv, NEW c \in Calls, at[c] \in {"waiting", "cancelled", "remove"}
  PROVE  holder # Nobody
<1>1. CASE Queued(c)
  <2>1. waiters # <<>>
    BY <1>1 DEF Queued
  <2> QED
    BY <2>1 DEF LeaseInv, QueueInv
<1>2. CASE ~Queued(c)
  BY <1>2, FrontFacts DEF Has
<1> QED
  BY <1>1, <1>2

(* Steps of the call that has the lease, and steps that move nobody.          *)
LEMMA LineStays ==
  ASSUME LeaseInv, LeaseInv', NEW a \in Calls, Has(a), Has(a)', UNCHANGED waiters
  PROVE  UNCHANGED (Front \o waiters)
BY FrontFacts, FrontFactsNext

LEMMA StepRefines ==
  LeaseInv /\ LeaseInv' /\ [LeaseNext]_leaseVars => [Line!Next]_(Front \o waiters)
<1> SUFFICES ASSUME LeaseInv, LeaseInv', [LeaseNext]_leaseVars
             PROVE  Line!Next \/ UNCHANGED (Front \o waiters)
  OBVIOUS
<1> USE DEF LeaseInv, LeaseTypeOK
<1>0. CASE UNCHANGED leaseVars
  BY <1>0 DEF leaseVars, Front, Has, Queued
<1>1. ASSUME NEW c \in Calls, Claim(c) PROVE Line!Next
  <2>1. Front \o waiters = <<>> /\ ~Line!InLine(c)
    BY <1>1, FrontFacts, NewNotInLine DEF Claim
  <2>2. Has(c)' /\ waiters' = <<>>
    BY <1>1 DEF Claim, GoTo, Has
  <2>3. (Front \o waiters)' = <<c>>
    BY <2>2, FrontFactsNext
  <2> QED
    BY <2>1, <2>3 DEF Line!Next, Line!Join
<1>2. ASSUME NEW c \in Calls, Enqueue(c) PROVE Line!Next
  <2>1. PICK a \in Calls : Has(a)
    BY <1>2, FrontFacts DEF Enqueue
  <2>2. a # c /\ ~Queued(c) /\ at'[a] = at[a]
    BY <1>2, <2>1 DEF Enqueue, GoTo, Has, QueueInv
  <2>3. QueueIs({d \in Calls : Queued(d) \/ d = c})
    BY <1>2, <2>2, AppendFacts DEF Enqueue, QueueInv
  <2>4. Has(a)'
    BY <2>1, <2>2, <2>3 DEF Has, QueueIs
  <2>5. Front = <<a>> /\ Front' = <<a>> /\ waiters' = Append(waiters, c)
    BY <1>2, <2>1, <2>4, FrontFacts, FrontFactsNext DEF Enqueue
  <2>6. <<a>> \o Append(waiters, c) = Append(<<a>> \o waiters, c)
    OBVIOUS
  <2> QED
    BY <1>2, <2>5, <2>6, NewNotInLine DEF Enqueue, Line!Next, Line!Join
<1>3. ASSUME NEW c \in Calls, TurnAway(c) \/ Signal(c) PROVE UNCHANGED (Front \o waiters)
  <2>1. UNCHANGED <<holder, waiters>>
    BY <1>3 DEF TurnAway, Signal
  <2>2. CASE holder = Nobody
    BY <2>1, <2>2, FrontFacts, FrontFactsNext
  <2>3. CASE holder # Nobody
    <3>1. PICK a \in Calls : Has(a)
      BY <2>3, FrontFacts
    <3>2. at'[a] = at[a]
      BY <1>3, <3>1 DEF TurnAway, Signal, GoTo, Has
    <3>3. Has(a)'
      BY <2>1, <3>1, <3>2 DEF Has, Queued
    <3> QED
      BY <2>1, <3>1, <3>3, LineStays
  <2> QED
    BY <2>2, <2>3
<1>4. ASSUME NEW c \in Calls, Wake(c) \/ Interrupt(c) PROVE UNCHANGED (Front \o waiters)
  <2>1. UNCHANGED <<holder, waiters>> /\ holder # Nobody
    BY <1>4, WaitersNeedEntry DEF Wake, Interrupt
  <2>2. PICK a \in Calls : Has(a)
    BY <2>1, FrontFacts
  <2>3. Has(a)'
    BY <1>4, <2>1, <2>2 DEF Wake, Interrupt, GoTo, Has, Queued
  <2> QED
    BY <2>1, <2>2, <2>3, LineStays
<1>5. ASSUME NEW c \in Calls, Check(c) PROVE Line!Next \/ UNCHANGED (Front \o waiters)
  <2>0. at[c] = "cancelled" /\ holder' = holder
    BY <1>5 DEF Check
  <2>1. holder # Nobody
    BY <2>0, WaitersNeedEntry
  <2>2. PICK a \in Calls : Has(a)
    BY <2>1, FrontFacts
  <2>3. CASE /\ UNCHANGED waiters
             /\ \/ holder = Owner[c] /\ ~Queued(c) /\ GoTo(c, "relinquish")
                \/ ~(holder = Owner[c] /\ ~Queued(c)) /\ GoTo(c, "remove")
    <3>1. Has(a)'
      BY <2>0, <2>2, <2>3 DEF GoTo, Has, Queued
    <3> QED
      BY <2>2, <2>3, <3>1, LineStays
  <2>4. CASE ~(holder = Owner[c] /\ ~Queued(c)) /\ GoTo(c, "done") /\ Dequeue(c)
    <3>1. Queued(c)
      BY <2>0, <2>4 DEF Has, Exclusive
    <3>2. QueueIs({d \in Calls : Queued(d) /\ d # c})
      BY <2>4, DequeueFacts DEF QueueInv
    <3>3. a # c
      BY <2>0, <2>2, <3>1 DEF Has
    <3>4. Has(a)'
      BY <2>2, <2>4, <3>2, <3>3 DEF GoTo, Has, QueueIs
    <3> QED
      BY <2>2, <2>4, <3>1, <3>4, DequeueLeaves
  <2> QED
    BY <1>5, <2>3, <2>4 DEF Check
<1>6. ASSUME NEW c \in Calls, Remove(c) PROVE Line!Next \/ UNCHANGED (Front \o waiters)
  <2>0. at[c] = "remove" /\ holder' = holder /\ Dequeue(c)
    BY <1>6 DEF Remove
  <2>1. holder # Nobody
    BY <2>0, WaitersNeedEntry
  <2>2. PICK a \in Calls : Has(a)
    BY <2>1, FrontFacts
  <2>3. QueueIs({d \in Calls : Queued(d) /\ d # c})
    BY <2>0, DequeueFacts DEF QueueInv
  <2>4. CASE Queued(c)
    <3>1. a # c
      BY <2>0, <2>2, <2>4 DEF Has
    <3>2. Has(a)'
      BY <1>6, <2>2, <2>3, <3>1 DEF Remove, GoTo, Has, QueueIs
    <3> QED
      BY <2>0, <2>2, <2>4, <3>2, DequeueLeaves
  <2>5. CASE ~Queued(c)
    <3>1. a = c /\ at'[c] = "leaked"
      BY <1>6, <2>0, <2>2, <2>5 DEF Remove, GoTo, Has, Exclusive
    <3>2. Has(a)' /\ UNCHANGED waiters
      BY <2>0, <2>5, <3>1 DEF Has, Dequeue, Queued
    <3> QED
      BY <2>2, <3>2, LineStays
  <2> QED
    BY <2>4, <2>5
<1>7. ASSUME NEW c \in Calls, Release(c) PROVE Line!Next
  <2>1. Has(c) /\ waiters # <<>> /\ waiters' = Tail(waiters)
    BY <1>7 DEF Release, Has
  <2>2. PICK h \in Calls : h = Head(waiters) /\ Queued(h)
    BY <2>1, TailFacts DEF QueueInv
  <2>3. QueueIs({d \in Calls : Queued(d) /\ d # h})
    BY <2>1, <2>2, TailFacts DEF QueueInv
  <2>4. at'[h] = at[h] /\ at[h] \in {"waiting", "cancelled", "remove"}
    BY <1>7, <2>2 DEF Release, GoTo, QueueInv
  <2>5. Front = <<c>> /\ Front' = <<h>>
    <3>1. Has(h)'
      BY <2>3, <2>4 DEF Has, QueueIs
    <3> QED
      BY <2>1, <3>1, FrontFacts, FrontFactsNext
  <2>6. (Front \o waiters)' = waiters
    <3>1. waiters = <<h>> \o Tail(waiters)
      BY <2>1, <2>2
    <3> QED
      BY <2>1, <2>5, <3>1
  <2> DEFINE s == Front \o waiters
  <2>7. s = <<c>> \o waiters
    BY <2>5
  <2> HIDE DEF s
  <2>8. 1 \in DOMAIN s /\ waiters = [j \in 1 .. Len(s) - 1 |-> IF j < 1 THEN s[j] ELSE s[j + 1]]
    BY <2>7, LeaveFirst
  <2> QED
    BY <2>6, <2>8 DEF s, Line!Next, Line!Leave
<1>8. ASSUME NEW c \in Calls, ReleaseLast(c) PROVE Line!Next
  <2>1. Has(c) /\ waiters = <<>> /\ holder' = Nobody
    BY <1>8 DEF ReleaseLast, Has
  <2>2. (Front \o waiters)' = waiters
    BY <2>1, FrontFactsNext
  <2> DEFINE s == Front \o waiters
  <2>3. s = <<c>> \o waiters
    BY <2>1, FrontFacts
  <2> HIDE DEF s
  <2>4. 1 \in DOMAIN s /\ waiters = [j \in 1 .. Len(s) - 1 |-> IF j < 1 THEN s[j] ELSE s[j + 1]]
    BY <2>3, LeaveFirst
  <2> QED
    BY <2>2, <2>4 DEF s, Line!Next, Line!Leave
<1> QED
  BY <1>0, <1>1, <1>2, <1>3, <1>4, <1>5, <1>6, <1>7, <1>8 DEF LeaseNext, LeaseStep

(* The broker implements the line: calls are served in the order of arrival,  *)
(* through cancellations, promotions that race with them, and leaks.          *)
THEOREM LeaseImplementsFifoQueue == LeaseSpec => ImplementsFifoQueue
<1>1. LeaseInit => Line!Init
  BY DEF LeaseInit, Line!Init, Front
<1> QED
  BY <1>1, LeaseInvHolds, StepRefines, PTL DEF LeaseSpec, ImplementsFifoQueue, Line!Spec
=============================================================================
