---------------------------- MODULE RequestReply ----------------------------
(* What the command channel promises its publishers: a command runs at most   *)
(* once in each `up`, only in those that listened when it was sent, and never *)
(* when its publisher was told it could not be sent; and a publisher is told  *)
(* "done" only after it has run and succeeded somewhere.                      *)
EXTENDS Naturals

CONSTANTS Publishers, Ups

VARIABLES
  listening,  \* the processes that take commands
  sent,       \* commands whose publisher is past the append, or tries it
  addressed,  \* who listened when each was sent
  ran,        \* where each command has been run
  worked,     \* where it ran and succeeded
  told        \* what its publisher was told

vars == <<listening, sent, addressed, ran, worked, told>>

Init ==
  /\ listening = {} /\ sent = {}
  /\ addressed = [p \in Publishers |-> {}]
  /\ ran = [p \in Publishers |-> {}]
  /\ worked = [p \in Publishers |-> {}]
  /\ told = [p \in Publishers |-> "nothing"]

Listen ==
  /\ listening' \in SUBSET Ups
  /\ UNCHANGED <<sent, addressed, ran, worked, told>>

Send(p) ==
  /\ p \notin sent
  /\ sent' = sent \cup {p}
  /\ addressed' = [addressed EXCEPT ![p] = listening]
  /\ UNCHANGED <<listening, ran, worked, told>>

Refuse(p) ==
  /\ ran[p] = {} /\ told[p] = "nothing"
  /\ sent' = sent \cup {p}
  /\ told' = [told EXCEPT ![p] = "unsent"]
  /\ UNCHANGED <<listening, addressed, ran, worked>>

(* A stale listener cannot wake up: it runs nothing it was not sent.          *)
Run(p, u) ==
  /\ p \in sent /\ told[p] # "unsent"
  /\ u \in listening \cap addressed[p] /\ u \notin ran[p]
  /\ ran' = [ran EXCEPT ![p] = @ \cup {u}]
  /\ UNCHANGED <<listening, sent, addressed, worked, told>>

Work(p, u) ==
  /\ u \in ran[p] /\ u \notin worked[p]
  /\ worked' = [worked EXCEPT ![p] = @ \cup {u}]
  /\ UNCHANGED <<listening, sent, addressed, ran, told>>

(* "failed" and "unknown" promise nothing: the reply may be about the reply.  *)
Tell(p, answer) ==
  /\ p \in sent /\ told[p] = "nothing"
  /\ answer = "done" => worked[p] # {}
  /\ told' = [told EXCEPT ![p] = answer]
  /\ UNCHANGED <<listening, sent, addressed, ran, worked>>

Next ==
  \/ Listen
  \/ \E p \in Publishers :
       \/ Send(p) \/ Refuse(p)
       \/ \E u \in Ups : Run(p, u) \/ Work(p, u)
       \/ \E answer \in {"done", "failed", "unknown"} : Tell(p, answer)

Spec == Init /\ [][Next]_vars
=============================================================================
