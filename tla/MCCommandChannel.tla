-------------------------- MODULE MCCommandChannel --------------------------
(* Two publishers of which one captures, and one `up`; one publisher and two  *)
(* `up`s.  A behaviour has one cast: whoever is not in it never comes.        *)
EXTENDS CommandChannel

CONSTANTS p1, p2, p3, u1, u2

VARIABLE cast

Casts ==
  {<<{p1, p2}, {u1}>>, <<{p1, p3}, {u1}>>}
    \cup {<<{p}, {u1, u2}>> : p \in {p1, p2, p3}}

CastInit == Init /\ cast \in Casts
CastNext ==
  /\ Next /\ UNCHANGED cast
  /\ \A p \in Publishers \ cast[1] : stage'[p] = "new"
  /\ \A u \in Ups \ cast[2] : up'[u].mode = "new"

CastSpec == CastInit /\ [][CastNext]_<<vars, cast>> /\ Fairness
=============================================================================
