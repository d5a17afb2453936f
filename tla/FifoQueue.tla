------------------------------ MODULE FifoQueue ------------------------------
(* What the lease broker promises, abstractly: calls stand in one line per    *)
(* key, join at its end, and the first of the line has the lease; any of them *)
(* may leave.                                                                 *)
EXTENDS Sequences, Naturals

CONSTANT Calls

VARIABLE line

Init == line = <<>>

InLine(c) == \E i \in DOMAIN line : line[i] = c

Join(c) ==
  /\ ~InLine(c)
  /\ line' = Append(line, c)

Leave(i) ==
  line' = [j \in 1 .. Len(line) - 1 |-> IF j < i THEN line[j] ELSE line[j + 1]]

Next == (\E c \in Calls : Join(c)) \/ (\E i \in DOMAIN line : Leave(i))

Spec == Init /\ [][Next]_line
=============================================================================
