---------------------------- MODULE MCTtsStream ----------------------------
(* Instances of TtsStream. *)
EXTENDS TtsStream

CONSTANTS r1, r2, m1, m2, s1, s2, n1, n2, g1, g2

\* Which of the unused objects an open returns, and which of the unused streams
\* a caller starts, is all the same: they are taken in order.
InOrder ==
  /\ \A p \in {<<r1, r2>>, <<m1, m2>>, <<s1, s2>>} :
       state[p[2]] # "absent" => state[p[1]] # "absent"
  /\ pc[g2] # "created" => pc[g1] # "created"

MCSpec == Init /\ [][Next /\ InOrder']_vars /\ Fairness
=============================================================================
