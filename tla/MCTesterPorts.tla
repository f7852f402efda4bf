--------------------------- MODULE MCTesterPorts ---------------------------
(* TesterPorts on small instances: chunks of up to three configs. *)
EXTENDS TesterPorts

CONSTANTS a, b, c1, c2, c3, c4, c5

\* One round at a time: five candidates, so a full chunk and a rest, and any
\* shorter list.
Alone == [r \in Rounds |-> {SubSeq(<<c1, c2, c3, c4, c5>>, 1, n) : n \in 0..5}]

\* A pool-A and a pool-B round.
Both == [r \in Rounds |-> IF r = a THEN {<<c1, c2>>} ELSE {<<c3>>}]
============================================================================
