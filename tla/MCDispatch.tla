----------------------------- MODULE MCDispatch -----------------------------
EXTENDS Dispatch, TLC

Message(e, t, p, o) == [entity |-> e, topic |-> t, partition |-> p, offset |-> o, key |-> "valid"]

\* An entity whose topic was rebuilt: two states, the newer stored first, and a
\* straggler of the retired topic at a higher offset.
Rebuilt == 1 :> Message("e", "new", 0, 2) @@ 2 :> Message("e", "new", 0, 1)
           @@ 3 :> Message("e", "old", 0, 7)

\* Records the guard must refuse: a moved partition, a foreign topic, no key.
Refused == 1 :> Message("e", "new", 0, 4) @@ 2 :> Message("e", "new", 1, 9)
           @@ 3 :> Message("e", "other", 0, 5)
           @@ 4 :> [Message("f", "other", 0, 6) EXCEPT !.key = "missing"]

AllButStraggler == [r \in Rows |-> IF r = 3 THEN {"ok"} ELSE Results]
PanicsOnFirst == [r \in Rows |-> IF r = 1 THEN {"ok", "panic"} ELSE {"ok", "error"}]

Symmetry == Permutations(Dispatchers)
=============================================================================
