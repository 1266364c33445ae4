------------------------------ MODULE MCIngest ------------------------------
(* Small instances of Ingest. *)
EXTENDS Ingest, TLC

\* Keys and message ids are interchangeable, so the first good record of one
\* partition may be taken to have AnyKey and AnyId.
Canonical ==
    LET p == CHOOSE p \in Partitions : TRUE
        First(o) == /\ log[<<p, o>>].class = "good"
                    /\ \A q \in 0 .. o - 1 : log[<<p, q>>].class # "good"
    IN \A o \in Offsets : First(o) => log[<<p, o>>].key = AnyKey /\ log[<<p, o>>].id = AnyId

MCInit == Init /\ Canonical
MCFairSpec == MCInit /\ [][Next]_vars /\ Fairness
=============================================================================
