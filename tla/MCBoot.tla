------------------------------- MODULE MCBoot -------------------------------
(* Two replicas of one release, which declare their roles in different       *)
(* orders; one of a release that consumes a type from a new topic; one that  *)
(* declares a conflict; a dry run.                                           *)
EXTENDS Release, TLC

CONSTANTS a, b, moved, conflicted, preview, poolA, poolB

MCRunners == {a, b, moved, conflicted, preview}

MCBand == [kind \in {"outbox", "received", "cache"}, message_type \in {"order", "product"} |->
    CASE kind = "outbox" -> 2 [] kind = "received" -> 0 [] OTHER -> 1]

Declaration(message_type, topic, role) ==
    [message_type |-> message_type, topic |-> topic, role |-> role]
MCDeclarations == [r \in MCRunners |->
    CASE r \in {a, preview} ->
            <<Declaration("order", "shop", "publish"),
              Declaration("product", "shop", "handle_before"),
              Declaration("product", "shop", "handle")>>
      [] r = b -> <<Declaration("product", "shop", "cache"),
                    Declaration("order", "shop", "publish")>>
      [] r = moved -> <<Declaration("product", "moved", "cache")>>
      [] OTHER -> <<Declaration("product", "shop", "cache"),
                    Declaration("product", "shop", "handle")>>]

\* Evaluated once, not at every use of the constant.
Built ==
    LET Of(r) == r :> BuildChangelog(MCDeclarations[r])
    IN Of(a) @@ Of(b) @@ Of(moved) @@ Of(conflicted) @@ Of(preview)
MCChangelog == Built
MCContexts == [r \in MCRunners |-> {}]
MCPool == [r \in MCRunners |-> IF r \in {a, moved} THEN poolA ELSE poolB]
MCPoolSize == [p \in {poolA, poolB} |-> 2]
MCMaxRestarts == [r \in MCRunners |-> IF r = b THEN 1 ELSE 0]

MCTopicNames == {"shop", "moved"}
TopicSpec(t, n) == [topic |-> t, cleanup_policy |-> "compact", partitions |-> n]
MCSpecs == [r \in MCRunners |->
    CASE r = a -> <<TopicSpec("shop", 3), TopicSpec("shop", 0)>>
      [] r = moved -> <<TopicSpec("moved", 0)>>
      [] OTHER -> <<TopicSpec("shop", 0)>>]

(* Configurations: every section as it should be and as it should not. *)
CONSTANTS None, Bad, NaN

Time(n, unit) == [amount |-> n, unit |-> unit]
RelayOf(lease, batch, poll) ==
    [worker_id |-> "w", batch_limit |-> batch, lease_for |-> lease, retry_after |-> Time(0, "s"),
     poll_interval |-> poll]
Relays ==
    {RelayOf(Time(3, "s"), 10, Time(250, "ms")), RelayOf(Time(3, "s"), 10, Time(0, "ms")),
     RelayOf(None, 0, Time(1, "w")), None}

DispatcherOf(poll, rows) == [poll_interval |-> poll, max_consecutive_panicking_rows |-> rows]
DispatcherSections == {None, DispatcherOf(None, 3), DispatcherOf(Time(0, "ms"), None), DispatcherOf(None, 0), Bad}

PolicyOf(attempts, first, most, multiplier) ==
    [max_attempts |-> attempts, initial_backoff |-> first, max_backoff |-> most,
     multiplier |-> multiplier, errors_limit |-> IF attempts = None THEN None ELSE 5]
RetryOf(defaults, messages) == [defaults |-> defaults, messages |-> messages]
Steep == PolicyOf(12, Time(1, "ms"), Time(2, "m"), 3)
Retries ==
    {None, Bad, RetryOf(PolicyOf(0, Time(1, "s"), Time(1, "d"), NaN), << >>),
     RetryOf(Steep, "product" :> PolicyOf(1, None, None, None)),
     RetryOf(Steep, "product" :> PolicyOf(None, Time(3, "m"), None, None)),
     RetryOf(Steep, "parcel" :> PolicyOf(None, None, None, 1))}

TopicsOf(mode, prefix) == [mode |-> mode, prefix |-> prefix]
TopicSections ==
    {None, TopicsOf("off", <<"a", "-">>), TopicsOf(None, <<"a">>), TopicsOf(Bad, None)}

WatchOf(rate, stuck) == [sample_success |-> rate, stuck_after |-> stuck, max_queue_age |-> None]
Watched(defaults, messages) == [defaults |-> defaults, messages |-> messages]
Watches ==
    {None, Watched(WatchOf(3, None), "product" :> WatchOf(None, Time(1, "s"))),
     Watched(WatchOf(None, Time(0, "s")), << >>), Watched(WatchOf(11, None), "parcel" :> WatchOf(NaN, None))}

PurgeOf(after, batch, poll) == [outbox_after |-> after, batch_size |-> batch, poll_interval |-> poll]
Purges ==
    {PurgeOf(Time(1, "h"), 10, Time(1, "s")), PurgeOf(Time(0, "d"), 10, Time(1, "s")),
     PurgeOf(Time(1, "h"), 0, Time(1, "s")), PurgeOf(Time(1, "h"), 10, None)}

\* Sections that are read together in every combination, beside a sound or a bad
\* form of the others.
MCFiles ==
    [schema : {"identifier"}, relay : Relays, dispatcher : DispatcherSections, retry : {None, Bad},
     topics : TopicSections, observability : {None, Watched(WatchOf(None, Time(0, "s")), << >>)},
     retention : {None}]
    \cup [schema : {"identifier"}, relay : {RelayOf(Time(3, "s"), 10, Time(250, "ms")), None},
          dispatcher : {DispatcherOf(None, 3)}, retry : Retries, topics : {None, TopicsOf(None, <<"a">>)},
          observability : Watches, retention : {None}]
    \cup [schema : {None, "not one"}, relay : {None}, dispatcher : {None}, retry : {Bad}, topics : {None},
          observability : {None}, retention : {None}]
    \cup [schema : {"identifier"}, relay : Relays, dispatcher : {None}, retry : {None}, topics : {None},
          observability : {None}, retention : Purges]
MCEnvs == {None, <<" ">>, <<"a", ".">>, <<"A">>}

FileOf(topics) ==
    [schema |-> "identifier", relay |-> RelayOf(Time(3, "s"), 10, Time(250, "ms")), dispatcher |-> None,
     retry |-> None, topics |-> topics, observability |-> None,
     retention |-> PurgeOf(Time(1, "h"), 10, Time(1, "s"))]
Configured == [r \in MCRunners |->
    CASE r = moved -> FileOf(TopicsOf("off", None)) [] r = b -> FileOf(None) [] OTHER -> FileOf(TopicsOf("create", None))]
MCFile == Configured
Modes == [r \in MCRunners |-> ResolvedMode[r]] @@ << >>
Refusals == Unsound
MCMode == Modes
MCMisdeclared == Refusals
MCEnv == [r \in MCRunners |-> None]
MCProvisioned == [t \in MCTopicNames |->
    IF t = "shop" THEN [cleanup_policy |-> "none", partitions |-> 0]
    ELSE [cleanup_policy |-> "compact", partitions |-> 3]]
=============================================================================
