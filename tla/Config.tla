------------------------------- MODULE Config -------------------------------
(***************************************************************************)
(* kafkaman.toml, resolved against the message types a service registers.  *)
(* A file is a record of sections and a section a record of fields, each   *)
(* of which may be missing or unreadable; resolution collects the issues   *)
(* of every section and yields a configuration only when there are none.   *)
(* Durations are written as an amount and a unit.                          *)
(***************************************************************************)
EXTENDS Integers, Sequences, FiniteSets

CONSTANTS
    Absent,         \* a key or section that is not there
    Malformed,      \* one of the wrong type, or with an unknown key
    NotFinite,      \* an infinite or undefined float
    MaxMillis       \* the largest duration representable, scaled down

ASSUME MarkersAssumption == Cardinality({Absent, Malformed, NotFinite}) = 3
ASSUME MaxMillisAssumption == MaxMillis \in Nat

-----------------------------------------------------------------------------
(* Reading a file *)

UNITS == [ms |-> 1, s |-> 1000, m |-> 60000, h |-> 3600000, d |-> 86400000]

parse_duration(text) ==
    IF text.unit \notin DOMAIN UNITS \/ text.amount * UNITS[text.unit] > MaxMillis
    THEN Malformed ELSE text.amount * UNITS[text.unit]

\* deserialize_duration, deserialize_optional_duration.
Durations == {"lease_for", "retry_after", "poll_interval", "outbox_after",
              "initial_backoff", "max_backoff", "stuck_after", "max_queue_age"}
Field(key, value) ==
    IF key \in Durations /\ value \notin {Absent, Malformed} THEN parse_duration(value) ELSE value

\* The fields of a table as serde reads them.
Fields(table) == [key \in DOMAIN table |-> Field(key, table[key])]

\* Config::section: an unreadable field makes the section unreadable.
section(table) ==
    IF table \in {Absent, Malformed} \/ \E key \in DOMAIN table : Fields(table)[key] = Malformed
    THEN IF table = Absent THEN Absent ELSE Malformed
    ELSE Fields(table)

\* A section none of whose fields has a default.
required_section(table) ==
    LET read == section(table)
    IN IF read \in {Absent, Malformed} THEN Malformed
       ELSE IF \E key \in DOMAIN read : read[key] = Absent THEN Malformed ELSE read

\* Config::validate, for the keys from_config requires of [relay]: a missing key and
\* an unreadable one are issues of their own.
RequiredKeys(file) ==
    LET Unread(key) == file.relay \in {Absent, Malformed}
                       \/ Field(key, file.relay[key]) \in {Absent, Malformed}
    IN {<<"relay", key>> : key \in {k \in {"worker_id", "batch_limit", "lease_for", "retry_after",
                                           "poll_interval"} : Unread(k)}}

-----------------------------------------------------------------------------
(* [relay], [dispatcher], [retention] *)

\* RelayConfig::validate.
validate_relay(relay) == relay.lease_for > 0 /\ relay.batch_limit > 0 /\ relay.poll_interval > 0

\* RelaySection::into_relay_config.
Relay(file) ==
    LET read == required_section(file.relay)
    IN IF read # Malformed /\ validate_relay(read) THEN read ELSE Malformed

\* DispatcherSection::into_dispatcher_config: an absent interval is the relay's.
DispatcherDefaults(relay) ==
    [poll_interval |-> relay.poll_interval, max_consecutive_panicking_rows |-> 10]

\* A policy's override laid over it: apply_to of both kinds of policy.
apply_to(override, base) ==
    [key \in DOMAIN base |-> IF override[key] = Absent THEN base[key] ELSE override[key]]

\* DispatcherConfig::validate.
validate_dispatcher(dispatcher) ==
    dispatcher.poll_interval > 0 /\ dispatcher.max_consecutive_panicking_rows > 0

\* The section over its defaults.
Dispatcher(file) ==
    LET read == section(file.dispatcher)
        defaults == DispatcherDefaults(Relay(file))
        merged == IF read = Absent THEN defaults ELSE apply_to(read, defaults)
    IN IF validate_dispatcher(merged) THEN merged ELSE Malformed

\* With [relay] refused there is no interval to fall back on: only a section that
\* cannot be read is reported.
DispatcherIssues(file) ==
    IF \/ section(file.dispatcher) = Malformed
       \/ Relay(file) # Malformed /\ Dispatcher(file) = Malformed
    THEN {<<"dispatcher">>} ELSE {}

\* PurgeConfig::validate.
validate_purge(purge) == purge.outbox_after > 0 /\ purge.batch_size > 0 /\ purge.poll_interval > 0

\* RetentionSection::into_purge_config; build refuses it before the rest is read.
Retention(file) ==
    LET read == required_section(file.retention)
    IN IF file.retention = Absent THEN Absent
       ELSE IF read # Malformed /\ validate_purge(read) THEN read ELSE Malformed

-----------------------------------------------------------------------------
(* [retry] *)

RetryDefaults == [max_attempts |-> 10, initial_backoff |-> 1000, max_backoff |-> 300000,
                  multiplier |-> 2, errors_limit |-> 20]

validate_policy(policy) ==
    /\ policy.max_attempts > 0
    /\ policy.initial_backoff > 0
    /\ policy.initial_backoff <= policy.max_backoff
    /\ policy.multiplier # NotFinite /\ policy.multiplier >= 1
    /\ policy.errors_limit > 0

\* A section of defaults and overrides can be read as a whole or not at all.
Unreadable(table) ==
    \/ table = Malformed
    \/ \E m \in DOMAIN table.messages : section(table.messages[m]) = Malformed

\* An override is checked as it will be used, over the file's defaults.
OverrideRefused(file, m) ==
    ~validate_policy(apply_to(section(file.retry.messages[m]), required_section(file.retry.defaults)))

\* RetrySection::resolve; from_config asks for it only when the section is there.
RetryIssues(file, types) ==
    IF file.retry = Absent THEN {}
    ELSE IF Unreadable(file.retry) \/ required_section(file.retry.defaults) = Malformed
         THEN {<<"retry">>}
    ELSE {<<"retry", key>> : key \in
            {m \in DOMAIN file.retry.messages : m \notin types \/ OverrideRefused(file, m)}
            \cup (IF validate_policy(required_section(file.retry.defaults)) THEN {} ELSE {"defaults"})}

\* RetryConfig::policy_for.
retry_policy_for(file, m) ==
    IF file.retry = Absent THEN RetryDefaults
    ELSE LET defaults == required_section(file.retry.defaults)
         IN IF m \in DOMAIN file.retry.messages
            THEN apply_to(section(file.retry.messages[m]), defaults) ELSE defaults

-----------------------------------------------------------------------------
(* [observability] *)

\* sample_success is in tenths.
ObservabilityDefaults == [sample_success |-> 0, stuck_after |-> 60000, max_queue_age |-> 300000]

\* validate_observability_policy, and validate_observability_override on the fields
\* an override sets.
validate_observability(policy) ==
    /\ policy.sample_success # Absent =>
          policy.sample_success # NotFinite /\ policy.sample_success \in 0 .. 10
    /\ \A key \in {"stuck_after", "max_queue_age"} : policy[key] # Absent => policy[key] > 0

\* ObservabilitySection::resolve.
ObservabilityIssues(file, types) ==
    LET table == file.observability
    IN IF table = Absent THEN {}
       ELSE IF Unreadable(table) \/ section(table.defaults) = Malformed THEN {<<"observability">>}
       ELSE {<<"observability", key>> : key \in
               {m \in DOMAIN table.messages :
                   m \notin types \/ ~validate_observability(section(table.messages[m]))}
               \cup (IF validate_observability(apply_to(section(table.defaults), ObservabilityDefaults))
                     THEN {} ELSE {"defaults"})}

\* ObservabilityConfig::policy_for.
observability_policy_for(file, m) ==
    LET table == file.observability
        defaults == apply_to(section(table.defaults), ObservabilityDefaults)
    IN IF table = Absent THEN ObservabilityDefaults
       ELSE IF m \in DOMAIN table.messages THEN apply_to(section(table.messages[m]), defaults)
       ELSE defaults

-----------------------------------------------------------------------------
(* [topics] and the environment's prefix *)

\* A prefix is its characters by class: "a" a lower case letter or a digit, "." and
\* "-" themselves, " " white space, "A" any other.
validate_prefix(prefix) ==
    prefix = << >> \/ /\ prefix[1] = "a"
                      /\ \A i \in DOMAIN prefix : prefix[i] \in {"a", ".", "-"}
                      /\ prefix[Len(prefix)] \in {".", "-"}

Trim(text) ==
    LET ink == {i \in DOMAIN text : text[i] # " "}
    IN IF ink = {} THEN << >>
       ELSE SubSeq(text, CHOOSE i \in ink : \A j \in ink : i <= j,
                         CHOOSE i \in ink : \A j \in ink : i >= j)

TopicsDefaults == [mode |-> "verify", prefix |-> << >>]

TopicsSection(file) ==
    LET read == section(file.topics)
    IN IF read = Absent THEN TopicsDefaults
       ELSE IF read = Malformed THEN Malformed ELSE apply_to(read, TopicsDefaults)

\* Mutant: a blank environment variable is a prefix too.
OverridesBlank(env) == env # Absent

\* KAFKAMAN_TOPICS_PREFIX, when set and not blank, replaces the file's prefix.
Overrides(env) == env # Absent /\ Trim(env) # << >>
Prefix(file, env) == IF Overrides(env) THEN Trim(env) ELSE TopicsSection(file).prefix

\* A bad prefix is reported under the key that supplied it.
TopicsIssues(file, env) ==
    IF TopicsSection(file) = Malformed THEN {<<"topics">>}
    ELSE IF validate_prefix(Prefix(file, env)) THEN {}
    ELSE {IF Overrides(env) THEN <<"KAFKAMAN_TOPICS_PREFIX">> ELSE <<"topics", "prefix">>}

-----------------------------------------------------------------------------
(* ResolvedConfig::from_config *)

Types(messages) == {messages[i].message_type : i \in DOMAIN messages}

\* Mutant: resolution stops at the first section with an issue.
IssuesFirst(file, messages, env) ==
    LET relay == RequiredKeys(file) \cup (IF Relay(file) = Malformed THEN {<<"relay">>} ELSE {})
    IN IF relay # {} THEN relay ELSE RetryIssues(file, Types(messages))

\* Every section is resolved whatever the others came to.
Issues(file, messages, env) ==
    RequiredKeys(file)
    \cup (IF file.schema \in {Absent, Malformed} THEN {<<"database", "schema">>} ELSE {})
    \cup (IF Relay(file) = Malformed THEN {<<"relay">>} ELSE {})
    \cup RetryIssues(file, Types(messages))
    \cup DispatcherIssues(file)
    \cup TopicsIssues(file, env)
    \cup ObservabilityIssues(file, Types(messages))

\* effective: the bare topic behind the prefix.
effective(file, env, message) == Prefix(file, env) \o message.topic

\* try_with_message refuses a type already registered under another topic.
Conflicting(messages) ==
    \E i, j \in DOMAIN messages :
        /\ messages[i].message_type = messages[j].message_type
        /\ messages[i].topic # messages[j].topic

\* build: [retention], then from_config, whose schema must be an SQL identifier.
Accepts(file, messages, env) ==
    /\ Retention(file) # Malformed
    /\ Issues(file, messages, env) = {}
    /\ file.schema = "identifier"
    /\ ~Conflicting(messages)
=============================================================================
