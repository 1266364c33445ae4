------------------------------- MODULE Release ------------------------------
(***************************************************************************)
(* A release of a service: what it declares and how it is configured       *)
(* decide whether a replica of it may boot, which changelog it migrates to *)
(* and how its loops are paced.                                            *)
(***************************************************************************)
EXTENDS Boot, Roles, Retry

CONSTANTS
    Declarations,   \* per runner, what it declares, in its order
    File, Env,      \* per runner, its kafkaman.toml and KAFKAMAN_TOPICS_PREFIX
    Files, Envs     \* the configurations resolution is checked on

TablesOf(r) == Tables(RoleRegistry(Declarations[r]))

\* The descriptors the roles register; a bare topic is one name.
Messages(r) ==
    [i \in DOMAIN Declarations[r] |-> [message_type |-> Declarations[r][i].message_type,
                                      topic |-> <<Declarations[r][i].topic>>]]

\* build refuses conflicting roles, or none, and a configuration with issues.
Unsound ==
    {r \in Runners \ Previews : \/ Refused(Declarations[r])
                               \/ ~Accepts(File[r], Messages(r), Env[r])}

\* The mode of topic convergence, as the configuration resolves.
ResolvedMode == [r \in Runners |-> TopicsSection(File[r]).mode]

ASSUME ReleaseAssumption ==
    /\ Misdeclared = Unsound
    /\ Mode = ResolvedMode
    /\ \A r \in Runners : /\ Changelog[r] = BuildChangelog(Declarations[r])
                          /\ IsFiniteSet(Generates(Declarations[r]))
                          /\ \A t \in TablesOf(r) : Band[<<t.kind, t.message_type>>] \in Nat

-----------------------------------------------------------------------------
(* Properties *)

\* The changesets of every table the roles of a runner imply.
Implied == UNION {{<<r, c>> : c \in Generates(Declarations[r])} : r \in Runners}

\* A replica whose build succeeded has topics with the policy its message types
\* require, whoever created them, and a schema with every table its roles imply,
\* at the version its build declares.
BootedToSpec ==
    /\ TopicsToSpec
    /\ \A r \in Runners \ Previews : phase[r] = "done" =>
          \A rc \in Implied : rc[1] = r => RecordedAs(rc[2])

\* A table whose message type some runner expects on another topic.
MovedTable(t) ==
    \E s \in Runners : \E u \in TablesOf(s) :
        t.kind = u.kind /\ t.message_type = u.message_type /\ t.topic # u.topic

\* A replica stops on a changed checksum only at a table of a message type whose
\* topic another release disagrees on.  The order of declaration, and which of its
\* tables a release needs, are no reason: versions depend on kind and type only.
MismatchMeansTopicMoved ==
    \A r \in Runners : phase[r] = "mismatch" =>
        \E t \in TablesOf(r) : MovedTable(t) /\ Changelog[r][step[r]] \in ChangesetsFor(t)

\* The replicas that get past their declarations, what they register, and what
\* those register that are about to boot.
Sound == Runners \ (Previews \cup Misdeclared)
Registrations == {Messages(r) : r \in Sound}
Registered == {Messages(r) : r \in {x \in Sound : stage[x] = "observing"}}

\* The registrations under which every file and environment that is accepted keeps
\* the promises of ConfigSound.
ResolvesSoundly == {messages \in Registrations :
    \A file \in Files, env \in Envs : Accepts(file, messages, env) =>
        /\ Relay(file).lease_for > 0 /\ Relay(file).batch_limit > 0 /\ Relay(file).poll_interval > 0
        /\ Dispatcher(file).poll_interval > 0 /\ Dispatcher(file).max_consecutive_panicking_rows > 0
        /\ Retention(file) # Absent => validate_purge(Retention(file))
        /\ \A m \in Types(messages) : validate_observability(observability_policy_for(file, m))
        /\ \A named \in {file.retry, file.observability} \ {Absent} :
              DOMAIN named.messages \subseteq Types(messages)
        /\ \E prefix \in {TopicsSection(file).prefix, env} \ {Absent} :
              /\ validate_prefix(prefix)
              /\ env \notin {Absent, <<" ">>} => prefix = env
              /\ \A i \in DOMAIN messages : effective(file, env, messages[i]) = prefix \o messages[i].topic}

\* Whatever file and environment a replica is given, what resolution accepts keeps
\* every promise the loops rest on: no interval is zero, no batch is empty, a panic
\* limit and thresholds are positive for every registered type after its overrides
\* and fallbacks, overrides name registered types, and every type has one topic,
\* behind one well-formed prefix, the environment's if it has one.
ConfigSound == Registered \subseteq ResolvesSoundly

\* The file with only one section of its own, the others those of a sound file.
Sections == {"schema", "relay", "dispatcher", "retry", "topics", "observability"}
Isolated(file, sound, name) == [sound EXCEPT ![name] = file[name]]

\* The registrations under which a file's issues are those of its sections.
ReportsCompletely == {messages \in Registrations :
    \A file \in Files, env \in Envs :
        LET sound == File[CHOOSE r \in Sound : Messages(r) = messages]
            alone == UNION {Issues(Isolated(file, sound, name), messages, env) : name \in Sections}
            hidden == (IF Relay(file) = Malformed /\ section(file.dispatcher) # Malformed
                       THEN {<<"dispatcher">>} ELSE {})
                      \cup (IF TopicsSection(file) = Malformed
                            THEN {<<"KAFKAMAN_TOPICS_PREFIX">>} ELSE {})
        IN alone \ hidden = Issues(file, messages, env)}

\* No section's issues hide another's: a file is refused for all that would be
\* reported of each of its sections alone, but for a [dispatcher] that can be read
\* beside a refused [relay], and the environment's prefix beside an unreadable [topics].
IssuesComplete == Registered \subseteq ReportsCompletely

\* The wait the configuration asks for after n failures, in exact arithmetic.
Asked(policy, n) ==
    LET grown == policy.initial_backoff * policy.multiplier ^ n
    IN IF grown > policy.max_backoff THEN policy.max_backoff ELSE grown

\* The registrations whose rows are retried as every accepted file asks.
PacesAsConfigured == {messages \in Registrations :
    \A file \in Files : Accepts(file, messages, Absent) =>
        \A m \in Types(messages) :
            LET policy == retry_policy_for(file, m)
            IN \A n \in 0 .. policy.max_attempts - 1 :
                  LET wait == received_failure_schedule(policy, n, FALSE)
                  IN IF n = policy.max_attempts - 1 THEN wait = Absent
                     ELSE /\ 0 < wait.least /\ wait.most <= Asked(policy, n)
                          /\ Asked(policy, n) <= 2 * wait.least + 1}

\* Under any configuration that is accepted, a failing row of any registered type is
\* given a wait that is never zero and between half of what its policy asks for and
\* all of it, however far the arithmetic overflows, until its last attempt, which is
\* the max_attempts-th, leaves none.
RetriesAsConfigured == Registered \subseteq PacesAsConfigured
=============================================================================
