------------------------------- MODULE Roles -------------------------------
(***************************************************************************)
(* What a service declares, and the changelog it implies.  A declaration   *)
(* names a message type, its topic and a role; the tables the roles need   *)
(* get their changesets at versions that depend on nothing but the table's *)
(* kind and message type.                                                  *)
(***************************************************************************)
EXTENDS Integers, Sequences, FiniteSets

CONSTANTS
    Band,               \* the digest, by table kind and message type
    RESERVED_CEILING,
    BAND_WIDTH

ASSUME VersionsAssumption ==
    /\ RESERVED_CEILING \in Nat /\ RESERVED_CEILING > 1
    /\ BAND_WIDTH \in Nat /\ BAND_WIDTH > 1

Consuming == {"cache", "handle", "handle_before"}

\* RoleRegistry::declare refuses a second way to handle a type at one position.
Conflicts(existing, role) ==
    <<existing, role>> \in {<<"handle", "cache">>, <<"handle_before", "cache">>,
                            <<"cache", "handle">>, <<"handle", "handle">>,
                            <<"cache", "handle_before">>,
                            <<"handle_before", "handle_before">>}

\* RuntimeBuilder::declare keeps the error of a declaration for build.
Declare(registry, d) ==
    IF \E e \in registry.entries :
          e.message_type = d.message_type /\ (e.topic # d.topic \/ Conflicts(e.role, d.role))
    THEN [registry EXCEPT !.ok = FALSE]
    ELSE [registry EXCEPT !.entries = @ \cup {d}]

\* What the builder's registry holds after each declaration, and at the end.
RoleRegistry(declarations) ==
    LET after[n \in 0 .. Len(declarations)] ==
            IF n = 0 THEN [entries |-> {}, ok |-> TRUE]
            ELSE Declare(after[n - 1], declarations[n])
    IN after[Len(declarations)]

\* RoleRegistry::tables.
Tables(registry) ==
    LET Table(kind, e) == [kind |-> kind, message_type |-> e.message_type, topic |-> e.topic]
        consumed == {e \in registry.entries : e.role \in Consuming}
    IN {Table("outbox", e) : e \in {d \in registry.entries : d.role = "publish"}}
       \cup {Table("received", e) : e \in consumed} \cup {Table("cache", e) : e \in consumed}

\* changeset_version.
ChangesetVersion(kind, message_type, slot) ==
    RESERVED_CEILING + Band[<<kind, message_type>>] * BAND_WIDTH + slot

\* A descriptor changeset; its checksum covers version, name, type and topic.
DescriptorChangeset(name, table, slot) ==
    LET version == ChangesetVersion(table.kind, table.message_type, slot)
    IN [version |-> version,
        checksum |-> <<version, name, table.message_type, table.topic>>,
        contexts |-> {}]

InitSchema == [version |-> 1, checksum |-> <<1, "init_schema">>, contexts |-> {}]

\* changesets_for: the create changeset, and the upgrade the outbox has.
ChangesetsFor(table) ==
    {DescriptorChangeset(<<"create", table.kind>>, table, 0)}
    \cup IF table.kind = "outbox" THEN {DescriptorChangeset("add_outbox_enqueue_order", table, 1)}
         ELSE {}

\* Changesets by version.
SortedByVersion(changesets) ==
    CHOOSE steps \in [1 .. Cardinality(changesets) -> changesets] :
        /\ \A c \in changesets : \E i \in 1 .. Cardinality(changesets) : steps[i] = c
        /\ \A i, j \in 1 .. Cardinality(changesets) :
              i < j => steps[i].version <= steps[j].version

\* The changesets of the tables that what is declared implies.
Generates(declarations) ==
    UNION {ChangesetsFor(t) : t \in Tables(RoleRegistry(declarations))}

\* Mutant: versions number the changesets of the release.
ChangelogNumbered(declarations) ==
    LET steps == SortedByVersion(Generates(declarations))
    IN <<InitSchema>> \o [i \in DOMAIN steps |-> [steps[i] EXCEPT !.version = RESERVED_CEILING + i]]

\* build_changelog: InitSchema, then the generated changesets by version.  Tables
\* whose bands collide give two changesets of one version, which is refused.
BuildChangelog(declarations) == <<InitSchema>> \o SortedByVersion(Generates(declarations))

\* What RuntimeBuilder::build refuses before it reaches the broker.
Refused(declarations) == ~RoleRegistry(declarations).ok \/ declarations = << >>
=============================================================================
