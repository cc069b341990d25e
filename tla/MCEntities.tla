----------------------------- MODULE MCEntities -----------------------------
(* Instances of Entities for TLC. *)
EXTENDS Entities

CONSTANTS a, b, c1, c2, d1, d2, n1, n2

MCLatest == n1 :> 2 @@ n2 :> 3
\* A plain persistence id, and one that has the grammar's own characters in it.
MCIdText ==
    a :> <<"a", Backslash, DoubleQuote, ", expected=", "genesis", Backslash>> @@ b :> <<"b">>

MCNested == c1 :> d1 @@ c2 :> d2

Database(markers, rows, legacy) == [markers |-> markers, rows |-> rows, legacy |-> legacy]

\* Made by hand or by no one, of before the tenants, recorded, and by a newer binary.
AllDatabases ==
    {Database(m, {}, 1 \notin m /\ l) : m \in SUBSET (1..3), l \in BOOLEAN}
        \cup {Database(1..v, 1..v, FALSE) : v \in 1..3}
Migrated == {Database(1..3, 1..3, FALSE)}

Options ==
    [correlation |-> None, tenant |-> None, principal |-> None, custom |-> <<>>, timestamp |-> 0,
     deadline |-> None, revision |-> None]

With(option, value) == [with |-> option, value |-> value]
WithTenant(id) == With("tenant", id)

Request(kind, name) ==
    [kind |-> kind, node |-> n2, name |-> name, payload |-> "command", op |-> "op", options |-> Options,
     timeout |-> 1, context |-> "none", deadline |-> None, who |-> NewTenantContext("t1"), cancels |-> FALSE,
     opts |-> <<WithTenant("t1")>>, behavior |-> "pointer", full |-> TRUE]

Base == Request("dispatch", a)

\* Each differs from Base in what one early return, or one field of the metadata, is about.
Variants ==
    {Base} \cup {[Base EXCEPT !.payload = p] : p \in {"binding_query", "nil"}}
        \cup {[Base EXCEPT !.name = ""], [Base EXCEPT !.op = ""], [Base EXCEPT !.node = n1]}
        \cup {[Base EXCEPT !.context = x] : x \in {"canceled", "deadline"}}
        \cup {[Base EXCEPT !.deadline = 1], [Base EXCEPT !.timeout = 0]}
        \cup {[Base EXCEPT !.options.deadline = t] : t \in {0, 1, Year10000}}
        \cup {[Base EXCEPT !.options.revision = r] : r \in {0, 1}}
        \cup {[Base EXCEPT !.options.tenant = t] :
                 t \in {NewTenantContext("t1"), NewAdministrativeContext("ops"), ZeroContext}}
        \cup {[Base EXCEPT !.options.principal = [id |-> i, kind |-> None]] : i \in {"", "alice"}}
        \cup {[Base EXCEPT !.options.custom = k :> "v"] : k \in {"trace", "", "expected_revision"}}
        \cup {[Base EXCEPT !.options.correlation = "corr"]}
        \cup {[Base EXCEPT !.who = w] :
                 w \in {NewTenantContext("t2"), NewAdministrativeContext("ops"), ZeroContext, Invalid}}

Job(callers, nests, resolver, cluster, alive, requests) ==
    [databases |-> Migrated, engines |-> n1 :> "refused" @@ n2 :> "started", resolver |-> resolver,
     cluster |-> cluster, alive |-> alive, requests |-> requests, callers |-> callers, nests |-> nests, derives |-> {}]

Alive(scopeOfA, scopeOfB) == a :> scopeOfA @@ b :> scopeOfB
By(request, tenant) == [request EXCEPT !.who = NewTenantContext(tenant)]
Spawn == Request("spawn", a)
Erase == Request("erase", a)

\* Every early return and every field, one request at a time.
Requests == {Job({c1}, {}, r, FALSE, Alive(IF r = "none" THEN Unscoped ELSE "t1", None), {v}) :
                r \in {"none", "single", "multi"}, v \in Variants}

\* Handlers that call each other, for two tenants, and callers that cancel.
Crossing == {Job(Roots, {c1}, "multi", FALSE, Alive("t1", "t2"), {Base, By([Base EXCEPT !.cancels = TRUE], "t2")}),
             Job(Roots, {c1}, "none", FALSE, Alive(Unscoped, Unscoped), {Request("send", a), Request("dispatch", b)})}

\* Metadata that handlers derive: a stale revision, another tenant, a later deadline.
Deriving ==
    {[Job({c1}, {c1}, r, FALSE, IF r = "none" THEN Alive(Unscoped, Unscoped) ELSE Alive("t1", "t1"),
          {[Request("dispatch", n) EXCEPT !.options.tenant = t, !.options.deadline = d]})
        EXCEPT !.derives = {[NoOptions EXCEPT !.revision = 1], [NoOptions EXCEPT !.tenant = NewTenantContext("t2")],
                            [NoOptions EXCEPT !.deadline = 2]}] :
        n \in Names, r \in {"none", "multi"}, t \in {None, NewTenantContext("t1")}, d \in {None, 1}}

\* Spawns of one name for two tenants, of no tenant's, and of behaviors of every sort.
Spawning ==
    {Job(Roots, {}, "multi", x, Alive(s, None), {Spawn, [Spawn EXCEPT !.opts = opts], Base}) :
        x \in BOOLEAN, s \in {None, "t1"},
        opts \in {<<WithTenant("t1"), With("passivateAfter", 1), WithTenant("t2")>>,
                  <<WithTenant("t2"), With("nil", 0), With("relocation", TRUE), With("directive", "stop")>>,
                  <<With("adapter", 1) @@ [key |-> "batchThreshold"], WithTenant("nobody")>>}}
    \cup {Job({c1}, {}, r, x, Alive(None, None), {[Spawn EXCEPT !.behavior = p, !.opts = opts]}) :
            r \in {"none", "single", "multi"}, x \in BOOLEAN, p \in {"nil", "value", "local", "pointer"},
            opts \in {<<>>, <<WithTenant("")>>, <<WithTenant("t1")>>}}

Erasing == {Job(Roots, {}, "multi", FALSE, Alive("t1", None), {Base, Erase, By(Erase, "t2")}),
            Job(Roots, {}, "none", FALSE, Alive(Unscoped, None), {Base, Erase, [Erase EXCEPT !.full = FALSE]}),
            Job(Roots, {}, "multi", FALSE, Alive("t1", None), {[Erase EXCEPT !.who = NewAdministrativeContext("ops")]}),
            Job(Roots, {}, "multi", FALSE, Alive("t1", None), {[Erase EXCEPT !.node = n1]})}

Migrating == {[Job({}, {}, "none", FALSE, Alive(None, None), {}) EXCEPT !.databases = AllDatabases, !.engines = [n \in Nodes |-> "stopped"]]}

MCWorkloads == Requests \cup Crossing \cup Deriving \cup Spawning \cup Erasing \cup Migrating
=============================================================================
