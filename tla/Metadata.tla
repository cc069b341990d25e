------------------------------ MODULE Metadata ------------------------------
(***************************************************************************)
(* What a command carries besides its payload, and how it crosses to the   *)
(* entity: command.Metadata, its Carrier (a flat map of strings) and the   *)
(* tenant identity, in a context and in a carrier.  Constructors refuse,   *)
(* which is written as the value Invalid.                                  *)
(***************************************************************************)
EXTENDS Naturals, Sequences, TLC

CONSTANTS
    Tenants,        \* the tenant ids NewTenantID accepts
    None,           \* an option that is not set, a nil
    Invalid,        \* what a constructor that returns an error returns
    Year10000       \* the first time that RFC 3339 cannot write

-----------------------------------------------------------------------------
(***************************************************************************)
(* tenancy                                                                 *)
(***************************************************************************)

TenantContext(scope, id) == [scope |-> scope, id |-> id]
ZeroContext == TenantContext("unknown", "")

NewTenantID(id) == IF id \in Tenants THEN id ELSE Invalid

NewTenantContext(id) ==
    IF NewTenantID(id) = Invalid THEN Invalid ELSE TenantContext("tenant", id)

\* The actor and the reason are one attribution, empty or not.
NewAdministrativeContext(attribution) ==
    IF attribution = "" THEN Invalid ELSE TenantContext("administrative", attribution)

ValidContext(tc) == tc.scope \in {"tenant", "administrative"}

\* The tenant of a context that has one.
TenantOf(tc) == IF tc.scope = "tenant" THEN tc.id ELSE None

\* Attach: into a context whose identity is bound, or None.
Attach(bound, tc) ==
    IF ~ValidContext(tc) THEN Invalid
    ELSE IF bound # None /\ bound # tc THEN Invalid ELSE tc

\* From and Require
Require(bound) == IF bound = None \/ ~ValidContext(bound) THEN Invalid ELSE bound

VerifyUnchanged(bound, incoming) == bound = incoming

MarshalTenant(tc) ==
    CASE tc.scope = "tenant" -> ("ego.tenant.scope" :> "tenant") @@ ("ego.tenant.id" :> tc.id)
      [] tc.scope = "administrative" ->
             ("ego.tenant.scope" :> "administrative") @@ ("ego.tenant.admin" :> tc.id)
      [] OTHER -> <<>>

UnmarshalTenant(md) ==
    IF "ego.tenant.scope" \notin DOMAIN md THEN Invalid
    ELSE IF md["ego.tenant.scope"] = "tenant" THEN NewTenantContext(md["ego.tenant.id"])
    ELSE NewAdministrativeContext(md["ego.tenant.admin"])

-----------------------------------------------------------------------------
(***************************************************************************)
(* command                                                                 *)
(***************************************************************************)

\* Operation ids and keys of a caller's own are strings; what the rules refuse about
\* them (empty, too long, blanks, control characters) is the empty one.
NewOperationID(s) == IF s = "" THEN Invalid ELSE s

ValidCustomKey(key) == key \notin {"", "ego.cmd.deadline", "expected_revision"}

NewPrincipal(id, kind) == IF id = "" THEN Invalid ELSE [id |-> id, kind |-> kind]

\* NewMetadata, from what the options set.
NewMetadata(op, options) ==
    IF \E k \in DOMAIN options.custom : ~ValidCustomKey(k) THEN Invalid
    ELSE [op |-> op, correlation |-> IF options.correlation = None THEN op ELSE options.correlation,
          causation |-> None, tenant |-> options.tenant, principal |-> options.principal,
          custom |-> options.custom, timestamp |-> options.timestamp, deadline |-> options.deadline,
          revision |-> options.revision]

NoOptions == [tenant |-> None, deadline |-> None, revision |-> None]

\* Derive: the revision and the custom keys are not inherited, another tenant and a
\* later deadline are refused.
Derive(parent, op, now, options) ==
    LET child == [parent EXCEPT !.op = op, !.causation = parent.op, !.timestamp = now, !.custom = <<>>,
                                !.tenant = IF options.tenant = None THEN @ ELSE options.tenant,
                                !.deadline = IF options.deadline = None THEN @ ELSE options.deadline,
                                !.revision = options.revision]
    IN  IF \/ op = parent.op
           \/ parent.tenant # None /\ ~VerifyUnchanged(parent.tenant, child.tenant)
           \/ parent.deadline # None /\ child.deadline > parent.deadline
        THEN Invalid ELSE child

\* Times and numbers are written as text.
Text(value) == [text |-> value]
ParseTime(field) == IF field.text >= Year10000 THEN Invalid ELSE field.text
ParseUint(field) == field.text

Field(value, key, written) == IF value = None THEN <<>> ELSE key :> written

\* A bug: a revision of zero is taken for one that is not declared.
RevisionIfPositive(m) == IF m.revision = 0 THEN <<>> ELSE Field(m.revision, "ego.cmd.expected_revision", Text(m.revision))

RevisionField(m) == Field(m.revision, "ego.cmd.expected_revision", Text(m.revision))

MarshalMetadata(m) ==
    ("ego.cmd.operation_id" :> m.op) @@ ("ego.cmd.correlation_id" :> m.correlation)
        @@ ("ego.cmd.timestamp" :> Text(m.timestamp))
        @@ Field(m.causation, "ego.cmd.causation_id", m.causation)
        @@ Field(m.deadline, "ego.cmd.deadline", Text(m.deadline))
        @@ RevisionField(m)
        @@ Field(m.principal, "ego.cmd.principal", m.principal)
        @@ (IF m.tenant = None THEN <<>> ELSE MarshalTenant(m.tenant))
        @@ m.custom

CanonicalKeys ==
    {"ego.cmd.operation_id", "ego.cmd.correlation_id", "ego.cmd.causation_id", "ego.cmd.timestamp",
     "ego.cmd.deadline", "ego.cmd.expected_revision", "ego.cmd.principal"}
TenantKeys == {"ego.tenant.scope", "ego.tenant.id", "ego.tenant.admin"}

Subset(c, keys) == [k \in DOMAIN c \cap keys |-> c[k]]

\* UnmarshalMetadata: each part is built again by its constructor.
UnmarshalMetadata(c) ==
    LET Get(key, value) == IF key \in DOMAIN c THEN value ELSE None
        deadline == Get("ego.cmd.deadline", ParseTime(c["ego.cmd.deadline"]))
        principal == Get("ego.cmd.principal",
                         NewPrincipal(c["ego.cmd.principal"].id, c["ego.cmd.principal"].kind))
        tenant == IF DOMAIN Subset(c, TenantKeys) = {} THEN None ELSE UnmarshalTenant(Subset(c, TenantKeys))
        built == NewMetadata(NewOperationID(c["ego.cmd.operation_id"]),
                     [correlation |-> c["ego.cmd.correlation_id"], tenant |-> tenant, principal |-> principal,
                      custom |-> Subset(c, DOMAIN c \ (CanonicalKeys \cup TenantKeys)),
                      timestamp |-> ParseTime(c["ego.cmd.timestamp"]), deadline |-> deadline,
                      revision |-> Get("ego.cmd.expected_revision", ParseUint(c["ego.cmd.expected_revision"]))])
    IN  IF \/ NewOperationID(c["ego.cmd.operation_id"]) = Invalid
           \/ ParseTime(c["ego.cmd.timestamp"]) = Invalid
           \/ deadline = Invalid \/ principal = Invalid \/ tenant = Invalid \/ built = Invalid
        THEN Invalid
        ELSE [built EXCEPT !.causation = Get("ego.cmd.causation_id", c["ego.cmd.causation_id"])]
=============================================================================
