---------------------------- MODULE AccessCheck ----------------------------
(***************************************************************************)
(* The Access tab: which verbs kro needs for the resources of an RGD and   *)
(* which its service account has (internal/k8s/rbac.go,                    *)
(* handlers/access.go).                                                    *)
(*                                                                         *)
(* A group and plural together are a resource.  A rule grants verbs on     *)
(* resources, either of which may hold the wildcard.  The verbs that every *)
(* resource needs and those that only a managed one needs are treated      *)
(* alike, so ReadOnlyVerbs and ManagedVerbs may be represented by one or   *)
(* two of each.                                                            *)
(*                                                                         *)
(* RBAC itself honours more than the code reads: bindings of a group of    *)
(* the service account (system:serviceaccounts, or a User of its name),    *)
(* RoleBindings of every namespace, and resourceNames, which confine a     *)
(* rule to some objects.  It takes the rules of an aggregating role as a   *)
(* controller writes them, while the code also follows the selectors.      *)
(***************************************************************************)
EXTENDS Naturals, FiniteSets, Sequences

CONSTANTS
    Kinds, Irregular,   \* kinds; those whose plural is not the kind and an s
    ReadOnlyVerbs, ManagedVerbs,
    Roles,              \* names of ClusterRoles (a Role is one of them here)
    RoleRules,          \* [Roles -> sets of rules], as their authors wrote them
    Aggregates,         \* [Roles -> sets of roles] that the aggregationRule selects
    MaxEntries,         \* bound on the resources of an RGD
    MaxBindings,        \* bound on the bindings
    MaxFailures         \* bound on the reads that fail at a time

VARIABLES
    rgdResources,   \* spec.resources of the RGD
    bindings,       \* the bindings that RBAC applies to the service account
    aggregated,     \* the controller has written the rules of the aggregating roles
    failing         \* reads that fail: not allowed, or past the 4 s

accessVars == <<rgdResources, bindings, aggregated, failing>>

AnyResource == <<"*">>
AnyVerb == "*"
RgdEntry == [kind : Kinds, externalRef : BOOLEAN]
\* A ClusterRoleBinding holds in the cluster and refers to a ClusterRole; a RoleBinding
\* holds in the namespace of the service account or in another; a Role aggregates none.
Binding ==
    {b \in [scope : {"cluster", "own", "other"}, subject : {"ServiceAccount", "Group"},
            roleKind : {"ClusterRole", "Role"}, role : Roles] :
        b.roleKind = "Role" => b.scope # "cluster" /\ Aggregates[b.role] = {}}

\* A role is got by its name, an aggregated one listed by a label.
Read == {<<"get", r>> : r \in Roles}
            \cup {<<"list", r>> : r \in UNION {Aggregates[q] : q \in Roles}}
            \cup {<<"RoleBindings">>, <<"ClusterRoleBindings">>, <<"discovery">>}

\* A rule names resources that there are.
NamesResources(rule) == rule.resources \subseteq {AnyResource} \cup {<<k>> : k \in Kinds}

AccessAssumption ==
    /\ Irregular \subseteq Kinds
    /\ ReadOnlyVerbs \subseteq ManagedVerbs
    /\ DOMAIN RoleRules = Roles /\ \A r \in Roles : \A rule \in RoleRules[r] : NamesResources(rule)
    /\ Aggregates \in [Roles -> SUBSET Roles]
    /\ \A r \in Roles : \A q \in Aggregates[r] : Aggregates[q] = {}
    /\ MaxEntries \in Nat /\ MaxBindings \in Nat /\ MaxFailures \in Nat

ASSUME AccessAssumption

-----------------------------------------------------------------------------
(* A wrong plural names no resource: the API server knows none like it.    *)
discoveryUp == <<"discovery">> \notin failing

DiscoverPlural(kind) ==
    IF discoveryUp \/ kind \notin Irregular THEN <<kind>> ELSE <<kind, "naive">>

matchesResource(rule, resource) == {AnyResource, resource} \cap rule.resources # {}
matchesVerb(rule, verb) == {AnyVerb, verb} \cap rule.verbs # {}

\* The rules that a role holds; extractPolicyRules keeps all of each but its names.
Rules(role) ==
    IF aggregated /\ Aggregates[role] # {}
        THEN UNION {RoleRules[r] : r \in Aggregates[role]}
        ELSE RoleRules[role]

\* The rules of a role with those of the roles it aggregates, as far as they
\* can be listed.  The cache of one request holds what the first look found.
fetchClusterRoleRules(role) ==
    Rules(role) \cup UNION {Rules(r) : r \in {q \in Aggregates[role] : <<"list", q>> \notin failing}}

\* Any other subject is passed over.
bindingMatchesSA(b) == b.subject = "ServiceAccount"

\* The role of b is looked up: its bindings are listed, and it can be got.  RoleBindings
\* are listed in the namespace of the service account only.
WasRead(b) ==
    /\ bindingMatchesSA(b)
    /\ b.scope # "other"
    /\ b.scope = "own" => <<"RoleBindings">> \notin failing
    /\ <<"get", b.role>> \notin failing

\* Wrong: a RoleBinding is taken to refer to a Role.
RulesOfLocalRole(b) ==
    CASE ~WasRead(b) -> {}
      [] WasRead(b) /\ b.scope = "cluster" -> fetchClusterRoleRules(b.role)
      [] WasRead(b) /\ b.scope # "cluster" -> IF b.roleKind = "Role" THEN Rules(b.role) ELSE {}

RulesOf(b) ==
    CASE ~WasRead(b) -> {}
      [] WasRead(b) /\ b.roleKind = "ClusterRole" -> fetchClusterRoleRules(b.role)
      [] WasRead(b) /\ b.roleKind = "Role" -> Rules(b.role)

FetchEffectiveRules == UNION {RulesOf(b) : b \in bindings}

CheckPermissions(rules, resource, required) ==
    [v \in required |->
        \E rule \in rules : matchesResource(rule, resource) /\ matchesVerb(rule, v)]

\* Each resource once: the first entry of the RGD for it decides its verbs.
extractRGDGVRs ==
    LET plural(i) == DiscoverPlural(rgdResources[i].kind)
        first(i)  == \A j \in 1..(i - 1) : plural(j) # plural(i)
    IN  {[resource |-> plural(i), kind |-> rgdResources[i].kind,
          readOnly |-> rgdResources[i].externalRef] :
            i \in {k \in DOMAIN rgdResources : first(k)}}

Required(gvr) == IF gvr.readOnly THEN ReadOnlyVerbs ELSE ManagedVerbs

\* Without the ClusterRoleBindings there is an error instead of a matrix.
HasMatrix == <<"ClusterRoleBindings">> \notin failing

ComputeAccessResult ==
    {[kind |-> g.kind,
      granted |-> CheckPermissions(FetchEffectiveRules, g.resource, Required(g))] :
        g \in extractRGDGVRs}

HasGap(p) == \E v \in DOMAIN p.granted : ~p.granted[v]
HasGaps == \E p \in ComputeAccessResult : HasGap(p)

-----------------------------------------------------------------------------
(* The cluster and the RGD, which their owners change.                      *)

AccessInit ==
    /\ rgdResources = <<>>
    /\ bindings = {}
    /\ aggregated = FALSE
    /\ failing = {}

AuthorAddsResource ==
    /\ Len(rgdResources) < MaxEntries
    /\ \E r \in RgdEntry : rgdResources' = Append(rgdResources, r)
    /\ UNCHANGED <<bindings, aggregated, failing>>

AdminBinds ==
    /\ Cardinality(bindings) < MaxBindings
    /\ \E b \in Binding : bindings' = bindings \cup {b}
    /\ UNCHANGED <<rgdResources, aggregated, failing>>

ControllerAggregates ==
    /\ aggregated' = TRUE
    /\ UNCHANGED <<rgdResources, bindings, failing>>

ReadFails ==
    /\ Cardinality(failing) < MaxFailures
    /\ \E r \in Read : failing' = failing \cup {r}
    /\ UNCHANGED <<rgdResources, bindings, aggregated>>

AccessNext ==
    AuthorAddsResource \/ AdminBinds \/ ControllerAggregates \/ ReadFails

AccessSpec == AccessInit /\ [][AccessNext]_accessVars

-----------------------------------------------------------------------------
(* What RBAC decides.                                                      *)

\* Binding b lets the service account use the verb on some objects of the kind:
\* whatever the subject it is bound by, by the rules the role holds.
Grants(b, kind, verb) ==
    \E rule \in Rules(b.role) :
        rule.resources \cap {AnyResource, <<kind>>} # {} /\ rule.verbs \cap {AnyVerb, verb} # {}

\* It does so on every object of the kind in every namespace.
GrantsAll(b, kind, verb) ==
    /\ b.scope = "cluster"
    /\ \E rule \in Rules(b.role) :
           /\ ~rule.named
           /\ rule.resources \cap {AnyResource, <<kind>>} # {} /\ rule.verbs \cap {AnyVerb, verb} # {}

MaySomewhere(kind, verb) == \E b \in bindings : Grants(b, kind, verb)
MayEverywhere(kind, verb) == \E b \in bindings : GrantsAll(b, kind, verb)

-----------------------------------------------------------------------------
(* Properties *)

Needs(r) == IF r.externalRef THEN ReadOnlyVerbs ELSE ManagedVerbs

MixedUse(kind) ==
    {rgdResources[i].externalRef : i \in {j \in DOMAIN rgdResources : rgdResources[j].kind = kind}}
        = BOOLEAN

\* Nothing that the code takes for a grant on the whole cluster is one on a part.
NoPartialGrant ==
    \A b \in bindings : bindingMatchesSA(b) =>
        b.scope = "cluster" /\ \A rule \in Rules(b.role) : ~rule.named

\* A matrix without gaps means that RBAC lets kro do what it needs on some objects at
\* least, and on all of them unless a RoleBinding or resourceNames confine the grant.
\* Left out: a kind both referenced and managed (rbac.go keeps the first use only), and
\* the time until the controller has written the rules of the aggregating roles.
NoGapMeansAllowed ==
    HasMatrix /\ ~HasGaps /\ aggregated =>
        \A i \in DOMAIN rgdResources :
            LET r == rgdResources[i] IN
            MixedUse(r.kind) \/
                \A v \in Needs(r) :
                    MaySomewhere(r.kind, v) /\ (NoPartialGrant => MayEverywhere(r.kind, v))

\* A gap means that RBAC grants the verb on no object at all, except through a binding
\* that the code does not read: one of a group, one of another namespace, or one whose
\* read failed.  With discovery down the plural may be guessed, and the gap be its.
GapMeansRefused ==
    HasMatrix /\ discoveryUp =>
        \A p \in ComputeAccessResult, v \in ManagedVerbs :
            v \in DOMAIN p.granted /\ ~p.granted[v] =>
                \A b \in bindings : Grants(b, p.kind, v) => ~WasRead(b)

\* What the tab says of the verbs of kro is what RBAC decides, both ways, up to the
\* differences named in the two parts.
GapsAreReal == NoGapMeansAllowed /\ GapMeansRefused
=============================================================================
