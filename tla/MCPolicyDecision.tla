-------------------------- MODULE MCPolicyDecision --------------------------
(* Three rules over two types in the given phases: groups of one to three   *)
(* rules, interleaved in the list; a rule's budget of two ticks in a phase  *)
(* of three leaves a second asynchronous rule the shorter rest of it.       *)
(* Otherwise a deployment that differs from the base in one or two of its   *)
(* parts, and every request of the list.                                    *)
EXTENDS PolicyDecision

CONSTANTS t1, t2
TwoTypes == {t1, t2}

MCPlain == {"project", "report", "read", "delete", "p1", "p2"}
MCOdd == {"P%2E1"}
MCNumerals == << <<"1">>, <<"2">>, <<"Infinity">> >>

One == Num(Text("1"))
Two == Num(Text("2"))
Yes == [Str(Text("true")) EXCEPT !.kind = "boolean"]
Strs(atoms) == List([i \in DOMAIN atoms |-> Str(Text(atoms[i]))])

-----------------------------------------------------------------------------
BuiltinsPackage == [owner |-> "builtins", keys |-> {ATTR_DELEGATION_RANGE}]
CedarPackage == [owner |-> "cedar", keys |-> CEDAR_ATTRIBUTE_KEYS]
Plugin(keys) == [owner |-> "plugin", keys |-> {Text(k) : k \in keys}]

Scope == Text("scope")
Delegation == [claim |-> Text("authorization_details"), type |-> Text("agent")]
Scoped == [scopeless |-> "deny", rewrite |-> FALSE, claim |-> Scope]

Base ==
  [packages |-> {BuiltinsPackage}, reversed |-> FALSE, scopeClaim |-> Scope,
   permissions |-> ABSENT, roles |-> ABSENT, range |-> ABSENT, facts |-> FALSE,
   fromClaims |-> <<>>, fromContext |-> <<>>, scoped |-> Scoped, permissionRule |-> FALSE,
   ruleRange |-> ABSENT, attrRules |-> <<>>, onEmpty |-> "deny"]

Maps1(from, to, type) ==
  <<[from |-> Text(from), to |-> IF to = ABSENT THEN ABSENT ELSE Text(to), type |-> type]>>

(* Packages loaded, and what is declared of the caller's body or the token. *)
Loaded == {{BuiltinsPackage}, {BuiltinsPackage, CedarPackage, Plugin({"tenant"})}}
Declared == {
  Maps1("groups", ABSENT, "string[]"), Maps1("scopes", ABSENT, "string[]"),
  Maps1("groups", "scopes", "string[]"), Maps1("rid", "requestResourceId", "string"),
  Maps1("tenant", ABSENT, "string"), Maps1("groups", "delegationRange", "string[]"),
  Maps1("tenant", "home", "string") \o Maps1("rid", "home", "string"),
  Maps1("level", ABSENT, "number") \o Maps1("flag", ABSENT, "boolean")}
Declaring == UNION {
  {[Base EXCEPT !.packages = p, !.facts = (Cardinality(p) = 3), !.fromContext = m] :
     p \in Loaded, m \in Declared},
  {[Base EXCEPT !.packages = p, !.facts = (Cardinality(p) = 3), !.fromClaims = m] :
     p \in Loaded, m \in Declared \cup {Maps1("groups", "permissions", "string[]"),
                                        Maps1("tenant", "userId", "string")}},
  {[Base EXCEPT !.fromClaims = m, !.fromContext = m, !.reversed = r] :
     m \in {Maps1("groups", ABSENT, "string[]"), Maps1("tenant", ABSENT, "string"),
            Maps1("groups", ABSENT, "string[]") \o Maps1("tenant", "groups", "string")},
     r \in BOOLEAN},
  {[Base EXCEPT !.packages = @ \cup {CedarPackage, p}] :
     p \in {Plugin({"requestAction", "tenant"}), Plugin({"scopes"}),
            [CedarPackage EXCEPT !.keys = {ATTR_REQUEST_ACTION}]}} }

(* Grants: scopes as the token spells them, permissions, roles.             *)
Read1 == Text("project") \o <<":", "p1", ".", "perm", ":", "read">>
Anything == [Base EXCEPT !.permissions = <<Str(Text("*"))>>, !.permissionRule = TRUE,
                         !.scoped = ABSENT]
Granting1 == UNION {
  {[Base EXCEPT !.scoped = [scopeless |-> s, rewrite |-> w, claim |-> c], !.scopeClaim = c,
                !.onEmpty = e] :
     s \in {"deny", "skip"}, w \in BOOLEAN, c \in {Scope, Text("scp")}, e \in {"deny", "allow"}},
  {[Anything EXCEPT !.permissions = <<Str(p), Two>>] :
     p \in {Text("*"), Read1, <<"project", "*", "read">>, <<"project", ":", "p1", ".", "*", "*">>,
            <<"project", ":", "p1", ".", "perm", "*", ".", "perm", ":", "read">>}},
  {[Anything EXCEPT !.permissions = ABSENT, !.roles = r] :
     r \in {<<Role(<<Str(Read1)>>)>>, <<Str(Text("*"))>>}},
  {[Anything EXCEPT !.scoped = Scoped]} }

(* A delegation's range, read and enforced alike, or not.                   *)
Delegating == UNION {
  {[b EXCEPT !.range = Delegation, !.ruleRange = r, !.onEmpty = e] :
     b \in {Base, Anything, [Base EXCEPT !.scoped = ABSENT]},
     r \in {Delegation, ABSENT, [Delegation EXCEPT !.type = Text("other")]}, e \in {"deny", "allow"}},
  {[Anything EXCEPT !.ruleRange = Delegation]} }

-----------------------------------------------------------------------------
(* Attribute rules, over what the token's claims are promoted as.           *)
Attr(rule, a, b, values, op) ==
  [rule |-> rule, a |-> a, b |-> b, values |-> values, op |-> op, group |-> ABSENT]
Literal(rule, values) == Attr("attr_literal_" \o rule, Text("level"), ABSENT, values, "le")
Pair(rule, a, b) == Attr(rule, a, b, {}, "le")
Level(rule) == Pair(rule, Text("level"), Text("limit"))
Grouped(r, group) == [r EXCEPT !.group = group]
XY == <<"x", ":", "y">>
YZ == <<"y", ":", "z">>

Equal1 == Literal("equal", {One})
Equal2 == Literal("equal", {Two})
RuleSets == UNION {
  {<<Literal(r, {v})>> : r \in {"equal", "not_equal", "in", "not_in", "compare"},
                         v \in {One, Str(Text("1")), NaN, Infinity}},
  {<<Literal(r, v)>> : r \in {"in", "not_in"}, v \in {{}, {One, Two}, {One, Str(Text("1"))}}},
  {<<Equal1, Literal("equal", {Str(Text("1"))})>>, <<Equal1, Equal2>>, <<Equal1, Equal1>>,
   <<Literal("in", {One, Two}), Literal("in", {One})>>,
   <<Literal("in", {Str(<<"1", "'", "2">>)}), Literal("not_in", {Str(<<"2">>)})>>,
   <<Grouped(Equal1, Text("either")), Grouped(Equal2, Text("either"))>>,
   <<Grouped(Equal1, DerivedType(Equal2)), Equal2>>,
   <<Grouped(Equal1, Text("delegation_range"))>>, <<Grouped(Equal1, <<>>)>>,
   <<[Literal("compare", {One}) EXCEPT !.op = "eq"]>>},
  {<<Level(r)>> : r \in PairRules},
  {<<[Level("attr_pair_compare") EXCEPT !.op = o], [Literal("compare", {Two}) EXCEPT !.op = o]>> :
     o \in COMPARE_OPS},
  {<<Pair(r, XY, Text("z")), Pair(r, Text("x"), YZ)>> : r \in PairRules},
  {<<Pair(r, Text("x"), Text("z")), Pair("attr_match", Text("x"), Text("z"))>> : r \in PairRules} }

Promoted(type) ==
  [i \in 1..2 |-> Maps1(<<"level", "limit">>[i], ABSENT, type)[1]]
Spelt ==
  [i \in 1..4 |-> [from |-> <<XY, Text("z"), Text("x"), YZ>>[i], to |-> ABSENT, type |-> "string"]]
Ruling ==
  {[Base EXCEPT !.scoped = ABSENT, !.fromClaims = Promoted(t) \o Spelt, !.attrRules = rs,
                !.range = Delegation, !.ruleRange = Delegation] : t \in {"string", "number"}, rs \in RuleSets}

MCDeployments == Declaring \cup Granting1 \cup Delegating \cup Ruling

-----------------------------------------------------------------------------
P1 == <<"project", ":", "p1">>
ReadProject == <<"read", ":", "project">>
ReportDelete == <<"report", ".", "delete">>
Both == Str(ReadProject \o <<" ", " ">> \o ReportDelete \o <<":", "project">>)
Claims(subject) == [name \in {Text(n) : n \in DOMAIN subject} |-> subject[name[1]]]
Subject == [sub |-> Str(Text("u")), scope |-> Both]
With(more) == Claims(Subject @@ more)

Request(resource, action, subject, context) ==
  [resource |-> resource, action |-> action, subject |-> subject, context |-> context]
Reading(subject) == Request(P1, Text("read"), subject, ABSENT)

Agent(path) == RangeEntry(Delegation.type, path)
Paths == {P1 \o <<".", "read">>, <<"project", ".", "read">>, <<"project">>, P1,
          <<"project", ":", "p2", ".", "read">>, P1 \o <<".", "report">>,
          <<"project", ":", "P%2E1", ".", "read">>}
Details == {List(<<Agent(Str(p))>>) : p \in Paths}
           \cup {List(<<>>), Str(P1), List(<<Str(P1)>>), List(<<Agent(ABSENT)>>),
                 List(<<RangeEntry(Text("elsewhere"), Str(<<"project">>))>>),
                 List(<<RangeEntry(Text("elsewhere"), Str(<<"project">>)), Agent(Str(P1)), Agent(Two)>>),
                 List(<<Agent(Str(P1)), Agent(Str(P1 \o <<".", "read">>))>>)}
Scopes == {Str(<<>>), Two, Strs(<<"project", "x">>), List(<<Str(ReadProject), Str(<<>>)>>),
           List(<<Str(ReadProject), One>>), Str(Text("project"))}
Clients == {Str(Text("c")), Str(Text("d")), Two}
Values == {One, Two, NaN, Infinity, Str(Text("1")), Str(Text("2")), Str(<<"1", "'", "2">>)}
Groups == {[groups |-> Strs(<<"a", "b">>), tenant |-> Str(Text("n"))],
           [groups |-> Strs(<<"b">>), tenant |-> Str(Text("m")), rid |-> Str(Text("x"))],
           [scopes |-> List(<<Str(ReadProject)>>), groups |-> List(<<Str(ReportDelete), Two>>)],
           [level |-> NaN, flag |-> Yes, tenant |-> Str(<<>>)], [level |-> Two, flag |-> Two]}

Wanted == {<<P1, Text("read")>>, <<P1, ReportDelete>>, <<<<"project">>, Text("read")>>,
           <<P1 \o <<".", "report">>, Text("read")>>}

MCRequests == UNION {
  {Request(w[1], w[2], With([authorization_details |-> d]), ABSENT) :
     w \in Wanted, d \in Details},
  {Request(w[1], w[2], With(<<>>), ABSENT) : w \in Wanted},
  {Request(r, Text("read"), With(<<>>), ABSENT) :
     r \in {P1 \o <<":", "x">>, <<"project", ".">>, <<"a b">> \o <<" ">>, <<":", "p1">>}},
  {Reading(Claims([Subject EXCEPT !.scope = s])) : s \in Scopes},
  {Reading(Claims([sub |-> One])), Reading(Claims([scp |-> Strs(<<"project">>)]))},
  {Reading(With([client_id |-> c, azp |-> z])) : c, z \in Clients},
  {Reading(With(Groups1)) : Groups1 \in Groups},
  {Request(r, Text("read"), With(g), Claims(c)) :
     r \in {P1, <<"project">>}, g \in {<<>>, [groups |-> Strs(<<"b">>), tenant |-> Str(Text("m"))]},
     c \in Groups},
  {Reading(With([level |-> v, limit |-> w])) : v \in Values, w \in {One, Str(Text("2"))}},
  {Reading(With([level |-> One, authorization_details |-> List(<<Agent(Str(p))>>)])) : p \in Paths},
  {Reading([With(<<>>) EXCEPT ![Text("sub")] = Str(Text("u"))]
           @@ (XY :> v @@ Text("z") :> Str(Text("v")) @@ Text("x") :> Str(Text("v")) @@ YZ :> w)) :
     v, w \in {Str(Text("v")), Str(Text("w"))}} }
=============================================================================
