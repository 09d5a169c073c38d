--------------------------- MODULE MCCedarDecision ---------------------------
(* Self-access included: a resource of the principal's type and id, and one *)
(* of the action's.  Both mappings declare "dept" and parents of one type,  *)
(* each from keys of its own; only the resource's declares "owner".         *)
EXTENDS CedarDecision

MCPrincipal ==
  [attributes |-> [dept |-> [key |-> "dept", as |-> "value"]],
   parents |-> [Group |-> "groups"]]
MCResource ==
  [attributes |-> [dept |-> [key |-> "rdept", as |-> "value"],
                   owner |-> [key |-> "owner", as |-> "User"]],
   parents |-> [Group |-> "rgroups"]]
MCContext == [ip |-> "ip"]

T(x) == Text(x)
Banned == <<"Group", "banned">>
MCAttrMaps ==
  [user : {T("u")}, action : {T("read")}, type : {T("User"), T("Action"), T("-")},
   id : {T("read"), Absent, Unusable}, dept : {T("a"), T("b"), Unusable},
   rdept : {T("a")}, owner : {T("u"), Absent},
   groups : {Absent, ListOf({T("staff")}), ListOf({T("banned"), T("staff")}),
             ListOf({T("staff"), Unusable}), Unusable},
   rgroups : {Absent, ListOf({T("staff")})}, ip : {T("a"), Unusable}]

P(effect, role, reads, is) == [effect |-> effect, role |-> role, reads |-> reads, is |-> is]
Staff == P("permit", "principal", "in", <<"Group", "staff">>)
Bans == P("forbid", "principal", "in", Banned)
BadDept == P("forbid", "principal", "dept", T("b"))
BadIp == P("forbid", "context", "ip", T("b"))
Open == P("permit", "resource", "dept", T("a"))
AllPass == P("permit", "principal", "always", T("a"))

\* One policy per file; a file of several; two files with one policy name.
One(x, p) == <<x>> :> <<p>>
MCLayouts ==
  { One("a", Staff) @@ One("b", Bans) @@ One("c", BadDept) @@ One("d", BadIp) @@ One("e", Open),
    (<<"a">> :> <<Staff, Bans>>) @@ (<<"b">> :> <<BadDept, BadIp, Open>>),
    (<<"a">> :> <<Staff, Bans>>) @@ (<<"a", 1>> :> <<BadIp>>) }
MCForeign == [empty |-> <<>>, other |-> (<<"a">> :> AllPass)]

Engines == {{Http}, {Wasm, Http}, {Http, Custom(TRUE)}, {Http, Custom(FALSE)}}
Url(tls, loopback) == [base |-> TRUE, tls |-> tls, loopback |-> loopback]
MCCollectors ==
  [engine : {NONE, "custom"}, registered : Engines,
   sources : {{"policyDir"}, {"policyDir", "policies"}}, layout : MCLayouts,
   abstain : BOOLEAN, require : BOOLEAN, sharing : {"strict", "merge"},
   endpoint : {NONE, Url(TRUE, FALSE)}, env : {Url(FALSE, TRUE), Url(FALSE, FALSE)},
   token : {"none", "unsendable"}, maxAnswerBytes : {"absent", "too small"},
   readBackIntervalMs : {"in range"}]

Whole == [status |-> "2xx", whole |-> TRUE, within |-> TRUE, decision |-> "allow",
          lists |-> TRUE, readable |-> TRUE]
MCReplies == {Whole, [Whole EXCEPT !.readable = FALSE], [Whole EXCEPT !.status = "3xx"],
              [Whole EXCEPT !.within = FALSE], [Whole EXCEPT !.lists = FALSE]}
=============================================================================
