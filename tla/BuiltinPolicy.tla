---------------------------- MODULE BuiltinPolicy ----------------------------
(***************************************************************************)
(* What the built-in collectors write, how their maps merge, and what the  *)
(* built-in rules answer over the merge (packages/builtins,                *)
(* core/AttributePipeline.mts, core/keys.mts), as functions of the         *)
(* deployment's configuration and the request.                             *)
(*                                                                         *)
(* A text is the sequence of its atoms; an atom is a separator or a run of *)
(* characters nothing here looks into.  A value is its JSON type, its text *)
(* and its items.  A nested field is one whose name is its dot path.       *)
(***************************************************************************)
EXTENDS Integers, Sequences, FiniteSets, SequencesExt, FiniteSetsExt

CONSTANTS
  ABSENT,     \* what is not there
  Plain,      \* atoms that match the range grammar's NAME
  Odd,        \* atoms that match its ID and not its NAME
  Numerals    \* the texts of the numbers, least first

(* A NAME or an ID holds no separator.                                      *)
ASSUME GrammarAssumption == {".", ":"} \cap (Plain \cup Odd) = {}

Text(atom) == <<atom>>

Str(text) == [kind |-> "string", text |-> text, items |-> <<>>]
Num(text) == [kind |-> "number", text |-> text, items |-> <<>>]
NaN == Num(Text("NaN"))
Infinity == Num(Text("Infinity"))
List(items) == [kind |-> "list", text |-> <<>>, items |-> items]
Role(permissions) == [kind |-> "object", text |-> <<>>, items |-> permissions]
RangeEntry(type, path) == [kind |-> "object", text |-> type, items |-> <<path>>]

NonEmpty(v) == v # ABSENT /\ v.kind = "string" /\ v.text # <<>>

(* The elements of a list that are to be kept, in order.                    *)
Filter(list, keep) ==
  LET kept[i \in 0..Len(list)] ==
        IF i = 0 THEN <<>>
        ELSE IF list[i] \in keep THEN Append(kept[i - 1], list[i]) ELSE kept[i - 1]
  IN kept[Len(list)]

(* text.split(separator).                                                   *)
Split(text, separator) ==
  LET parts[i \in 0..Len(text)] ==
        IF i = 0 THEN << <<>> >>
        ELSE LET before == parts[i - 1]
             IN IF text[i] = separator THEN Append(before, <<>>)
                ELSE [before EXCEPT ![Len(before)] = Append(@, text[i])]
  IN parts[Len(text)]

(* The elements of a dotted path, each split at its colons.                 *)
Elements(path) ==
  LET parts == Split(path, ".") IN [i \in DOMAIN parts |-> Split(parts[i], ":")]

-----------------------------------------------------------------------------
(* Reserved keys: one package's claim on each, kept for good.               *)
ATTR_SCOPES == Text("scopes")
ATTR_PERMISSIONS == Text("permissions")
ATTR_ROLES == Text("roles")
ATTR_USER_ID == Text("userId")
ATTR_CLIENT_ID == Text("clientId")
ATTR_DELEGATION_RANGE == Text("delegationRange")
ATTR_REQUEST_ACTION == Text("requestAction")
ATTR_REQUEST_RESOURCE_TYPE == Text("requestResourceType")
ATTR_REQUEST_RESOURCE_ID == Text("requestResourceId")
ATTR_REQUEST_RESOURCE_RAW == Text("requestResourceRaw")

CORE_ATTRIBUTE_KEYS ==
  {ATTR_SCOPES, ATTR_PERMISSIONS, ATTR_ROLES, ATTR_USER_ID, ATTR_CLIENT_ID}
CEDAR_ATTRIBUTE_KEYS == {ATTR_REQUEST_ACTION, ATTR_REQUEST_RESOURCE_TYPE,
                         ATTR_REQUEST_RESOURCE_ID, ATTR_REQUEST_RESOURCE_RAW}

Reserved(reservations, owner, keys) ==
  [key \in DOMAIN reservations \cup keys |->
     IF key \in DOMAIN reservations THEN reservations[key] ELSE owner]

(* reserveAttributeKeys throws, registering nothing.                        *)
Contested(reservations, owner, keys) ==
  \E key \in keys \cap DOMAIN reservations : reservations[key] # owner

-----------------------------------------------------------------------------
(* Declared mappings: [from, to, type].                                     *)
Destination(mapping) == IF mapping.to = ABSENT THEN mapping.from ELSE mapping.to

(* Mutant of parseAttributeMappings: the key spelled out is checked.        *)
parseAttributeMappingsAsWritten(mappings, reservations, tolerated) ==
  \A i \in DOMAIN mappings :
    mappings[i].to \in DOMAIN reservations => reservations[mappings[i].to] \in tolerated

(* Construction accepts them: none onto a reserved key but of an owner      *)
(* tolerated.                                                               *)
parseAttributeMappings(mappings, reservations, tolerated) ==
  \A i \in DOMAIN mappings :
    LET key == Destination(mappings[i])
    IN key \in DOMAIN reservations => reservations[key] \in tolerated

matchesType(v, type) ==
  CASE type = "string" -> NonEmpty(v)
    [] type = "number" -> v # ABSENT /\ v.kind = "number" /\ v \notin {NaN, Infinity}
    [] type = "boolean" -> v # ABSENT /\ v.kind = "boolean"
    [] type = "string[]" -> /\ v # ABSENT /\ v.kind = "list"
                            /\ \A i \in DOMAIN v.items : NonEmpty(v.items[i])

Read(source, name) == IF name \in DOMAIN source THEN source[name] ELSE ABSENT

promoteMappings(mappings, source) ==
  LET promoted == {i \in DOMAIN mappings :
                     matchesType(Read(source, mappings[i].from), mappings[i].type)}
      lastOnto(key) == CHOOSE i \in promoted :
                         /\ Destination(mappings[i]) = key
                         /\ \A j \in promoted : Destination(mappings[j]) = key => j <= i
  IN [key \in {Destination(mappings[i]) : i \in promoted} |->
        Read(source, mappings[lastOnto(key)].from)]

-----------------------------------------------------------------------------
(* The subject's claims.                                                    *)
Strings(v) == v.kind = "list" /\ \A i \in DOMAIN v.items : v.items[i].kind = "string"

scopesFrom(v) ==
  IF v = ABSENT THEN <<>>
  ELSE IF v.kind = "string"
  THEN LET names == Split(v.text, " ") IN [i \in DOMAIN names |-> Str(names[i])]
  ELSE IF Strings(v) THEN v.items ELSE <<>>

PayloadScopeCollector(subject, claim) ==
  [key \in {ATTR_SCOPES} |->
     LET names == scopesFrom(Read(subject, claim))
     IN List(Filter(names, {v \in ToSet(names) : NonEmpty(v)}))]

(* client_id and azp: the one client they name, if each of them there does. *)
clientOf(subject) ==
  {Read(subject, Text("client_id")), Read(subject, Text("azp"))} \ {ABSENT}

PayloadSubjectIdCollector(subject) ==
  LET sub == Read(subject, Text("sub"))
      clients == clientOf(subject)
      user == IF NonEmpty(sub) THEN {ATTR_USER_ID} ELSE {}
      client == IF Cardinality(clients) = 1 /\ \A c \in clients : NonEmpty(c)
                THEN {ATTR_CLIENT_ID} ELSE {}
  IN [key \in user \cup client |->
        IF key = ATTR_USER_ID THEN sub ELSE CHOOSE c \in clients : TRUE]

StaticPermissionCollector(permissions) == [key \in {ATTR_PERMISSIONS} |-> List(permissions)]
StaticRoleCollector(roles) == [key \in {ATTR_ROLES} |-> List(roles)]

-----------------------------------------------------------------------------
(* delegation/range.mts.                                                    *)
IsName(text) == Len(text) = 1 /\ text[1] \in Plain
IsId(text) == Len(text) = 1 /\ text[1] \in Plain \cup Odd

(* parseRangePath: the elements of a path, <<type>> or <<type, id>>, or none *)
(* when it is not one.                                                      *)
parseRangePath(path) ==
  {elements \in {Elements(path)} :
     \A i \in DOMAIN elements :
       /\ Len(elements[i]) <= 2 /\ IsName(elements[i][1])
       /\ Len(elements[i]) = 2 => i # Len(elements) /\ IsId(elements[i][2])}

(* Mutant of requestedRangePath: the action is joined as it comes.          *)
requestedRangePathJoined(resource, action) == resource \o <<".">> \o action

requestedRangePath(resource, action) ==
  IF IsName(action) THEN resource \o <<".">> \o action ELSE ABSENT

rangeContains(entry, path) ==
  \E within \in parseRangePath(entry), requested \in parseRangePath(path) :
    /\ Len(within) <= Len(requested)
    /\ \A i \in DOMAIN within : within[i] \in {requested[i], <<requested[i][1]>>}

(* The claim's entries of the type, or none when the token has no range.    *)
entriesOfType(claim, type) ==
  IF claim = ABSENT THEN {}
  ELSE IF claim.kind # "list" \/ \E i \in DOMAIN claim.items : claim.items[i].kind # "object"
  THEN {<<>>}
  ELSE LET ofType == {e \in ToSet(claim.items) : e.text = type}
       IN {Filter(claim.items, ofType) : e \in ofType}

RangePath(v) == v # ABSENT /\ v.kind = "string" /\ parseRangePath(v.text) # {}

rangePaths(entries) ==
  LET paths == [i \in DOMAIN entries |-> entries[i].items[1]]
  IN Filter(paths, {v \in ToSet(paths) : RangePath(v)})

DelegationRangeCollector(subject, range) ==
  LET ranges == entriesOfType(Read(subject, range.claim), range.type)
  IN [key \in {ATTR_DELEGATION_RANGE : entries \in ranges} |->
        List(rangePaths(CHOOSE entries \in ranges : TRUE))]

-----------------------------------------------------------------------------
(* DotNotationResourceParser: types joined, the last id; none when refused. *)
IsToken(text) == text # <<>> /\ " " \notin ToSet(text)

parseResource(raw) ==
  LET segments == Elements(raw)
      last == Last(segments)
  IN IF \A i \in DOMAIN segments : Len(segments[i]) <= 2
          /\ \A j \in DOMAIN segments[i] : IsToken(segments[i][j])
     THEN {[raw |-> raw,
            type |-> FoldLeft(LAMBDA text, segment : text \o <<".">> \o segment[1],
                              segments[1][1], Tail(segments)),
            id |-> IF Len(last) = 2 THEN last[2] ELSE ABSENT]}
     ELSE {}

(* Cedar's RequestFactsCollector: an id is written when there is one.       *)
RequestFactsCollector(resource, action) ==
  [key \in CEDAR_ATTRIBUTE_KEYS
             \ (IF resource.id = ABSENT THEN {ATTR_REQUEST_RESOURCE_ID} ELSE {}) |->
     Str(CASE key = ATTR_REQUEST_ACTION -> action
           [] key = ATTR_REQUEST_RESOURCE_TYPE -> resource.type
           [] key = ATTR_REQUEST_RESOURCE_ID -> resource.id
           [] key = ATTR_REQUEST_RESOURCE_RAW -> resource.raw)]

-----------------------------------------------------------------------------
(* AttributePipeline.  AttributeConflictError: two maps disagree on a scalar. *)
IsList(v) == v # ABSENT /\ v.kind = "list"

Conflicts(maps) ==
  \E i, j \in DOMAIN maps : \E key \in DOMAIN maps[i] \cap DOMAIN maps[j] :
    /\ ~IsList(maps[i][key]) /\ ~IsList(maps[j][key])
    /\ maps[i][key] # maps[j][key]

(* What a key holds, through one more map: lists unite, a scalar resets the *)
(* lists before it, a list replaces the scalar before it.                   *)
Joined(before, map, key) ==
  IF key \notin DOMAIN map THEN before
  ELSE IF IsList(before) /\ IsList(map[key]) THEN List(before.items \o map[key].items)
  ELSE map[key]

MergedValue(maps, key) ==
  LET after[i \in 0..Len(maps)] ==
        IF i = 0 THEN ABSENT ELSE Joined(after[i - 1], maps[i], key)
  IN after[Len(maps)]

merge(maps) ==
  [key \in UNION {DOMAIN maps[i] : i \in DOMAIN maps} |-> MergedValue(maps, key)]

-----------------------------------------------------------------------------
(* Rules: [rule, type, restricts, ...].  The attribute rules are configured *)
(* as [rule, a, b, values, op, group].                                      *)
PairRules == {"attr_pair_equal", "attr_pair_not_equal", "attr_pair_compare", "attr_match"}
SetRules == {"attr_literal_in", "attr_literal_not_in"}
LiteralRules ==
  {"attr_literal_equal", "attr_literal_not_equal", "attr_literal_compare"} \cup SetRules
CompareRules == {"attr_literal_compare", "attr_pair_compare"}
COMPARE_OPS == {"lt", "le", "gt", "ge"}

(* Mutant of requireAttrName: any text names an attribute.                  *)
requireAttrNameAny(name) == name # ABSENT /\ name # <<>>

requireAttrName(name) == name # ABSENT /\ name # <<>> /\ ":" \notin ToSet(name)

requireLiteralValue(v) == v # ABSENT /\ v.kind \in {"string", "number", "boolean"} /\ v # NaN

requireHomogeneousLiteralArray(values) ==
  /\ values # {} /\ \A v \in values : requireLiteralValue(v)
  /\ \A v, w \in values : v.kind = w.kind

(* The constructors refuse none of it.                                      *)
Constructs(r) ==
  /\ requireAttrName(r.a) /\ r.group # <<>>
  /\ IF r.rule \in PairRules THEN requireAttrName(r.b)
     ELSE requireHomogeneousLiteralArray(r.values)
  /\ r.rule \in CompareRules => r.op \in COMPARE_OPS
  /\ r.rule = "attr_literal_compare" => \A v \in r.values : v.kind = "number"

(* computeValuesKey: each value quoted, in an order of the set's own.  The   *)
(* FNV-1a hash of it is taken to be injective.                              *)
computeValuesKey(values) ==
  LET texts == SetToSeq({v.text : v \in values})
  IN FlattenSeq([i \in DOMAIN texts |-> <<"'">> \o texts[i] \o <<"'">>])

DerivedType(r) ==
  LET kind == (CHOOSE v \in r.values : TRUE).kind
      literal == IF r.rule \in SetRules THEN computeValuesKey(r.values)
                 ELSE (CHOOSE v \in r.values : TRUE).text
  IN <<r.rule, ":">> \o r.a \o <<":">> \o
     (IF r.rule \in CompareRules THEN <<r.op, ":">> ELSE <<>>) \o
     (IF r.rule \in PairRules THEN r.b
      ELSE (IF r.rule = "attr_literal_compare" THEN <<>> ELSE <<kind, ":">>) \o literal)

AttrRule(r) ==
  [rule |-> r.rule, type |-> IF r.group = ABSENT THEN DerivedType(r) ELSE r.group,
   restricts |-> FALSE, of |-> r]
HasScope(scope, rewrite) ==
  [rule |-> "scope", type |-> Text("scope"), restricts |-> FALSE, of |-> [scope |-> scope, rewrite |-> rewrite]]
HasPermission(permission) ==
  [rule |-> "permission", type |-> Text("permission"), restricts |-> FALSE, of |-> permission]
WithinDelegationRange(path) ==
  [rule |-> "delegation_range", type |-> Text("delegation_range"), restricts |-> TRUE, of |-> path]

applyCompare(op, x, y) ==
  LET rank(v) == CHOOSE i \in DOMAIN Numerals : Numerals[i] = v.text
  IN /\ x # NaN /\ y # NaN
     /\ CASE op = "lt" -> rank(x) < rank(y) [] op = "le" -> rank(x) <= rank(y)
          [] op = "gt" -> rank(x) > rank(y) [] op = "ge" -> rank(x) >= rank(y)

(* What each attribute rule asks of its attribute x, or of its two.         *)
IsNumber(v) == v # ABSENT /\ v.kind = "number"
OfTheirKind(r, x) == x # ABSENT /\ \A v \in r.values : x.kind = v.kind

AttrLiteralEqual(r, x) == x \in r.values
AttrLiteralNotEqual(r, x) == OfTheirKind(r, x) /\ x # NaN /\ x \notin r.values
AttrLiteralIn(r, x) == x \in r.values
AttrLiteralNotIn(r, x) == OfTheirKind(r, x) /\ x # NaN /\ x \notin r.values
AttrLiteralCompare(r, x) == IsNumber(x) /\ \A v \in r.values : applyCompare(r.op, x, v)
AttrPairEqual(x, y) == NonEmpty(x) /\ NonEmpty(y) /\ x = y
AttrPairNotEqual(x, y) == NonEmpty(x) /\ NonEmpty(y) /\ x # y
AttrPairCompare(r, x, y) == IsNumber(x) /\ IsNumber(y) /\ applyCompare(r.op, x, y)

AttrHolds(r, attrs) ==
  LET x == Read(attrs, r.a)
      y == Read(attrs, r.b)
  IN CASE r.rule = "attr_literal_equal" -> AttrLiteralEqual(r, x)
       [] r.rule = "attr_literal_not_equal" -> AttrLiteralNotEqual(r, x)
       [] r.rule = "attr_literal_in" -> AttrLiteralIn(r, x)
       [] r.rule = "attr_literal_not_in" -> AttrLiteralNotIn(r, x)
       [] r.rule = "attr_literal_compare" -> AttrLiteralCompare(r, x)
       [] r.rule \in {"attr_pair_equal", "attr_match"} -> AttrPairEqual(x, y)
       [] r.rule = "attr_pair_not_equal" -> AttrPairNotEqual(x, y)
       [] r.rule = "attr_pair_compare" -> AttrPairCompare(r, x, y)

matchScope(granted, scope) ==
  \/ granted = scope.scope
  \/ scope.rewrite /\ ":" \notin ToSet(granted) /\ <<"read", ":">> \o granted = scope.scope

(* One wildcard, whose halves may not overlap in what is required.          *)
matchPermission(granted, required) ==
  \/ granted \in {Text("*"), required}
  \/ LET halves == Split(granted, "*")
     IN /\ Len(halves) = 2
        /\ Len(required) >= Len(halves[1]) + Len(halves[2])
        /\ IsPrefix(halves[1], required) /\ IsSuffix(halves[2], required)

Entries(attrs, key) ==
  LET v == Read(attrs, key) IN IF v = ABSENT \/ v.kind # "list" THEN {} ELSE ToSet(v.items)

Texts(values) == {v.text : v \in {w \in values : w.kind = "string"}}

HasScopeHolds(scope, attrs) ==
  \E granted \in Texts(Entries(attrs, ATTR_SCOPES)) : matchScope(granted, scope)

HasPermissionHolds(permission, attrs) ==
  LET roles == {r \in Entries(attrs, ATTR_ROLES) : r.kind = "object"}
      grants == Entries(attrs, ATTR_PERMISSIONS) \cup UNION {ToSet(r.items) : r \in roles}
  IN \E granted \in Texts(grants) : matchPermission(granted, permission)

WithinDelegationRangeHolds(path, attrs) ==
  path # ABSENT /\ \E entry \in Texts(Entries(attrs, ATTR_DELEGATION_RANGE)) :
                     rangeContains(entry, path)

verify(rule, attrs) ==
  CASE rule.rule = "scope" -> HasScopeHolds(rule.of, attrs)
    [] rule.rule = "permission" -> HasPermissionHolds(rule.of, attrs)
    [] rule.rule = "delegation_range" -> WithinDelegationRangeHolds(rule.of, attrs)
    [] OTHER -> AttrHolds(rule.of, attrs)

ResourceActionScopeRuleCollector(subject, resource, action, scoped) ==
  IF scoped.scopeless = "skip" /\ Read(subject, scoped.claim) = ABSENT THEN <<>>
  ELSE <<HasScope(action \o <<":">> \o resource.type, scoped.rewrite)>>

ResourceActionPermissionRuleCollector(raw, action) ==
  <<HasPermission(raw \o <<".", "perm", ":">> \o action)>>

DelegationRangeRuleCollector(subject, raw, action, range) ==
  IF entriesOfType(Read(subject, range.claim), range.type) = {} THEN <<>>
  ELSE <<WithinDelegationRange(requestedRangePath(raw, action))>>
=============================================================================
