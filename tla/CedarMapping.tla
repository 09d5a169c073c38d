---------------------------- MODULE CedarMapping ----------------------------
(***************************************************************************)
(* The Cedar request a rule builds from the merged attributes              *)
(* (packages/cedar/src/mapping.mts), and the evaluation of a policy set on *)
(* it by Cedar itself, as far as the verifier relies on it.                *)
(*                                                                         *)
(* A value is a tuple whose first element is its kind; an attribute map is *)
(* total, with Absent for what it does not hold.  Nested lists, and how    *)
(* strings are spelled, are left out.                                      *)
(***************************************************************************)
EXTENDS Naturals, FiniteSets

Text(s) == <<"text", s>>
ListOf(vs) == <<"list", vs>>   \* a Cedar set: order and repetition do not count
Entity(uid) == <<"entity", uid>>
Unusable == <<"unusable">>     \* null, an object, a fraction
Absent == <<"absent">>

Kind(v) == v[1]
At(f, x, otherwise) == IF x \in DOMAIN f THEN f[x] ELSE otherwise
Refused == [refused |-> TRUE]

CONSTANTS
  PrincipalType, ActionType,
  Principal, Resource,        \* [attributes: name -> [key, as], parents: types -> key]
  Context,                    \* name -> key
  IdWhenAbsent                \* resource.idWhenAbsent

(* section, entityMapping, stringRecord: an entry that is a key names an     *)
(* attribute; of one that is { attribute, entityType } nothing is asked.    *)
Shaped(role) ==
  /\ \A n \in DOMAIN role.attributes :
       role.attributes[n].as = "value" => role.attributes[n].key # ""
  /\ \A t \in DOMAIN role.parents : role.parents[t] # ""

(* resolveMapping: what boot accepts.                                       *)
Resolved == PrincipalType # ActionType /\ Shaped(Principal) /\ Shaped(Resource)

ASSUME MappingAssumption == Resolved

(* The attributes a request is built from; an attribute map says of each    *)
(* what it holds.                                                           *)
Keys ==
  {"user", "action", "type", "id"} \cup {Context[n] : n \in DOMAIN Context}
  \cup UNION {{role.attributes[n].key : n \in DOMAIN role.attributes}
               \cup {role.parents[t] : t \in DOMAIN role.parents} : role \in {Principal, Resource}}

-----------------------------------------------------------------------------
(* Values.                                                                  *)

(* toCedarValue, with Absent for an omission: a list with one element that  *)
(* has no Cedar form has none itself.                                       *)
CedarValue(v) ==
  IF Kind(v) = "text" \/ (Kind(v) = "list" /\ Unusable \notin v[2]) THEN v ELSE Absent

(* One entry of a mapping: the value itself, or a reference of a type.      *)
Mapped(entry, attrs) ==
  LET v == attrs[entry.key] IN
  IF entry.as = "value" THEN CedarValue(v)
  ELSE IF Kind(v) = "text" /\ v[2] # "" THEN Entity(<<entry.as, v[2]>>) ELSE Absent

IdsIn(v) == CASE Kind(v) = "text" -> {v}
              [] Kind(v) = "list" -> v[2]
              [] OTHER -> {}

(* Mutant of ParentsMalformed: a list is taken for what of it is usable.    *)
ParentsFiltered(role, attrs) ==
  \E t \in DOMAIN role.parents : attrs[role.parents[t]] = Unusable

(* A parent that is there and is not a string or a list of strings refuses  *)
(* the request; omitted, it would be only an absent membership.             *)
ParentsMalformed(role, attrs) ==
  \E t \in DOMAIN role.parents :
    LET v == attrs[role.parents[t]] IN
    v = Unusable \/ (Kind(v) = "list" /\ Unusable \in v[2])

(* contribution: every name and parent type a role declares, found or not.  *)
Says(role, attrs) ==
  [gives |-> [n \in DOMAIN role.attributes |-> Mapped(role.attributes[n], attrs)],
   parents |-> [t \in DOMAIN role.parents |->
                  {<<t, id[2]>> : id \in IdsIn(attrs[role.parents[t]]) \ {Unusable}}]]

Nothing == [gives |-> <<>>, parents |-> <<>>]

-----------------------------------------------------------------------------
(* One entity in two roles.                                                 *)

(* Mutant of Agrees: only what both give is compared, not an omission.      *)
AgreesOnGiven(held, offered) ==
  /\ \A n \in DOMAIN held.gives \cap DOMAIN offered.gives :
       Absent \in {held.gives[n], offered.gives[n]} \/ held.gives[n] = offered.gives[n]
  /\ \A t \in DOMAIN held.parents \cap DOMAIN offered.parents :
       held.parents[t] = offered.parents[t]

(* mergeConflict: what both declare agrees, absence included.               *)
Agrees(held, offered) ==
  /\ \A n \in DOMAIN held.gives \cap DOMAIN offered.gives :
       held.gives[n] = offered.gives[n]
  /\ \A t \in DOMAIN held.parents \cap DOMAIN offered.parents :
       held.parents[t] = offered.parents[t]

(* strictDifference: and what only the later role declares is not there.    *)
AddsNothing(held, offered) ==
  /\ \A n \in DOMAIN offered.gives \ DOMAIN held.gives : offered.gives[n] = Absent
  /\ \A t \in DOMAIN offered.parents \ DOMAIN held.parents : offered.parents[t] = {}

Reconciled(sharing, described, held, offered) ==
  /\ Agrees(held, offered)
  /\ sharing = "strict" \/ ~described => AddsNothing(held, offered)

(* absorb: a value that is there stands, one that is not, declared or not,  *)
(* is filled in by the later role; the parents of both are kept.            *)
Absorbed(held, offered) ==
  [gives |-> [n \in DOMAIN held.gives \cup DOMAIN offered.gives |->
                IF At(held.gives, n, Absent) # Absent
                THEN held.gives[n] ELSE At(offered.gives, n, Absent)],
   parents |-> [t \in DOMAIN held.parents \cup DOMAIN offered.parents |->
                  At(held.parents, t, {}) \cup At(offered.parents, t, {})]]

Memberships(entity) == UNION {entity.parents[t] : t \in DOMAIN entity.parents}

(* refuseCycles, for the two entities a request can describe.               *)
Cyclic(entities) ==
  \E e, f \in DOMAIN entities :
    /\ f \in Memberships(entities[e])
    /\ f = e \/ e \in Memberships(entities[f])

-----------------------------------------------------------------------------
(* buildCedarRequest.                                                       *)

NonEmptyText(v) == Kind(v) = "text" /\ v[2] # ""
OptionalText(v) == Kind(v) \in {"text", "absent"}

ContextOf(attrs) == [n \in DOMAIN Context |-> CedarValue(attrs[Context[n]])]

(* The principal first: the first role to name an entity describes it.  The *)
(* action is named by every request and described by no mapping.            *)
Request(sharing, attrs) ==
  LET principal == <<PrincipalType, attrs["user"][2]>>
      action == <<ActionType, attrs["action"][2]>>
      resource == <<attrs["type"][2],
                    IF attrs["id"] = Absent THEN IdWhenAbsent ELSE attrs["id"][2]>>
      subject == Says(Principal, attrs)
      object == Says(Resource, attrs)
      held == IF resource = principal THEN subject ELSE Nothing
      entities == [e \in {principal, resource} |->
                     IF e = resource THEN Absorbed(held, object) ELSE subject]
  IN IF \/ \E k \in {"user", "action", "type"} : ~NonEmptyText(attrs[k])
        \/ ~OptionalText(attrs["id"])
        \/ ParentsMalformed(Principal, attrs) \/ ParentsMalformed(Resource, attrs)
     THEN Refused
     ELSE IF \/ /\ resource \in {principal, action}
                /\ ~Reconciled(sharing, resource = principal, held, object)
             \/ Cyclic(entities)
     THEN Refused
     ELSE [refused |-> FALSE, principal |-> principal, action |-> action,
           resource |-> resource, entities |-> entities,
           context |-> ContextOf(attrs)]

-----------------------------------------------------------------------------
(* Cedar.  A policy is [effect, reads, is]: it compares what it reads, an   *)
(* attribute of a role or of the context, or asks for a membership.         *)

Holds(request, role) ==
  IF role = "context" THEN request.context
  ELSE IF request[role] \in DOMAIN request.entities THEN request.entities[request[role]].gives
  ELSE <<>>

Read(request, policy) == At(Holds(request, policy.role), policy.reads, Absent)

In(request, uid, group) ==
  LET above(e) == IF e \in DOMAIN request.entities
                  THEN Memberships(request.entities[e]) ELSE {}
  IN group \in above(uid) \cup UNION {above(e) : e \in above(uid)}

(* Reading what is not there is an evaluation error; a membership that is   *)
(* not there is only not there.                                             *)
Errs(request, policy) ==
  policy.reads \notin {"in", "always"} /\ Read(request, policy) = Absent

Applies(request, policy) ==
  CASE policy.reads = "always" -> TRUE
    [] policy.reads = "in" -> In(request, request[policy.role], policy.is)
    [] OTHER -> Read(request, policy) = policy.is

(* Forbid overrides permit; a policy that errs is not satisfied.            *)
Evaluate(set, request) ==
  LET on(effect) == {id \in DOMAIN set : set[id].effect = effect /\ Applies(request, set[id])}
  IN [allow |-> on("forbid") = {} /\ on("permit") # {},
      reason |-> IF on("forbid") # {} THEN on("forbid") ELSE on("permit"),
      errors |-> {id \in DOMAIN set : Errs(request, set[id])}]
=============================================================================
