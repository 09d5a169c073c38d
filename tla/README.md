# Formal models of auth.policy-verifier

TLA+ modules, TLC runs and TLAPS proofs about the policy verifier in `src/`. The
models are translated from the TypeScript source; `PROJECT.json` names the lines
each definition stands for. Run a model with

    tlc -config MCCollectorFanOut.cfg MCCollectorFanOut

and check the proofs of a module with `tlapm CollectorFanOutProofs.tla`. Eight
modules hold proofs, each named after the module it is about.

## The system

The verifier answers `POST /verify` and `POST /verify/batch`: is this subject
allowed this action on this resource? It verifies a bearer token, collects
attributes and rules from configured collectors, evaluates the rules over the
attributes, and answers allow or deny. Everything that fails is a deny or a 500.

    caller --> verify route --> decide --+--> attribute pipeline --> runCollectors --> collectors
                 | lanes (batch)         +--> rule pipeline -------> runCollectors --> collectors
                 |                       +--> evaluate --> rules (sync) / Cedar engine (async)
                 |                                                     |
                 response, log, metrics <-- classify <-- FailureRecord  cedar-agent (http) <-- read-back

### Inventory

| Component | State | Operations | What is hard | What makes it correct |
| --- | --- | --- | --- | --- |
| Collector fan-out (`core/collectorLimits`) | cursor, lanes, a controller and a timer per collector, the deadline, results | collect | several failures in one turn, collectors that ignore their signal, late rejections | fail-closed; at most `concurrency` calls; always settles; leaves nothing behind |
| Failure record (`core/failureSource`) | value -> source, per decision | record, sourceOf | one error object thrown by several collectors; abort reasons thrown back | a failure is named after the one that caused it, the caller's leaving after nobody |
| Reserved attribute keys (`core/keys`) | key -> owner, process-wide | reserve, read | packages load in any order; a collector reads it when it is constructed | no declared mapping writes a key another package owns |
| Pipelines (`core/AttributePipeline`, `RulePipeline`) | none | collect: fan-out, then merge or concatenation | conflicts, lists that unite across collectors | all or nothing; a conflict is a deny |
| Rule phase (`core/evaluate`, `ruleEvaluation`) | outcomes so far, the clock, one asynchronous rule in flight | evaluate | budgets that shorten each other, early exit in a group, a report that contradicts its answer | AND over groups of OR within one; restrictions grant nothing; a pass is proven |
| Built-in collectors and rules (`builtins`) | none | collect, verify | spelling: scopes, ranges, derived rule types, numbers | a body vouches for nothing; a delegation narrows; rules written apart stay apart |
| Decider and routes (`server/decision`, `routes/verify`) | the batch's cursor, lanes and slots; one failure record per decision | verify, batch | two pipelines in parallel, faults that overlap, the caller leaving | no allow on half a decision; one answer per request, in order |
| Failure classification (`server/observability`) | none | classify | identity of error objects | the category decides deny or 500, and names its own collector |
| http Cedar engine (`cedar/httpEngine`) | the pushed set's ids | load (boot), isAuthorized | boot retries, answers broken off | answers come from this load's policies |
| Agent read-back (`cedar/agentReadBack`) | baseline, refusal, generation, accounting of answered calls, check in flight | poll, check, re-push | an agent that restarts, is changed, or hides its set while calls are out | a changed set is refused within the interval and left for an operator once it was found; a lost one is pushed again |
| Cedar rule collector, mapping, policy source (`cedar/...`), wasm engine (`cedar-wasm`) | boot-time configuration, the compiled or pushed set | create, verify or decide, interpret | partly malformed input, one entity in two roles, an agent that holds another set | a pass is the loaded set's; spoiled input evades no forbid; one role does not describe the other |
| Token authentication (`server/jwt`, `server/auth`, `config/hs256Rotation`) | the live secrets, by `kid` and time; the provider's key set | authenticate | rotation across restarts, two readings of one secret, an unreachable provider | no token is lost to a rotation, no retired secret lives on; refused and unavailable are kept apart |
| Configuration (`server/config`) | none after boot | parse at either boundary (the file's schema, `createApp`) | defaults resolved in several places, one check per boundary | what boots can serve |
| Application (`server/app`, `http`, `net`) | none | middleware | order of the gates | nothing is spent on a caller before the gate that may refuse it |
| Standalone process (`templates/standalone`) | shutdown flags, deadline, cleanup | start, signal, drain, exit | deadline, close and cleanup race; what keeps the event loop alive | exit code 0 means a clean drain and a cleanup that succeeded |
| Metrics, logging, module registry | counters; - ; keyed constructors | observe, log, look up | - | not modelled: nothing reads them back into an answer |

## Modules

| Module | Models | Composition |
| --- | --- | --- |
| `CollectPromise` | what a collect promises the pipeline awaiting it | abstract specification |
| `CollectorFanOut` | `runCollectors`, `runOne`, `rejectOnAbort`, the failure record | implements `CollectPromise` (refinement mapping `OutcomeSeen`) |
| `CollectorFanOutProofs` | its invariants and the refinement, proved | |
| `RulePhase` | `evaluate`, `evaluateGroup`, `verifyRule`, `runAsyncRule`, `conclude` | |
| `BuiltinPolicy` | every built-in collector, rule and rule collector, the merge, the reserved keys, the resource parser; pure | |
| `RulePhaseProofs` | its invariants, proved | |
| `PolicyDecision` | a deployment from the packages it loads to its decision | extends `RulePhase`; its rules answer what `BuiltinPolicy` says |
| `PolicyDecisionProofs` | the rule phase over collected rules, the merge, what a body may write, what a delegation allows | extends `RulePhaseProofs` |
| `BatchRoute` | the batch route's lanes, `decide`, `classifyFailure` | each collect is a `CollectPromise`, each evaluation what `RulePhase` ends in |
| `BatchRouteProofs` | its invariants, proved | |
| `CedarLoad` | `load` of the http engine: reservation, push, first read | what a load leaves is where `AgentReadBack` starts |
| `CedarLoadProofs` | its invariants, proved | |
| `AgentReadBack` | `createAgentReadBack`, `isAuthorized` and `readAgentSet` of the http engine, the agent as environment | |
| `AgentReadBackProofs` | its invariants, proved | |
| `CedarMapping` | `mapping.mts`: the Cedar request built from the merged attributes, and Cedar's evaluation; pure | |
| `CedarDecision` | `CedarPolicyRuleCollector`, engine selection, policy source, what each engine answers | extends `CedarMapping` |
| `CedarDecisionProofs` | what a pass rests on, and lemmas on the mapping and the engines | |
| `TokenCheck` | secrets and their rotation, key resolution, the verdict on a header; pure | |
| `AppConfig` | what each boundary refuses, and what a configuration resolves to; pure | extends `TokenCheck` |
| `RequestGates` | the parsing of a body, request ids, what each gate answers; pure | extends `AppConfig` |
| `GracefulShutdown` | `installGracefulShutdown`, `deferExit` | |
| `VerifierProcess` | the process over the life of a deployment | extends `GracefulShutdown` and `RequestGates` |
| `VerifierProcessProofs` | the shutdown, the gates, the rotation and what a boot promises, proved | |
| `MC*` | instances for TLC | |

A step is one run of JavaScript that nothing interrupts: a continuation, a timer
callback, an incoming event. Where the code depends on the order of microtasks,
every order is allowed; timers of a fan-out fire only when none of its
continuations is queued, since the event loop drains microtasks between tasks.
Definitions with "Mutant of" in their comment are not part of a specification:
each is a plausible bug of one definition that the named property refutes.

### CollectorFanOut

`next` is the shared cursor, `lane[l]` the collector a lane awaits, `own[c]` the
reason collector `c`'s controller aborted with, `race[c]` how its `Promise.race`
stands, `cause` the rejection `Promise.all` keeps, `record` the decision's
`FailureRecord`. `Collect` is `runCollectors` to its await, `Answers`/`Rejects`
the collector's promise (the latter with the recording catch), `OwnTimeout`,
`DeadlineFires`, `CallerAborts` the timers and the caller's listener,
`LaneAdvances`/`LaneFails` a lane's continuation, `Resolve`/`Reject` the end of
`Promise.all` with its catch and finally. A collector may reject with any error,
shared or its own, and with any abort reason it could have seen.

### RulePhase

Rules carry a type, whether they are asynchronous and whether they only
restrict. `at` is the rule asked, `ran` the outcomes, `now` the clock, `due` the
timer of the asynchronous rule in flight. What a rule answers and what it
reports through its evaluation recorder are chosen when it settles; the field by
field reading of a report is abstracted to its status, or to its being refused.

### BuiltinPolicy and PolicyDecision

A text is the sequence of its atoms - separators, and runs of characters nothing
looks into - so that `split`, prefixes and joined types are what they are in the
code, and two spellings that join to one text do collide. A value is its JSON
type, text and items; a nested claim is one whose name is its dot path. `Read` of
an attribute map, `merge` and `Conflicts` are `AttributePipeline`'s; a merged value
is what its loop over the maps leaves of one key (`MergedValue`), as in the code;
`PayloadScopeCollector`, `StaticRoleCollector`, `DelegationRangeCollector` and
the others carry their classes' names, `verify` dispatches on a rule's class.

`PolicyDecision` has two kinds of behaviour. In the stage `given` it is
`RulePhase` over any list of rules. Otherwise a deployment loads its packages one
by one in any order (`LoadPackage`: each reserves its keys, or is refused and
registers nothing), its collectors are constructed against the registry as it
then is (`Construct`), and a request goes through the resource parser, the
collectors, the merge and the rule collectors in one step (`CollectPolicy`; how
those interleave is `CollectorFanOut`'s and `BatchRoute`'s), then rule by rule
through the rule phase (`BeginBuiltin`, `AskBuiltin`).

Abstractions: the FNV hash in a set rule's type is taken to be injective; the
attribute rules are those the configuration can construct; a package loaded after
the collectors were constructed is outside the model, as the application loads
all of them first.

### CedarMapping and CedarDecision

`Request` is the mapping: principal, action and resource, and one entity per uid
with what the roles that name it say of it, under `strict` or `merge`. `Evaluate` is
Cedar as far as the verifier relies on it: a policy that reads what is not there
errs, one that tests a membership does not, any forbid that applies denies. `Create`
is the rule collector's `create` with every refusal; `Ask` is `verify`, or `decide`
up to its call; `Answered`, `CallFails` and `Aborted` end a call; `SetReplaced` is
the agent restarting or being pushed to, at any moment up to the answer.
`OwnDecision` translates the ids an agent names, `Interpreted` is `interpret`. The
agent is never read back here: what a pass means must not depend on the polling
`AgentReadBack` models. The sets that others push are under a mark of their own, or
none: a holder of the agent's token who writes policies under this load's ids
(httpEngine.mts:366-371) is outside `OwnSetDecides`, since no answer tells them from
the load's. The read-back detects those. Absorbing one role's description into
another's fills in what is not there, as `absorb` does: that `RolesKeptApart` and
`ForbidsNotEvaded` hold of self-access rests on `mergeConflict`, which compares first,
absence included (`Agrees`). Cedar's `has` and nested lists are left out.

### TokenCheck, AppConfig, RequestGates and VerifierProcess

`TokenCheck` gives a secret its identity and what its text can be read as, and a key
the bytes one reading yields, so that one text read as hex and as UTF-8 are two
keys. `previousSecrets` is a function of places, not a list: the rotation puts each
secret at a place of its own, and no check reads the order. `KeysFor` is the key a token is verified with (`rotatingKeys` under HS256,
among the entries that are live now), `Verified` the claims asked of jose,
`authenticate` the verdict, with refused and unavailable kept apart; all are
functions of the configuration, the header and the time. The signature check and the
JWKS client with its cache and cooldown are jose's: an endpoint answers or does not.

`AppConfig` has two boundaries, because the code has: the file's schema, and
`createApp` with an object a deployment wrote by hand. `Boots(c, fromFile)` is what
the chosen one accepts, `Effective` what then runs, `resolveBound` a numeric knob
with its default and range. They do not refuse the same: under an asymmetric
algorithm the schema refuses `previousSecrets` (`application.schema.mts`, the
repository's README.md:615, "rejected at boot rather than silently ignored"), while
a hand-built configuration that has them starts and they are ignored, since
`resolveAsymmetric` never reads them.

`VerifierProcess` starts the process with a configuration, or has it refuse; follows
one request gate by gate (`CallerGate`, `ReadBody`, `ParseBody`, `AuthenticateCall`,
`DecideCall`), with others only counted, while the caller may leave and the
provider's keys come and go; shuts it down by the steps of `GracefulShutdown`; and
rotates the HS256 secret as the repository's README.md:587-615 says, with `Mint`,
`Tick`, `StageIncoming`, `IssuerMoves`, `SwapRoles` and `Restart`. The procedure is
the operator's, so it is an assumption of the model: the issuer moves only once a
verifier runs with the staged secret, the roles are swapped and the verifier
restarted before the staged entry expires, and issuer and verifier share their clock
and encoding. Restarts may fall anywhere else, or not happen. A restart in a
rotating life does not follow the drain.

### BatchRoute

Starts where the body is validated and the token verified. Each entry has two
collects, its own failure record and, after both resolved, an evaluation; the
first rejection of the two is the decision's cause and the other pipeline goes
on collecting, as in the code. The catch of `decide` classifies the cause: deny
or fault. The catch of the route sets `abandoned` and answers in one step.

### CedarLoad

`loaded` is the engine's map of reserved endpoints, `at[l]` how far load `l` has
come, `put[l]` the PUT of its running attempt. A PUT is sent, taken by the agent
and answered in three steps; `late[l]` says that one of an abandoned attempt may
still be taken. `Load` is one uninterrupted run of `load` up to its first await,
so the check and the reservation are one step. `AgentOf` may send two keys to
one agent, as two host names of it do. Every load has a set of its own: two
collectors with the same files push equal sets and are not told apart by any
read. Reports of a refusal differ in wording only and are one action.

### AgentReadBack

The agent's set is this load's (as a Cedar version prints it), nothing, or
another; token holders, restarts and the network change it in steps of their
own. A read, a push and an authorization call take three steps each (sent, taken by
the agent, answered). A push is `pushPolicies` again: broken off before an answer
begins it is sent again after a pause (`PushRetried`; the pause is the time before the
agent takes it), until the deadline or a failure ends it (`PushFails`). An attempt that
is given up before the agent took it may be taken all the same: `late` counts those,
`TakesLate` lets one land, on whatever the agent holds by then. `alteredFor`, `blind`,
`found` and `accepted` are history variables the properties need; nothing reads them.

So "never pushed over anything else" (packages/cedar/README.md:435) and "A set that
holds anything else is not written over" (agentReadBack.mts:46) are true of the pushes
the verifier sends, or sends again, once a check has found the set changed. They are
not of a set that was put there between the empty read and the PUT, as the code's own
comment says (:262-264), nor of a PUT it has given up, which the agent may take after
another check found a set changed. `FoundIsLeft` says what is left of the promise:
a set found changed is refused as long as it stands, and only someone else or such a
late PUT writes over it.

### GracefulShutdown

The server, the deadline, `finish` and the cleanup, and two facts about Node: an
unref'd timer fires only while something else keeps the event loop alive, and a
signal without a listener ends the process. `VerifierProcess` takes its steps as
they are; `main.mts` installs it without a cleanup, the template's options allow
one, and both occur. Once the server is closing no request arrives: a further one on a
kept-alive connection that survives is left out, as it would end as one that was in
flight does.

## Runs

| Run | Bounds | Shows |
| --- | --- | --- |
| `fanout` | 4 collectors, 3 lanes, 2 error objects that any of them may throw | `FailClosed`, `BoundedCalls`, `SettledHoldsNothing`, `FailureNamed`, `NoLateInvocation`, `Settles`, and the refinement `KeepsPromise` |
| `fanout_lost` | 3 collectors, 2 lanes, the same 2 error objects | finding: a collector is invoked after its decision is lost |
| `rulephase` | given phases: up to 3 rules, 2 types, rule budget 2, deadline 3, clock to 4; 192 deployments, each the base changed in one or two parts, with every one of 131 requests | `DecisionMeansAndOfOrs`, `BudgetsTripWhenSpent`, `ThrowsBlameTheRuleAsked`, `PassesAreProven`, `CallerCannotVouch`, `DelegationNarrows`, `RulesStayApart`, `PhaseEnds` |
| `batch` | 3 entries, 2 lanes, 1 shared error object | `AllowedOnWholeDecisions`, `AnswersInRequestOrder`, `NamedInOwnDecision`, `FaultsAreAnswered`, `StopsPulling`, `BatchEnds` |
| `batch_ceiling` | the same | finding: more collects of a pipeline than `batchConcurrency` |
| `readback` | 2 calls, 1 printing, interval 2, 3 faults | `LateAnswersRefused`, `FoundIsLeft`, `SilentOnlyIfUnheard`, `DetectionWindow`, `Heals` |
| `readback_upgrade` | 1 call, 2 printings, 2 faults | finding: a load reprinted by another Cedar stays refused |
| `cedar_load` | 3 loads, 2 endpoints of 1 agent, deadline 2, retry 1, 2 faults | `OneHolder`, `ServesItsSet`, `OnlyLateOverwrites`, `LoadEnds` |
| `cedar_decision` | 3 policy layouts, 2 foreign sets, 6,144 collector entries over 4 sets of engines, 1,080 attribute maps over 10 keys, 5 kinds of reply | `OwnSetDecides`, `ForbidsNotEvaded`, `RolesKeptApart` |
| `shutdown` | four kinds of life: each of 425 configurations started at either boundary; 3 requests in flight, 4 taken; one of 43 requests watched, under three kinds of authenticator; two rotations with time to 8, tokens of 2, buffer 1, staging 3 | `ZeroMeansClean`, `AnswersEarned`, `NoOutage`, `RetiredDies`, `BootMeansService`, `ShutdownEnds` |
| `shutdown_signal`, `shutdown_hung` | `GracefulShutdown` alone: 3 requests in flight, 4 taken | findings: a second signal ends the process; a hung cleanup ends it with 0 |

Why the bounds suffice. Four collectors over three lanes give a lane that claims
a second collector while two siblings run, fail or have been abandoned; with two error
objects, one may be shared by collectors beside another that is not. Three rules over two types
contain every shape of group up to three alternatives, interleaved, and a budget
of two in a phase of three lets a second asynchronous rule inherit a shortened
one. Three entries over two lanes is the smallest batch in which a lane pulls
after a sibling entry failed. Two calls let one be answered during a check and
one before it; three faults are change, restore and change, restart and two
losses, or restart, a push given up and a set put in its place - which the push, taken
late, then writes over. Two loads of one endpoint and a third through another name are every kind
of neighbour a load can have; a deadline of two retries allows a second attempt
and one that comes too late. The deployments and requests of `rulephase`, the
collector entries and maps of `cedar_decision` and the configurations of
`shutdown` are pure inputs, so what matters is which of them meet: every value of
a part with a base, and the pairs that some property is about (a mapping with the
packages that reserve its key, a range with the rule that enforces it, two rules
whose types join to one text, two roles that name one entity, a knob at each end
of its range at both boundaries). Two rotations are one that follows another
with its predecessor's entry still listed; eight ticks hold both windows. Every
bound is a CONSTANT of the module (`MaxFaults`, `MaxTime`, `MaxRules`,
`MaxRequests`, `MaxServed`, `Horizon`, a life's `requests`, `calls` and
`rotations`), guarding the environment's actions only. `MAX_TIMER_MS` is 2^31 - 1
in the code and scaled down to 600,000 in the runs; it stays above every default.

Deadlock checking is off throughout: a fan-out, a rule phase, a batch, a rule's
one answer and a process end.

### Fairness

Weak fairness of the program's own continuations, because queued microtasks run,
and of armed timers. Nothing is assumed of a collector, a rule, a request or a
cleanup: they may never settle. `BatchRoute` assumes each collect and evaluation
settles, which `Settles` and `PhaseEnds` show. `PolicyFairness` is the evaluator's
own steps, its armed timer and time. `ProcessFairness` is the drain's armed
deadline, the closing of a server without connections, the cleanup's timer, an
event loop with nothing left and the exit itself: no request ever need end. `CedarLoad` assumes time and the
timers of a load only, nothing of the agent or the network. `AgentReadBack` assumes that time
passes, that a check goes on (its requests have deadlines), that a call ends and
that callers keep asking: by its own documentation a verifier that answers
nothing checks nothing.

## Proofs

`CollectorFanOutProofs` proves, for every number of collectors, every cap and
every set of errors, from `FanOutAssumption` alone (N a natural number, the cap
positive, NONE not a reason or source): `TypeCorrect`, `FailClosedHolds`,
`SettledHoldsNothingHolds`, `NoLateInvocationHolds`, `FailureNamedHolds`,
`BoundedCallsHolds` and the refinement `Refines == Spec => KeepsPromise`.

None of the properties is inductive. The invariant is

- `Progress`: every claimed collector is stored or awaited as long as no lane
  has rejected, and a lane ends only when nothing is left to claim - so when all
  lanes have ended without a cause, nothing was skipped;
- `Cancellation`: a collector at work whose signal has not aborted is still
  awaited by a lane, and an abort of the fan-out has reached every collector a
  lane awaits - so the abort in the catch reaches all that is left;
- `Attribution`: whatever may still become the cause is on the record or is the
  caller's reason, and every entry of the record is justified. Its crux is
  `RejectionNotCallers`: a collector that would be recorded cannot be rejecting
  with the caller's reason, because that reason reaches every signal at once;
- `LanesApart`: an injection of the collectors at work into lanes (each was
  invoked by a lane that awaits it or has ended), which bounds them by the
  number of lanes although abandoned collectors run on.

`Progress`, `Cancellation` and `Attribution` build on each other and on the type
invariant; `Inv` is their conjunction.

`AgentReadBackProofs` proves type correctness (`ReadBackTyped`) and every safety
property of the read-back, for any number of calls, printings, faults and any
interval, each from an invariant added to the type invariant:

- `LateAnswersRefused` from `Crossing` (a call that was out when a refusal began
  was made in an earlier generation) and `BegunNamed` (a generation that began
  names its refusal): the code compares generations, not the refusal now, and
  the proof shows why that is enough when a refusal was lifted in between;
- `FoundIsLeft` from `Pushing` (a push is made and answered under the refusal for an
  altered set) and `FoundStays`: a set found changed is neither the baseline nor
  nothing, and what a running check was answered with while it stands is that set, so
  no check lifts the refusal or begins a push;
- `SilentOnlyIfUnheard` from `Accounted`, which relates the two counters the code
  compares (`heard`, `heardInRead`) to the answers really given; it needs
  `Pushing`, since an answer arriving while a push is out must be
  refused or the counter reset at the push's end would lose it;
- `DetectionWindow` from `Ours` (the baseline is a copy of this load's set) and
  `Window` (with nothing refused and the last check not blind, the set has been
  another for no longer than since that check began).

`CedarLoadProofs` proves `LoadTyped`, `OneHolderHolds`, `ServesItsSetHolds` and
`OnlyLateOverwritesHolds`. `OneHolder` is inductive with the types, because the
check and the reservation are one step and only a holder can fail;
`OnlyLateOverwrites` adds `PutsOfPushes` (a PUT is out only for a load that
pushes, so a neighbour that is not a holder can only reach the agent late), and
`ServesItsSet` adds `ShownIsHeld` (what a load was shown, the agent holds until
it is marked as changed).

The runs of the read-back and of the loads check no type invariant: it is proved.

`RulePhaseProofs` proves `RulesTyped` and the four safety properties of a rule
phase for every list of rules, every budget and every answer, from
`RulePhaseAssumption`. The invariant `RuleInv` says where the evaluation stands:
the groups before the one of the rule asked are closed (an alternative passed, or
each failed), the alternatives before it in its own group failed, and nothing else
was asked (`AskedSoFar`); the timer of the rule in flight is due when its budget, or
what the phase had left as it started, is spent (`Budgeted`); a rule in doubt failed
or its answer was thrown (`DoubtsEnd`). Groups are ordered by their first rule, so
the proof needs that a set of naturals has a least element; without induction over
data that comes from well-founded induction on the initial segments
(`LeastIsLeast`). `Concludes` and, in `BatchRoute`, `Classify` are written as CASEs
with disjoint arms, in the order of the code's early returns.

`PolicyDecisionProofs` carries that invariant over to a deployment, and proves more:

- `DecidesAsTheRulesSay`: the evaluation is a short cut. What it decides rule by
  rule, leaving a group at its first pass, is the AND of the ORs of what all the
  rules say of the attributes, since each outcome is its rule's own answer
  (`Answered`);
- `CallerCannotVouch`: `MergedValue` is a loop over the maps, and such a loop has a
  value for any number of maps (`LoopRuns`, by the least number at which it would
  not). From it: maps that do not write a key change nothing about it, whether they
  run last or first (`SkipsBehind`, `SkipsAhead`), in the configured order or the
  reverse (`TurnedSkips`). `WhoWrites` says which keys each collector writes, and the
  invariant `Vouching` that the engine's keys stay the engine's whatever order the
  packages load in, and that every declared mapping was checked against all keys
  reserved by the time it was constructed. It assumes that a request has its four
  parts (`RequestsAssumption`);
- `RulesStayApart`: an allow has a passing rule of the type of each ungrouped rule, so
  what is to show is that this is a rule that asks the same. Types are texts; a name
  ends at the first `":"` after it, because `requireAttrName` refuses a name with one,
  so two joined types that are equal have equal parts (`Atoms`, `TypesTell`). What
  collides beyond that asks the same: `computeValuesKey` tells literal sets apart by
  `HashAssumption`, one literal's text and kind tell the literal, and no rule collector
  emits a type that an attribute rule can derive. `AttrRulesAssumption` says what a
  configured attribute rule is, `GrammarAssumption` that no NAME or ID is a separator;
- `DelegationNarrows`: `evaluateRules` refuses a group that mixes restrictions with
  others (`AllowedUnmixed`), so an allow has the range's own rule pass and no other in
  its place (`GrantedIsContained`). The attribute it read is the token's range: its key
  is reserved, so no mapping or body writes it (`RangeIsTheTokens`, from `Vouching` and
  `Reserving`: whatever is constructed, every package has its keys), and each path on
  it is of an entry of the claim, of the range's type (`RangeIsOfEntries`). Containment
  of paths is then taken back to the request's resource and action: `Filter`, `Split`
  and `Elements` are loops, of which each step is known (`StepsRun`, `FilterKeeps`,
  `SplitDivides`), and an action that is a name adds one element to a path and changes
  none before it (`OneMoreElement`, from `GrammarAssumption`). For the same token
  without the range, the maps differ in the range's key alone (`BareAttributes`), no
  attribute rule holds of a list (`AttrHoldsWithoutRange`), and the rules are the
  others, none of which the range's rule stood in for (`BareIsGranted`).
  `DeploymentsAssumption` says that a deployment with a range loads the package that
  reserves its key. The property is of deployments in which nothing else reads the
  range's claim (`RangeApart`): a claim mapping onto a name that a rule requires, or a
  scope claim that is also the range, would make a token's range vouch for more.

`BatchRouteProofs` proves `BatchTyped`, the batch's four invariants and `StopsPulling`
for any number of entries, lanes and error objects, from `BatchAssumption`. `BatchInv`
relates each decision to its collects (`Whole`, `Classified`: a failure is classified
by a record that says the same ever after) and the lanes to the entries (`Pulled`: in
order, each by one lane, which leaves it answered in its own place, or faulted).
`DecidedAtOnceHolds` bounds the entries begun and not decided by `batchConcurrency`,
by an injection of them into the lanes. The documented ceiling counts collects, which
outlive their decision: that is finding 3.

`VerifierProcessProofs` has five results.

- The shutdown: `ZeroMeansClean` for any number of requests, from `ShutdownInv`, and
  `ProcessSpec => Spec`: every behaviour of the process is one of the shutdown on its
  own, so the process inherits it.
- The gates: `WatchInv` says of each place a watched request can be at what was spent
  on it and which gates it passed, as the configuration it was judged by stands still
  while it is there. `GatesInOrder` follows for every configuration and request.
  `AnswersEarned` needs more, and says so: a life that watches requests is judged by
  one issuer's word with no tolerance, the request's token is otherwise as that issuer
  mints it, and no decision has the name of a refused token.
- The rotation: `RotationInv` says that the operator's file is a version that serves,
  that the running verifier began with a version that serves, and that every live
  token was minted with a secret that was current then. A version serves if every
  secret that has signed is current, or listed past the last token it signed
  (`Covered`). `ServingBoots` shows that every version the procedure writes passes
  both boundaries. `NoOutage` and `RetiredDies` follow for any number of rotations,
  windows and lifetimes, with restarts anywhere. `RotationAssumption` bounds the
  rotations of a life by `MAX_PREVIOUS_SECRETS`: an operator who never clears an
  expired entry away has one too many listed after that, and the boot is refused.
- The boot: `BootMeansService`, for every configuration that either boundary accepts,
  from `BootInv` (what runs was accepted, and the file stays one that can be written)
  and one lemma for each promise: the gate opens (`GateOpens`), every bound is in its
  range because something `createApp` calls resolves it (`KnobsHold`), a token of the
  issuer's is verified with its key alone (`OwnKey`), no other is (`OthersFail`,
  `StaleFails`). `NamesAssumption` says what the property's names stand for: no
  configuration knows `"nobody"` or `"other"`.

The rotation and the boot are proved under `Atomic(ABSENT)`, `Atomic(MALFORMED)` and
`Atomic(NONE)`: what is not there is no record or list, which TLA+ leaves open of a
constant and TLC's model values satisfy.

`CedarDecisionProofs` proves `OwnSetDecides`, `ForbidsNotEvaded` and `RolesKeptApart`
for every mapping, policy set, agent and attribute map, from `CollectorsAssumption`
(entries are over the layouts there are, policies are well typed, an attribute map
says of each key whether it holds it). `CedarInv` says that a verdict is `Founded`: a
pass, or a policy named, comes from the loaded set, and one that passes is of a request
the set neither errs on nor forbids. It rests on `MarkTells` (the load's mark is part of
every id, so an answer that names one was evaluated on this load's set) and, for
`ForbidsNotEvaded`, on `SpoilingSatisfiesNothing`: a policy that neither errs on the
request with a spoiled value nor applies to it does not apply once it is well formed,
because the spoiled request has less of each entity and nothing else (`Within`). Where
one entity has two roles both rest on `RolesAgree`: what `absorb` then makes of them is
the earlier description with its omissions (`AgreeingAbsorbed`).

What the theorems assume of the constants is in named assumptions that every run's
constants satisfy: `FanOutAssumption`, `RulePhaseAssumption`, `GrammarAssumption`,
`DeploymentsAssumption`, `AttrRulesAssumption`, `HashAssumption`, `RequestsAssumption`,
`BatchAssumption`, `ReadBackAssumption`, `LoadAssumption`, `MappingAssumption`,
`DecisionAssumption`, `CollectorsAssumption`, `ShutdownAssumption`, `TimerAssumption`,
`GatesAssumption`, `LifeAssumption`, `RotationAssumption` and `NamesAssumption`.

Model-checked only:

- liveness (`Settles`, `PhaseEnds`, `BatchEnds`, `Heals`, `LoadEnds`, `ShutdownEnds`),
  which is out of the prover's reach, as is ENABLED;
- what a recursive definition computes of every input, beyond what the lemmas above
  say of its steps. No module needs RECURSIVE.

Every safety property that a passing run checks is also proved.

## Findings

1. `fanout_lost`: `runOne` documents that a collector whose decision is already
   lost is not invoked at all; between a sibling's rejection and the abort lie
   microtasks in which another lane may invoke one.
2. `readback_upgrade`: answers are documented to resume once the agent holds
   this load's set again; they resume once it prints it as the Cedar that took
   the last push did.
3. `batch_ceiling`: the documented per-request ceiling of `batchConcurrency`
   times `collectorConcurrency` per pipeline is exceeded when one pipeline of a
   denied entry goes on collecting after its lane has moved on.
4. `shutdown_signal`: a second signal is documented to be ignored; its listeners
   are removed, so it ends the process.
5. `shutdown_hung`: a cleanup that never settles is documented to be bounded and
   reflected in the exit code; its timer is unref'd, so a process with nothing
   else to do ends with status 0.

## Not modelled, and the plan

Left out for good, with the reason:

- the metrics exporter, the console logger, the module registry and the error
  classes: nothing reads them back into an answer;
- the fields of the decision event, the wording of messages and responses, JSON
  and HOCON parsing, express wiring, the metrics listener;
- jose's signature check and the cache and cooldown of its JWKS client, Cedar's
  evaluator beyond what the verifier relies on (`has`, nested lists), the agent's
  own code: external, modelled by what the verifier uses of them;
- `readEvaluation` field by field (its status, or its refusal, is kept); the
  schema's sections that are shapes with no behaviour of their own.

Planned:

1. A composition of `BatchRoute` with one detailed fan-out, once the batch's own
   interleavings leave room for it, proved by the refinement `Refines`.
