# A TLA+ model of provider-routeros

provider-routeros drives MikroTik routers from Kubernetes. It holds two
providers: the Crossplane provider generated from the Terraform provider
(`cmd/provider`, `config/`, `internal/`, `apis/`), and the native provider
(`native/`), whose unit of reconciliation is a whole RouterOS menu (ADR 0004).
Both stand on `rest/`, a client of RouterOS's REST API, as does the
OpenTelemetry collector (`collector/`). The rest of the repository is generated
code, or tools that generate it.

This directory models the parts that change a router or share state between
goroutines, checks them with TLC on small instances, and proves the most
important results with TLAPS for every instance.

## Inventory

| Part | State | Operations | Meets others through | What is hard | What makes it correct |
|---|---|---|---|---|---|
| Menu planner, `rest/menu.go` `plan` | none | match, prune, reorder | called by Apply, Plan | ambiguity, twins, order among rows nobody manages | applied, the plan leaves nothing to do; device-owned rows stay |
| Menu executor, `rest/menu.go` `apply` | its locals | two readings, one request per step | REST requests | edits between reading and request, lost replies, half-done plans | nil means converged; a retry duplicates nothing; it settles |
| REST transport, `rest/client.go` | none | List, Create, Update, Delete, Command | HTTP | a failed exchange may or may not have been carried out | - |
| Firewall filter reconciler, `native/internal/controller/firewallfilter` | object spec, annotation, status, finalizer | Reconcile, adoption, deletion, ownership election | Kubernetes objects read through an informer, the connection, Apply | stale copies, approval of one plan and execution of another, crashes, credential rotation, two objects for one router | nothing is pruned without authority; one writer per router; deletion finishes |
| Native connection, `native/internal/connection` | a map of clients | Connect | ProviderConfig and Secret | a connection that changes under an approval | the fingerprint changes with it |
| Upstream client cache and callback guard, `internal/routerosruntime` | clients, closed flag, two mutexes, upstream's global | Configure, wrapped callbacks, Close | every generated controller's workers | a package-global variable shared by all routers, lock order, shutdown | a callback sees its own router's version; one client per configuration; no deadlock |
| Identity wrappers, `config/comment_identity.go`, `interface_identity.go` | the Terraform id | create, read, update, delete of a row found by its comment or interface | upstream's callbacks, operationMu | check-then-create, renames, lost replies, a row the router owns | one row per comment; nobody's row taken over; rows come back, deletions end |
| Sequencer, `config/move_sequence.go` | the Terraform state's sequence | write (strict), read (lenient) | the rows of the wrappers above, operationMu | ids resolved before they are used, rows that come and go | all listed rows are placed or none; the order comes about |
| Certificate removal, `config/certificate_removal.go` | the Terraform id | upstream's delete, then the removal of what it left | upstream's callbacks, operationMu | two requests of which one fails | revoked before it is removed; a revoked row is never abandoned |
| `config/name_identity.go`, `factory_identity.go` | the Terraform id | a schema default; a lookup by factory name | upstream's callbacks | - | not modelled |
| Collector, `collector/scraper.go` | none between scrapes | scrape | REST | partial failure of a scrape | not modelled |

`PROJECT.json` lists every component with what is and is not modelled, the line
of code behind every definition, and every hazard with the properties that
would catch it.

## Modules

    MenuPlanner            what plan computes            (pure operators)
      RouterMenu           what one request does to a menu
        MenuApply          one call of Apply / ApplyChecked, with people around it
          MenuClient       a caller that retries one goal
          FirewallFilterReconciler       the native controller
    PruneAuthority         who may take which row off a router    (abstract)
    ClientCache            the upstream client cache and callback guard
    ClientRegistry         clients obtained, used and closed      (abstract)
    RowIdentity            rows found by comment, interface or name, and their workers
      MoveSequence         the sequencer beside them
    MCMenuClient, MCFirewallFilterReconciler, MCClientCache,
    MCRowIdentity, MCMoveSequence                              instances

RowIdentity extends RouterMenu too. The proofs are in modules of their own:

    MenuLemmas             what a reading, a plan and a move compute
      MenuApplyProofs      what one call keeps in order
        MenuClientProofs, FirewallFilterReconcilerProofs
          PruneAuthorityProofs           that the controller implements PruneAuthority
    RowIdentityProofs
      MoveSequenceProofs   which uses MenuLemmas too
    ClientCacheProofs      with the proof that it implements ClientRegistry

**MenuPlanner** is `plan` without I/O. A record is a function from field names
to values, a reading a sequence of rows with their ids. `Plan` returns the
error, the matches and the steps. `Matched` follows the loop that claims rows
in desired order; `Reorder` has the two shapes of `reorder`, the block move and
the anchored pairs. Loops are recursive functions over the indices (`Only`, which is
SelectSeq in a form a proof can take apart, and `Matched`), so that what they compute
can be proved.

**RouterMenu** is the far side: RouterOS is not in the repository, so `Stored`
and `Move` are taken from what the client, its comments and the router of
`rest/menu_test.go` rely on: values are respelled, omitted fields get defaults,
a create appends under a fresh id, a move takes a block to a place.

**MenuApply** is `Client.apply`. `Begin` is everything from the first reading to
the first request; `StepDone`, `StepRefused` and `StepLost` are the three ways a
request can end, where a lost one may have been carried out or not; `Replan` is
the second reading and its test that only moves are left. `HandAdd`,
`HandRemove`, `HandEdit`, `HandMove` and `Traffic` are people and packets, and
may come between any two of these steps. The history variable `disturbed` says
whether they did since the last reading.

**MenuClient** calls Apply for one goal over and over, as a reconcile loop does.

**FirewallFilterReconciler** is `reconciler.go` around MenuApply. An object is
split into functions over `Menus`: where it is in its life, its spec, its
annotation, its status. The worker has a program counter: `Get` (which copies
the object: everything decided later is decided on that copy), `Connect`,
`Elect`, `Preview`, `StartApply`, `Applying`, `Return`; `mode` says which of
Reconcile, reconcileAdoption and reconcileDelete it is in, so a deletion goes
through `Elect`, `StartApply`, `Applying` and `Return` too. `Crash` stops it
anywhere; a failing Kubernetes call has the same effect, since every one of them
makes Reconcile return. People create, edit, approve and delete objects;
`ConfChange` repoints or breaks a ProviderConfig. `PlanToken` is an injective
digest without the volatile fields: SHA-256 is taken to have no collisions.
`ownerFor` looks at all objects in one step, as its List does; resolving each
candidate's connection in the same step is the one place where several reads are
merged. The history variables `approved` and `completed` record what people have
approved and which adoptions ran to their end; no action reads them.

The worker does not read the API server. `Get` and `ownerFor`'s List go to an
informer's store, `seen`, which is an earlier state of all objects; `Sync` brings
it up to date. (It catches up in one jump, since every state it could stop at on
the way is one it could have synced to earlier.) So a worker may act on an object
older than its own last patch, elect without an object that has just been
created, or come back to one that is gone. What it writes goes to the API server:
`setStatus` and `removeFinalizer` send `client.MergeFrom` patches, and `Merged`
writes a field only where the worker changed it in its copy. A ProviderConfig or
Secret read late is the same as one that changes later, so `conf` needs no copy.

**PruneAuthority** states ADR 0004's promise without the controller: objects show
plans, people approve them, and the controller opens a session with one router
for one object over one connection, inserts and removes rows one at a time, and
closes it. Under Prune it removes a row only over a connection it was adopted
over, or if an approved plan for that connection names the row; only the end of a
session under Prune adopts. `FirewallFilterReconciler!Authority` maps the ids on the
routers to `present`, the status's plan to `shown`, the history of completed
adoptions to `adopted`, and a running Apply to the session. A teardown
(deletion with rows) is a session of its own kind that needs no authority: that is
what the code does, and what `FirewallFilterReconciler_Unapproved` is about.

**ClientCache** has one program counter per goroutine and the two mutexes.
`Setup` is a reconciliation that reaches Configure with the decoded
credentials; `NormalizeConfiguration` converts every field by its schema type,
so that `"true"` and `true` are one key. The key is the converted configuration
itself, standing for its digest. `ProviderConfigure` is upstream's Configure,
which leaves the router's version in the global; `ConfigureFails` covers every
error return between the locks, with the global changed or not. `AcquireMeta`,
`AssignVersion`, `Request` and `CallbackReturns` are a wrapped callback. Which
client upstream makes depends on the address (`ClientAt`): an API client has one
connection for life, a REST client connects whenever it needs to. `CloseClients`
has `Close`'s type switch: API clients are closed, whatever errors they meet, REST
clients drop their connections, and others are left alone. A worker that still
holds a Meta may run another callback after that, since `acquireMeta` does not
look at `closed`; `Request` lets a REST client connect again there, and an API client
not.

**ClientRegistry** is what the two mutexes and the guarded global amount to:
`Obtain` hands a worker a connected client of its own configuration in one step,
an old one or the first there ever was; `Invoke` runs one callback at a time with
a version its router has run, and with a connected client unless Close was called;
`CloseAll` closes every API and REST connection, under no callback, and `Reconnect`
is what a REST client still held may do afterwards. `ClientCache!Registry` maps a
worker's Meta to the client it holds, and a worker inside its callback to a call
that sees the value of the global.

**RowIdentity** has one worker per managed resource and one callback at a time:
`WrapProvider` is applied last (`config/provider.go:44`), so operationMu is held
for a whole wrapped callback, lookup and write. Between two callbacks of one
resource (the observation and what follows from it) others run. `tfid` is the
Terraform id, `due` the next callback with the spec the worker read, `call` the
one in progress; `Lookup`, `RejectExisting`, `Fetch` and `Write` are its
requests. `RequestLost` covers a lost request or reply and a stopped process. The
worker itself is upjet's, not in the repository: it observes, then creates,
updates or deletes, and keeps its id when a callback fails. (When upstream's
create fails after its PUT, upjet may keep the row's .id instead; no comment is
equal to it, so the next read clears it and the two cases are one.) `flavour`
says which of the three identities the menu has; `body` stands for all other
settings of a row, by the name of whoever wrote them.

The third flavour is the certificate, of which only the delete is wrapped. A
resource in `Issued` has its certificate signed by a CA, which the row then shows
(`issued`). `Dispose` is upstream's delete inside the wrapper: it asks the `ca` in the
state, which the last read took from the row (`last`; see
`config/certificate_removal_live_test.go:106`), and not the spec. With one, the
certificate is revoked and stays; without, it is removed. So a resource that meets
another's row under its name treats it as that row's issuer says. `FollowUp` looks
the name up and `Write` removes what is left. Create, read and update are upstream's under name
identity, external, and taken from what the comments and tests in `config/` say
of them. Revoking a revoked certificate is taken to be accepted, as the router of
`config/certificate_removal_test.go` does; if RouterOS refuses it, the retry after a
failed removal would not get as far as the follow-up, and `DeletionEnds` would
not hold for that certificate.

**MoveSequence** adds the sequencer and its worker. `ResolveError` and `Resolved`
are `resolveSequence`; a write resolves the spec's entries strictly, a read the
state's leniently, and `Restored` turns what upstream reports back into entries.
When none of the rows is there any more upstream may clear the id, which ends the
read without a restoration (`move_sequence.go:90`); the worker then writes anew.
The call's field `since` is history: how much people had done when it began.

## Runs

| Run | Instance | What it shows |
|---|---|---|
| `MenuClient_Retry` | 11 menus of up to four rows (dynamic, unmanaged, twins, every order of the managed rows); ordered, unordered and keyed goals of two or three rows; three lost requests or replies | `Converged`, `ListConverged`, `NoDuplicateCreate`, `Settles` |
| `MenuClient_Edits` | two menus, goals that are plain, nested or respelled by the router; two edits by hand and counters | `Converged`, `OthersKept` |
| `FirewallFilterReconciler_Adoption` | one object, prune or tolerate; two credentials (symmetric: only their equality matters), one change; three acts of people; an edit by hand; a crash or lost request; a lagging store | `Authorised`, `FirstPruneApproved`, and `PrunesByAuthority`: it implements PruneAuthority |
| `FirewallFilterReconciler_Ownership` | two objects, two ProviderConfigs, one router; four acts of people; a crash or lost request; a lagging store | `SoleWriter`, `DeleteLeavesNothing` |
| `FirewallFilterReconciler_Live` | one object; traffic; a ProviderConfig that breaks and comes back; a lagging store | `ApprovalHonoured`, `DeletionCompletes` |
| `ClientCache` | two workers, two calls of Close, two routers on two versions, one reached by REST and one by the API, two spellings of one configuration, one that does not convert, an upgrade | `LocksHeld`, `VersionCoherent`, `OneClient`, `ClosedForGood`, `CallbackKeepsClient`, `ConfigureReturns`, `CloseReturns`, and `ActsAsRegistry`: it implements ClientRegistry |
| `RowIdentity` | two resources identified by comment (two comments and none, a menu with somebody's row or with two rows without a comment), by interface (a menu with the router's default row), or as certificates, one issued by a CA and one not; three acts of people, an edit by hand, a lost request or reply | `UniqueIdentity`, `OthersRowsKept`, `NothingLeft`, `RevokedFirst`, `NoneStranded`, `RowComesBack`, `DeletionEnds` |
| `MoveSequence` | two resources and a row nobody manages; three sequences (one too short, one that ends in a raw id); two acts, an edit by hand (under a comment that may be taken), a loss | `AppliedWhole`, `SequenceSettles` |

The bounds are chosen so that each hazard fits. Three rows are the fewest with a
middle one, which an anchored move can carry past an unmanaged neighbour. Two
edits can undo each other, or hit both readings of a call. Two credentials give
an adoption to be reused wrongly; three acts are create, approve and one more
(an edit, a second approval, a deletion), with the change of credentials and the
edit by hand between any two; four acts let two objects be created and either be
edited and deleted. The lagging store multiplies the states of these two runs,
and their bounds are what fits; the proofs have none.
With two workers one can be inside Configure and one inside a callback or
waiting, while the second Close finds the flag already set; more workers are
covered by the proofs. Three acts on two resources are two creations and a rename
onto the other's comment, or a creation, a rename and a deletion; the edit and the
loss come between any of their requests. Two acts beside the sequencer are both
rows, or one row and a change of the sequence; the edit removes, renames or moves
one of the rows, or doubles a comment, before the sequencer's reading or between it
and the move. `FirewallFilterReconciler_Ownership` has no edits by hand, so
that `DeleteLeavesNothing` is checked there for the controller alone; its exemption
for a menu somebody else was at matters in the proof.

`MenuClient_Edits`, the reconciler runs and `RowIdentity` set
`CHECK_DEADLOCK FALSE`: once the bounds on people and faults are used up and no
object is left, nothing happens.
The others check for deadlock.

### Fairness

`MenuClient!FairSpec` asks that the caller keeps calling: weak fairness of its
own steps, and none of the environment, which is bounded instead.
`FirewallFilterReconciler!FairSpec` has weak fairness of the worker, whose
requests end (the HTTP client has a timeout), and strong fairness of taking up
each object: an error, a watch event or the poll interval puts it back in
controller-runtime's queue, which is first in, first out, so an object that is
due again and again is taken again and again; and weak fairness of `Sync`, since
the informer's watch goes on. `ClientCache!FairSpec` has weak
fairness of a goroutine that can run, which presumes that upstream's callbacks
return, and strong fairness of its locks: `sync.Mutex` hands the lock to a
waiter that has waited for a millisecond. Nobody is bound to start a callback or
a reconciliation. `RowIdentity!FairSpec` and `MoveSequence!SeqFairSpec` have weak
fairness of the callback in progress and of a worker coming back to its resource
(crossplane-runtime polls, and retries after an error), and strong fairness of
entering operationMu, for the same reason. `ApprovalHonoured` and `DeletionCompletes` are conditional on
the ProviderConfigs resolving from some point on.

### Where code and documents disagree

Four runs check what a comment or ADR says of the code, and find it violated.

* `MenuClient_Nested`: "an ambiguity fails the whole plan rather than after some
  of it has been applied" (`rest/menu.go:170`). If one desired row is a subset
  of another, the rows a call has made may be ambiguous at the second reading. In
  the trace `a` is on the menu and `a` and {a, in} are wanted: the call creates
  {a, in}, then finds two candidates for `a`, and ends with an error after writing.
* `MenuClient_Twins`: "Rows that are identical apart from their id can be paired
  off in listed order: whichever is picked, the result is the same"
  (`rest/menu.go:175`), and "a second apply of the same spec must do nothing at all"
  (`rest/live_test.go:311`). On an ordered Tolerate menu with a, a, b, x of which
  x, a, b are wanted, each plan claims the first a, its anchored moves carry that
  one past the other, and the next plan claims the other, which is out of order
  again. Every Apply returns nil and every Apply moves rows.
* `FirewallFilterReconciler_Unapproved`: "Merely spelling `prune` in a new object
  is not sufficient authority to delete an existing menu" (ADR 0004, line 107).
  Deleting a never-adopted object with Prune and Delete empties the menu. This is
  documented as intended elsewhere: "deleting that object removes every static row
  [...] Both destructive choices are intentionally explicit"
  (`native/README.md:174`), and
  `TestReconcileDeletePolicyDeletesEveryRemoteRow` (`reconciler_test.go:495`) does it
  with an object that has no adopted status. It is the ADR's sentence that does
  not say that it speaks of applying only.
* `FirewallFilterReconciler_Waiting`: "A waiting object must never mutate the
  active owner's menu" (`reconciler.go:387`). An owner whose Secret is missing
  for a moment is passed over in the election.

## Proofs

All theorems hold for every value of the constants that satisfies the named
assumptions of the modules: any routers, rows, objects, configurations and
bounds.

**The assumptions.** Besides the bounds being natural numbers, and constants that
do not clash: menus, goals and sequences are finite sequences
(`StartRowsAssumption`, `GoalsAssumption`, `MenuRowsAssumption`,
`SequencesAssumption`), as Go slices are; the Ignore selectors are on fields that
nobody writes and traffic does not change, and a row is not born with them
(`SelectorsAssumption`), which is what the code's own selector, `dynamic`, is; no
desired row sets a counter (`CountersAssumption`), which RouterOS gives no way to set;
`OneTarget` and those of RowIdentity are named where they are used. TLC evaluates
every one on the instances of the runs.

**MenuLemmas** has what the operators compute, for sequences of any length. The
library's induction theorems are out of the provers' reach, but an induction over
the index of a loop is first order with a least counterexample in hand: `Least` gives
a non-empty set of numbers its smallest member, and `UpTo` draws from it that a set
with 0, closed under the step up to n, holds n. On that stand `Only` (which elements
it keeps, in what order, and that it is monotone), the matching (`MatchedUnfolds`,
`MatchedUnique`, `ClaimFirst`: each claim is a fitting row nobody has claimed before,
the first of those alike), the plan (`PlanIs`, `DeletesNone`, `ReorderIs`: of which
steps it consists, and when it is empty) and the router's move (`BlockSorted`,
`AnchorSorted`: what a block move and one anchored move do to the order).
`FewEnough` is the pigeonhole: if no more rows fit than are wanted, the claimed ones
are all that fit. `FittedEmpty`, `UnkeyedEmpty` and `KeyedEmpty` say when a reading gives
an empty plan. The case without a key rests on `Exchange`: if w gives every desired row a
row of its own and the claims made so far are of other rows, the next desired row still
has one, since whoever holds its row has left another. With a key the claims are the
first rows that fit (`MatchedForemost`), so a w that consists of those is what a
reading claims (`KeyedMatched`).

**MenuApplyProofs** proves of one call, whoever calls: its types, and `MenuInv`: every
menu lists each of its rows once, and no move left to do names a row twice or puts
one in front of itself.

**MenuClientProofs.** `TypeCorrect` is `Spec => []TypeOK`. `OthersSpared` is
`OthersKept`, from `SparingInv`: every request left to do is aimed at a row that was
not covered by a selector when it was read, and is not now, since neither people nor
traffic nor the call itself write the fields selectors are on.

`ApplyConverges` is `Spec => []Converged`: an Apply to an ordered menu that returns nil
leaves nothing to do. The inductive invariant `ConvergingInv` says what the last
reading of such a call knows, as long as nobody else was at the router: there are
rows w, one for each desired row (`Paired`: each fits, whatever else fits and is not
claimed earlier looks the same, and a prune has left no other static row), and what
is left of the plan puts them in order (`Placing`: nothing is left and w is in order;
or one block move; or the anchored moves from the j-th on, with the last j rows of w
in order already). It was checked with TLC first. A step of the plan
leads from one of these forms to the next (`PlacingStep`), because an anchored
move disturbs neither the rows after its anchor nor their order; and when nothing is
left, the next plan claims rows in the order of w, since w is sorted and the
candidates alike are taken first to last, and so is empty. Here `Uncontested` is
used: a twin nobody manages could be claimed instead, and
`MenuClient_Twins` shows that it is.

`ListsConverge` is `Spec => []ListConverged`, the same for menus with a key and menus
without order. There is no second reading after an update, nor at all without order, so
the invariant `SettlingInv` has to carry the effect of every single request. `Assigned`: each desired
row has a row w[i] that fits it, or its create is still due; each field of that row is
right, or an update that sends it is still due; no delete left to do is aimed at a row of
w; and under Prune every other static row has its delete due. A create fills one place of
w with the id the router hands out, which is where `Storable` is used: a row the router
respells, or one without a value for the key, would not be found again. Two more parts
say that the next reading makes the same match. Without order and with a key, `Foremost`:
each row of w is the first in the menu that fits, which a create keeps because the router
refuses a row whose key is taken, and an update because it does not touch the key. With an order, `Lining`: the updates left come before
the moves left, and the moves put w in order, from `Placing`. When nothing is left to do,
`FittedEmpty` and its companions give the empty plan.

`NoneCreatedTwice` is `Spec => NoDuplicateCreate`. Without a key it needs `ApieceInv`:
as long as nobody edits the menu, there is a w, the rows the desired rows have so far,
such that each create left is for a desired row of its own that has none, and every row
of the menu that could have been created for it is the w[j] of a desired row j that is
stored alike (`Awaited`). That is true of a fresh plan, which claims every row that fits
before it creates one; traffic keeps it, since it changes counters only; and a failed
call leaves nothing to do, so that its successor starts from a fresh reading. When a
create is carried out, the rows of its content map one to one into the desired rows of
that content, which bounds their number (`NoMoreThan`). With a key the router itself
refuses a second row. `Separable` is needed: without a key a row may fit two desired rows
of which one is a part of the other, and the lesser one may claim it.

**FirewallFilterReconcilerProofs.** `TypeCorrect` is `Spec => []TypeOK`. The
conjuncts about the program counter are needed to make it inductive: the
connection has a target from `Elect` on, the call in progress addresses that
target, and `todo` is a subset of the plan's steps that is empty unless a call
runs. `AuthorityKept` is `Spec => []Authorised`. The wish is about the last
conjunct, `DeletesApproved`; the others are the strengthening. A delete in the
running plan is covered because, under adoption, the fresh plan's token equals
the previewed one (`TokenApproved`), and that token was on the copy of the object
(`SnapshotEarned`), hence once in the store (`SeenEarned`) and on the object
(`NotesApproved`); or because the copy said Adopted over this connection
(`PlainPruneEarned`, `SnapshotEarned`, `SeenEarned`, `AdoptedEarned`). A merge
patch from a stale copy may combine its own Adopted with the API server's
connection, so the invariant also says that a connection once recorded is
never blank again: what the patch leaves out was earned too. The history variables only grow, so what was earned when the
object was read is still earned when a request is made. The token keeps the op
and the id of each step, so a delete in the plan is a delete in the token.
`FirstPruneNeedsApproval` is the action property: only `Applying` runs a step,
only the step of a delete removes a row, and its id is covered by
`DeletesApproved`. `OneWriter` is `SoleWriter`, under the assumption `OneTarget` that
all ProviderConfigs resolve to one router (a ProviderConfig that is repointed or
breaks is what `FirewallFilterReconciler_Waiting` shows). Its invariant `Elected`
carries the result of the election to the end of Apply: objects appear in the
order of their seniority, in the API server and in the store, and the store knows
nothing the API server does not. So an elected object's seniors were all in the
store, and had lost their say there, hence everywhere and for good.
`TeardownComplete` is `DeleteLeavesNothing`. Its invariant `TeardownInv` says that a
deletion is called with nothing wanted and the dynamic rows ignored, and that once
its structural steps are through, no static row is left unless somebody was at the
router; it rests on the lemma that a plan with nothing wanted and no delete was made
from a menu without a static row.

**PruneAuthorityProofs.** `ImplementsAuthority` is `Spec => PrunesByAuthority`. Every
step of Apply changes the ids on the session's own router by at most one, and a
delete under Prune is granted by `DeletesApproved`; the end of an adoption closes a
session under Prune (`AdoptsUnderPrune`); every other step of the worker shows a
plan or is a stutter.

**ClientCacheProofs.** `MutualExclusion` is the two-mutex discipline, proved together
with `TypeCorrect`, from which the rest follows. `CallbackSeesItsVersion` needs `OwnVersion`: every Meta holds a
version its router has run, and between upstream's Configure and the capture the
global is that of the caller's own router, because nobody else is inside
operationMu. `OneClientPerConfiguration` needs `CacheCoherent`: until a call of
Close has returned, every Meta made is the one cached under its key, and a worker that is
making a client found none and still holds the cache's mutex.
`NothingOpenAfterClose` (`ClosedForGood`) adds that until a call of Close has
returned, what is connected is cached, and that afterwards
nobody is between lookup and store; what is opened then is the REST client of a
worker inside a callback. `CloseWaitsForCallback` is an action
property: only `CloseClients` closes anything, inside operationMu.
`ImplementsRegistry` is `Spec => ActsAsRegistry`, from
`LocksHeld`, `VersionCoherent`, `CacheCoherent` and one more fact, that nothing is
disconnected before the cache is closed. Looking a cached client up and storing
a new one are both `Obtain`; setting the global and entering the callback is
`Invoke`.

**RowIdentityProofs.** `TypeCorrect` is `Spec => []TypeOK`; that a callback in
progress is the one its worker called is what makes it inductive.
`IdentityUnique` is `Spec => []UniqueIdentity`, from the strengthening
`CallCoherent`: between the lookups of a callback and its write nobody else is
inside operationMu, so as long as nobody is at the router by hand, a row about to
be created has a comment no row has, and a row about to be changed one no other
row has. A lost reply ends the callback with the row written, which is the same
step as far as rows go. It assumes that the menu starts without duplicates (any
number of rows may have no comment) and that the router stores a comment as it is sent. For certificates, whose create
does not look first, the router's own uniqueness of names takes the place of the
lookup. `RevokedIsPending` (`NoneStranded`) and `RevocationComesFirst`
(`RevokedFirst`) rest on `CertInv`, which adds four parts to it: `Coherent`, what a worker's next
callback says about its resource; `Seen`, that the `ca` in a resource's state is that
of the row it last read for as long as this row is there, and that any other row under
its name came later; `Backed`, that every revoked row has a resource
in deletion that still has the name as its id; and `Disposing`, that after
upstream's delete every row left with the name is revoked, until the removal. They
assume that a new row is not revoked and that the menu starts without a revoked one.
`GoneLeavesNothing` (`NothingLeft`) and `OthersRowsSafe` (`OthersRowsKept`) rest on
`OwnInv`. Its part about creates holds whatever people and the network do: a row a
create is about to take over is the default row (`Adopting`). The rest, `Own`, speaks
of histories without an edit and without a loss: what a worker's next callback
knows of its resource (`Keeper`), that a row a resource wrote is the one its id names
(`Written`), that what a callback has looked up is still there when it is used
(`Located`), and the other way round that an id names a row its resource wrote, but
after a certificate's deletion has removed it (`Holding`). They assume that no
resource's name is a body found on the menu.

**MoveSequenceProofs.** `SeqTypeCorrect` is `SeqSpec => []SeqTypeOK` and
`SequenceAppliedWhole` is `AppliedWhole`, from `SeqInv`: in its second stage a strict
call has one id per entry, and if nobody was at the router by hand since the call
began (`Undisturbed`), these are still the only rows the entries stand for, since the
callbacks of the rows' own resources are kept out by operationMu. What the move then
does to the order, whatever the ids are,
follows from the lemmas about `Move` and `Only`.

**Only model-checked.** Everything under fairness (`Settles`, `ApprovalHonoured`,
`DeletionCompletes`, `ConfigureReturns`, `CloseReturns`, `RowComesBack`,
`DeletionEnds`, `SequenceSettles`): temporal reasoning about ENABLED is out of this
prover's reach. Every invariant and every action property the passing runs check, and
both refinements, are theorems. The four violations
have counterexamples, which is all there is to show.

## What the model shows and no document speaks of

* Twins are paired off only while their counters agree: `indistinguishable`
  (`rest/menu.go:272`) compares `bytes` and `packets` too, so a packet through one of
  two rules that are both wanted turns an exact match into an AmbiguousError, and
  the menu is not reconciled until the counters agree again.
* One pair out of order makes `reorder` emit every anchored pair
  (`rest/menu.go:366`): with a, h, c, b on the router and a, b, c wanted, a is
  carried across the unmanaged h, though it was in order. Which side of an
  unmanaged row a managed one is on decides which rule matches first.
* The reply to a create by comment is lost: the row is there, and every retry
  answers that the comment exists, until a person sets the external name.
* The reply to a rename is lost: the id kept is the old comment. If another
  resource takes that comment meanwhile, both resolve to its row, and deleting the
  first removes the row of the second. The same comes of a lost reply to a delete,
  if another resource creates a row under the comment before the retry.
  `OthersRowsKept` therefore speaks of updates and deletes only as long as nothing
  is lost.
* The `ca` a certificate's deletion goes by is that of its last read. If replies are
  lost and the row is deleted and created anew by other resources between that
  read and the delete, an issued certificate can be removed unrevoked.
  `RevokedFirst` therefore speaks of rows that were there at the read; within that it
  does not matter whose row it is.
* A callback that starts after Close runs all the same. With an API client it fails;
  a REST client connects again, and only the end of the process closes that.
* A desired row without a value for the menu's key matches no row, so every call
  creates it once more (`rest/menu.go:236`). `Storable` excludes it.
* A row on the menu that fits two desired rows, of which one is a part of the other,
  goes to the one listed first: with the greater row there and the lesser one listed
  first, the greater one is created a second time. `Separable` excludes it.
* Two resources can both adopt the default row of an interface menu.
* A read of the sequencer fails while a comment in its state is several rows, also
  when the spec no longer lists that comment.

## Not modelled

Objects are created in the order of their seniority: that creation times have a
resolution of one second, so that an object may take the menu over from one of the
same second by its smaller name, is left out (`reconciler.go:457`).
A ProviderConfig's target is the router itself: that `fingerprintTarget` lowers the
case of the endpoint's scheme and host and trims its path is the identity here, and
two endpoints that are still different after that but reach one router (a name and
an address, say) are outside the model. The code takes them for two routers, and
elects an owner for each.
Secrets are read together with their ProviderConfig.
The row ids and the generation in the status, events, logs, metrics and all
wording are left out. The native connector's client map has one user, the
controller's single worker, and is therefore not raced. Scalars (durations,
sizes) are parsed character by character and covered by unit tests. Schema
edits in `config/`, generated code and the offline probes have no behaviour over
time; they are most of the repository's lines.

Name identity is a schema default that upstream acts on. Factory identity looks a
port up by its factory name, which nothing in the repository changes, and leaves
the rest to upstream: a model of it would be a model of code that is not here. The
usage record of a ProviderConfig is written (`usage`) but the ProviderConfig's
deletion, which it holds up, is crossplane-runtime's. The collector's scrape keeps
no state between scrapes: each menu is read once, and one that cannot be read is logged and passed over.

## Plan

Done: the menu engine, the native reconciler with a lagging informer, the upstream
client cache, the identity wrappers and certificate removal, the sequencer, the two
abstract specifications, and the proofs above. Left, in order:

1. Creation in the same second, and the deletion of a ProviderConfig against its
   usage records.
