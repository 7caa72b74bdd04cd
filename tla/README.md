# Specifications of the kubeflow profile controller

TLA+ models of the controller in this repository, which turns every `Profile`
into a namespace with its labels, service accounts, policies and cloud
identities.  Every module is translated from the Go source; `PROJECT.json` maps
each definition to the lines it models.

## The system

| Part | Source | State | Operations |
| --- | --- | --- | --- |
| Profile reconciler | `controllers/kubeflow.org/profile_controller.go` | none of its own: local variables of one `Reconcile` | `Reconcile`, `appendErrorConditionAndReturn`, `SetupWithManager` |
| Namespace labels | `setNamespaceLabels`, `ConfigSpec.Namespace` | the Config's default labels | merge into a namespace |
| Controller runtime (vendored) | `controller-runtime`, `client-go/util/workqueue` | informer caches, work queue, delayed retries | deliver events, take and return keys, resync |
| Manager | `main.go` | process | start, crash; leader election is off unless asked for |
| API server, garbage collector (external) | CRD in `config/crd/bases` | Profiles, Namespaces, Config | optimistic writes, watches, finalizers, owner references |
| Plugin interface | `Plugin` in `profile_controller.go` | none | `ApplyPlugin`, `RevokePlugin` |
| AWS plugin | `plugin_iam.go` | trust policy of a role (in AWS) | read, change and write back the policy |
| GCP plugin | `plugin_workload_identity.go` | IAM policy of a service account (in GCP) | the same, with an etag |
| Create-or-update helpers | `updateIstio*`, `updateResourceQuota`, `updateServiceAccount`, `updateRoleBinding` | child objects of a profile | get, compare, create or update |
| Plugin specs | `GetPluginSpec`, `PatchDefaultPluginSpec` | `spec.plugins` | add a default, decode |
| Extra resources | `resource_reconciler.go` | objects from templates | expand, split, apply |
| Access policy | `getAuthorizationPolicy`, `generatePeerAuthentication`, `generateEnvoyFilter` | none | build rules |
| Pipeline objects | `generateServiceAccounts`, `generateKFP*`, `generatePodDefault` | none | build objects that refer to each other |
| Metrics | `monitoring.go` | counters | increment |

`Reconcile` is called by a worker with the name of a profile.  It reads the
profile, the Config and the namespace **from the informer cache** and writes the
namespace and the profile **to the API server**; watches bring every change back
to the cache and put names on the queue: the changed profile, the profile that
controls a changed namespace, and every cached profile when the Config changes.
An error puts the name back after a delay.

At this commit the calls of the plugins, the helpers, the generated objects and
the extra resources in `Reconcile` are commented out (lines 221-384, 401-411 and
422-542).  The functions are compiled and partly tested.  They are modelled here
by themselves, with callers that do what their comments say, and apart from the
model of the live `Reconcile`.

What is hard in this code:

* the cache is behind the API server, each kind of object by its own amount, and
  `Reconcile` writes after it has decided on what it read;
* other parties act between any two calls: users, administrators, the garbage
  collector, and a second controller process;
* requests and answers get lost, and the process can die between any two calls;
* a profile is released only if a later `Reconcile` gets as far as its finalizer,
  behind the part that looks for the Config and creates or checks the namespace;
* the collector deletes what `Reconcile` may create again;
* the cloud policies are shared by profiles and changed by reading and writing
  them as a whole.

What makes the parts correct: the reconciler never changes a namespace that is
not its owner's, undoes no change of anybody, forgets no change, and comes to
rest with every profile settled; a plugin call takes effect atomically for its
own service account, and a deleted profile leaves no grant; a helper overwrites
only what it keeps up to date, and gets there; a workload reaches the workloads of its
own profile and no others, and reads and writes no files but those of its profile,
whatever versions of the objects are stored; plugins and extra resources follow the
profile, stay in its namespace and do not undo what users do.

## Modules

| Module | What it is |
| --- | --- |
| `NamespaceLabels` | label maps and `SetNamespaceLabels` |
| `KubernetesCluster` | the stored objects, the watch streams, users and administrators, garbage collector (external) |
| `ProfileController` | extends it: caches, queue, workers, every step of `Reconcile`, faults, restarts; the specification and its properties |
| `ProfileControllerProofs`, `SettlingProofs` | theorems about it |
| `AccessPolicy` | the Istio objects of a profile, the requests they decide on, and how Istio reads them (external) |
| `PipelineObjects` | the objects of `generateServiceAccounts`, `generateKFP*` and `generatePodDefault`, and what Kubernetes, AWS and the workflow engine make of them (external) |
| `NamespaceObjects` | extends both: passes of `Reconcile` that store these objects while profiles and the Config change |
| `NamespaceObjectsProofs` | theorems about it |
| `PluginSpecs` | `GetPluginSpec`, `PatchDefaultPluginSpec` |
| `ExtraResources` | execution, splitting and applying of templates |
| `ProfileExtensions` | extends both: the passes of `Reconcile` that apply and revoke plugins, apply extra resources and keep the finalizer |
| `ProfileExtensionsProofs` | theorems about it |
| `PluginGrants` | abstract: what `ApplyPlugin` and `RevokePlugin` promise |
| `PluginCaller` | the passes of `Reconcile` that apply and then revoke a plugin, service accounts, users |
| `WorkloadIdentity`, `AwsIam` | extend it: the two plugins, each with the refinement mapping to `PluginGrants` |
| `PluginCallerProofs`, `WorkloadIdentityProofs`, `AwsIamProofs` | theorems about the plugins |
| `ChildObjects` | the create-or-update helpers |
| `ChildObjectsProofs` | theorems about it |
| `MC...` | instances for TLC: symmetry, and values of constants |

### ProfileController

`worker[c].step` is where a `Reconcile` is between two calls that others can see:
`config` (the profile has been read, lines 126-138), `namespace` (142-166),
`create` (170), `wait` (177), `label` (205), `finalizer` (387-415) and `reject`
(555).  A `Get` reads the worker's cache (`seenProfile`, `seenNamespace`,
`seenConfig`).  A write goes to `profile` or `namespace`, is appended to the
streams of events of every process, and is refused if the copy was not the stored
version.  Instead of numbering resource versions, the model keeps the set `fresh`
of copies that have the stored version: a read from a cache with nothing to come
enters it, a write of the object removes it.  That the two agree is
`CopiesAreCurrent`.

Abstractions, all of data or of time:

* a profile is its uid, owner, finalizers, deletion mark and Failed condition; a
  namespace its owner annotation, labels, controller uid and phase; the Config is
  its default labels.  A label is absent, empty, or has a value, which is what
  `setNamespaceLabels` tells apart;
* the stream of an object holds its versions in order; streams of different
  objects are independent, which allows more orders than one informer per kind.
  A delivery updates the cache and queues the name in one step: the informer
  updates its store before it calls the handlers, and a worker that runs in
  between sees the newer cache and is called once more;
* the queue is a set (`workqueue.Add` drops duplicates); a name added while it is
  being worked on is taken again afterwards;
* `backoff.Retry` either sees the namespace or gives up, at any moment;
* errors of reading the cache other than NotFound do not occur, and
  `SetControllerReference` on a new object does not fail;
* a lost request, a lost answer and a crash can occur at every write, crashes
  everywhere.

### PluginCaller, WorkloadIdentity, AwsIam

A pass makes the `default-editor` account if there is none (`updateServiceAccount`) and
then applies the plugin of its profile, also while the profile is being deleted (lines
365-378).  If it has read the profile as deleted, it goes on with the step `revoke`,
calls `RevokePlugin`, and takes the finalizer off when that returns without an error
(387-420).  An error of either call ends the pass, so that a profile being deleted is
released only by a pass in which both succeed.  Only the stored profile starts a pass:
before any plugin is called, the update in `PatchDefaultPluginSpec` (line 1011) refuses
a stale copy.  `call[w]` is the pass of a worker: the step, whether it applies or
revokes, the identity and the profile that it has read, and whether that was being
deleted.

A call is `annotate` (`patchAnnotation`), `read` (the policy), `write` and `done`; on
GCP `RevokePlugin` starts at `read`.  The optimistic update of the annotation is one
step.  A GCP policy gives each role its members and merges bindings of the same role
when it is stored; the set `current` stands for the etags.  `GetProjectID` slices the
identity by the length of a suffix; for a shorter one (`Invalid`) the process panics,
which is `FailProjectID`, a call that ends before anything is read.

An AWS policy is a sequence of statements, a statement the service accounts in its
`:sub` condition, and `Granted` reads all of them; how AWS evaluates a statement without
a `:sub` condition is left out.  A policy can also be a document that is no JSON
(`Unreadable`) or have no first statement.  Of the latter `statements[0]` (lines 148 and
199) is a `Panic`, as it is in `RevokePlugin` for an unreadable document.  In
`ApplyPlugin` the error of an unreadable one is dropped at lines 89-95 and the empty
document is sent: IAM's refusal (`RefuseDocument`, external) makes the call fail. `Skip`
is the `ConditionExistError`.  `Pending` is a call as `PluginGrants` sees it.

### ChildObjects

Each helper follows the same path: get from the cache, create if missing, compare,
update with the version that was read.  They differ in what they compare (`Differs`) and
what they copy (`Updated`), and `updateServiceAccount` goes on with `updateRoleBinding`
(`Continue`).  Each worker has a cache of its own and takes the wishes at the start of a
call, so that two can be under way with different ones. `AccountWorkers` is a bound: the
workers that run `updateServiceAccount`.  Map entries of the common steps name one
helper each, all five between them.

### AccessPolicy, PipelineObjects, NamespaceObjects

The functions that build objects become operators that build records.  A rule of an
authorization policy is a record of the attributes that it restricts, so that a
missing `From`, `To` or `When` is a missing field.  What Istio does with the objects
is modelled after what the source's comments expect: a rule matches if all its
attributes do, a policy without a selector is for all workloads, a request with a
token of an unknown issuer is refused, strict mode refuses plain text, and the filter
in the *sender's* sidecar replaces the header that the rule for models trusts in the
receiver's.  `Document` has the five statements of the IAM policy that
`generateKFPIAMPolicyACK` writes: `FoldersOf` are the resources whose *objects* the
statements let a pod read and write, `Listed` says which *names* it may list.
`Requests` has every combination of origin, token, path, header, target,
with and without a sidecar, directly or through Knative.

In `NamespaceObjects` a pass reads the profile and the Config and puts the objects
one by one (`next` is the position), in the order of the calls in the comments at
lines 221-256 and 422-542.  It may end at any object and another may begin with what
was read before.  So the stored objects can be of any mixture of versions.

Assumptions: a formatted name is the tuple of what goes into it, so that two profiles
whose names make the same text when concatenated are excluded; Knative only relays
requests that have a sidecar and only workloads in profiles set the header; a profile
changes hands together with the owner annotation of its namespace; the account and
the OIDC issuer of the cluster do not change.

### PluginSpecs, ExtraResources, ProfileExtensions

A pass has a copy of the profile, read from a cache (`seen`) that follows at its own
pace, and does in order: `PatchDefault` (the update of line 1011), `ApplyPlugin` for
each plugin, `Deserialize` and `ReconcileExtraResource` for each document, and then
`RegisterFinalizer`, or `StartRevoke`, `RevokePlugin` and `RemoveFinalizer`.  Every
request may be lost, or take effect while its answer is lost; the process may restart
with another default identity.  A panic in `Deserialize` (variables that are no
object) ends the pass and the process.  `edited` records that a user has changed the
profile since the pass's own update, `withdrawn` the plugins that users removed; both
are history that no action reads.

Templates are taken to end in a newline.  A plugin call is atomic here, which is what
the plugins are shown to promise.  There is one worker.

## Runs

Bounds: `MaxEdits` (edits by users and administrators), `MaxLag` (versions a cache is
behind per object), `MaxFaults` (lost requests or answers), `MaxRestarts` (crashes),
`MaxStatements` (statements in a trust policy), `AccountWorkers` (workers that run
`updateServiceAccount`).  Three edits decide: create, change or delete, and create again
or change the Config is the longest story the properties tell apart; lag 2 lets a worker
act on a version that is neither the first nor the last.  One label key and one value
besides empty and absent give every case of `setNamespaceLabels`.  Two owners make a
foreign namespace.  In `gcp_deletion` and `aws_calls` four edits delete both profiles
and take a service account away twice, or leave two for an administrator.
`MaxStatements` is 1 there, not as a bound but as the assumption of the comment at
`plugin_iam.go:147`, "we assume we only operator on first statement": with 2 TLC finds
`KeepsPromise` violated in five states.  In `child_objects` one edit between the
beginnings of two calls gives two workers different wishes, or takes or changes an
object between the read and the write of either.  In `namespace_objects` two events let
one change fall into a pass and a second into the next; the four Configs differ in what
the names, the rules and the provider depend on.  In `extensions` the three plugins are
a good one, one that cannot be read and one of an unknown kind, the six lists of extra
resources are two good ones and one for each way to fail.  Deadlock is checked except in
`extensions` and in the plugin runs, where the profiles may all be deleted and nothing
is left to do.  Symmetry is used in runs without liveness only.

| Run | Instance | Shows |
| --- | --- | --- |
| `one_profile` | 1 profile, 2 owners, namespaces by hand, 3 edits, lag 2, fault, crash | `TypeOK`, `CopiesAreCurrent`, `NoTakeover`, `LabelsAsConfigured`, `OwnFinalizerOnly` |
| `two_controllers` | 2 processes, 2 edits | `QuietIsSettled`, `OwnFinalizerOnly` |
| `settles` | namespaces by hand, 3 edits, fault, crash | `EventuallySettled`: deletion, recreation, and namespaces that wake nobody |
| `failure_recorded` | 2 owners | violated: the Failed condition is not stored |
| `rejected_deletion` | 2 owners | violated: a rejected profile is never released |
| `gcp_calls` | 2 workers, 2 profiles, 2 identities, fault | `TypeOK`, `KeepsPromise` (refinement of `PluginGrants`), `OtherRolesKept` |
| `gcp_deletion` | 1 worker, 2 profiles, a good and an invalid identity, 4 edits, fault | `NothingLeft`, `DeletionFinishes` |
| `aws_calls` | 1 worker, 2 profiles, 2 roles with one, no or unreadable statements, 4 edits, 2 faults | `TypeOK`, `KeepsPromise`, `NothingLeft`, `DeletionFinishes` |
| `aws_lost_update` | 2 workers | violated: a lost update |
| `namespace_objects` | 2 profiles, 2 owners, 4 Configs, 2 events, objects deleted by hand | `TypeOK`, `Isolation`, `AccessAsIntended`, `FolderIsolation`, `ReferencesResolve`, `EventuallyUsable` |
| `extensions` | 3 plugins, 6 lists of extra resources, 3 defaults, 2 edits, 2 faults | `TypeOK`, `PassIsCurrent`, `UserPluginsKept`, `ReleaseRevokes`, `ExtrasAtHome`, `ExtrasFollow`, `Released` |
| `child_objects` | 2 workers, a service account with its binding and an authorization policy, 1 edit, fault | `TypeOK`, `OnlyMainChanges`, `MainFollows` |

The three violations are listed under `findings` with the comment of the source
that each contradicts.  What else the models show of the code, without a run of
its own:

* a profile that names another identity in its plugin spec leaves the grant on
  the first one behind (`NothingLeft` fails with `PluginEdits`);
* a change of a trust policy keeps its first statement only
  (`MakePolicyDocument`), against the comment at `plugin_iam.go:147`: the service
  accounts that other statements name lose their record (`KeepsPromise` fails with
  `MaxStatements` = 2);
* a role whose policy has no first statement makes the process panic in every pass; for
  one whose policy is no JSON, the error is dropped and only IAM's refusal of the empty
  document makes `ApplyPlugin` fail.  A deleted profile with such a role stays
  (`DeletionFinishes` excepts both);
* the generated IAM policy allows `s3:ListBucket` on the bucket without a condition
  (lines 1428-1433), so the pods of every profile can list the names of all folders,
  and the listings of lines 1434-1447, which have conditions, restrict nothing;
* until the filter of a namespace is stored, its workloads can set the header that
  the policies of the others trust (`Isolation` starts from there);
* a change of the cluster role makes every further update of the owner's role
  binding fail (`MainFollows` fails for `namespaceAdmin` with `RoleEdits`);
* the role-arn annotation of a service account that exists is never updated,
  against the comment at `profile_controller.go:870` (`Differs`);
* `updateServiceAccount` writes a role ARN without the cluster prefix that
  `generateServiceAccounts` and the generated role have, so that an account made by
  the helper names a role that does not exist;
* `GetProjectID` panics for an identity shorter than its suffix where the comment at
  `plugin_workload_identity.go:54` promises an empty string or an error: a profile
  being deleted with such an identity is never released, every restart meets it
  again, and the profiles queued after it may not have their turn
  (`DeletionFinishes` excepts both);
* `GetPluginSpec` skips plugins of unknown kinds where the comment at
  `profile_controller.go:956` promises an error; one unreadable spec makes
  `Reconcile` skip the other plugins too, also when they are to be revoked;
* an extra resource that is refused or cannot be read ends every pass before the
  finalizer part, so a deleted profile with one stays (`Released` excepts it);
  variables that are no object panic (`resource_reconciler.go:44`);
* `ApplyPlugin` runs before the finalizer is registered: a profile deleted in between
  goes with its grant in place;
* a second process that started `ApplyPlugin` earlier can finish it after the
  `RevokePlugin` of the first;
* roles, policies and extra resources of earlier Configs or lists are never removed;
  `FolderIsolation` holds nevertheless;
* the default pipeline root in `kfp-launcher` lies outside the folder that the
  profile's role permits;
* a template that does not end in a newline glues the separator to its last line, and
  two documents are read as one.

### What the properties say

* `CopiesAreCurrent`: a cache with no event to come shows what is stored, and a
  copy that the API server would take an update from is the stored object.
* `NoTakeover`, `LabelsAsConfigured`: when a namespace is changed, it belongs at
  that moment to the owner of the profile, and only labels with an empty default
  go and absent defaults come.
* `OwnFinalizerOnly`: of a stored profile `Reconcile` changes its own finalizer
  only, in the direction the stored deletion mark asks.
* `QuietIsSettled`: when no event, key, retry or call is left, every profile is
  settled.  This is about lost wake-ups, without fairness.
* `EventuallySettled`: once edits stop, and with a Config, every profile settles
  for good.
* `KeepsPromise`: every step of the plugin is a step of `PluginGrants` or none; on
  AWS, for policies of at most one statement.
* `NothingLeft`: a deleted profile has no grant.
* `DeletionFinishes`: a deleted profile is let go, although each pass applies its plugin
  before it revokes it and users delete the account that both need; unless an
  invalid identity, or a policy without a first statement, is about.
* `Isolation`: no request of one profile's workload reaches another's with a header of
  its choice, as soon as the objects of both exist, in any mixture of versions.
* `AccessAsIntended`: with all objects in place, exactly the requests of `Rightful`
  are admitted, a definition in terms of where a request comes from that does not
  mention rules.
* `FolderIsolation`: with roles and policies of any versions, a profile's pods read and
  write objects in folders of its own namespace only.  Names are another matter: see
  above.
* `ReferencesResolve`: with the objects of a profile in place the references between
  them resolve: service to pods, pod to account, account to role, role to policy,
  policy to the folder that workflows use, whatever else earlier Configs have left.
* `EventuallyUsable`: once edits stop all objects are in place for good, and resolve.
* `PassIsCurrent`: the update of the finalizer is not refused because of the pass's
  own update of the plugins.
* `UserPluginsKept`: a pass only ever appends a default, and only where there is none.
* `ReleaseRevokes`: a released profile has no grants but of withdrawn plugins.
* `ExtrasAtHome`, `ExtrasFollow`: extra resources change their fields in the profile's
  namespace only, and get there.
* `Released`: a deleted profile goes.
* `MainFollows`: in the end the objects exist and what the helpers maintain is as wished,
  for good, although two workers began with different wishes and the Istio objects
  are written in every call.

### Fairness

Weak fairness for the steps of a worker, for deliveries and for delayed retries:
goroutines go on, watches are re-established, and the rate limiter's delay ends. Strong
fairness for taking a name off the queue: the queue is first in, first out, while the
worker is busy again and again.  Weak fairness for the garbage collector and the
namespace controller; strong for `FinishForeground`, because in a foreground deletion
`Reconcile` recreates the namespace and the collector's condition comes and goes.  A
controller that wins this race every time would keep the profile; the collector retries
at times of its own.  No fairness for users, faults or crashes, which are bounded.
`ResyncSpec` adds fairness of the informers' resync, but only where a namespace that is
missing or made by hand wakes nobody (`NeededResync`): elsewhere the events alone have
to do.  In `NamespaceObjects` a pass goes on (weak) and every profile has its turn
(strong, the queue is first in, first out); in `ProfileExtensions` the cache catches up,
passes begin (at the latest after a resync) and go on.  `DeletionFinishes` promises
nothing while a profile with an invalid identity is there: the process restarts after
each panic, and nothing says that the other profiles have their turn before the next. In
both plugins a profile being deleted has its turn (`Turn`: strong, the queue is first
in, first out, and a failed `Reconcile` is repeated).  `gcp_deletion` and `aws_calls`
have one worker.  On AWS with two, one loses the updates of the other; on GCP with two,
one that applies the plugin of another profile again and again can change the etag
between the other's read and set each time, and nothing in the code excludes it.

## Theorems

`ProfileControllerProofs` proves, for all sets of profiles, owners, processes and
labels and all bounds:

* `TypeCorrect`, `CopiesCurrent`: the two invariants.  Neither is inductive alone.
  `IInv` conjoins them: that a stale write is refused needs that a fresh copy is
  what the cache shows (`FreshCurrent`), which needs that an empty stream means a
  current cache (`CacheCurrent`), which needs the types of streams and workers.
  The proof has one lemma for each kind of write (`ProfileWrite`,
  `NamespaceWrite`, `ConfigWrite`), which says what a write does to streams and
  fresh copies, one for each step of a worker, and `NextIInv` combines them.
* `TakesNothingOver`, `LabelsFollowConfig`, `ChangesOwnFinalizer`: the action
  properties, from `IInv` and the lemma that a change made by a worker is
  `UpdateLabels` or an update of the profile from a fresh copy.
* `LabelsConform`: `SetNamespaceLabels` makes labels conform, is idempotent, and
  changes nothing exactly if they conform, so that the comparison in `Reconcile`
  asks for an update exactly when one is needed.

They assume of the constants only what the ASSUMEs of the modules say: that the
absent object, the absent label and the empty string differ from real values, and
that the bounds are numbers.

`SettlingProofs` proves `NoWakeupLost`, which states `QuietIsSettled`: no wake-up is
lost, whatever the number of processes and profiles and whatever crashes, lost answers
and stale caches.  It needs at least one process, and that nobody makes namespaces by
hand: such a namespace has no controller, so that its events queue no profile, and
`settles` needs a resync for it.  "Quiet" says something about the end of a behaviour
only, so the invariant `SInv` has to say in every state why each process will look
at each profile again.  For each of them, either events are still to come, or the
name is queued or delayed, or the worker is in a pass that has read nothing
outdated (`Covered`, step by step: what is still to be read does not matter), or a
pass would write nothing (`NothingToDo`, of what the *caches* show).  An event that
changes a cache and queues nobody would break it, so `EventsWake` says that every
event in a stream of namespaces has a controller before or after it, which holds
because all stored ones have (`OwnedOnly`).  A write makes an event in every stream
(`Attention` is regained from there); a failed one puts the name into `delayed`.  In
a quiet state the caches are the store (`CopiesAreCurrent`), so nothing to do there
means settled; that a deleted profile is not left over needs `DeletionsHeld`.

`PluginCallerProofs` has the lemmas about calls that both plugins use: what a step of a
call does to `Pending`.

`WorkloadIdentityProofs` proves for any number of workers, profiles and identities:

* `TypeCorrect`;
* `GcpKeepsPromise`, the refinement of `PluginGrants`.  The invariant is `IInv`, the
  types and `CopiesCurrent`: a copy that still has the stored etag is what the call
  makes of the stored policy.  It is needed because `SetIamPolicy` writes what was
  computed earlier.  `MergedAdd` and `MergedRevoke` say what merging the changed
  bindings does to every role, and `SetIamPolicyEffect` concludes that a set changes
  one grant; every other step of a call leaves the grants alone;
* `OtherRolesStay`, from the same lemmas.

It also proves `GcpLeavesNothing` under `Undisturbed`: one worker, no change of the
identity in a profile, and administrators who leave the plugin's role alone.
None of the three can be dropped (TLC finds the counterexamples in a few steps).
`NothingLeft` becomes inductive with `GrantsNamed`, a profile has grants only on the
identity it names, and `CallSound`, what a pass guarantees: until it begins to revoke,
its profile is there, and when it has revoked, the grant is not.

`AwsIamProofs` proves `TypeCorrect` for any number of workers and statements;
`AwsKeepsPromise` for one worker and policies of at most one statement, any of them
empty or unreadable, for any profiles, roles and bounds; and `AwsLeavesNothing` with no
change of the role in a profile besides.  `Granted` reads every statement, so what a
write drops counts: that nothing is dropped is where `OneStatement` is needed
(`MaxStatements` = 1).  What is about to be written is what the call makes of the stored
policy (`CopyCurrent`), because with one worker nobody else changes the policies.  The
AWS plugin has no etag, and `aws_lost_update` shows what two workers do.

`ProfileExtensionsProofs` proves all safety properties of `ProfileExtensions`, for any
plugins, templates, lists of extra resources and default identities, and any bounds:

* `TypeCorrect`: the list that a pass has still to do consists of plugins that can be
  read, or of documents that can be applied (`Typed`).  It rests on what
  `GetPluginSpec` and `DeserializeExtraResources` return (`ReadableKnown`,
  `DeserializedManifests`);
* `PluginsStay`: the copy of a pass, and the cache, are never newer than the stored
  profile, and are the stored profile if they have its version (`Versions`).  So an
  accepted patch is one of what is stored, and `PatchExtends` says what that adds;
* `ReleaseLeavesNothing`: `Accounted` follows each granted plugin to the stored
  profile, or to the withdrawn ones, and from there through the pass that revokes: it
  has been revoked or is still on the pass's list.  A retry after a lost answer
  starts from the whole list again.  It needs `Versions`, because the profile
  is released on the word of a copy;
* `ExtrasStayAtHome`, from the types of the documents;
* `PassStaysCurrent`, from the shape of a pass: a user's edit marks the pass, and no
  other step changes the stored profile while the pass goes on, except the patch
  that the pass's copy follows.

What concatenating a list of lists gives (`Flattened`) is proved by induction on its
length, with sets in place of predicates: `AllNumbers` is induction over the numbers,
from the least element of the set of exceptions.  The models decode and execute
with `FlattenSeq` and `EXCEPT` for this reason; the provers know nothing of `SelectSeq`
and `@@`.

`NamespaceObjectsProofs` proves for any profiles, users and Configs, and any number of
passes at once: `TypeCorrect`; `ProfilesIsolated`, which states `Isolation`;
`FoldersIsolated`, which states `FolderIsolation` (of objects, not of names);
`AccessExact`, which states `AccessAsIntended`; and `ReferencesFit`, which states
`ReferencesResolve`.  The invariant is that every stored object of the kinds the
properties read is what a generate function makes for its own namespace from *some* user
and Config (`OwnObjects`), which needs the types of the passes, and that there is one
object of a kind and name (`Distinct`).  It is kept because the sequence of a pass has
only such objects (`CandidatesOwn`).  Isolation then goes rule by rule
(`NoRuleMatches`): strict mode refuses what comes without a sidecar, so that the filter
has replaced the header (`HeaderReplaced`).  It depends on the assumption that no
profile is named `kubeflow` or `knative`, and on the request having no token.  For
`AccessExact` the objects in place are known exactly (`InPlaceGuards`): `WantedSequence`
says that a pass stores every one of them, and `Distinct` that none of another version
is left; then `OwnerPolicyMatches` says what the rules let through, which is compared
with `Rightful` in both directions; the policy for Kubeflow Pipelines adds nobody else.
`ReferencesFit` also reads roles and policies, of which other versions do stay: the
chain from the annotation of the account to the folder goes through those of the current
Config, which are among them.

`ChildObjectsProofs` proves `TypeCorrect` and `OnlyMainReplaced`, which states
`OnlyMainChanges`, for any number of workers.  The invariant says that a cache is
behind or has what is stored (`Copies`), and that an object about to be written has an
old version or was made of what is stored (`CallsCurrent`).  An update of a role binding
also copies the `roleRef`; that it changes nothing there follows from the API server's
refusal of another one.

These modules assume of the constants that `Nil` is no call, no document and no object,
that `Unreadable` is no policy, that the roles administered are roles, and what
`ObjectsAssumption`, `ExtensionsAssumption` and `TemplatesAssumption` say: names are not
reserved ones, the lists that users write are finite, and templates consist of
documents.

Only model-checked: the liveness properties, `EventuallySettled`, `DeletionFinishes`,
`EventuallyUsable`, `ExtrasFollow`, `Released` and `MainFollows`, because TLAPS reasons
neither about fairness nor about `ENABLED`.  Every safety property of a passing run is
stated by a theorem; where a theorem has hypotheses of its own (`NoWakeupLost`,
`GcpLeavesNothing`, `AwsKeepsPromise`, `AwsLeavesNothing`) the runs show by
counterexamples, or the paragraphs above say, what goes wrong without them.

## Not modelled

Metrics and logging; flags and probes; the rate limiter's times; the API versions
v1 and v1beta1, which have no conversion; generated code; JSON, ARNs and URL
encoding in the plugins; images, resource requests and descriptions of the generated
objects; the text of templates.  `updateServiceAccount` and role bindings are in
`ChildObjects` only, not among the objects that `NamespaceObjects` stores.

## Plan

1. Of the liveness properties, the parts that are safety: that a state in which no
   pass is under way and nothing changes has everything in place.
2. An abstract `ProfileLifecycle` that `ProfileController` and `ProfileExtensions`
   both implement.
3. Several profiles and workers in `ProfileExtensions`.
