------------------------- MODULE ProfileController -------------------------
(***************************************************************************)
(* The profile controller: ProfileReconciler with the informer cache and   *)
(* the work queue it runs on.  Each controller process has one worker that *)
(* takes a profile off its queue and runs Reconcile, reading from the      *)
(* cache and writing to the API server; the steps of a worker are the      *)
(* calls of Reconcile between which other parties can act.  More than one  *)
(* process runs when leader election is off, which is its default.         *)
(***************************************************************************)
EXTENDS KubernetesCluster

CONSTANTS
  InjectionLabel,   \* the key istio-injection
  Enabled,          \* its value in a new namespace
  MaxFaults,        \* bound: requests or answers that are lost
  MaxRestarts       \* bound: crashes of a controller process

ASSUME ControllerAssumption ==
  /\ InjectionLabel \in LabelKeys
  /\ Enabled \in LabelValues
  /\ Nil \notin Profiles
  /\ MaxFaults \in Nat
  /\ MaxRestarts \in Nat

VARIABLES
  seenProfile,      \* seenProfile[c][p]: Profile p in the cache of c, or Nil
  seenNamespace,    \* the same for namespaces
  seenConfig,       \* seenConfig[c]: the same for the Config
  queue,            \* queue[c]: profiles to reconcile
  delayed,          \* delayed[c]: profiles that failed and wait to be queued
  worker,           \* worker[c]: the Reconcile in progress
  faults,           \* requests or answers lost so far
  restarts          \* crashes so far

cacheVars == <<seenProfile, seenNamespace, seenConfig>>
boundVars == <<uids, edits, restarts>>
controllerVars == <<cacheVars, queue, delayed, worker, faults, restarts>>
vars == <<clusterVars, controllerVars>>

Steps == {"idle", "config", "namespace", "create", "wait", "label",
          "finalizer", "reject"}

(* profile is Reconcile's instance, defaults the labels of kubeflowConfig    *)
(* and namespace foundNs with its new labels.                               *)
Worker ==
  [step : Steps, key : Profiles \cup {Nil}, profile : ProfileObject \cup {Nil},
   defaults : LabelMap \cup {Nil}, namespace : NamespaceObject \cup {Nil}]

(* A worker holds what its step needs.                                      *)
WorkerOK(w) ==
  /\ w.step = "idle" <=> w.key = Nil
  /\ w.step = "idle" <=> w.profile = Nil
  /\ w.step \in {"namespace", "create", "label"} <=> w.defaults # Nil
  /\ w.step = "label" <=> w.namespace # Nil

IdleWorker ==
  [step |-> "idle", key |-> Nil, profile |-> Nil, defaults |-> Nil,
   namespace |-> Nil]

Init ==
  /\ ClusterInit
  /\ seenProfile = [c \in Controllers |-> profile]
  /\ seenNamespace = [c \in Controllers |-> namespace]
  /\ seenConfig = [c \in Controllers |-> config]
  /\ queue = [c \in Controllers |-> {}]
  /\ delayed = [c \in Controllers |-> {}]
  /\ worker = [c \in Controllers |-> IdleWorker]
  /\ faults = 0
  /\ restarts = 0

(***************************************************************************)
(* SetupWithManager: what reaches the cache, and which profiles it queues. *)
(***************************************************************************)
Enqueue(c, keys) == queue' = [queue EXCEPT ![c] = @ \cup keys]

DeliverProfile(c, p) ==
  /\ profileEvents[c][p] # <<>>
  /\ seenProfile' = [seenProfile EXCEPT ![c][p] = Head(profileEvents[c][p])]
  /\ profileEvents' = [profileEvents EXCEPT ![c][p] = Tail(@)]
  /\ Enqueue(c, {p})
  /\ UNCHANGED <<profile, namespace, config, namespaceEvents, configEvents,
                 fresh, seenNamespace, seenConfig, delayed, worker, faults,
                 boundVars>>

\* Mutant: only the object after the event is looked at.
DeliverNamespaceNew(c, p) ==
  /\ namespaceEvents[c][p] # <<>>
  /\ LET new == Head(namespaceEvents[c][p])
     IN /\ seenNamespace' = [seenNamespace EXCEPT ![c][p] = new]
        /\ Enqueue(c, IF new # Nil THEN {p} ELSE {})
  /\ namespaceEvents' = [namespaceEvents EXCEPT ![c][p] = Tail(@)]
  /\ UNCHANGED <<profile, namespace, config, profileEvents, configEvents,
                 fresh, seenProfile, seenConfig, delayed, worker, faults,
                 boundVars>>

(* Owns: the profile named in the controller reference before or after, and *)
(* nobody for a namespace made by hand.                                     *)
Controlled(object) == object # Nil /\ object.controller # 0

DeliverNamespace(c, p) ==
  /\ namespaceEvents[c][p] # <<>>
  /\ LET old == seenNamespace[c][p]
         new == Head(namespaceEvents[c][p])
     IN /\ seenNamespace' = [seenNamespace EXCEPT ![c][p] = new]
        /\ Enqueue(c, IF Controlled(old) \/ Controlled(new) THEN {p} ELSE {})
  /\ namespaceEvents' = [namespaceEvents EXCEPT ![c][p] = Tail(@)]
  /\ UNCHANGED <<profile, namespace, config, profileEvents, configEvents,
                 fresh, seenProfile, seenConfig, delayed, worker, faults,
                 boundVars>>

CachedProfiles(c) == {p \in Profiles : seenProfile[c][p] # Nil}

(* Watches: a change of the Config queues every profile in the cache.       *)
DeliverConfig(c) ==
  /\ configEvents[c] # <<>>
  /\ seenConfig' = [seenConfig EXCEPT ![c] = Head(configEvents[c])]
  /\ configEvents' = [configEvents EXCEPT ![c] = Tail(@)]
  /\ Enqueue(c, CachedProfiles(c))
  /\ UNCHANGED <<profile, namespace, config, profileEvents, namespaceEvents,
                 fresh, seenProfile, seenNamespace, delayed, worker, faults,
                 boundVars>>

\* Mutant: resyncs are switched off.
ResyncNever(c) ==
  UNCHANGED vars

(* Every ten hours the informers hand the cached objects out once more.     *)
Resync(c) ==
  /\ Enqueue(c, CachedProfiles(c))
  /\ UNCHANGED <<clusterVars, cacheVars, delayed, worker, faults, restarts>>

(***************************************************************************)
(* Reconcile.                                                              *)
(***************************************************************************)
Started(p, instance) ==
  [step |-> "config", key |-> p, profile |-> instance, defaults |-> Nil,
   namespace |-> Nil]

\* Mutant: the NotFound of the first Get is not looked at.
BeginUnfound(c, p) ==
  /\ worker[c].step = "idle"
  /\ p \in queue[c]
  /\ queue' = [queue EXCEPT ![c] = @ \ {p}]
  /\ worker' = [worker EXCEPT ![c] = Started(p, seenProfile[c][p])]
  /\ UNCHANGED <<clusterVars, cacheVars, delayed, faults, restarts>>

Begin(c, p) ==
  /\ worker[c].step = "idle"
  /\ p \in queue[c]
  /\ queue' = [queue EXCEPT ![c] = @ \ {p}]
  /\ IF seenProfile[c][p] = Nil
       THEN UNCHANGED <<worker, fresh>>
       ELSE /\ worker' = [worker EXCEPT ![c] = Started(p, seenProfile[c][p])]
            /\ fresh' = IF profileEvents[c][p] = <<>>
                          THEN fresh \cup {<<"profile", c, p>>}
                          ELSE fresh
  /\ UNCHANGED <<profile, namespace, config, profileEvents, namespaceEvents,
                 configEvents, cacheVars, delayed, faults, boundVars>>

\* Mutant: an error is logged and not returned.
ReturnDone(c, error) ==
  /\ worker' = [worker EXCEPT ![c] = IdleWorker]
  /\ UNCHANGED delayed

(* Reconcile returns and the worker turns to the next profile; after an     *)
(* error this one is queued again later.                                    *)
Return(c, error) ==
  /\ worker' = [worker EXCEPT ![c] = IdleWorker]
  /\ delayed' = IF error
                  THEN [delayed EXCEPT ![c] = @ \cup {worker[c].key}]
                  ELSE delayed

Released(c) == {copy \in fresh : copy[2] # c}

ReturnUnwritten(c, error) ==
  /\ Return(c, error)
  /\ fresh' = Released(c)
  /\ UNCHANGED <<profile, namespace, config, profileEvents, namespaceEvents,
                 configEvents, cacheVars, queue, boundVars>>

(* Goes on to a step that needs neither defaults nor namespace.             *)
Proceed(c, step) ==
  worker' = [worker EXCEPT ![c] = [@ EXCEPT !.step = step, !.defaults = Nil,
                                            !.namespace = Nil]]

ReadConfig(c) ==
  /\ worker[c].step = "config"
  /\ seenConfig[c] # Nil
  /\ worker' = [worker EXCEPT ![c].step = "namespace",
                              ![c].defaults = seenConfig[c]]
  /\ UNCHANGED <<clusterVars, cacheVars, queue, delayed, faults, restarts>>

MissConfig(c) ==
  /\ worker[c].step = "config"
  /\ seenConfig[c] = Nil
  /\ ReturnUnwritten(c, TRUE)
  /\ UNCHANGED faults

MissNamespace(c) ==
  /\ worker[c].step = "namespace"
  /\ seenNamespace[c][worker[c].key] = Nil
  /\ worker' = [worker EXCEPT ![c].step = "create"]
  /\ UNCHANGED <<clusterVars, cacheVars, queue, delayed, faults, restarts>>

RejectNamespace(c) ==
  LET found == seenNamespace[c][worker[c].key]
  IN /\ worker[c].step = "namespace"
     /\ found # Nil
     /\ found.owner # worker[c].profile.owner
     /\ Proceed(c, "reject")
     /\ UNCHANGED <<clusterVars, cacheVars, queue, delayed, faults, restarts>>

FindNamespace(c) ==
  LET p == worker[c].key
      found == seenNamespace[c][p]
      labels == SetNamespaceLabels(found.labels, worker[c].defaults)
  IN /\ worker[c].step = "namespace"
     /\ found # Nil
     /\ found.owner = worker[c].profile.owner
     /\ IF labels = found.labels
          THEN Proceed(c, "finalizer") /\ UNCHANGED fresh
          ELSE /\ worker' = [worker EXCEPT
                    ![c].step = "label",
                    ![c].namespace = [found EXCEPT !.labels = labels]]
               /\ fresh' = IF namespaceEvents[c][p] = <<>>
                             THEN fresh \cup {<<"namespace", c, p>>}
                             ELSE fresh
     /\ UNCHANGED <<profile, namespace, config, profileEvents, namespaceEvents,
                    configEvents, cacheVars, queue, delayed, faults, boundVars>>

(***************************************************************************)
(* The writes.  The API server refuses a Create of an existing object and  *)
(* an Update from a copy that is no longer the stored version; a lost      *)
(* request has no effect and a lost answer hides one.  In each case        *)
(* Reconcile returns an error.                                             *)
(***************************************************************************)
\* Mutant: every finalizer of a deleted profile is taken away.
WantedNoFinalizers(instance) ==
  IF instance.deleting
    THEN {}
    ELSE instance.finalizers \cup {"profile-finalizer"}

WantedFinalizers(instance) ==
  IF instance.deleting
    THEN instance.finalizers \ {"profile-finalizer"}
    ELSE instance.finalizers \cup {"profile-finalizer"}

Writing(c) ==
  \/ worker[c].step \in {"create", "label", "reject"}
  \/ /\ worker[c].step = "finalizer"
     /\ WantedFinalizers(worker[c].profile) # worker[c].profile.finalizers

Refused(c) ==
  /\ Writing(c)
  /\ CASE worker[c].step = "create" -> namespace[worker[c].key] # Nil
       [] worker[c].step = "label" ->
            <<"namespace", c, worker[c].key>> \notin fresh
       [] OTHER -> <<"profile", c, worker[c].key>> \notin fresh
  /\ ReturnUnwritten(c, TRUE)
  /\ UNCHANGED faults

LoseRequest(c) ==
  /\ Writing(c)
  /\ faults < MaxFaults
  /\ faults' = faults + 1
  /\ ReturnUnwritten(c, TRUE)

LoseAnswer(c) ==
  /\ faults < MaxFaults
  /\ faults' = faults + 1
  /\ Return(c, TRUE)

NewNamespace(instance, defaults) ==
  [owner |-> instance.owner,
   labels |-> SetNamespaceLabels([Unlabelled EXCEPT ![InjectionLabel] = Enabled],
                                 defaults),
   controller |-> instance.uid,
   terminating |-> FALSE]

CreateNamespace(c) ==
  /\ worker[c].step = "create"
  /\ namespace[worker[c].key] = Nil
  /\ PutNamespace(worker[c].key,
                  NewNamespace(worker[c].profile, worker[c].defaults))
  /\ \/ Proceed(c, "wait") /\ UNCHANGED <<delayed, faults>>
     \/ LoseAnswer(c)
  /\ UNCHANGED <<cacheVars, queue, boundVars>>

\* Mutant: the labels are written whatever was stored meanwhile.
UpdateLabelsUnchecked(c) ==
  /\ worker[c].step = "label"
  /\ namespace[worker[c].key] # Nil
  /\ PutNamespace(worker[c].key, worker[c].namespace)
  /\ Proceed(c, "finalizer")
  /\ UNCHANGED <<delayed, faults, cacheVars, queue, boundVars>>

UpdateLabels(c) ==
  /\ worker[c].step = "label"
  /\ <<"namespace", c, worker[c].key>> \in fresh
  /\ PutNamespace(worker[c].key, worker[c].namespace)
  /\ \/ Proceed(c, "finalizer") /\ UNCHANGED <<delayed, faults>>
     \/ LoseAnswer(c)
  /\ UNCHANGED <<cacheVars, queue, boundVars>>

(* backoff.Retry sees the created namespace in the cache, or gives up.      *)
WaitNamespace(c) ==
  /\ worker[c].step = "wait"
  /\ \/ seenNamespace[c][worker[c].key] # Nil /\ Proceed(c, "finalizer")
     \/ seenNamespace[c][worker[c].key] = Nil /\ Proceed(c, "reject")
  /\ UNCHANGED <<clusterVars, cacheVars, queue, delayed, faults, restarts>>

\* Mutant: the finalizers are written whatever was stored meanwhile.
UpdateFinalizerUnchecked(c) ==
  LET instance == worker[c].profile
  IN /\ worker[c].step = "finalizer"
     /\ Writing(c)
     /\ profile[worker[c].key] # Nil
     /\ UpdateProfile(worker[c].key,
          [instance EXCEPT !.finalizers = WantedFinalizers(instance)])
     /\ Return(c, FALSE)
     /\ UNCHANGED <<faults, cacheVars, queue, boundVars>>

UpdateFinalizer(c) ==
  LET instance == worker[c].profile
  IN /\ worker[c].step = "finalizer"
     /\ Writing(c)
     /\ <<"profile", c, worker[c].key>> \in fresh
     /\ UpdateProfile(worker[c].key,
          [instance EXCEPT !.finalizers = WantedFinalizers(instance)])
     /\ \/ Return(c, FALSE) /\ UNCHANGED faults
        \/ LoseAnswer(c)
     /\ UNCHANGED <<cacheVars, queue, boundVars>>

KeepFinalizer(c) ==
  /\ worker[c].step = "finalizer"
  /\ ~Writing(c)
  /\ ReturnUnwritten(c, FALSE)
  /\ UNCHANGED faults

(* appendErrorConditionAndReturn.                                           *)
RecordFailure(c) ==
  /\ worker[c].step = "reject"
  /\ <<"profile", c, worker[c].key>> \in fresh
  /\ UpdateProfile(worker[c].key, [worker[c].profile EXCEPT !.failed = TRUE])
  /\ \/ Return(c, FALSE) /\ UNCHANGED faults
     \/ LoseAnswer(c)
  /\ UNCHANGED <<cacheVars, queue, boundVars>>

Requeue(c, p) ==
  /\ p \in delayed[c]
  /\ delayed' = [delayed EXCEPT ![c] = @ \ {p}]
  /\ Enqueue(c, {p})
  /\ UNCHANGED <<clusterVars, cacheVars, worker, faults, restarts>>

\* Mutant: a process starts its worker before it has listed the objects.
RestartUnsynced(c) ==
  /\ restarts < MaxRestarts
  /\ restarts' = restarts + 1
  /\ profileEvents' = [profileEvents EXCEPT ![c] = [p \in Profiles |-> <<>>]]
  /\ namespaceEvents' = [namespaceEvents EXCEPT ![c] = [p \in Profiles |-> <<>>]]
  /\ configEvents' = [configEvents EXCEPT ![c] = <<>>]
  /\ queue' = [queue EXCEPT ![c] = {}]
  /\ delayed' = [delayed EXCEPT ![c] = {}]
  /\ worker' = [worker EXCEPT ![c] = IdleWorker]
  /\ fresh' = Released(c)
  /\ UNCHANGED <<profile, namespace, config, uids, edits, faults, cacheVars>>

(* A process that starts lists everything before its worker runs.           *)
Restart(c) ==
  /\ restarts < MaxRestarts
  /\ restarts' = restarts + 1
  /\ seenProfile' = [seenProfile EXCEPT ![c] = profile]
  /\ seenNamespace' = [seenNamespace EXCEPT ![c] = namespace]
  /\ seenConfig' = [seenConfig EXCEPT ![c] = config]
  /\ profileEvents' = [profileEvents EXCEPT ![c] = [p \in Profiles |-> <<>>]]
  /\ namespaceEvents' = [namespaceEvents EXCEPT ![c] = [p \in Profiles |-> <<>>]]
  /\ configEvents' = [configEvents EXCEPT ![c] = <<>>]
  /\ queue' = [queue EXCEPT ![c] = {p \in Profiles :
                 profile[p] # Nil \/ Controlled(namespace[p])}]
  /\ delayed' = [delayed EXCEPT ![c] = {}]
  /\ worker' = [worker EXCEPT ![c] = IdleWorker]
  /\ fresh' = Released(c)
  /\ UNCHANGED <<profile, namespace, config, uids, edits, faults>>

WorkerStep(c) ==
  \/ ReadConfig(c) \/ MissConfig(c)
  \/ MissNamespace(c) \/ RejectNamespace(c) \/ FindNamespace(c)
  \/ CreateNamespace(c) \/ WaitNamespace(c) \/ UpdateLabels(c)
  \/ UpdateFinalizer(c) \/ KeepFinalizer(c) \/ RecordFailure(c)
  \/ Refused(c)

Deliver(c) ==
  \/ \E p \in Profiles : DeliverProfile(c, p) \/ DeliverNamespace(c, p)
  \/ DeliverConfig(c)

ControllerAction(c) ==
  \/ Deliver(c)
  \/ \E p \in Profiles : Begin(c, p) \/ Requeue(c, p)
  \/ WorkerStep(c)
  \/ LoseRequest(c)
  \/ Resync(c)
  \/ Restart(c)

ClusterAction ==
  /\ UserAction \/ \E p \in Profiles : CollectorAction(p)
  /\ UNCHANGED controllerVars

Next == ClusterAction \/ \E c \in Controllers : ControllerAction(c)

Spec == Init /\ [][Next]_vars

(***************************************************************************)
(* Fairness.  Every goroutine of a controller goes on, the queue is first  *)
(* in first out, watches deliver, a failed profile is queued again, and    *)
(* the collector does its work, also when it competes with a controller.   *)
(* Nothing is assumed of users, faults, crashes and resyncs.               *)
(***************************************************************************)
Fairness ==
  /\ \A c \in Controllers :
       /\ WF_vars(WorkerStep(c))
       /\ WF_vars(DeliverConfig(c))
       /\ \A p \in Profiles :
            /\ WF_vars(DeliverProfile(c, p))
            /\ WF_vars(DeliverNamespace(c, p))
            /\ SF_vars(Begin(c, p))
            /\ WF_vars(Requeue(c, p))
  /\ \A p \in Profiles :
       /\ WF_vars(CollectNamespace(p) /\ UNCHANGED controllerVars)
       /\ WF_vars(RemoveNamespace(p) /\ UNCHANGED controllerVars)
       /\ SF_vars(FinishForeground(p) /\ UNCHANGED controllerVars)

FairSpec == Spec /\ Fairness

(***************************************************************************)
(* No owner reference leads from a namespace made by hand to its profile,  *)
(* so that neither its changes nor its deletion wake anybody up: while     *)
(* there is such a namespace, or none, the resync has to come.             *)
(***************************************************************************)
Handmade(p) == namespace[p] # Nil /\ namespace[p].controller = 0

NeededResync(c) ==
  /\ \E p \in Profiles : Handmade(p) \/ namespace[p] = Nil
  /\ Resync(c)

ResyncSpec == FairSpec /\ \A c \in Controllers : WF_vars(NeededResync(c))

(***************************************************************************)
(* Properties.                                                             *)
(***************************************************************************)
TypeOK ==
  /\ profile \in [Profiles -> ProfileObject \cup {Nil}]
  /\ namespace \in [Profiles -> NamespaceObject \cup {Nil}]
  /\ config \in LabelMap \cup {Nil}
  /\ profileEvents \in
       [Controllers -> [Profiles -> Seq(ProfileObject \cup {Nil})]]
  /\ namespaceEvents \in
       [Controllers -> [Profiles -> Seq(NamespaceObject \cup {Nil})]]
  /\ configEvents \in [Controllers -> Seq(LabelMap \cup {Nil})]
  /\ fresh \subseteq Kinds \X Controllers \X Profiles
  /\ uids \in Nat
  /\ edits \in 0 .. MaxEdits
  /\ seenProfile \in [Controllers -> [Profiles -> ProfileObject \cup {Nil}]]
  /\ seenNamespace \in
       [Controllers -> [Profiles -> NamespaceObject \cup {Nil}]]
  /\ seenConfig \in [Controllers -> LabelMap \cup {Nil}]
  /\ queue \in [Controllers -> SUBSET Profiles]
  /\ delayed \in [Controllers -> SUBSET Profiles]
  /\ worker \in [Controllers -> Worker]
  /\ \A c \in Controllers : WorkerOK(worker[c])
  /\ faults \in 0 .. MaxFaults
  /\ restarts \in 0 .. MaxRestarts

(* A cache that has no event to come shows what is stored, otherwise the    *)
(* last event does.                                                         *)
Latest(seen, events) == IF events = <<>> THEN seen ELSE events[Len(events)]

CacheCurrent ==
  \A c \in Controllers :
    /\ \A p \in Profiles :
         /\ Latest(seenProfile[c][p], profileEvents[c][p]) = profile[p]
         /\ Latest(seenNamespace[c][p], namespaceEvents[c][p]) = namespace[p]
    /\ Latest(seenConfig[c], configEvents[c]) = config

(* A copy whose resourceVersion is the stored one is the stored object: the *)
(* worker's instance, and its foundNs with nothing but the labels changed.  *)
FreshCurrent ==
  \A c \in Controllers, p \in Profiles :
    LET w == worker[c]
        found == seenNamespace[c][p]
    IN /\ <<"profile", c, p>> \in fresh =>
            /\ profileEvents[c][p] = <<>>
            /\ w.key = p => w.profile = seenProfile[c][p]
       /\ <<"namespace", c, p>> \in fresh =>
            /\ namespaceEvents[c][p] = <<>>
            /\ w.key = p /\ w.step = "label" =>
                 /\ found # Nil
                 /\ found.owner = w.profile.owner
                 /\ w.namespace = [found EXCEPT !.labels =
                                     SetNamespaceLabels(found.labels, w.defaults)]

(* Optimistic concurrency: what a worker is about to write is based on the  *)
(* stored version whenever the API server would accept it, through stale    *)
(* caches, crashes and lost answers.                                        *)
CopiesAreCurrent == CacheCurrent /\ FreshCurrent

(* A namespace that exists and whose annotation names somebody other than   *)
(* the owner of its profile: the profile is rejected.                       *)
Foreign(p) == namespace[p] # Nil /\ namespace[p].owner # profile[p].owner

(* What reconciling p is for: the namespace follows the profile, in both    *)
(* directions, unless somebody else owns it.                                *)
Settled(p) ==
  IF profile[p] = Nil THEN ~Controlled(namespace[p])
  ELSE \/ Foreign(p)
       \/ /\ ~profile[p].deleting
          /\ "profile-finalizer" \in profile[p].finalizers
          /\ namespace[p] # Nil
          /\ ~namespace[p].terminating
          /\ config # Nil
          /\ Conforms(namespace[p].labels, config)

Quiescent ==
  /\ \A c \in Controllers :
       /\ worker[c] = IdleWorker
       /\ queue[c] = {} /\ delayed[c] = {}
       /\ configEvents[c] = <<>>
       /\ \A p \in Profiles :
            profileEvents[c][p] = <<>> /\ namespaceEvents[c][p] = <<>>
  /\ \A p \in Profiles :
       /\ ~Collectable(p) /\ ~Finishable(p)
       /\ namespace[p] # Nil => ~namespace[p].terminating

(* No wake-up is lost: when nobody has anything left to do, every profile   *)
(* is settled.  It says that the caches, events and queues of              *)
(* SetupWithManager call Reconcile again after everything it read changed.  *)
QuietIsSettled == Quiescent => \A p \in Profiles : Settled(p)

(* The namespace writes of Reconcile, as changes by a worker.               *)
ChangesNamespace(c, p) ==
  /\ worker'[c] # worker[c]
  /\ namespace[p] # Nil
  /\ namespace'[p] # namespace[p]

(* Reconcile changes a namespace that exists only if at that moment it     *)
(* belongs to the owner of the profile the worker read, however stale the   *)
(* cache was when it checked, and changes its labels only.                  *)
NoTakeover ==
  [][\A c \in Controllers, p \in Profiles : ChangesNamespace(c, p) =>
       /\ p = worker[c].key
       /\ namespace[p].owner = worker[c].profile.owner
       /\ namespace'[p] = [namespace[p] EXCEPT !.labels = namespace'[p].labels]
    ]_vars

(* And of these labels, as they are stored at that moment, it removes those *)
(* with an empty default and adds absent ones; a value somebody has set     *)
(* meanwhile stays.                                                         *)
LabelsAsConfigured ==
  [][\A c \in Controllers, p \in Profiles : ChangesNamespace(c, p) =>
       \A k \in LabelKeys :
         LET default == worker[c].defaults[k]
             old == namespace[p].labels[k]
             new == namespace'[p].labels[k]
         IN new # old => \/ default = Empty /\ new = Unset
                         \/ old = Unset /\ new = default
    ]_vars

(* Reconcile changes of a stored profile its own finalizer only: it adds it *)
(* to a profile that lives and takes it from one that is being deleted,     *)
(* which may then disappear.  A user's change since the worker read the     *)
(* profile, a deletion or a new profile of the same name, is not undone.    *)
OwnFinalizerOnly ==
  [][\A c \in Controllers, p \in Profiles :
       worker'[c] # worker[c] /\ profile'[p] # profile[p] =>
         /\ p = worker[c].key
         /\ profile[p] # Nil
         /\ profile'[p] =
              Kept([profile[p] EXCEPT !.finalizers =
                      IF profile[p].deleting
                        THEN profile[p].finalizers \ {"profile-finalizer"}
                        ELSE profile[p].finalizers \cup {"profile-finalizer"}])
    ]_vars

(* Once users stop, and with a Config, every profile settles for good: its  *)
(* namespace is made, labelled and kept, a deleted profile goes with its    *)
(* namespace, and the workers neither fight the collector nor each other.   *)
EventuallySettled ==
  <>[](config # Nil => \A p \in Profiles : Settled(p))

(* "mark Reconcile done" in the comment of appendErrorConditionAndReturn:   *)
(* the profile it returned for without an error has a Failed condition.     *)
FailureRecorded ==
  [][\A c \in Controllers : RecordFailure(c) /\ delayed'[c] = delayed[c] =>
       profile'[worker[c].key].failed]_vars

(* "remove our finalizer from the list and update it" for an object that is *)
(* being deleted: with a Config, deletion does not wait forever.            *)
DeletionCompletes ==
  <>[](config # Nil => \A p \in Profiles :
         profile[p] # Nil => ~profile[p].deleting)
=============================================================================
