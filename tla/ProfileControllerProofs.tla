---------------------- MODULE ProfileControllerProofs ----------------------
(***************************************************************************)
(* Proofs about ProfileController, for any sets of profiles, owners,       *)
(* controller processes and labels, and any bounds.  The invariant IInv    *)
(* says of a worker's copy what the API server's version check makes of    *)
(* it; the action properties follow from it step by step.                  *)
(***************************************************************************)
EXTENDS ProfileController, SequenceTheorems, TLAPS

(* TypeOK in three parts: what the API server keeps, the caches, the rest.  *)
StoreOK ==
  /\ profile \in [Profiles -> ProfileObject \cup {Nil}]
  /\ namespace \in [Profiles -> NamespaceObject \cup {Nil}]
  /\ config \in LabelMap \cup {Nil}
  /\ profileEvents \in
       [Controllers -> [Profiles -> Seq(ProfileObject \cup {Nil})]]
  /\ namespaceEvents \in
       [Controllers -> [Profiles -> Seq(NamespaceObject \cup {Nil})]]
  /\ configEvents \in [Controllers -> Seq(LabelMap \cup {Nil})]
  /\ fresh \subseteq Kinds \X Controllers \X Profiles

CachesOK ==
  /\ seenProfile \in [Controllers -> [Profiles -> ProfileObject \cup {Nil}]]
  /\ seenNamespace \in
       [Controllers -> [Profiles -> NamespaceObject \cup {Nil}]]
  /\ seenConfig \in [Controllers -> LabelMap \cup {Nil}]

CountersOK ==
  /\ uids \in Nat
  /\ edits \in 0 .. MaxEdits
  /\ faults \in 0 .. MaxFaults
  /\ restarts \in 0 .. MaxRestarts

ProcessesOK ==
  /\ queue \in [Controllers -> SUBSET Profiles]
  /\ delayed \in [Controllers -> SUBSET Profiles]
  /\ worker \in [Controllers -> Worker]
  /\ \A c \in Controllers : WorkerOK(worker[c])

LEMMA TypeParts == TypeOK <=> StoreOK /\ CachesOK /\ CountersOK /\ ProcessesOK
BY DEF TypeOK, StoreOK, CachesOK, CountersOK, ProcessesOK

IInv == TypeOK /\ CopiesAreCurrent

(***************************************************************************)
(* Watch streams.                                                          *)
(***************************************************************************)
LEMMA LatestOfAppend ==
  ASSUME NEW S, NEW seen, NEW events \in Seq(S), NEW new \in S
  PROVE  Latest(seen, Append(events, new)) = new
BY AppendProperties DEF Latest

LEMMA LatestOfTail ==
  ASSUME NEW S, NEW seen, NEW events \in Seq(S), events # <<>>
  PROVE  Latest(Head(events), Tail(events)) = Latest(seen, events)
<1>1. /\ Tail(events) \in Seq(S)
      /\ Len(Tail(events)) = Len(events) - 1
      /\ \A i \in 1 .. Len(Tail(events)) : Tail(events)[i] = events[i + 1]
  BY HeadTailProperties
<1>2. Len(events) \in Nat \ {0}
  BY EmptySeq
<1>3. CASE Tail(events) = <<>>
  <2>1. Len(Tail(events)) = 0
    BY <1>3, EmptySeq
  <2>2. Len(events) = 1
    BY <1>1, <1>2, <2>1
  <2> QED
    BY <1>3, <2>2 DEF Latest
<1>4. CASE Tail(events) # <<>>
  <2>1. Len(Tail(events)) \in Nat \ {0}
    BY <1>1, <1>4, EmptySeq
  <2>2. Tail(events)[Len(Tail(events))] = events[Len(events)]
    BY <1>1, <1>2, <2>1
  <2> QED
    BY <1>4, <2>2 DEF Latest
<1> QED
  BY <1>3, <1>4

(***************************************************************************)
(* Writes.  They keep the types, tell every cache, and leave no fresh copy *)
(* of the written object.                                                  *)
(***************************************************************************)
LEMMA ProfileWrite ==
  ASSUME StoreOK, CacheCurrent, NEW p \in Profiles,
         NEW new \in ProfileObject \cup {Nil}, PutProfile(p, new),
         UNCHANGED cacheVars
  PROVE  /\ StoreOK'
         /\ CacheCurrent'
         /\ fresh' \subseteq fresh
         /\ \A c \in Controllers, q \in Profiles :
              /\ namespaceEvents'[c][q] = namespaceEvents[c][q]
              /\ <<"profile", c, q>> \in fresh' =>
                   profileEvents'[c][q] = profileEvents[c][q]
<1> DEFINE Object == ProfileObject \cup {Nil}
<1>1. /\ profile' = [profile EXCEPT ![p] = new]
      /\ profileEvents' = [c \in Controllers |->
           [profileEvents[c] EXCEPT ![p] = Append(@, new)]]
      /\ fresh' = fresh \ Outdated("profile", p)
      /\ UNCHANGED <<namespace, config, namespaceEvents, configEvents>>
  BY DEF PutProfile
<1>2. \A c \in Controllers, q \in Profiles :
        profileEvents'[c][q] = IF q = p THEN Append(profileEvents[c][q], new)
                                        ELSE profileEvents[c][q]
  BY <1>1 DEF StoreOK
<1>3. \A c \in Controllers : Append(profileEvents[c][p], new) \in Seq(Object)
  BY AppendProperties DEF StoreOK
<1>4. profileEvents' \in [Controllers -> [Profiles -> Seq(Object)]]
  BY <1>1, <1>3 DEF StoreOK
<1>5. StoreOK'
  BY <1>1, <1>4 DEF StoreOK
<1>6. ASSUME NEW c \in Controllers, NEW q \in Profiles
      PROVE  Latest(seenProfile[c][q], profileEvents'[c][q]) = profile'[q]
  <2>1. CASE q = p
    <3>1. profileEvents[c][p] \in Seq(Object) /\ new \in Object
      BY DEF StoreOK
    <3> HIDE DEF Object
    <3>2. Latest(seenProfile[c][p], Append(profileEvents[c][p], new)) = new
      BY <3>1, LatestOfAppend
    <3> QED
      BY <1>1, <1>2, <2>1, <3>2 DEF StoreOK
  <2>2. CASE q # p
    <3>1. Latest(seenProfile[c][q], profileEvents[c][q]) = profile[q]
      BY DEF CacheCurrent
    <3>2. profile'[q] = profile[q] /\ profileEvents'[c][q] = profileEvents[c][q]
      BY <1>1, <1>2, <2>2 DEF StoreOK
    <3> QED
      BY <3>1, <3>2
  <2> QED
    BY <2>1, <2>2
<1>7. CacheCurrent'
  BY <1>1, <1>6 DEF CacheCurrent, cacheVars
<1>8. \A c \in Controllers : <<"profile", c, p>> \notin fresh'
  BY <1>1 DEF Outdated
<1> QED
  BY <1>1, <1>2, <1>5, <1>7, <1>8

LEMMA NamespaceWrite ==
  ASSUME StoreOK, CacheCurrent, NEW p \in Profiles,
         NEW new \in NamespaceObject \cup {Nil}, PutNamespace(p, new),
         UNCHANGED cacheVars
  PROVE  /\ StoreOK'
         /\ CacheCurrent'
         /\ fresh' \subseteq fresh
         /\ \A c \in Controllers, q \in Profiles :
              /\ profileEvents'[c][q] = profileEvents[c][q]
              /\ <<"namespace", c, q>> \in fresh' =>
                   namespaceEvents'[c][q] = namespaceEvents[c][q]
<1> DEFINE Object == NamespaceObject \cup {Nil}
<1>1. /\ namespace' = [namespace EXCEPT ![p] = new]
      /\ namespaceEvents' = [c \in Controllers |->
           [namespaceEvents[c] EXCEPT ![p] = Append(@, new)]]
      /\ fresh' = fresh \ Outdated("namespace", p)
      /\ UNCHANGED <<profile, config, profileEvents, configEvents>>
  BY DEF PutNamespace
<1>2. \A c \in Controllers, q \in Profiles :
        namespaceEvents'[c][q] = IF q = p
                                   THEN Append(namespaceEvents[c][q], new)
                                   ELSE namespaceEvents[c][q]
  BY <1>1 DEF StoreOK
<1>3. \A c \in Controllers : Append(namespaceEvents[c][p], new) \in Seq(Object)
  BY AppendProperties DEF StoreOK
<1>4. namespaceEvents' \in [Controllers -> [Profiles -> Seq(Object)]]
  BY <1>1, <1>3 DEF StoreOK
<1>5. StoreOK'
  BY <1>1, <1>4 DEF StoreOK
<1>6. ASSUME NEW c \in Controllers, NEW q \in Profiles
      PROVE  Latest(seenNamespace[c][q], namespaceEvents'[c][q]) = namespace'[q]
  <2>1. CASE q = p
    <3>1. namespaceEvents[c][p] \in Seq(Object) /\ new \in Object
      BY DEF StoreOK
    <3> HIDE DEF Object
    <3>2. Latest(seenNamespace[c][p], Append(namespaceEvents[c][p], new)) = new
      BY <3>1, LatestOfAppend
    <3> QED
      BY <1>1, <1>2, <2>1, <3>2 DEF StoreOK
  <2>2. CASE q # p
    <3>1. Latest(seenNamespace[c][q], namespaceEvents[c][q]) = namespace[q]
      BY DEF CacheCurrent
    <3>2. namespace'[q] = namespace[q] /\ namespaceEvents'[c][q] = namespaceEvents[c][q]
      BY <1>1, <1>2, <2>2 DEF StoreOK
    <3> QED
      BY <3>1, <3>2
  <2> QED
    BY <2>1, <2>2
<1>7. CacheCurrent'
  BY <1>1, <1>6 DEF CacheCurrent, cacheVars
<1>8. \A c \in Controllers : <<"namespace", c, p>> \notin fresh'
  BY <1>1 DEF Outdated
<1> QED
  BY <1>1, <1>2, <1>5, <1>7, <1>8

LEMMA ConfigWrite ==
  ASSUME StoreOK, CacheCurrent, NEW new \in LabelMap \cup {Nil}, PutConfig(new),
         UNCHANGED cacheVars
  PROVE  StoreOK' /\ CacheCurrent'
         /\ UNCHANGED <<profileEvents, namespaceEvents, fresh>>
<1>1. /\ config' = new
      /\ configEvents' = [c \in Controllers |-> Append(configEvents[c], new)]
      /\ UNCHANGED <<profile, namespace, profileEvents, namespaceEvents, fresh>>
  BY DEF PutConfig
<1>2. ASSUME NEW c \in Controllers
      PROVE  /\ Append(configEvents[c], new) \in Seq(LabelMap \cup {Nil})
             /\ Latest(seenConfig[c], configEvents'[c]) = new
  <2> DEFINE Object == LabelMap \cup {Nil}
  <2>1. configEvents[c] \in Seq(Object) /\ new \in Object
    BY DEF StoreOK
  <2> HIDE DEF Object
  <2>2. Append(configEvents[c], new) \in Seq(Object)
    BY <2>1, AppendProperties
  <2>3. Latest(seenConfig[c], Append(configEvents[c], new)) = new
    BY <2>1, LatestOfAppend
  <2> QED
    BY <1>1, <2>2, <2>3 DEF Object
<1>3. StoreOK'
  BY <1>1, <1>2 DEF StoreOK
<1>4. CacheCurrent'
  BY <1>1, <1>2 DEF CacheCurrent, cacheVars
<1> QED
  BY <1>1, <1>3, <1>4

(* The last write is read from the copy of a fresh entry: it survives what   *)
(* does not touch the entry and leaves the worker its copies, or none.      *)
Keeps(c) ==
  \/ worker'[c] = worker[c]
  \/ worker'[c].key \notin Profiles
  \/ /\ worker'[c].step # "label"
     /\ worker'[c].key = worker[c].key
     /\ worker'[c].profile = worker[c].profile

EntriesKept ==
  \A c \in Controllers, q \in Profiles :
    /\ <<"profile", c, q>> \in fresh' =>
         /\ profileEvents'[c][q] = profileEvents[c][q]
         /\ seenProfile'[c][q] = seenProfile[c][q]
    /\ <<"namespace", c, q>> \in fresh' =>
         /\ namespaceEvents'[c][q] = namespaceEvents[c][q]
         /\ seenNamespace'[c][q] = seenNamespace[c][q]

LEMMA FreshKept ==
  ASSUME FreshCurrent, fresh' \subseteq fresh, EntriesKept,
         \A c \in Controllers : Keeps(c)
  PROVE  FreshCurrent'
<1> SUFFICES ASSUME NEW c \in Controllers, NEW p \in Profiles
             PROVE  /\ <<"profile", c, p>> \in fresh' =>
                         /\ profileEvents'[c][p] = <<>>
                         /\ worker'[c].key = p =>
                              worker'[c].profile = seenProfile'[c][p]
                    /\ <<"namespace", c, p>> \in fresh' =>
                         /\ namespaceEvents'[c][p] = <<>>
                         /\ worker'[c].key = p /\ worker'[c].step = "label" =>
                              /\ seenNamespace'[c][p] # Nil
                              /\ seenNamespace'[c][p].owner
                                   = worker'[c].profile.owner
                              /\ worker'[c].namespace =
                                   [seenNamespace'[c][p] EXCEPT !.labels =
                                      SetNamespaceLabels(
                                        seenNamespace'[c][p].labels,
                                        worker'[c].defaults)]
  BY DEF FreshCurrent
<1>1. Keeps(c)
  OBVIOUS
<1>2. worker'[c].key = p => worker[c].key = p
                            /\ worker'[c].profile = worker[c].profile
  BY <1>1 DEF Keeps
<1>3. worker'[c].key = p /\ worker'[c].step = "label" => worker'[c] = worker[c]
  BY <1>1 DEF Keeps
<1>4. <<"profile", c, p>> \in fresh' =>
        /\ <<"profile", c, p>> \in fresh
        /\ profileEvents'[c][p] = profileEvents[c][p]
        /\ seenProfile'[c][p] = seenProfile[c][p]
  BY DEF EntriesKept
<1>5. <<"namespace", c, p>> \in fresh' =>
        /\ <<"namespace", c, p>> \in fresh
        /\ namespaceEvents'[c][p] = namespaceEvents[c][p]
        /\ seenNamespace'[c][p] = seenNamespace[c][p]
  BY DEF EntriesKept
<1>7. <<"profile", c, p>> \in fresh =>
        /\ profileEvents[c][p] = <<>>
        /\ worker[c].key = p => worker[c].profile = seenProfile[c][p]
  BY DEF FreshCurrent
<1>8. <<"namespace", c, p>> \in fresh =>
        /\ namespaceEvents[c][p] = <<>>
        /\ worker[c].key = p /\ worker[c].step = "label" =>
             /\ seenNamespace[c][p] # Nil
             /\ seenNamespace[c][p].owner = worker[c].profile.owner
             /\ worker[c].namespace =
                  [seenNamespace[c][p] EXCEPT !.labels =
                     SetNamespaceLabels(seenNamespace[c][p].labels,
                                        worker[c].defaults)]
  BY DEF FreshCurrent
<1>9. worker'[c].key = p /\ worker'[c].step = "label"
        => worker[c].key = p /\ worker[c].step = "label"
  BY <1>3
<1> QED
  <2>1. <<"profile", c, p>> \in fresh' =>
          /\ profileEvents'[c][p] = <<>>
          /\ worker'[c].key = p => worker'[c].profile = seenProfile'[c][p]
    BY <1>2, <1>4, <1>7
  <2>2. <<"namespace", c, p>> \in fresh' => namespaceEvents'[c][p] = <<>>
    BY <1>5, <1>8
  <2>3. ASSUME <<"namespace", c, p>> \in fresh', worker'[c].key = p,
               worker'[c].step = "label"
        PROVE  /\ seenNamespace'[c][p] # Nil
               /\ seenNamespace'[c][p].owner = worker'[c].profile.owner
               /\ worker'[c].namespace =
                    [seenNamespace'[c][p] EXCEPT !.labels =
                       SetNamespaceLabels(seenNamespace'[c][p].labels,
                                          worker'[c].defaults)]
    BY <1>3, <1>5, <1>8, <1>9, <2>3
  <2> QED
    BY <2>1, <2>2, <2>3

(***************************************************************************)
(* Values.                                                                 *)
(***************************************************************************)
LEMMA LabelsType ==
  ASSUME NEW labels \in LabelMap, NEW defaults \in LabelMap
  PROVE  SetNamespaceLabels(labels, defaults) \in LabelMap
BY DEF LabelMap, SetNamespaceLabels

(* The labels of a reconciled namespace are what the defaults ask, doing it *)
(* again changes nothing, and Reconcile's comparison of the labels before   *)
(* and after says exactly whether the namespace still has to be updated.    *)
THEOREM LabelsConform ==
  ASSUME NEW labels \in LabelMap, NEW defaults \in LabelMap
  PROVE  LET new == SetNamespaceLabels(labels, defaults)
         IN /\ Conforms(new, defaults)
            /\ SetNamespaceLabels(new, defaults) = new
            /\ new = labels <=> Conforms(labels, defaults)
<1> DEFINE new == SetNamespaceLabels(labels, defaults)
<1>1. /\ new \in LabelMap
      /\ \A k \in LabelKeys : new[k] =
           CASE defaults[k] = Empty -> Unset
             [] defaults[k] \in LabelValues /\ labels[k] = Unset -> defaults[k]
             [] OTHER -> labels[k]
  BY LabelsType DEF SetNamespaceLabels
<1>2. \A k \in LabelKeys : /\ labels[k] \in LabelValues \cup {Empty, Unset}
                            /\ defaults[k] \in LabelValues \cup {Empty, Unset}
  BY DEF LabelMap
<1>3. Conforms(new, defaults)
  BY <1>1, <1>2, LabelAssumption DEF Conforms
<1>4. ASSUME NEW l \in LabelMap, Conforms(l, defaults)
      PROVE  SetNamespaceLabels(l, defaults) = l
  BY <1>2, <1>4, LabelAssumption DEF Conforms, SetNamespaceLabels, LabelMap
<1>5. SetNamespaceLabels(new, defaults) = new
  BY <1>1, <1>3, <1>4
<1> QED
  BY <1>3, <1>4, <1>5

LEMMA NewNamespaceType ==
  ASSUME NEW instance \in ProfileObject, NEW defaults \in LabelMap
  PROVE  NewNamespace(instance, defaults) \in NamespaceObject
<1>1. [Unlabelled EXCEPT ![InjectionLabel] = Enabled] \in LabelMap
  BY ControllerAssumption DEF LabelMap, Unlabelled
<1> QED
  BY <1>1, LabelsType DEF NewNamespace, NamespaceObject, ProfileObject

LEMMA KeptType ==
  ASSUME NEW object \in ProfileObject
  PROVE  Kept(object) \in ProfileObject \cup {Nil}
BY DEF Kept

LEMMA NilIsNoObject ==
  Nil \notin ProfileObject /\ Nil \notin NamespaceObject /\ Nil \notin LabelMap
BY ClusterAssumption

(***************************************************************************)
(* Where a worker goes.                                                    *)
(***************************************************************************)
LEMMA WorkerBusy ==
  ASSUME ProcessesOK, NEW c \in Controllers, worker[c].step # "idle"
  PROVE  /\ worker[c].key \in Profiles
         /\ worker[c].profile \in ProfileObject
BY DEF ProcessesOK, WorkerOK, Worker

LEMMA ReturnKeeps ==
  ASSUME ProcessesOK, NEW c \in Controllers, NEW error \in BOOLEAN,
         worker[c].step # "idle", Return(c, error), UNCHANGED queue
  PROVE  ProcessesOK' /\ \A d \in Controllers : Keeps(d)
<1>1. worker[c].key \in Profiles
  BY WorkerBusy
<1>2. IdleWorker \in Worker /\ WorkerOK(IdleWorker)
  BY DEF IdleWorker, Worker, WorkerOK, Steps
<1>3. worker' = [worker EXCEPT ![c] = IdleWorker]
  BY DEF Return
<1>4. delayed' \in [Controllers -> SUBSET Profiles]
  BY <1>1 DEF Return, ProcessesOK
<1>5. ProcessesOK'
  BY <1>2, <1>3, <1>4 DEF ProcessesOK
<1>6. \A d \in Controllers : Keeps(d)
  BY <1>3, ControllerAssumption DEF Keeps, IdleWorker, ProcessesOK
<1> QED
  BY <1>5, <1>6

LEMMA ProceedKeeps ==
  ASSUME ProcessesOK, NEW c \in Controllers,
         NEW step \in {"wait", "finalizer", "reject"},
         worker[c].step # "idle", Proceed(c, step), UNCHANGED <<queue, delayed>>
  PROVE  ProcessesOK' /\ \A d \in Controllers : Keeps(d)
<1> DEFINE w == [worker[c] EXCEPT !.step = step, !.defaults = Nil,
                                  !.namespace = Nil]
<1>1. worker' = [worker EXCEPT ![c] = w]
  BY DEF Proceed, ProcessesOK
<1>2. worker[c] \in Worker /\ WorkerOK(worker[c])
  BY DEF ProcessesOK
<1>3. w \in Worker /\ WorkerOK(w)
  BY <1>2 DEF Worker, WorkerOK, Steps
<1>4. ProcessesOK'
  BY <1>1, <1>3 DEF ProcessesOK
<1>5. \A d \in Controllers : Keeps(d)
  BY <1>1, <1>2 DEF Keeps, ProcessesOK, Worker
<1> QED
  BY <1>4, <1>5

(***************************************************************************)
(* What each kind of step leaves to be shown: that the processes and the   *)
(* counters keep their types and that no worker makes up a copy.           *)
(***************************************************************************)
LEMMA AfterProfileWrite ==
  ASSUME IInv, NEW p \in Profiles, NEW new \in ProfileObject \cup {Nil},
         PutProfile(p, new), UNCHANGED cacheVars, CountersOK', ProcessesOK',
         \A c \in Controllers : Keeps(c)
  PROVE  IInv'
<1>1. StoreOK /\ CachesOK /\ CacheCurrent /\ FreshCurrent
  BY TypeParts DEF IInv, CopiesAreCurrent
<1>2. UNCHANGED <<seenProfile, seenNamespace, seenConfig>>
  BY DEF cacheVars
<1>3. StoreOK' /\ CacheCurrent' /\ fresh' \subseteq fresh /\ EntriesKept
  BY <1>1, <1>2, ProfileWrite DEF EntriesKept
<1>4. CachesOK'
  BY <1>1, <1>2 DEF CachesOK
<1>5. FreshCurrent'
  BY <1>1, <1>3, FreshKept
<1>6. TypeOK'
  BY <1>3, <1>4 DEF TypeOK, StoreOK, CachesOK, CountersOK, ProcessesOK
<1> QED
  BY <1>3, <1>5, <1>6 DEF IInv, CopiesAreCurrent

LEMMA AfterNamespaceWrite ==
  ASSUME IInv, NEW p \in Profiles, NEW new \in NamespaceObject \cup {Nil},
         PutNamespace(p, new), UNCHANGED cacheVars, CountersOK', ProcessesOK',
         \A c \in Controllers : Keeps(c)
  PROVE  IInv'
<1>1. StoreOK /\ CachesOK /\ CacheCurrent /\ FreshCurrent
  BY TypeParts DEF IInv, CopiesAreCurrent
<1>2. UNCHANGED <<seenProfile, seenNamespace, seenConfig>>
  BY DEF cacheVars
<1>3. StoreOK' /\ CacheCurrent' /\ fresh' \subseteq fresh /\ EntriesKept
  BY <1>1, <1>2, NamespaceWrite DEF EntriesKept
<1>4. CachesOK'
  BY <1>1, <1>2 DEF CachesOK
<1>5. FreshCurrent'
  BY <1>1, <1>3, FreshKept
<1>6. TypeOK'
  BY <1>3, <1>4 DEF TypeOK, StoreOK, CachesOK, CountersOK, ProcessesOK
<1> QED
  BY <1>3, <1>5, <1>6 DEF IInv, CopiesAreCurrent

LEMMA AfterConfigWrite ==
  ASSUME IInv, NEW new \in LabelMap \cup {Nil}, PutConfig(new),
         UNCHANGED cacheVars, CountersOK', ProcessesOK',
         \A c \in Controllers : Keeps(c)
  PROVE  IInv'
<1>1. StoreOK /\ CachesOK /\ CacheCurrent /\ FreshCurrent
  BY TypeParts DEF IInv, CopiesAreCurrent
<1>2. /\ StoreOK' /\ CacheCurrent'
      /\ UNCHANGED <<profileEvents, namespaceEvents, fresh>>
  BY <1>1, ConfigWrite
<1>3. UNCHANGED <<seenProfile, seenNamespace, seenConfig>>
  BY DEF cacheVars
<1>4. CachesOK'
  BY <1>1, <1>3 DEF CachesOK
<1>5. FreshCurrent'
  BY <1>1, <1>2, <1>3, FreshKept DEF EntriesKept
<1>6. TypeOK'
  BY <1>2, <1>4 DEF TypeOK, StoreOK, CachesOK, CountersOK, ProcessesOK
<1> QED
  BY <1>2, <1>5, <1>6 DEF IInv, CopiesAreCurrent

StoreUnchanged ==
  UNCHANGED <<profile, namespace, config, profileEvents, namespaceEvents,
              configEvents>>

LEMMA AfterNoWrite ==
  ASSUME IInv, StoreUnchanged, fresh' \subseteq fresh, UNCHANGED cacheVars,
         CountersOK', ProcessesOK', \A c \in Controllers : Keeps(c)
  PROVE  IInv'
<1>1. StoreOK /\ CachesOK /\ CacheCurrent /\ FreshCurrent
  BY TypeParts DEF IInv, CopiesAreCurrent
<1>2. UNCHANGED <<seenProfile, seenNamespace, seenConfig>>
  BY DEF cacheVars
<1>3. StoreOK' /\ CacheCurrent' /\ CachesOK'
  BY <1>1, <1>2 DEF StoreUnchanged, StoreOK, CachesOK, CacheCurrent
<1>4. FreshCurrent'
  BY <1>1, <1>2, FreshKept DEF EntriesKept, StoreUnchanged
<1>5. TypeOK'
  BY <1>3 DEF TypeOK, StoreOK, CachesOK, CountersOK, ProcessesOK
<1> QED
  BY <1>3, <1>4, <1>5 DEF IInv, CopiesAreCurrent

(***************************************************************************)
(* Users, administrators and the collector.                                *)
(***************************************************************************)
LEMMA ControllersIdle ==
  ASSUME IInv, UNCHANGED controllerVars
  PROVE  /\ UNCHANGED cacheVars
         /\ ProcessesOK'
         /\ faults' \in 0 .. MaxFaults /\ restarts' \in 0 .. MaxRestarts
         /\ \A c \in Controllers : Keeps(c)
<1>1. UNCHANGED <<cacheVars, queue, delayed, worker, faults, restarts>>
  BY DEF controllerVars
<1>2. ProcessesOK /\ CountersOK
  BY TypeParts DEF IInv
<1> QED
  BY <1>1, <1>2 DEF ProcessesOK, CountersOK, Keeps

LEMMA UserStep ==
  ASSUME IInv, UserAction, UNCHANGED controllerVars
  PROVE  IInv'
<1>1. /\ UNCHANGED cacheVars
      /\ ProcessesOK'
      /\ faults' \in 0 .. MaxFaults /\ restarts' \in 0 .. MaxRestarts
      /\ \A c \in Controllers : Keeps(c)
  BY ControllersIdle
<1>2. StoreOK /\ CountersOK
  BY TypeParts DEF IInv
<1>3. ASSUME Edit, uids' \in Nat
      PROVE  CountersOK'
  BY <1>1, <1>2, <1>3, ClusterAssumption DEF Edit, CountersOK
<1>4. ASSUME NEW p \in Profiles, profile[p] # Nil
      PROVE  profile[p] \in ProfileObject
  BY <1>2, <1>4 DEF StoreOK
<1>5. ASSUME NEW p \in Profiles, namespace[p] # Nil
      PROVE  namespace[p] \in NamespaceObject
  BY <1>2, <1>5 DEF StoreOK
<1>6. uids \in Nat
  BY <1>2 DEF CountersOK
<1>7. ASSUME NEW p \in Profiles, NEW o \in Owners, CreateProfile(p, o)
      PROVE  IInv'
  <2>1. [uid |-> uids + 1, owner |-> o, finalizers |-> {}, deleting |-> FALSE,
         failed |-> FALSE] \in ProfileObject
    BY <1>6 DEF ProfileObject
  <2>2. CountersOK'
    BY <1>3, <1>6, <1>7 DEF CreateProfile
  <2> QED
    BY <1>1, <1>7, <2>1, <2>2, AfterProfileWrite DEF CreateProfile
<1>8. ASSUME NEW p \in Profiles, NEW o \in Owners, ChangeOwner(p, o)
      PROVE  IInv'
  <2>1. [profile[p] EXCEPT !.owner = o] \in ProfileObject
    BY <1>4, <1>8 DEF ChangeOwner, ProfileObject
  <2>2. CountersOK'
    BY <1>3, <1>6, <1>8 DEF ChangeOwner
  <2> QED
    BY <1>1, <1>8, <2>1, <2>2, AfterProfileWrite DEF ChangeOwner
<1>9. ASSUME NEW p \in Profiles, NEW waiting \in {{}, {"foregroundDeletion"}},
             DeleteProfile(p, waiting)
      PROVE  IInv'
  <2> DEFINE new == [profile[p] EXCEPT !.deleting = TRUE,
                                       !.finalizers = @ \cup waiting]
  <2>1. new \in ProfileObject
    BY <1>4, <1>9 DEF DeleteProfile, ProfileObject, Finalizers
  <2>2. CountersOK'
    BY <1>3, <1>6, <1>9 DEF DeleteProfile
  <2>3. Kept(new) \in ProfileObject \cup {Nil}
    BY <2>1, KeptType
  <2>4. PutProfile(p, Kept(new))
    BY <1>9 DEF DeleteProfile
  <2> QED
    BY <1>1, <2>2, <2>3, <2>4, AfterProfileWrite
<1>10. ASSUME NEW p \in Profiles, NEW o \in Owners \cup {Nil},
              NEW labels \in LabelMap, CreateNamespaceByHand(p, o, labels)
       PROVE  IInv'
  <2>1. [owner |-> o, labels |-> labels, controller |-> 0,
         terminating |-> FALSE] \in NamespaceObject
    BY DEF NamespaceObject
  <2>2. CountersOK'
    BY <1>3, <1>6, <1>10 DEF CreateNamespaceByHand
  <2> QED
    BY <1>1, <1>10, <2>1, <2>2, AfterNamespaceWrite DEF CreateNamespaceByHand
<1>11. ASSUME NEW p \in Profiles, NEW o \in Owners \cup {Nil},
              AnnotateNamespace(p, o)
       PROVE  IInv'
  <2>1. [namespace[p] EXCEPT !.owner = o] \in NamespaceObject
    BY <1>5, <1>11 DEF AnnotateNamespace, NamespaceObject
  <2>2. CountersOK'
    BY <1>3, <1>6, <1>11 DEF AnnotateNamespace
  <2> QED
    BY <1>1, <1>11, <2>1, <2>2, AfterNamespaceWrite DEF AnnotateNamespace
<1>12. ASSUME NEW p \in Profiles, NEW k \in LabelKeys,
              NEW v \in LabelValues \cup {Empty, Unset}, LabelNamespace(p, k, v)
       PROVE  IInv'
  <2>1. [namespace[p] EXCEPT !.labels[k] = v] \in NamespaceObject
    BY <1>5, <1>12 DEF LabelNamespace, NamespaceObject, LabelMap
  <2>2. CountersOK'
    BY <1>3, <1>6, <1>12 DEF LabelNamespace
  <2> QED
    BY <1>1, <1>12, <2>1, <2>2, AfterNamespaceWrite DEF LabelNamespace
<1>13. ASSUME NEW p \in Profiles, DeleteNamespace(p)
       PROVE  IInv'
  <2>1. [namespace[p] EXCEPT !.terminating = TRUE] \in NamespaceObject
    BY <1>5, <1>13 DEF DeleteNamespace, NamespaceObject
  <2>2. CountersOK'
    BY <1>3, <1>6, <1>13 DEF DeleteNamespace
  <2> QED
    BY <1>1, <1>13, <2>1, <2>2, AfterNamespaceWrite DEF DeleteNamespace
<1>14. ASSUME NEW new \in LabelMap \cup {Nil}, WriteConfig(new)
       PROVE  IInv'
  <2>1. CountersOK'
    BY <1>3, <1>6, <1>14 DEF WriteConfig
  <2> QED
    BY <1>1, <1>14, <2>1, AfterConfigWrite DEF WriteConfig
<1> QED
  BY <1>7, <1>8, <1>9, <1>10, <1>11, <1>12, <1>13, <1>14 DEF UserAction

LEMMA CollectorStep ==
  ASSUME IInv, NEW p \in Profiles, CollectorAction(p), UNCHANGED controllerVars
  PROVE  IInv'
<1>1. /\ UNCHANGED cacheVars
      /\ ProcessesOK'
      /\ faults' \in 0 .. MaxFaults /\ restarts' \in 0 .. MaxRestarts
      /\ \A c \in Controllers : Keeps(c)
  BY ControllersIdle
<1>2. StoreOK /\ CountersOK
  BY TypeParts DEF IInv
<1>3. ASSUME UNCHANGED <<uids, edits>>
      PROVE  CountersOK'
  BY <1>1, <1>2, <1>3 DEF CountersOK
<1>4. CASE CollectNamespace(p)
  <2>1. namespace[p] \in NamespaceObject
    BY <1>2, <1>4 DEF CollectNamespace, Collectable, StoreOK
  <2>2. [namespace[p] EXCEPT !.terminating = TRUE] \in NamespaceObject
    BY <2>1 DEF NamespaceObject
  <2> QED
    BY <1>1, <1>3, <1>4, <2>2, AfterNamespaceWrite DEF CollectNamespace
<1>5. CASE RemoveNamespace(p)
  BY <1>1, <1>3, <1>5, AfterNamespaceWrite DEF RemoveNamespace
<1>6. CASE FinishForeground(p)
  <2> DEFINE new == [profile[p] EXCEPT !.finalizers =
                       @ \ {"foregroundDeletion"}]
  <2>1. profile[p] \in ProfileObject
    BY <1>2, <1>6 DEF FinishForeground, Finishable, StoreOK
  <2>2. new \in ProfileObject
    BY <2>1 DEF ProfileObject
  <2>3. Kept(new) \in ProfileObject \cup {Nil}
    BY <2>2, KeptType
  <2>4. PutProfile(p, Kept(new)) /\ UNCHANGED <<uids, edits>>
    BY <1>6 DEF FinishForeground
  <2> QED
    BY <1>1, <1>3, <2>3, <2>4, AfterProfileWrite
<1> QED
  BY <1>4, <1>5, <1>6 DEF CollectorAction

(***************************************************************************)
(* Informers and the queue.                                                *)
(***************************************************************************)
LEMMA DeliverProfileStep ==
  ASSUME IInv, NEW c \in Controllers, NEW p \in Profiles, DeliverProfile(c, p)
  PROVE  IInv'
<1> DEFINE Object == ProfileObject \cup {Nil}
<1>1. StoreOK /\ CachesOK /\ CountersOK /\ ProcessesOK
      /\ CacheCurrent /\ FreshCurrent
  BY TypeParts DEF IInv, CopiesAreCurrent
<1>2. /\ profileEvents[c][p] # <<>>
      /\ seenProfile' = [seenProfile EXCEPT ![c][p] = Head(profileEvents[c][p])]
      /\ profileEvents' = [profileEvents EXCEPT ![c][p] = Tail(@)]
      /\ queue' = [queue EXCEPT ![c] = @ \cup {p}]
      /\ UNCHANGED <<profile, namespace, config, namespaceEvents, configEvents,
                     fresh, seenNamespace, seenConfig, delayed, worker, faults,
                     uids, edits, restarts>>
  BY DEF DeliverProfile, Enqueue, boundVars
<1>3. profileEvents[c][p] \in Seq(Object)
  BY <1>1 DEF StoreOK
<1>4. Head(profileEvents[c][p]) \in Object /\ Tail(profileEvents[c][p]) \in Seq(Object)
  BY <1>2, <1>3, HeadTailProperties
<1>5. TypeOK'
  <2>1. StoreOK'
    BY <1>1, <1>2, <1>4 DEF StoreOK
  <2>2. CachesOK'
    BY <1>1, <1>2, <1>4 DEF CachesOK
  <2>3. CountersOK' /\ ProcessesOK'
    BY <1>1, <1>2 DEF CountersOK, ProcessesOK
  <2> QED
    BY <2>1, <2>2, <2>3 DEF TypeOK, StoreOK, CachesOK, CountersOK, ProcessesOK
<1>6. ASSUME NEW d \in Controllers, NEW q \in Profiles
      PROVE  Latest(seenProfile'[d][q], profileEvents'[d][q]) = profile'[q]
  <2>1. CASE d = c /\ q = p
    <3>1. /\ seenProfile'[c][p] = Head(profileEvents[c][p])
          /\ profileEvents'[c][p] = Tail(profileEvents[c][p])
      BY <1>1, <1>2 DEF StoreOK, CachesOK
    <3>2. Latest(seenProfile[c][p], profileEvents[c][p]) = profile[p]
      BY <1>1 DEF CacheCurrent
    <3> HIDE DEF Object
    <3>3. Latest(Head(profileEvents[c][p]), Tail(profileEvents[c][p])) = profile[p]
      BY <1>2, <1>3, <3>2, LatestOfTail
    <3> QED
      BY <1>2, <2>1, <3>1, <3>3
  <2>2. CASE ~(d = c /\ q = p)
    <3>1. /\ seenProfile'[d][q] = seenProfile[d][q]
          /\ profileEvents'[d][q] = profileEvents[d][q]
      BY <1>1, <1>2, <2>2 DEF StoreOK, CachesOK
    <3>2. Latest(seenProfile[d][q], profileEvents[d][q]) = profile[q]
      BY <1>1 DEF CacheCurrent
    <3> QED
      BY <1>2, <3>1, <3>2
  <2> QED
    BY <2>1, <2>2
<1>7. CacheCurrent'
  BY <1>1, <1>2, <1>6 DEF CacheCurrent
<1>8. \A d \in Controllers, q \in Profiles : <<"profile", d, q>> \in fresh' =>
        /\ profileEvents'[d][q] = profileEvents[d][q]
        /\ seenProfile'[d][q] = seenProfile[d][q]
  BY <1>1, <1>2 DEF StoreOK, CachesOK, FreshCurrent
<1>9. fresh' \subseteq fresh /\ EntriesKept
  BY <1>2, <1>8 DEF EntriesKept
<1>10. \A d \in Controllers : Keeps(d)
  BY <1>2 DEF Keeps
<1>11. FreshCurrent'
  BY <1>1, <1>9, <1>10, FreshKept
<1> QED
  BY <1>5, <1>7, <1>11 DEF IInv, CopiesAreCurrent

LEMMA DeliverNamespaceStep ==
  ASSUME IInv, NEW c \in Controllers, NEW p \in Profiles, DeliverNamespace(c, p)
  PROVE  IInv'
<1> DEFINE Object == NamespaceObject \cup {Nil}
<1>1. StoreOK /\ CachesOK /\ CountersOK /\ ProcessesOK
      /\ CacheCurrent /\ FreshCurrent
  BY TypeParts DEF IInv, CopiesAreCurrent
<1>2. /\ namespaceEvents[c][p] # <<>>
      /\ seenNamespace' = [seenNamespace EXCEPT ![c][p] =
                             Head(namespaceEvents[c][p])]
      /\ namespaceEvents' = [namespaceEvents EXCEPT ![c][p] = Tail(@)]
      /\ queue' = [queue EXCEPT ![c] = @ \cup {p}] \/ queue' = [queue EXCEPT ![c] = @]
      /\ UNCHANGED <<profile, namespace, config, profileEvents, configEvents,
                     fresh, seenProfile, seenConfig, delayed, worker, faults,
                     uids, edits, restarts>>
  <2>1. queue' = [queue EXCEPT ![c] = @ \cup {p}]
        \/ queue' = [queue EXCEPT ![c] = @ \cup {}]
    BY DEF DeliverNamespace, Enqueue
  <2>2. queue[c] \cup {} = queue[c]
    OBVIOUS
  <2> QED
    BY <2>1, <2>2 DEF DeliverNamespace, boundVars
<1>3. namespaceEvents[c][p] \in Seq(Object)
  BY <1>1 DEF StoreOK
<1>4. /\ Head(namespaceEvents[c][p]) \in Object
      /\ Tail(namespaceEvents[c][p]) \in Seq(Object)
  BY <1>2, <1>3, HeadTailProperties
<1>5. TypeOK'
  <2>1. StoreOK'
    BY <1>1, <1>2, <1>4 DEF StoreOK
  <2>2. CachesOK'
    BY <1>1, <1>2, <1>4 DEF CachesOK
  <2>3. CountersOK' /\ ProcessesOK'
    BY <1>1, <1>2 DEF CountersOK, ProcessesOK
  <2> QED
    BY <2>1, <2>2, <2>3 DEF TypeOK, StoreOK, CachesOK, CountersOK, ProcessesOK
<1>6. ASSUME NEW d \in Controllers, NEW q \in Profiles
      PROVE  Latest(seenNamespace'[d][q], namespaceEvents'[d][q]) = namespace'[q]
  <2>1. CASE d = c /\ q = p
    <3>1. /\ seenNamespace'[c][p] = Head(namespaceEvents[c][p])
          /\ namespaceEvents'[c][p] = Tail(namespaceEvents[c][p])
      BY <1>1, <1>2 DEF StoreOK, CachesOK
    <3>2. Latest(seenNamespace[c][p], namespaceEvents[c][p]) = namespace[p]
      BY <1>1 DEF CacheCurrent
    <3> HIDE DEF Object
    <3>3. Latest(Head(namespaceEvents[c][p]), Tail(namespaceEvents[c][p]))
            = namespace[p]
      BY <1>2, <1>3, <3>2, LatestOfTail
    <3> QED
      BY <1>2, <2>1, <3>1, <3>3
  <2>2. CASE ~(d = c /\ q = p)
    <3>1. /\ seenNamespace'[d][q] = seenNamespace[d][q]
          /\ namespaceEvents'[d][q] = namespaceEvents[d][q]
      BY <1>1, <1>2, <2>2 DEF StoreOK, CachesOK
    <3>2. Latest(seenNamespace[d][q], namespaceEvents[d][q]) = namespace[q]
      BY <1>1 DEF CacheCurrent
    <3> QED
      BY <1>2, <3>1, <3>2
  <2> QED
    BY <2>1, <2>2
<1>7. CacheCurrent'
  BY <1>1, <1>2, <1>6 DEF CacheCurrent
<1>8. \A d \in Controllers, q \in Profiles : <<"namespace", d, q>> \in fresh' =>
        /\ namespaceEvents'[d][q] = namespaceEvents[d][q]
        /\ seenNamespace'[d][q] = seenNamespace[d][q]
  BY <1>1, <1>2 DEF StoreOK, CachesOK, FreshCurrent
<1>9. fresh' \subseteq fresh /\ EntriesKept
  BY <1>2, <1>8 DEF EntriesKept
<1>10. \A d \in Controllers : Keeps(d)
  BY <1>2 DEF Keeps
<1>11. FreshCurrent'
  BY <1>1, <1>9, <1>10, FreshKept
<1> QED
  BY <1>5, <1>7, <1>11 DEF IInv, CopiesAreCurrent

LEMMA DeliverConfigStep ==
  ASSUME IInv, NEW c \in Controllers, DeliverConfig(c)
  PROVE  IInv'
<1> DEFINE Object == LabelMap \cup {Nil}
<1>1. StoreOK /\ CachesOK /\ CountersOK /\ ProcessesOK
      /\ CacheCurrent /\ FreshCurrent
  BY TypeParts DEF IInv, CopiesAreCurrent
<1>2. /\ configEvents[c] # <<>>
      /\ seenConfig' = [seenConfig EXCEPT ![c] = Head(configEvents[c])]
      /\ configEvents' = [configEvents EXCEPT ![c] = Tail(@)]
      /\ queue' = [queue EXCEPT ![c] = @ \cup CachedProfiles(c)]
      /\ UNCHANGED <<profile, namespace, config, profileEvents, namespaceEvents,
                     fresh, seenProfile, seenNamespace, delayed, worker, faults,
                     uids, edits, restarts>>
  BY DEF DeliverConfig, Enqueue, boundVars
<1>3. configEvents[c] \in Seq(Object)
  BY <1>1 DEF StoreOK
<1>4. Head(configEvents[c]) \in Object /\ Tail(configEvents[c]) \in Seq(Object)
  BY <1>2, <1>3, HeadTailProperties
<1>5. TypeOK'
  <2>1. StoreOK'
    BY <1>1, <1>2, <1>4 DEF StoreOK
  <2>2. CachesOK'
    BY <1>1, <1>2, <1>4 DEF CachesOK
  <2>3. CachedProfiles(c) \in SUBSET Profiles
    BY DEF CachedProfiles
  <2>4. CountersOK' /\ ProcessesOK'
    BY <1>1, <1>2, <2>3 DEF CountersOK, ProcessesOK
  <2> QED
    BY <2>1, <2>2, <2>4 DEF TypeOK, StoreOK, CachesOK, CountersOK, ProcessesOK
<1>6. ASSUME NEW d \in Controllers
      PROVE  Latest(seenConfig'[d], configEvents'[d]) = config'
  <2>1. CASE d = c
    <3>1. /\ seenConfig'[c] = Head(configEvents[c])
          /\ configEvents'[c] = Tail(configEvents[c])
      BY <1>1, <1>2 DEF StoreOK, CachesOK
    <3>2. Latest(seenConfig[c], configEvents[c]) = config
      BY <1>1 DEF CacheCurrent
    <3> HIDE DEF Object
    <3>3. Latest(Head(configEvents[c]), Tail(configEvents[c])) = config
      BY <1>2, <1>3, <3>2, LatestOfTail
    <3> QED
      BY <1>2, <2>1, <3>1, <3>3
  <2>2. CASE d # c
    <3>1. seenConfig'[d] = seenConfig[d] /\ configEvents'[d] = configEvents[d]
      BY <1>1, <1>2, <2>2 DEF StoreOK, CachesOK
    <3>2. Latest(seenConfig[d], configEvents[d]) = config
      BY <1>1 DEF CacheCurrent
    <3> QED
      BY <1>2, <3>1, <3>2
  <2> QED
    BY <2>1, <2>2
<1>7. CacheCurrent'
  BY <1>1, <1>2, <1>6 DEF CacheCurrent
<1>8. FreshCurrent'
  BY <1>1, <1>2 DEF FreshCurrent
<1> QED
  BY <1>5, <1>7, <1>8 DEF IInv, CopiesAreCurrent

LEMMA QueueStep ==
  ASSUME IInv, NEW c \in Controllers,
         Resync(c) \/ \E p \in Profiles : Requeue(c, p)
  PROVE  IInv'
<1>1. CountersOK /\ ProcessesOK
  BY TypeParts DEF IInv
<1>2. /\ UNCHANGED <<clusterVars, cacheVars, worker, faults, restarts>>
      /\ queue' \in [Controllers -> SUBSET Profiles]
      /\ delayed' \in [Controllers -> SUBSET Profiles]
  BY <1>1 DEF Resync, Requeue, Enqueue, CachedProfiles, ProcessesOK
<1>3. CountersOK' /\ ProcessesOK' /\ StoreUnchanged /\ fresh' \subseteq fresh
  BY <1>1, <1>2 DEF CountersOK, ProcessesOK, StoreUnchanged, clusterVars
<1>4. \A d \in Controllers : Keeps(d)
  BY <1>2 DEF Keeps
<1> QED
  BY <1>2, <1>3, <1>4, AfterNoWrite

LEMMA BeginStep ==
  ASSUME IInv, NEW c \in Controllers, NEW p \in Profiles, Begin(c, p)
  PROVE  IInv'
<1>1. StoreOK /\ CachesOK /\ CountersOK /\ ProcessesOK
      /\ CacheCurrent /\ FreshCurrent
  BY TypeParts DEF IInv, CopiesAreCurrent
<1>2. /\ worker[c].step = "idle"
      /\ queue' = [queue EXCEPT ![c] = @ \ {p}]
      /\ UNCHANGED <<profile, namespace, config, profileEvents,
                     namespaceEvents, configEvents, delayed, faults,
                     uids, edits, restarts>>
      /\ UNCHANGED cacheVars
      /\ UNCHANGED <<seenProfile, seenNamespace, seenConfig>>
  BY DEF Begin, cacheVars, boundVars
<1>3. CASE seenProfile[c][p] = Nil
  <2>1. UNCHANGED <<worker, fresh>>
    BY <1>3 DEF Begin
  <2>2. ProcessesOK' /\ CountersOK'
    BY <1>1, <1>2, <2>1 DEF ProcessesOK, CountersOK
  <2>3. StoreUnchanged /\ \A d \in Controllers : Keeps(d)
    BY <1>2, <2>1 DEF StoreUnchanged, Keeps
  <2> QED
    BY <1>2, <2>1, <2>2, <2>3, AfterNoWrite
<1>4. CASE seenProfile[c][p] # Nil
  <2> DEFINE w == Started(p, seenProfile[c][p])
  <2>1. worker' = [worker EXCEPT ![c] = w]
    BY <1>4 DEF Begin
  <2>3. seenProfile[c][p] \in ProfileObject
    BY <1>1, <1>4 DEF CachesOK
  <2>4. w \in Worker /\ WorkerOK(w)
    BY <1>4, <2>3, ControllerAssumption DEF Started, Worker, WorkerOK, Steps
  <2>5. ProcessesOK' /\ CountersOK'
    BY <1>1, <1>2, <2>1, <2>4 DEF ProcessesOK, CountersOK
  <2>6. \/ fresh' = fresh
        \/ /\ profileEvents[c][p] = <<>>
           /\ fresh' = fresh \cup {<<"profile", c, p>>}
    BY <1>4 DEF Begin
  <2>7. StoreOK' /\ CachesOK' /\ CacheCurrent'
    <3>1. <<"profile", c, p>> \in Kinds \X Controllers \X Profiles
      BY DEF Kinds
    <3>2. fresh' \subseteq Kinds \X Controllers \X Profiles
      BY <1>1, <2>6, <3>1 DEF StoreOK
    <3> QED
      BY <1>1, <1>2, <3>2 DEF StoreOK, CachesOK, CacheCurrent
  <2>8. worker'[c].key = p /\ worker'[c].step = "config"
        /\ worker'[c].profile = seenProfile[c][p]
    BY <1>1, <2>1 DEF Started, ProcessesOK
  <2>9. \A d \in Controllers : d # c => worker'[d] = worker[d]
    BY <1>1, <2>1 DEF ProcessesOK
  <2>10. ASSUME NEW d \in Controllers, NEW q \in Profiles,
                <<"profile", d, q>> \in fresh'
         PROVE  /\ profileEvents'[d][q] = <<>>
                /\ worker'[d].key = q => worker'[d].profile = seenProfile'[d][q]
    <3>1. profileEvents[d][q] = <<>>
      <4>1. CASE <<"profile", d, q>> \in fresh
        BY <1>1, <4>1 DEF FreshCurrent
      <4>2. CASE <<"profile", d, q>> \notin fresh
        <5>1. <<"profile", d, q>> = <<"profile", c, p>>
              /\ profileEvents[c][p] = <<>>
          BY <2>6, <2>10, <4>2
        <5> QED
          BY <5>1
      <4> QED
        BY <4>1, <4>2
    <3>2. CASE d = c
      BY <1>2, <2>8, <3>1, <3>2
    <3>3. CASE d # c
      <4>1. <<"profile", d, q>> \in fresh
        BY <2>6, <2>10, <3>3
      <4>2. worker[d].key = q => worker[d].profile = seenProfile[d][q]
        BY <1>1, <4>1 DEF FreshCurrent
      <4> QED
        BY <1>2, <2>9, <3>1, <3>3, <4>2
    <3> QED
      BY <3>2, <3>3
  <2>11. ASSUME NEW d \in Controllers, NEW q \in Profiles,
                <<"namespace", d, q>> \in fresh'
         PROVE  /\ namespaceEvents'[d][q] = <<>>
                /\ worker'[d].key = q /\ worker'[d].step = "label" =>
                     /\ seenNamespace'[d][q] # Nil
                     /\ seenNamespace'[d][q].owner = worker'[d].profile.owner
                     /\ worker'[d].namespace =
                          [seenNamespace'[d][q] EXCEPT !.labels =
                             SetNamespaceLabels(seenNamespace'[d][q].labels,
                                                worker'[d].defaults)]
    <3>1. <<"namespace", d, q>> \in fresh
      BY <2>6, <2>11
    <3>2. /\ namespaceEvents[d][q] = <<>>
          /\ worker[d].key = q /\ worker[d].step = "label" =>
               /\ seenNamespace[d][q] # Nil
               /\ seenNamespace[d][q].owner = worker[d].profile.owner
               /\ worker[d].namespace =
                    [seenNamespace[d][q] EXCEPT !.labels =
                       SetNamespaceLabels(seenNamespace[d][q].labels,
                                          worker[d].defaults)]
      BY <1>1, <3>1 DEF FreshCurrent
    <3>3. worker'[d].step = "label" => worker'[d] = worker[d]
      BY <2>8, <2>9
    <3> QED
      BY <1>2, <3>2, <3>3
  <2>12. FreshCurrent'
    BY <2>10, <2>11 DEF FreshCurrent
  <2>13. TypeOK'
    BY <2>5, <2>7 DEF TypeOK, StoreOK, CachesOK, CountersOK, ProcessesOK
  <2> QED
    BY <2>7, <2>12, <2>13 DEF IInv, CopiesAreCurrent
<1> QED
  BY <1>3, <1>4

LEMMA RestartStep ==
  ASSUME IInv, NEW c \in Controllers, Restart(c)
  PROVE  IInv'
<1>1. StoreOK /\ CachesOK /\ CountersOK /\ ProcessesOK
      /\ CacheCurrent /\ FreshCurrent
  BY TypeParts DEF IInv, CopiesAreCurrent
<1>2. /\ restarts < MaxRestarts
      /\ restarts' = restarts + 1
      /\ seenProfile' = [seenProfile EXCEPT ![c] = profile]
      /\ seenNamespace' = [seenNamespace EXCEPT ![c] = namespace]
      /\ seenConfig' = [seenConfig EXCEPT ![c] = config]
      /\ profileEvents' = [profileEvents EXCEPT ![c] = [p \in Profiles |-> <<>>]]
      /\ namespaceEvents' = [namespaceEvents EXCEPT ![c] =
                               [p \in Profiles |-> <<>>]]
      /\ configEvents' = [configEvents EXCEPT ![c] = <<>>]
      /\ queue' = [queue EXCEPT ![c] = {p \in Profiles :
                      profile[p] # Nil \/ Controlled(namespace[p])}]
      /\ delayed' = [delayed EXCEPT ![c] = {}]
      /\ worker' = [worker EXCEPT ![c] = IdleWorker]
      /\ fresh' = Released(c)
      /\ UNCHANGED <<profile, namespace, config, uids, edits, faults>>
  BY DEF Restart
<1>3. /\ [p \in Profiles |-> <<>>] \in [Profiles -> Seq(ProfileObject \cup {Nil})]
      /\ [p \in Profiles |-> <<>>] \in [Profiles -> Seq(NamespaceObject \cup {Nil})]
      /\ <<>> \in Seq(LabelMap \cup {Nil})
  BY EmptySeq
<1>4. IdleWorker \in Worker /\ WorkerOK(IdleWorker)
  BY DEF IdleWorker, Worker, WorkerOK, Steps
<1>5. fresh' \subseteq fresh /\ \A p \in Profiles :
        <<"profile", c, p>> \notin fresh' /\ <<"namespace", c, p>> \notin fresh'
  BY <1>2 DEF Released
<1>6. StoreOK'
  BY <1>1, <1>2, <1>3, <1>5 DEF StoreOK
<1>7. CachesOK'
  BY <1>1, <1>2 DEF CachesOK, StoreOK
<1>8. CountersOK'
  BY <1>1, <1>2, ControllerAssumption DEF CountersOK
<1>9. ProcessesOK'
  BY <1>1, <1>2, <1>4 DEF ProcessesOK
<1>10. TypeOK'
  BY <1>6, <1>7, <1>8, <1>9 DEF TypeOK, StoreOK, CachesOK, CountersOK, ProcessesOK
<1>11. ASSUME NEW d \in Controllers, NEW p \in Profiles
       PROVE  /\ Latest(seenProfile'[d][p], profileEvents'[d][p]) = profile'[p]
              /\ Latest(seenNamespace'[d][p], namespaceEvents'[d][p])
                   = namespace'[p]
  <2>1. CASE d = c
    <3>1. /\ seenProfile'[c][p] = profile[p] /\ profileEvents'[c][p] = <<>>
          /\ seenNamespace'[c][p] = namespace[p]
          /\ namespaceEvents'[c][p] = <<>>
      BY <1>1, <1>2 DEF StoreOK, CachesOK
    <3> QED
      BY <1>2, <2>1, <3>1 DEF Latest
  <2>2. CASE d # c
    <3>1. /\ seenProfile'[d] = seenProfile[d]
          /\ profileEvents'[d] = profileEvents[d]
          /\ seenNamespace'[d] = seenNamespace[d]
          /\ namespaceEvents'[d] = namespaceEvents[d]
      BY <1>1, <1>2, <2>2 DEF StoreOK, CachesOK
    <3>2. /\ Latest(seenProfile[d][p], profileEvents[d][p]) = profile[p]
          /\ Latest(seenNamespace[d][p], namespaceEvents[d][p]) = namespace[p]
      BY <1>1 DEF CacheCurrent
    <3> QED
      BY <1>2, <3>1, <3>2
  <2> QED
    BY <2>1, <2>2
<1>12. ASSUME NEW d \in Controllers
       PROVE  Latest(seenConfig'[d], configEvents'[d]) = config'
  <2>1. CASE d = c
    <3>1. seenConfig'[c] = config /\ configEvents'[c] = <<>>
      BY <1>1, <1>2 DEF StoreOK, CachesOK
    <3> QED
      BY <1>2, <2>1, <3>1 DEF Latest
  <2>2. CASE d # c
    <3>1. seenConfig'[d] = seenConfig[d] /\ configEvents'[d] = configEvents[d]
      BY <1>1, <1>2, <2>2 DEF StoreOK, CachesOK
    <3>2. Latest(seenConfig[d], configEvents[d]) = config
      BY <1>1 DEF CacheCurrent
    <3> QED
      BY <1>2, <3>1, <3>2
  <2> QED
    BY <2>1, <2>2
<1>13. CacheCurrent'
  BY <1>11, <1>12 DEF CacheCurrent
<1>14. EntriesKept
  <2>1. \A d \in Controllers : d # c =>
          /\ seenProfile'[d] = seenProfile[d]
          /\ profileEvents'[d] = profileEvents[d]
          /\ seenNamespace'[d] = seenNamespace[d]
          /\ namespaceEvents'[d] = namespaceEvents[d]
    BY <1>1, <1>2 DEF StoreOK, CachesOK
  <2> QED
    BY <1>5, <2>1 DEF EntriesKept
<1>15. \A d \in Controllers : Keeps(d)
  BY <1>1, <1>2, ControllerAssumption DEF Keeps, IdleWorker, ProcessesOK
<1>16. FreshCurrent'
  BY <1>1, <1>5, <1>14, <1>15, FreshKept
<1> QED
  BY <1>10, <1>13, <1>16 DEF IInv, CopiesAreCurrent

(***************************************************************************)
(* The worker.  First what the version check gives it: the copy it writes  *)
(* from is what is stored.                                                 *)
(***************************************************************************)
LEMMA FreshProfile ==
  ASSUME IInv, NEW c \in Controllers, worker[c].step # "idle",
         <<"profile", c, worker[c].key>> \in fresh
  PROVE  /\ profile[worker[c].key] = worker[c].profile
         /\ profile[worker[c].key] \in ProfileObject
<1> DEFINE p == worker[c].key
<1>1. ProcessesOK /\ CacheCurrent /\ FreshCurrent
  BY TypeParts DEF IInv, CopiesAreCurrent
<1>2. p \in Profiles /\ worker[c].profile \in ProfileObject
  BY <1>1, WorkerBusy
<1>3. profileEvents[c][p] = <<>> /\ worker[c].profile = seenProfile[c][p]
  BY <1>1, <1>2 DEF FreshCurrent
<1>4. Latest(seenProfile[c][p], profileEvents[c][p]) = profile[p]
  BY <1>1, <1>2 DEF CacheCurrent
<1> QED
  BY <1>2, <1>3, <1>4 DEF Latest

LEMMA FreshNamespace ==
  ASSUME IInv, NEW c \in Controllers, worker[c].step = "label",
         <<"namespace", c, worker[c].key>> \in fresh
  PROVE  LET stored == namespace[worker[c].key]
         IN /\ stored \in NamespaceObject
            /\ stored.owner = worker[c].profile.owner
            /\ worker[c].namespace = [stored EXCEPT !.labels =
                 SetNamespaceLabels(stored.labels, worker[c].defaults)]
<1> DEFINE p == worker[c].key
<1>1. StoreOK /\ ProcessesOK /\ CacheCurrent /\ FreshCurrent
  BY TypeParts DEF IInv, CopiesAreCurrent
<1>2. p \in Profiles
  BY <1>1, WorkerBusy
<1>3. /\ namespaceEvents[c][p] = <<>>
      /\ seenNamespace[c][p] # Nil
      /\ seenNamespace[c][p].owner = worker[c].profile.owner
      /\ worker[c].namespace = [seenNamespace[c][p] EXCEPT !.labels =
            SetNamespaceLabels(seenNamespace[c][p].labels, worker[c].defaults)]
  BY <1>1, <1>2 DEF FreshCurrent
<1>4. Latest(seenNamespace[c][p], namespaceEvents[c][p]) = namespace[p]
  BY <1>1, <1>2 DEF CacheCurrent
<1>5. namespace[p] = seenNamespace[c][p]
  BY <1>3, <1>4 DEF Latest
<1>6. namespace[p] \in NamespaceObject
  BY <1>1, <1>2, <1>3, <1>5 DEF StoreOK
<1> QED
  BY <1>3, <1>5, <1>6

LEMMA ReturnUnwrittenStep ==
  ASSUME IInv, NEW c \in Controllers, NEW error \in BOOLEAN,
         worker[c].step # "idle", ReturnUnwritten(c, error),
         faults' \in 0 .. MaxFaults
  PROVE  IInv'
<1>1. ProcessesOK /\ CountersOK
  BY TypeParts DEF IInv
<1>2. /\ Return(c, error)
      /\ fresh' = Released(c)
      /\ UNCHANGED <<profile, namespace, config, profileEvents,
                     namespaceEvents, configEvents, queue, uids, edits, restarts>>
      /\ UNCHANGED cacheVars
  BY DEF ReturnUnwritten, boundVars
<1>3. ProcessesOK' /\ \A d \in Controllers : Keeps(d)
  BY <1>1, <1>2, ReturnKeeps
<1>4. CountersOK'
  BY <1>1, <1>2 DEF CountersOK
<1>5. StoreUnchanged /\ fresh' \subseteq fresh
  BY <1>2 DEF StoreUnchanged, Released
<1> QED
  BY <1>2, <1>3, <1>4, <1>5, AfterNoWrite

(* The end of a write: Reconcile returns, or its answer is lost.            *)
LEMMA ReturnOrLose ==
  ASSUME IInv, NEW c \in Controllers, worker[c].step # "idle",
         \/ Return(c, FALSE) /\ UNCHANGED faults
         \/ LoseAnswer(c),
         UNCHANGED <<queue, boundVars>>
  PROVE  CountersOK' /\ ProcessesOK' /\ \A d \in Controllers : Keeps(d)
<1>1. ProcessesOK /\ CountersOK
  BY TypeParts DEF IInv
<1>2. PICK error \in BOOLEAN : Return(c, error)
  BY DEF LoseAnswer
<1>3. UNCHANGED queue
  OBVIOUS
<1>4. ProcessesOK' /\ \A d \in Controllers : Keeps(d)
  BY <1>1, <1>2, <1>3, ReturnKeeps
<1>5. UNCHANGED <<uids, edits, restarts>>
  BY DEF boundVars
<1>6. faults' \in 0 .. MaxFaults
  <2>1. faults \in 0 .. MaxFaults /\ MaxFaults \in Nat
    BY <1>1, ControllerAssumption DEF CountersOK
  <2>2. \/ faults' = faults
        \/ faults < MaxFaults /\ faults' = faults + 1
    BY DEF LoseAnswer
  <2> QED
    BY <2>1, <2>2
<1>7. CountersOK'
  BY <1>1, <1>5, <1>6 DEF CountersOK
<1> QED
  BY <1>4, <1>7

(* The same for a write that is followed by another step.                   *)
LEMMA ProceedOrLose ==
  ASSUME IInv, NEW c \in Controllers, worker[c].step # "idle",
         NEW step \in {"wait", "finalizer", "reject"},
         \/ Proceed(c, step) /\ UNCHANGED <<delayed, faults>>
         \/ LoseAnswer(c),
         UNCHANGED <<queue, boundVars>>
  PROVE  CountersOK' /\ ProcessesOK' /\ \A d \in Controllers : Keeps(d)
<1>1. ProcessesOK /\ CountersOK
  BY TypeParts DEF IInv
<1>2. CASE Proceed(c, step) /\ UNCHANGED <<delayed, faults>>
  <2>1. ProcessesOK' /\ \A d \in Controllers : Keeps(d)
    BY <1>1, <1>2, ProceedKeeps
  <2>2. CountersOK'
    BY <1>1, <1>2 DEF CountersOK, boundVars
  <2> QED
    BY <2>1, <2>2
<1>3. CASE LoseAnswer(c)
  BY <1>3, ReturnOrLose
<1> QED
  BY <1>2, <1>3

LEMMA UpdateProfileStep ==
  ASSUME IInv, NEW c \in Controllers, worker[c].step # "idle",
         <<"profile", c, worker[c].key>> \in fresh,
         NEW copy \in ProfileObject, UpdateProfile(worker[c].key, copy),
         \/ Return(c, FALSE) /\ UNCHANGED faults
         \/ LoseAnswer(c),
         UNCHANGED <<cacheVars, queue, boundVars>>
  PROVE  IInv'
<1> DEFINE p == worker[c].key
           new == [copy EXCEPT !.failed = profile[p].failed]
<1>1. ProcessesOK
  BY TypeParts DEF IInv
<1>2. p \in Profiles
  BY <1>1, WorkerBusy
<1>3. profile[p] \in ProfileObject
  BY FreshProfile
<1>4. new \in ProfileObject
  BY <1>3 DEF ProfileObject
<1>5. UNCHANGED cacheVars /\ UNCHANGED <<queue, boundVars>>
  OBVIOUS
<1>6. CountersOK' /\ ProcessesOK' /\ \A d \in Controllers : Keeps(d)
  BY <1>5, ReturnOrLose
<1>7. CASE new = profile[p]
  <2>1. StoreUnchanged /\ fresh' \subseteq fresh
    BY <1>7 DEF UpdateProfile, StoreUnchanged
  <2> QED
    BY <1>5, <1>6, <2>1, AfterNoWrite
<1>8. CASE new # profile[p]
  <2>1. PutProfile(p, Kept(new))
    BY <1>8 DEF UpdateProfile
  <2>2. Kept(new) \in ProfileObject \cup {Nil}
    BY <1>4, KeptType
  <2> QED
    BY <1>2, <1>5, <1>6, <2>1, <2>2, AfterProfileWrite
<1> QED
  BY <1>7, <1>8

LEMMA FindNamespaceStep ==
  ASSUME IInv, NEW c \in Controllers, FindNamespace(c)
  PROVE  IInv'
<1> DEFINE p == worker[c].key
           found == seenNamespace[c][p]
           labels == SetNamespaceLabels(found.labels, worker[c].defaults)
           w == [worker[c] EXCEPT !.step = "label",
                                  !.namespace = [found EXCEPT !.labels = labels]]
<1>1. StoreOK /\ CachesOK /\ CountersOK /\ ProcessesOK
      /\ CacheCurrent /\ FreshCurrent
  BY TypeParts DEF IInv, CopiesAreCurrent
<1>2. /\ worker[c].step = "namespace"
      /\ found # Nil
      /\ found.owner = worker[c].profile.owner
      /\ UNCHANGED <<profile, namespace, config, profileEvents,
                     namespaceEvents, configEvents, queue, delayed, faults,
                     uids, edits, restarts>>
      /\ UNCHANGED cacheVars
      /\ UNCHANGED <<seenProfile, seenNamespace, seenConfig>>
  BY DEF FindNamespace, boundVars, cacheVars
<1>3. p \in Profiles
  BY <1>1, <1>2, WorkerBusy
<1>4. CountersOK' /\ StoreUnchanged
  BY <1>1, <1>2 DEF CountersOK, StoreUnchanged
<1>5. CASE labels = found.labels
  <2>1. Proceed(c, "finalizer") /\ UNCHANGED fresh
    BY <1>5 DEF FindNamespace
  <2>2. ProcessesOK' /\ \A d \in Controllers : Keeps(d)
    BY <1>1, <1>2, <2>1, ProceedKeeps
  <2> QED
    BY <1>2, <1>4, <2>1, <2>2, AfterNoWrite
<1>6. CASE labels # found.labels
  <2>1. /\ worker' = [worker EXCEPT
              ![c].step = "label",
              ![c].namespace = [found EXCEPT !.labels = labels]]
        /\ \/ fresh' = fresh
           \/ /\ namespaceEvents[c][p] = <<>>
              /\ fresh' = fresh \cup {<<"namespace", c, p>>}
    BY <1>6 DEF FindNamespace
  <2>2. worker' = [worker EXCEPT ![c] = w]
    BY <1>1, <2>1 DEF ProcessesOK
  <2>3. worker[c] \in Worker /\ WorkerOK(worker[c])
    BY <1>1 DEF ProcessesOK
  <2>4. worker[c].defaults \in LabelMap
    BY <1>2, <2>3 DEF Worker, WorkerOK
  <2>5. found \in NamespaceObject
    BY <1>1, <1>2, <1>3 DEF CachesOK
  <2>6. labels \in LabelMap
    BY <2>4, <2>5, LabelsType DEF NamespaceObject
  <2>7. [found EXCEPT !.labels = labels] \in NamespaceObject
    BY <2>5, <2>6 DEF NamespaceObject
  <2>8. w \in Worker /\ WorkerOK(w)
    BY <1>2, <2>3, <2>7, NilIsNoObject DEF Worker, WorkerOK, Steps
  <2>9. ProcessesOK'
    BY <1>1, <1>2, <2>2, <2>8 DEF ProcessesOK
  <2>10. fresh' \subseteq Kinds \X Controllers \X Profiles
    <3>1. <<"namespace", c, p>> \in Kinds \X Controllers \X Profiles
      BY <1>3 DEF Kinds
    <3> QED
      BY <1>1, <2>1, <3>1 DEF StoreOK
  <2>11. StoreOK' /\ CachesOK' /\ CacheCurrent'
    BY <1>1, <1>2, <2>10 DEF StoreOK, CachesOK, CacheCurrent
  <2>12. /\ worker'[c].key = p
         /\ worker'[c].profile = worker[c].profile
         /\ worker'[c].defaults = worker[c].defaults
         /\ worker'[c].namespace = [found EXCEPT !.labels = labels]
         /\ \A d \in Controllers : d # c => worker'[d] = worker[d]
    BY <1>1, <2>2, <2>3 DEF ProcessesOK, Worker
  <2>13. ASSUME NEW d \in Controllers, NEW q \in Profiles,
                <<"profile", d, q>> \in fresh'
         PROVE  /\ profileEvents'[d][q] = <<>>
                /\ worker'[d].key = q => worker'[d].profile = seenProfile'[d][q]
    <3>1. <<"profile", d, q>> \in fresh
      BY <2>1, <2>13
    <3>2. /\ profileEvents[d][q] = <<>>
          /\ worker[d].key = q => worker[d].profile = seenProfile[d][q]
      BY <1>1, <3>1 DEF FreshCurrent
    <3> QED
      BY <1>2, <2>12, <3>2
  <2>14. ASSUME NEW d \in Controllers, NEW q \in Profiles,
                <<"namespace", d, q>> \in fresh'
         PROVE  /\ namespaceEvents'[d][q] = <<>>
                /\ worker'[d].key = q /\ worker'[d].step = "label" =>
                     /\ seenNamespace'[d][q] # Nil
                     /\ seenNamespace'[d][q].owner = worker'[d].profile.owner
                     /\ worker'[d].namespace =
                          [seenNamespace'[d][q] EXCEPT !.labels =
                             SetNamespaceLabels(seenNamespace'[d][q].labels,
                                                worker'[d].defaults)]
    <3>1. CASE d = c /\ q = p
      <4>1. namespaceEvents[c][p] = <<>>
        BY <1>1, <1>3, <2>1, <2>14, <3>1 DEF FreshCurrent
      <4> QED
        BY <1>2, <2>12, <3>1, <4>1
    <3>2. CASE d = c /\ q # p
      <4>1. <<"namespace", d, q>> \in fresh
        BY <2>1, <2>14, <3>2
      <4> QED
        BY <1>1, <1>2, <2>12, <3>2, <4>1 DEF FreshCurrent
    <3>3. CASE d # c
      <4>1. <<"namespace", d, q>> \in fresh
        BY <2>1, <2>14, <3>3
      <4>2. /\ namespaceEvents[d][q] = <<>>
            /\ worker[d].key = q /\ worker[d].step = "label" =>
                 /\ seenNamespace[d][q] # Nil
                 /\ seenNamespace[d][q].owner = worker[d].profile.owner
                 /\ worker[d].namespace =
                      [seenNamespace[d][q] EXCEPT !.labels =
                         SetNamespaceLabels(seenNamespace[d][q].labels,
                                            worker[d].defaults)]
        BY <1>1, <4>1 DEF FreshCurrent
      <4> QED
        BY <1>2, <2>12, <3>3, <4>2
    <3> QED
      BY <3>1, <3>2, <3>3
  <2>15. FreshCurrent'
    BY <2>13, <2>14 DEF FreshCurrent
  <2>16. TypeOK'
    BY <1>4, <2>9, <2>11 DEF TypeOK, StoreOK, CachesOK, CountersOK, ProcessesOK
  <2> QED
    BY <2>11, <2>15, <2>16 DEF IInv, CopiesAreCurrent
<1> QED
  BY <1>5, <1>6

LEMMA ReadStep ==
  ASSUME IInv, NEW c \in Controllers,
         \/ ReadConfig(c) \/ MissNamespace(c)
         \/ RejectNamespace(c) \/ WaitNamespace(c)
  PROVE  IInv'
<1>1. CachesOK /\ CountersOK /\ ProcessesOK
  BY TypeParts DEF IInv
<1>2. /\ worker[c].step # "idle"
      /\ UNCHANGED <<clusterVars, queue, delayed, faults, restarts>>
      /\ UNCHANGED <<queue, delayed>>
      /\ UNCHANGED cacheVars
  BY DEF ReadConfig, MissNamespace, RejectNamespace, WaitNamespace
<1>3. CountersOK' /\ StoreUnchanged /\ fresh' \subseteq fresh
  BY <1>1, <1>2 DEF CountersOK, StoreUnchanged, clusterVars
<1>4. worker[c] \in Worker /\ WorkerOK(worker[c])
  BY <1>1 DEF ProcessesOK
<1>5. CASE ReadConfig(c)
  <2> DEFINE w == [worker[c] EXCEPT !.step = "namespace",
                                    !.defaults = seenConfig[c]]
  <2>1. /\ worker[c].step = "config" /\ seenConfig[c] # Nil
        /\ worker' = [worker EXCEPT ![c] = w]
    BY <1>1, <1>5 DEF ReadConfig, ProcessesOK
  <2>2. seenConfig[c] \in LabelMap
    BY <1>1, <2>1 DEF CachesOK
  <2>3. w \in Worker /\ WorkerOK(w)
    BY <1>4, <2>1, <2>2 DEF Worker, WorkerOK, Steps
  <2>4. ProcessesOK' /\ \A d \in Controllers : Keeps(d)
    BY <1>1, <1>2, <1>4, <2>1, <2>3 DEF ProcessesOK, Keeps, Worker
  <2> QED
    BY <1>2, <1>3, <2>4, AfterNoWrite
<1>6. CASE MissNamespace(c)
  <2> DEFINE w == [worker[c] EXCEPT !.step = "create"]
  <2>1. worker[c].step = "namespace" /\ worker' = [worker EXCEPT ![c] = w]
    BY <1>1, <1>6 DEF MissNamespace, ProcessesOK
  <2>2. w \in Worker /\ WorkerOK(w)
    BY <1>4, <2>1 DEF Worker, WorkerOK, Steps
  <2>3. ProcessesOK' /\ \A d \in Controllers : Keeps(d)
    BY <1>1, <1>2, <1>4, <2>1, <2>2 DEF ProcessesOK, Keeps, Worker
  <2> QED
    BY <1>2, <1>3, <2>3, AfterNoWrite
<1>7. CASE RejectNamespace(c) \/ WaitNamespace(c)
  <2>1. PICK step \in {"finalizer", "reject"} : Proceed(c, step)
    BY <1>7 DEF RejectNamespace, WaitNamespace
  <2>2. ProcessesOK' /\ \A d \in Controllers : Keeps(d)
    BY <1>1, <1>2, <2>1, ProceedKeeps
  <2> QED
    BY <1>2, <1>3, <2>2, AfterNoWrite
<1> QED
  BY <1>5, <1>6, <1>7

LEMMA WriteStep ==
  ASSUME IInv, NEW c \in Controllers,
         \/ CreateNamespace(c) \/ UpdateLabels(c)
         \/ UpdateFinalizer(c) \/ RecordFailure(c)
  PROVE  IInv'
<1> DEFINE p == worker[c].key
<1>1. StoreOK /\ ProcessesOK
  BY TypeParts DEF IInv
<1>2. worker[c].step # "idle" /\ UNCHANGED cacheVars
      /\ UNCHANGED <<queue, boundVars>> /\ UNCHANGED <<cacheVars, queue, boundVars>>
  BY DEF CreateNamespace, UpdateLabels, UpdateFinalizer, RecordFailure
<1>3. p \in Profiles /\ worker[c].profile \in ProfileObject
  BY <1>1, <1>2, WorkerBusy
<1>4. worker[c] \in Worker /\ WorkerOK(worker[c])
  BY <1>1 DEF ProcessesOK
<1>5. CASE CreateNamespace(c)
  <2> DEFINE new == NewNamespace(worker[c].profile, worker[c].defaults)
  <2>1. worker[c].defaults \in LabelMap
    BY <1>4, <1>5 DEF CreateNamespace, Worker, WorkerOK
  <2>2. new \in NamespaceObject
    BY <1>3, <2>1, NewNamespaceType
  <2>3. CountersOK' /\ ProcessesOK' /\ \A d \in Controllers : Keeps(d)
    BY <1>2, <1>5, ProceedOrLose DEF CreateNamespace
  <2>4. PutNamespace(p, new)
    BY <1>5 DEF CreateNamespace
  <2> QED
    BY <1>2, <1>3, <2>2, <2>3, <2>4, AfterNamespaceWrite
<1>6. CASE UpdateLabels(c)
  <2>1. worker[c].namespace \in NamespaceObject
    BY <1>4, <1>6 DEF UpdateLabels, Worker, WorkerOK
  <2>2. CountersOK' /\ ProcessesOK' /\ \A d \in Controllers : Keeps(d)
    BY <1>2, <1>6, ProceedOrLose DEF UpdateLabels
  <2>3. PutNamespace(p, worker[c].namespace)
    BY <1>6 DEF UpdateLabels
  <2> QED
    BY <1>2, <1>3, <2>1, <2>2, <2>3, AfterNamespaceWrite
<1>7. CASE UpdateFinalizer(c)
  <2> DEFINE copy == [worker[c].profile EXCEPT !.finalizers =
                        WantedFinalizers(worker[c].profile)]
  <2>1. copy \in ProfileObject
    BY <1>3 DEF ProfileObject, WantedFinalizers, Finalizers
  <2>2. /\ <<"profile", c, p>> \in fresh
        /\ UpdateProfile(p, copy)
        /\ \/ Return(c, FALSE) /\ UNCHANGED faults
           \/ LoseAnswer(c)
    BY <1>7 DEF UpdateFinalizer
  <2> QED
    BY <1>2, <2>1, <2>2, UpdateProfileStep
<1>8. CASE RecordFailure(c)
  <2> DEFINE copy == [worker[c].profile EXCEPT !.failed = TRUE]
  <2>1. copy \in ProfileObject
    BY <1>3 DEF ProfileObject
  <2>2. /\ <<"profile", c, p>> \in fresh
        /\ UpdateProfile(p, copy)
        /\ \/ Return(c, FALSE) /\ UNCHANGED faults
           \/ LoseAnswer(c)
    BY <1>8 DEF RecordFailure
  <2> QED
    BY <1>2, <2>1, <2>2, UpdateProfileStep
<1> QED
  BY <1>5, <1>6, <1>7, <1>8

LEMMA UnwrittenStep ==
  ASSUME IInv, NEW c \in Controllers,
         \/ MissConfig(c) \/ KeepFinalizer(c) \/ Refused(c) \/ LoseRequest(c)
  PROVE  IInv'
<1>1. CountersOK
  BY TypeParts DEF IInv
<1>2. worker[c].step # "idle"
  BY DEF MissConfig, KeepFinalizer, Refused, LoseRequest, Writing
<1>3. PICK error \in BOOLEAN : ReturnUnwritten(c, error)
  BY DEF MissConfig, KeepFinalizer, Refused, LoseRequest
<1>4. faults' \in 0 .. MaxFaults
  <2>1. faults \in 0 .. MaxFaults /\ MaxFaults \in Nat
    BY <1>1, ControllerAssumption DEF CountersOK
  <2>2. \/ faults' = faults
        \/ faults < MaxFaults /\ faults' = faults + 1
    BY DEF MissConfig, KeepFinalizer, Refused, LoseRequest
  <2> QED
    BY <2>1, <2>2
<1> QED
  BY <1>2, <1>3, <1>4, ReturnUnwrittenStep

(***************************************************************************)
(* The invariant.                                                          *)
(***************************************************************************)
LEMMA InitIInv == Init => IInv
<1> SUFFICES ASSUME Init PROVE IInv
  OBVIOUS
<1>1. StoreOK
  BY EmptySeq DEF Init, ClusterInit, StoreOK
<1>2. CachesOK
  BY <1>1 DEF Init, StoreOK, CachesOK
<1>3. CountersOK
  BY ClusterAssumption, ControllerAssumption DEF Init, ClusterInit, CountersOK
<1>4. IdleWorker \in Worker /\ WorkerOK(IdleWorker)
  BY DEF IdleWorker, Worker, WorkerOK, Steps
<1>5. ProcessesOK
  BY <1>4 DEF Init, ProcessesOK
<1>6. CacheCurrent
  BY DEF Init, ClusterInit, CacheCurrent, Latest
<1>7. FreshCurrent
  BY DEF Init, ClusterInit, FreshCurrent
<1> QED
  BY <1>1, <1>2, <1>3, <1>5, <1>6, <1>7, TypeParts DEF IInv, CopiesAreCurrent

LEMMA NextIInv == IInv /\ [Next]_vars => IInv'
<1> SUFFICES ASSUME IInv, [Next]_vars PROVE IInv'
  OBVIOUS
<1>1. CASE ClusterAction
  <2>1. UNCHANGED controllerVars
    BY <1>1 DEF ClusterAction
  <2> QED
    BY <1>1, <2>1, UserStep, CollectorStep DEF ClusterAction
<1>2. ASSUME NEW c \in Controllers, ControllerAction(c)
      PROVE  IInv'
  <2>1. CASE Deliver(c)
    BY <2>1, DeliverProfileStep, DeliverNamespaceStep, DeliverConfigStep
       DEF Deliver
  <2>2. CASE \E p \in Profiles : Begin(c, p) \/ Requeue(c, p)
    BY <2>2, BeginStep, QueueStep
  <2>3. CASE WorkerStep(c)
    BY <2>3, FindNamespaceStep, ReadStep, WriteStep, UnwrittenStep DEF WorkerStep
  <2>4. CASE LoseRequest(c) \/ Resync(c) \/ Restart(c)
    BY <2>4, UnwrittenStep, QueueStep, RestartStep
  <2> QED
    BY <1>2, <2>1, <2>2, <2>3, <2>4 DEF ControllerAction
<1>3. CASE UNCHANGED vars
  <2>1. /\ UNCHANGED <<clusterVars, cacheVars, queue, delayed, worker, faults,
                       restarts>>
        /\ UNCHANGED cacheVars
    BY <1>3 DEF vars, controllerVars
  <2>2. CountersOK /\ ProcessesOK
    BY TypeParts DEF IInv
  <2>3. CountersOK' /\ ProcessesOK' /\ StoreUnchanged /\ fresh' \subseteq fresh
    BY <2>1, <2>2 DEF CountersOK, ProcessesOK, StoreUnchanged, clusterVars
  <2>4. \A c \in Controllers : Keeps(c)
    BY <2>1 DEF Keeps
  <2> QED
    BY <2>1, <2>3, <2>4, AfterNoWrite
<1> QED
  BY <1>1, <1>2, <1>3 DEF Next

(* The invariant holds of every reachable state.                            *)
THEOREM Invariant == Spec => []IInv
BY InitIInv, NextIInv, PTL DEF Spec

(* The types, and that a worker has what its step needs: Reconcile never    *)
(* uses a Config, a profile or a namespace it did not get.                  *)
THEOREM TypeCorrect == Spec => []TypeOK
<1>1. IInv => TypeOK
  BY DEF IInv
<1> QED
  BY <1>1, Invariant, PTL

(* The API server accepts no update from a stale copy, for any number of    *)
(* controllers, crashes, faults and undelivered events.                     *)
THEOREM CopiesCurrent == Spec => []CopiesAreCurrent
<1>1. IInv => CopiesAreCurrent
  BY DEF IInv
<1> QED
  BY <1>1, Invariant, PTL

(***************************************************************************)
(* Which step of a worker changes a namespace or a profile.                *)
(***************************************************************************)
LEMMA OneWorker ==
  ASSUME IInv, NEW d \in Controllers, ControllerAction(d),
         NEW c \in Controllers, c # d
  PROVE  worker'[c] = worker[c]
<1>1. worker \in [Controllers -> Worker]
  BY DEF IInv, TypeOK
<1>2. CASE Deliver(d)
  BY <1>2 DEF Deliver, DeliverProfile, DeliverNamespace, DeliverConfig
<1>3. CASE \E p \in Profiles : Begin(d, p) \/ Requeue(d, p)
  BY <1>1, <1>3 DEF Begin, Requeue
<1>4. CASE WorkerStep(d)
  <2>1. CASE \/ MissConfig(d) \/ KeepFinalizer(d) \/ Refused(d)
    BY <1>1, <2>1 DEF MissConfig, KeepFinalizer, Refused, ReturnUnwritten, Return
  <2>2. CASE \/ ReadConfig(d) \/ MissNamespace(d) \/ RejectNamespace(d)
             \/ WaitNamespace(d) \/ FindNamespace(d)
    BY <1>1, <2>2 DEF ReadConfig, MissNamespace, RejectNamespace, WaitNamespace,
                     FindNamespace, Proceed
  <2>3. CASE \/ CreateNamespace(d) \/ UpdateLabels(d)
             \/ UpdateFinalizer(d) \/ RecordFailure(d)
    BY <1>1, <2>3 DEF CreateNamespace, UpdateLabels, UpdateFinalizer,
                     RecordFailure, Proceed, LoseAnswer, Return
  <2> QED
    BY <1>4, <2>1, <2>2, <2>3 DEF WorkerStep
<1>5. CASE LoseRequest(d) \/ Resync(d) \/ Restart(d)
  BY <1>1, <1>5 DEF LoseRequest, ReturnUnwritten, Return, Resync, Restart
<1> QED
  BY <1>2, <1>3, <1>4, <1>5 DEF ControllerAction

(* Every other step of a controller leaves the stored objects alone.        *)
Writes(c) ==
  \/ CreateNamespace(c) \/ UpdateLabels(c)
  \/ UpdateFinalizer(c) \/ RecordFailure(c)

LEMMA OnlyWrites ==
  ASSUME NEW c \in Controllers, ControllerAction(c), ~Writes(c)
  PROVE  UNCHANGED <<profile, namespace>>
<1>1. CASE Deliver(c)
  BY <1>1 DEF Deliver, DeliverProfile, DeliverNamespace, DeliverConfig
<1>2. CASE \E p \in Profiles : Begin(c, p) \/ Requeue(c, p)
  BY <1>2 DEF Begin, Requeue, clusterVars
<1>3. CASE WorkerStep(c)
  <2>1. CASE \/ MissConfig(c) \/ KeepFinalizer(c) \/ Refused(c)
    BY <2>1 DEF MissConfig, KeepFinalizer, Refused, ReturnUnwritten
  <2>2. CASE \/ ReadConfig(c) \/ MissNamespace(c) \/ RejectNamespace(c)
             \/ WaitNamespace(c) \/ FindNamespace(c)
    BY <2>2 DEF ReadConfig, MissNamespace, RejectNamespace, WaitNamespace,
                FindNamespace, clusterVars
  <2> QED
    BY <1>3, <2>1, <2>2 DEF WorkerStep, Writes
<1>4. CASE LoseRequest(c) \/ Resync(c) \/ Restart(c)
  BY <1>4 DEF LoseRequest, ReturnUnwritten, Resync, Restart, clusterVars
<1> QED
  BY <1>1, <1>2, <1>3, <1>4 DEF ControllerAction

LEMMA WritingWorker ==
  ASSUME IInv, [Next]_vars, NEW c \in Controllers, worker'[c] # worker[c],
         ~UNCHANGED <<profile, namespace>>
  PROVE  Writes(c)
<1>1. ~UNCHANGED vars
  BY DEF vars, controllerVars
<1>2. ~ClusterAction
  BY DEF ClusterAction, controllerVars
<1>3. PICK d \in Controllers : ControllerAction(d)
  BY <1>1, <1>2 DEF Next
<1>4. c = d
  BY <1>3, OneWorker
<1> QED
  BY <1>3, <1>4, OnlyWrites

LEMMA ChangeIsUpdateLabels ==
  ASSUME IInv, [Next]_vars, NEW c \in Controllers, NEW p \in Profiles,
         ChangesNamespace(c, p)
  PROVE  /\ UpdateLabels(c)
         /\ p = worker[c].key
         /\ namespace'[p] = worker[c].namespace
<1>1. namespace \in [Profiles -> NamespaceObject \cup {Nil}]
  BY DEF IInv, TypeOK
<1>2. worker'[c] # worker[c] /\ namespace[p] # Nil /\ namespace'[p] # namespace[p]
  BY DEF ChangesNamespace
<1>3. Writes(c)
  BY <1>2, WritingWorker
<1>4. ~CreateNamespace(c)
  <2>1. SUFFICES ASSUME CreateNamespace(c) PROVE FALSE
    OBVIOUS
  <2>2. \E new : namespace' = [namespace EXCEPT ![worker[c].key] = new]
    BY <2>1 DEF CreateNamespace, PutNamespace
  <2>3. p # worker[c].key
    BY <1>2, <2>1 DEF CreateNamespace
  <2> QED
    BY <1>1, <1>2, <2>2, <2>3
<1>5. ~UpdateFinalizer(c) /\ ~RecordFailure(c)
  BY <1>2 DEF UpdateFinalizer, RecordFailure, UpdateProfile, PutProfile
<1>6. UpdateLabels(c)
  BY <1>3, <1>4, <1>5 DEF Writes
<1>7. namespace' = [namespace EXCEPT ![worker[c].key] = worker[c].namespace]
  BY <1>6 DEF UpdateLabels, PutNamespace
<1> QED
  BY <1>1, <1>2, <1>6, <1>7

LEMMA ChangeIsUpdateFinalizer ==
  ASSUME IInv, [Next]_vars, NEW c \in Controllers, NEW p \in Profiles,
         worker'[c] # worker[c], profile'[p] # profile[p]
  PROVE  /\ p = worker[c].key
         /\ profile[p] \in ProfileObject
         /\ profile'[p] = Kept([profile[p] EXCEPT !.finalizers =
                                  WantedFinalizers(profile[p])])
<1>1. profile \in [Profiles -> ProfileObject \cup {Nil}]
  BY DEF IInv, TypeOK
<1>2. Writes(c)
  BY WritingWorker
<1>3. ~CreateNamespace(c) /\ ~UpdateLabels(c)
  BY DEF CreateNamespace, UpdateLabels, PutNamespace
<1>4. /\ worker[c].step # "idle"
      /\ <<"profile", c, worker[c].key>> \in fresh
  BY <1>2, <1>3 DEF Writes, UpdateFinalizer, RecordFailure
<1> DEFINE stored == profile[worker[c].key]
<1>5. stored = worker[c].profile /\ stored \in ProfileObject
  BY <1>4, FreshProfile
<1>6. CASE RecordFailure(c)
  <2> DEFINE new == [[stored EXCEPT !.failed = TRUE] EXCEPT
                       !.failed = stored.failed]
  <2>1. new = stored
    BY <1>5 DEF ProfileObject
  <2>2. UNCHANGED profile
    BY <1>5, <1>6, <2>1 DEF RecordFailure, UpdateProfile
  <2> QED
    BY <2>2
<1>7. CASE UpdateFinalizer(c)
  <2> DEFINE copy == [stored EXCEPT !.finalizers = WantedFinalizers(stored)]
             new == [copy EXCEPT !.failed = stored.failed]
  <2>1. new = copy
    BY <1>5 DEF ProfileObject
  <2>2. UpdateProfile(worker[c].key, copy)
    BY <1>5, <1>7 DEF UpdateFinalizer
  <2>3. PutProfile(worker[c].key, Kept(copy))
    BY <2>1, <2>2 DEF UpdateProfile
  <2>4. profile' = [profile EXCEPT ![worker[c].key] = Kept(copy)]
    BY <2>3 DEF PutProfile
  <2>5. p = worker[c].key
    BY <1>1, <2>4
  <2> QED
    BY <1>1, <1>5, <2>4, <2>5
<1> QED
  BY <1>2, <1>3, <1>6, <1>7 DEF Writes

(***************************************************************************)
(* The action properties.                                                  *)
(***************************************************************************)
(* No namespace changes hands: what Reconcile writes to a namespace that    *)
(* exists it writes for the owner the namespace has at that moment, in any  *)
(* interleaving with users, other controllers, crashes and stale caches.    *)
THEOREM TakesNothingOver == Spec => NoTakeover
<1>1. IInv /\ [Next]_vars =>
        [\A c \in Controllers, p \in Profiles : ChangesNamespace(c, p) =>
           /\ p = worker[c].key
           /\ namespace[p].owner = worker[c].profile.owner
           /\ namespace'[p] = [namespace[p] EXCEPT !.labels = namespace'[p].labels]
        ]_vars
  <2> SUFFICES ASSUME IInv, [Next]_vars, NEW c \in Controllers,
                      NEW p \in Profiles, ChangesNamespace(c, p)
               PROVE  /\ p = worker[c].key
                      /\ namespace[p].owner = worker[c].profile.owner
                      /\ namespace'[p] = [namespace[p] EXCEPT
                                            !.labels = namespace'[p].labels]
    OBVIOUS
  <2>1. /\ UpdateLabels(c)
        /\ p = worker[c].key
        /\ namespace'[p] = worker[c].namespace
    BY ChangeIsUpdateLabels
  <2>2. worker[c].step = "label" /\ <<"namespace", c, worker[c].key>> \in fresh
    BY <2>1 DEF UpdateLabels
  <2>3. /\ namespace[p] \in NamespaceObject
        /\ namespace[p].owner = worker[c].profile.owner
        /\ worker[c].namespace = [namespace[p] EXCEPT !.labels =
             SetNamespaceLabels(namespace[p].labels, worker[c].defaults)]
    BY <2>1, <2>2, FreshNamespace
  <2> QED
    BY <2>1, <2>3 DEF NamespaceObject
<1> QED
  BY <1>1, Invariant, PTL DEF Spec, NoTakeover

(* The labels Reconcile writes differ from the stored ones only as the      *)
(* Config it read asks: empty defaults are removed, absent keys added.      *)
THEOREM LabelsFollowConfig == Spec => LabelsAsConfigured
<1>1. IInv /\ [Next]_vars =>
        [\A c \in Controllers, p \in Profiles : ChangesNamespace(c, p) =>
           \A k \in LabelKeys :
             LET default == worker[c].defaults[k]
                 old == namespace[p].labels[k]
                 new == namespace'[p].labels[k]
             IN new # old => \/ default = Empty /\ new = Unset
                             \/ old = Unset /\ new = default
        ]_vars
  <2> SUFFICES ASSUME IInv, [Next]_vars, NEW c \in Controllers,
                      NEW p \in Profiles, ChangesNamespace(c, p),
                      NEW k \in LabelKeys,
                      namespace'[p].labels[k] # namespace[p].labels[k]
               PROVE  \/ /\ worker[c].defaults[k] = Empty
                         /\ namespace'[p].labels[k] = Unset
                      \/ /\ namespace[p].labels[k] = Unset
                         /\ namespace'[p].labels[k] = worker[c].defaults[k]
    OBVIOUS
  <2>1. /\ UpdateLabels(c)
        /\ p = worker[c].key
        /\ namespace'[p] = worker[c].namespace
    BY ChangeIsUpdateLabels
  <2>2. worker[c].step = "label" /\ <<"namespace", c, worker[c].key>> \in fresh
    BY <2>1 DEF UpdateLabels
  <2>3. /\ namespace[p] \in NamespaceObject
        /\ worker[c].namespace = [namespace[p] EXCEPT !.labels =
             SetNamespaceLabels(namespace[p].labels, worker[c].defaults)]
    BY <2>1, <2>2, FreshNamespace
  <2>4. namespace'[p].labels
          = SetNamespaceLabels(namespace[p].labels, worker[c].defaults)
    BY <2>1, <2>3 DEF NamespaceObject
  <2> QED
    BY <2>4, LabelAssumption DEF SetNamespaceLabels
<1> QED
  BY <1>1, Invariant, PTL DEF Spec, LabelsAsConfigured

(* No update is lost: Reconcile changes nothing of the stored profile but   *)
(* its own finalizer, and in the direction the stored deletion mark asks.   *)
THEOREM ChangesOwnFinalizer == Spec => OwnFinalizerOnly
<1>1. IInv /\ [Next]_vars =>
        [\A c \in Controllers, p \in Profiles :
           worker'[c] # worker[c] /\ profile'[p] # profile[p] =>
             /\ p = worker[c].key
             /\ profile[p] # Nil
             /\ profile'[p] =
                  Kept([profile[p] EXCEPT !.finalizers =
                     IF profile[p].deleting
                       THEN profile[p].finalizers \ {"profile-finalizer"}
                       ELSE profile[p].finalizers \cup {"profile-finalizer"}])
        ]_vars
  <2> SUFFICES ASSUME IInv, [Next]_vars, NEW c \in Controllers,
                      NEW p \in Profiles, worker'[c] # worker[c],
                      profile'[p] # profile[p]
               PROVE  /\ p = worker[c].key
                      /\ profile[p] # Nil
                      /\ profile'[p] =
                           Kept([profile[p] EXCEPT !.finalizers =
                              IF profile[p].deleting
                                THEN profile[p].finalizers \ {"profile-finalizer"}
                                ELSE profile[p].finalizers
                                       \cup {"profile-finalizer"}])
    OBVIOUS
  <2>1. /\ p = worker[c].key
        /\ profile[p] \in ProfileObject
        /\ profile'[p] = Kept([profile[p] EXCEPT !.finalizers =
                                 WantedFinalizers(profile[p])])
    BY ChangeIsUpdateFinalizer
  <2> QED
    BY <2>1, NilIsNoObject DEF WantedFinalizers
<1> QED
  BY <1>1, Invariant, PTL DEF Spec, OwnFinalizerOnly
=============================================================================
