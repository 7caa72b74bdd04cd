--------------------------- MODULE SettlingProofs ---------------------------
(***************************************************************************)
(* Proof that no wake-up is lost in ProfileController (QuietIsSettled), for *)
(* any sets of profiles and controller processes, bounds, crashes and      *)
(* faults, where nobody makes namespaces by hand.  The invariant SInv says *)
(* of every controller and profile what will make Reconcile look at it     *)
(* again, or that it has nothing to do.                                    *)
(***************************************************************************)
EXTENDS ProfileControllerProofs

(* Reconcile of the instance, with what it finds and the defaults it reads, *)
(* would write nothing.                                                     *)
NothingToDo(instance, found, defaults) ==
  \/ instance = Nil
  \/ /\ defaults # Nil
     /\ found # Nil
     /\ \/ found.owner # instance.owner
        \/ /\ SetNamespaceLabels(found.labels, defaults) = found.labels
           /\ WantedFinalizers(instance) = instance.finalizers

(* The worker works on p and has read nothing that is no longer cached.  At *)
(* "wait" that is not needed: an event of the new namespace comes, or has   *)
(* come and queued the profile.                                             *)
Covered(w, p, instance, found, defaults) ==
  /\ w.key = p
  /\ w.profile = instance
  /\ \/ w.step \in {"config", "create", "label"}
     \/ w.step = "namespace" /\ w.defaults = defaults
     \/ /\ w.step = "finalizer"
        /\ defaults # Nil
        /\ found # Nil
        /\ SetNamespaceLabels(found.labels, defaults) = found.labels
     \/ /\ w.step = "reject"
        /\ defaults # Nil
        /\ found # Nil
        /\ found.owner # instance.owner

EventsCome(c, p) ==
  profileEvents[c][p] # <<>> \/ namespaceEvents[c][p] # <<>>

Minded(c, p) ==
  \/ p \in queue[c] \cup delayed[c]
  \/ NothingToDo(seenProfile[c][p], seenNamespace[c][p], seenConfig[c])
  \/ Covered(worker[c], p, seenProfile[c][p], seenNamespace[c][p],
             seenConfig[c])

Attention ==
  \A c \in Controllers, p \in Profiles : EventsCome(c, p) \/ Minded(c, p)

(* Every namespace is a controller's.                                       *)
OwnedOnly ==
  \A p \in Profiles : namespace[p] # Nil => Controlled(namespace[p])

(* Every event of a namespace queues its profile.                           *)
Before(seen, events, i) == IF i = 1 THEN seen ELSE events[i - 1]

AllWake(seen, events) ==
  \A i \in 1 .. Len(events) :
    Controlled(Before(seen, events, i)) \/ Controlled(events[i])

EventsWake ==
  \A c \in Controllers, p \in Profiles :
    AllWake(seenNamespace[c][p], namespaceEvents[c][p])

(* A profile that is being deleted has a finalizer.                         *)
Held(object) ==
  object # Nil /\ object.deleting => object.finalizers # {}

DeletionsHeld == \A p \in Profiles : Held(profile[p])

SInv == IInv /\ Attention /\ OwnedOnly /\ EventsWake /\ DeletionsHeld

(***************************************************************************)
(* Streams.                                                                *)
(***************************************************************************)
LEMMA AppendNotEmpty ==
  ASSUME NEW S, NEW events \in Seq(S), NEW new \in S
  PROVE  Append(events, new) # <<>>
<1>1. Len(Append(events, new)) = Len(events) + 1 /\ Len(events) \in Nat
  BY AppendProperties, LenProperties
<1>2. Len(<<>>) = 0
  BY EmptySeq
<1> QED
  BY <1>1, <1>2

LEMMA AppendWakes ==
  ASSUME NEW S, NEW seen, NEW events \in Seq(S), NEW new \in S,
         AllWake(seen, events),
         Controlled(Latest(seen, events)) \/ Controlled(new)
  PROVE  AllWake(seen, Append(events, new))
<1> DEFINE longer == Append(events, new)
           n == Len(events)
<1>1. /\ Len(longer) = n + 1
      /\ \A i \in 1 .. n : longer[i] = events[i]
      /\ longer[n + 1] = new
  BY AppendProperties
<1>2. n \in Nat
  BY LenProperties
<1>3. n = 0 <=> events = <<>>
  BY EmptySeq
<1>4. \A i \in 1 .. n : Controlled(Before(seen, events, i)) \/ Controlled(events[i])
  BY DEF AllWake
<1>5. Latest(seen, events) = IF n = 0 THEN seen ELSE events[n]
  BY <1>3 DEF Latest
<1> HIDE DEF longer, n
<1> SUFFICES ASSUME NEW i \in 1 .. n + 1
             PROVE  Controlled(Before(seen, longer, i)) \/ Controlled(longer[i])
  BY <1>1 DEF AllWake, longer
<1>6. CASE i = n + 1
  <2>1. Before(seen, longer, i) = Latest(seen, events)
    BY <1>1, <1>2, <1>5, <1>6 DEF Before
  <2> QED
    BY <1>1, <1>6, <2>1
<1>7. CASE i # n + 1
  <2>1. i \in 1 .. n /\ (i = 1 \/ i - 1 \in 1 .. n)
    BY <1>2, <1>7
  <2>2. Before(seen, longer, i) = Before(seen, events, i)
    BY <1>1, <2>1 DEF Before
  <2> QED
    BY <1>1, <1>4, <2>1, <2>2
<1> QED
  BY <1>6, <1>7

LEMMA TailWakes ==
  ASSUME NEW S, NEW seen, NEW events \in Seq(S), events # <<>>,
         AllWake(seen, events)
  PROVE  /\ Controlled(seen) \/ Controlled(Head(events))
         /\ AllWake(Head(events), Tail(events))
<1> DEFINE rest == Tail(events)
           n == Len(events)
<1>1. /\ Len(rest) = n - 1
      /\ \A i \in 1 .. Len(rest) : rest[i] = events[i + 1]
      /\ Head(events) = events[1]
  BY HeadTailProperties
<1>2. n \in Nat \ {0}
  BY EmptySeq, LenProperties
<1>3. \A i \in 1 .. n : Controlled(Before(seen, events, i)) \/ Controlled(events[i])
  BY DEF AllWake
<1>4. Controlled(seen) \/ Controlled(Head(events))
  BY <1>1, <1>2, <1>3 DEF Before
<1> HIDE DEF rest, n
<1>5. ASSUME NEW i \in 1 .. n - 1
      PROVE  Controlled(Before(Head(events), rest, i)) \/ Controlled(rest[i])
  <2>1. i + 1 \in 1 .. n /\ rest[i] = events[i + 1] /\ i + 1 # 1
        /\ (i + 1) - 1 = i
    BY <1>1, <1>2
  <2>2. Before(seen, events, i + 1) = events[i]
    BY <2>1 DEF Before
  <2>3. Before(Head(events), rest, i) = events[i]
    <3>1. CASE i = 1
      BY <1>1, <3>1 DEF Before
    <3>2. CASE i # 1
      <4>1. i - 1 \in 1 .. Len(rest) /\ (i - 1) + 1 = i
        BY <1>1, <1>2, <3>2
      <4> QED
        BY <1>1, <3>2, <4>1 DEF Before
    <3> QED
      BY <3>1, <3>2
  <2> QED
    BY <1>3, <2>1, <2>2, <2>3
<1> QED
  BY <1>1, <1>4, <1>5 DEF AllWake, rest

(* No stream that has events loses them all.                                *)
StreamsGrow ==
  \A c \in Controllers, p \in Profiles : EventsCome(c, p) => EventsCome(c, p)'

StoreInv == OwnedOnly /\ EventsWake /\ DeletionsHeld

LEMMA PutProfileSettles ==
  ASSUME IInv, StoreInv, NEW p \in Profiles,
         NEW new \in ProfileObject \cup {Nil}, Held(new), PutProfile(p, new),
         UNCHANGED cacheVars
  PROVE  /\ StoreInv'
         /\ StreamsGrow
         /\ \A c \in Controllers : EventsCome(c, p)'
<1> DEFINE Object == ProfileObject \cup {Nil}
<1>1. /\ profile' = [profile EXCEPT ![p] = new]
      /\ profileEvents' = [c \in Controllers |->
           [profileEvents[c] EXCEPT ![p] = Append(@, new)]]
      /\ UNCHANGED <<namespace, namespaceEvents>>
  BY DEF PutProfile
<1>2. StoreOK
  BY TypeParts DEF IInv
<1>3. ASSUME NEW c \in Controllers
      PROVE  profileEvents'[c][p] # <<>>
  <2>1. profileEvents'[c][p] = Append(profileEvents[c][p], new)
    BY <1>1, <1>2 DEF StoreOK
  <2>2. profileEvents[c][p] \in Seq(Object) /\ new \in Object
    BY <1>2 DEF StoreOK
  <2> HIDE DEF Object
  <2> QED
    BY <2>1, <2>2, AppendNotEmpty
<1>4. \A c \in Controllers, q \in Profiles : q # p =>
        profileEvents'[c][q] = profileEvents[c][q]
  BY <1>1, <1>2 DEF StoreOK
<1>5. DeletionsHeld'
  BY <1>1, <1>2 DEF StoreInv, DeletionsHeld, StoreOK
<1>6. OwnedOnly' /\ EventsWake'
  BY <1>1 DEF StoreInv, OwnedOnly, EventsWake, cacheVars
<1>7. StreamsGrow
  BY <1>1, <1>3, <1>4 DEF StreamsGrow, EventsCome
<1> QED
  BY <1>3, <1>5, <1>6, <1>7 DEF StoreInv, EventsCome

LEMMA PutNamespaceSettles ==
  ASSUME IInv, StoreInv, NEW p \in Profiles,
         NEW new \in NamespaceObject \cup {Nil}, new # Nil => Controlled(new),
         new # Nil \/ namespace[p] # Nil, PutNamespace(p, new),
         UNCHANGED cacheVars
  PROVE  /\ StoreInv'
         /\ StreamsGrow
         /\ \A c \in Controllers : EventsCome(c, p)'
<1> DEFINE Object == NamespaceObject \cup {Nil}
<1>1. /\ namespace' = [namespace EXCEPT ![p] = new]
      /\ namespaceEvents' = [c \in Controllers |->
           [namespaceEvents[c] EXCEPT ![p] = Append(@, new)]]
      /\ UNCHANGED <<profile, profileEvents>>
      /\ UNCHANGED <<seenProfile, seenNamespace, seenConfig>>
  BY DEF PutNamespace, cacheVars
<1>2. StoreOK /\ CacheCurrent
  BY TypeParts DEF IInv, CopiesAreCurrent
<1>3. ASSUME NEW c \in Controllers
      PROVE  /\ namespaceEvents'[c][p] # <<>>
             /\ AllWake(seenNamespace[c][p], namespaceEvents'[c][p])
  <2>1. namespaceEvents'[c][p] = Append(namespaceEvents[c][p], new)
    BY <1>1, <1>2 DEF StoreOK
  <2>2. namespaceEvents[c][p] \in Seq(Object) /\ new \in Object
    BY <1>2 DEF StoreOK
  <2>3. AllWake(seenNamespace[c][p], namespaceEvents[c][p])
    BY DEF StoreInv, EventsWake
  <2>4. Latest(seenNamespace[c][p], namespaceEvents[c][p]) = namespace[p]
    BY <1>2 DEF CacheCurrent
  <2>5. Controlled(namespace[p]) \/ Controlled(new)
    BY DEF StoreInv, OwnedOnly
  <2> HIDE DEF Object
  <2> QED
    BY <2>1, <2>2, <2>3, <2>4, <2>5, AppendNotEmpty, AppendWakes
<1>4. \A c \in Controllers, q \in Profiles : q # p =>
        namespaceEvents'[c][q] = namespaceEvents[c][q]
  BY <1>1, <1>2 DEF StoreOK
<1>5. EventsWake'
  <2> SUFFICES ASSUME NEW c \in Controllers, NEW q \in Profiles
               PROVE  AllWake(seenNamespace'[c][q], namespaceEvents'[c][q])
    BY DEF EventsWake
  <2>1. CASE q = p
    BY <1>1, <1>3, <2>1
  <2>2. CASE q # p
    <3>1. AllWake(seenNamespace[c][q], namespaceEvents[c][q])
      BY DEF StoreInv, EventsWake
    <3> QED
      BY <1>1, <1>4, <2>2, <3>1
  <2> QED
    BY <2>1, <2>2
<1>6. OwnedOnly'
  BY <1>1, <1>2 DEF StoreInv, OwnedOnly, StoreOK
<1>7. DeletionsHeld'
  BY <1>1 DEF StoreInv, DeletionsHeld
<1>8. StreamsGrow
  BY <1>1, <1>3, <1>4 DEF StreamsGrow, EventsCome
<1> QED
  BY <1>3, <1>5, <1>6, <1>7, <1>8 DEF StoreInv, EventsCome

LEMMA KeptIsHeld ==
  ASSUME NEW object \in ProfileObject
  PROVE  Held(Kept(object))
BY DEF Held, Kept

(***************************************************************************)
(* Users, administrators and the collector: they tell every controller.    *)
(***************************************************************************)
LEMMA OthersAttended ==
  ASSUME Attention, StreamsGrow, UNCHANGED controllerVars
  PROVE  Attention'
<1>1. UNCHANGED <<queue, delayed, worker, seenProfile, seenNamespace, seenConfig>>
  BY DEF controllerVars, cacheVars
<1>2. \A c \in Controllers, p \in Profiles : Minded(c, p)' <=> Minded(c, p)
  BY <1>1 DEF Minded
<1> QED
  BY <1>2 DEF Attention, StreamsGrow

LEMMA UserSettles ==
  ASSUME SInv, ~AdminNamespaces, UserAction, UNCHANGED controllerVars
  PROVE  StoreInv' /\ StreamsGrow
<1>1. UNCHANGED cacheVars
  BY DEF controllerVars
<1>2. StoreOK /\ CountersOK /\ IInv /\ StoreInv
  BY TypeParts DEF IInv, SInv, StoreInv
<1>3. ASSUME NEW p \in Profiles, profile[p] # Nil
      PROVE  profile[p] \in ProfileObject /\ Held(profile[p])
  BY <1>2, <1>3 DEF StoreOK, StoreInv, DeletionsHeld
<1>4. ASSUME NEW p \in Profiles, namespace[p] # Nil
      PROVE  namespace[p] \in NamespaceObject /\ namespace[p].controller # 0
  BY <1>2, <1>4 DEF StoreOK, StoreInv, OwnedOnly, Controlled
<1>5. ASSUME NEW p \in Profiles, NEW o \in Owners, CreateProfile(p, o)
      PROVE  StoreInv' /\ StreamsGrow
  <2> DEFINE new == [uid |-> uids + 1, owner |-> o, finalizers |-> {},
                     deleting |-> FALSE, failed |-> FALSE]
  <2>1. new \in ProfileObject /\ Held(new)
    BY <1>2 DEF ProfileObject, CountersOK, Held
  <2>2. PutProfile(p, new)
    BY <1>5 DEF CreateProfile
  <2> HIDE DEF new
  <2> QED
    BY <1>1, <1>2, <2>1, <2>2, PutProfileSettles
<1>6. ASSUME NEW p \in Profiles, NEW o \in Owners, ChangeOwner(p, o)
      PROVE  StoreInv' /\ StreamsGrow
  <2> DEFINE new == [profile[p] EXCEPT !.owner = o]
  <2>1. new \in ProfileObject /\ Held(new)
    BY <1>3, <1>6 DEF ChangeOwner, ProfileObject, Held
  <2>2. PutProfile(p, new)
    BY <1>6 DEF ChangeOwner
  <2> HIDE DEF new
  <2> QED
    BY <1>1, <1>2, <2>1, <2>2, PutProfileSettles
<1>7. ASSUME NEW p \in Profiles, NEW waiting \in {{}, {"foregroundDeletion"}},
             DeleteProfile(p, waiting)
      PROVE  StoreInv' /\ StreamsGrow
  <2> DEFINE new == [profile[p] EXCEPT !.deleting = TRUE,
                                       !.finalizers = @ \cup waiting]
  <2>1. new \in ProfileObject
    BY <1>3, <1>7 DEF DeleteProfile, ProfileObject, Finalizers
  <2>2. PutProfile(p, Kept(new))
    BY <1>7 DEF DeleteProfile
  <2> HIDE DEF new
  <2>3. Kept(new) \in ProfileObject \cup {Nil} /\ Held(Kept(new))
    BY <2>1, KeptType, KeptIsHeld
  <2> QED
    BY <1>1, <1>2, <2>2, <2>3, PutProfileSettles
<1>8. ASSUME NEW p \in Profiles, NEW o \in Owners \cup {Nil},
             AnnotateNamespace(p, o)
      PROVE  StoreInv' /\ StreamsGrow
  <2> DEFINE new == [namespace[p] EXCEPT !.owner = o]
  <2>1. new \in NamespaceObject /\ Controlled(new)
    BY <1>4, <1>8, NilIsNoObject DEF AnnotateNamespace, NamespaceObject, Controlled
  <2>2. PutNamespace(p, new)
    BY <1>8 DEF AnnotateNamespace
  <2> HIDE DEF new
  <2> QED
    BY <1>1, <1>2, <2>1, <2>2, NilIsNoObject, PutNamespaceSettles
<1>9. ASSUME NEW p \in Profiles, NEW k \in LabelKeys,
             NEW v \in LabelValues \cup {Empty, Unset}, LabelNamespace(p, k, v)
      PROVE  StoreInv' /\ StreamsGrow
  <2> DEFINE new == [namespace[p] EXCEPT !.labels[k] = v]
  <2>1. new \in NamespaceObject /\ Controlled(new)
    BY <1>4, <1>9, NilIsNoObject
       DEF LabelNamespace, NamespaceObject, LabelMap, Controlled
  <2>2. PutNamespace(p, new)
    BY <1>9 DEF LabelNamespace
  <2> HIDE DEF new
  <2> QED
    BY <1>1, <1>2, <2>1, <2>2, NilIsNoObject, PutNamespaceSettles
<1>10. ASSUME NEW p \in Profiles, DeleteNamespace(p)
       PROVE  StoreInv' /\ StreamsGrow
  <2> DEFINE new == [namespace[p] EXCEPT !.terminating = TRUE]
  <2>1. new \in NamespaceObject /\ Controlled(new)
    BY <1>4, <1>10, NilIsNoObject DEF DeleteNamespace, NamespaceObject, Controlled
  <2>2. PutNamespace(p, new)
    BY <1>10 DEF DeleteNamespace
  <2> HIDE DEF new
  <2> QED
    BY <1>1, <1>2, <2>1, <2>2, NilIsNoObject, PutNamespaceSettles
<1>11. ASSUME NEW new \in LabelMap \cup {Nil}, WriteConfig(new)
       PROVE  StoreInv' /\ StreamsGrow
  <2>1. UNCHANGED <<profile, namespace, profileEvents, namespaceEvents,
                    seenNamespace>>
    BY <1>1, <1>11 DEF WriteConfig, PutConfig, cacheVars
  <2> QED
    BY <1>2, <2>1 DEF StoreInv, OwnedOnly, EventsWake, DeletionsHeld,
                      StreamsGrow, EventsCome
<1>12. ~\E p \in Profiles, o \in Owners \cup {Nil}, labels \in LabelMap :
          CreateNamespaceByHand(p, o, labels)
  BY DEF CreateNamespaceByHand
<1> QED
  BY <1>5, <1>6, <1>7, <1>8, <1>9, <1>10, <1>11, <1>12 DEF UserAction

LEMMA CollectorSettles ==
  ASSUME SInv, NEW p \in Profiles, CollectorAction(p), UNCHANGED controllerVars
  PROVE  StoreInv' /\ StreamsGrow
<1>1. UNCHANGED cacheVars
  BY DEF controllerVars
<1>2. StoreOK /\ IInv /\ StoreInv
  BY TypeParts DEF IInv, SInv, StoreInv
<1>3. CASE CollectNamespace(p)
  <2> DEFINE new == [namespace[p] EXCEPT !.terminating = TRUE]
  <2>1. namespace[p] \in NamespaceObject /\ namespace[p].controller # 0
    BY <1>2, <1>3 DEF CollectNamespace, Collectable, StoreOK
  <2>2. new \in NamespaceObject /\ Controlled(new)
    BY <2>1, NilIsNoObject DEF NamespaceObject, Controlled
  <2>3. PutNamespace(p, new)
    BY <1>3 DEF CollectNamespace
  <2> HIDE DEF new
  <2> QED
    BY <1>1, <1>2, <2>2, <2>3, NilIsNoObject, PutNamespaceSettles
<1>4. CASE RemoveNamespace(p)
  BY <1>1, <1>2, <1>4, PutNamespaceSettles DEF RemoveNamespace
<1>5. CASE FinishForeground(p)
  <2> DEFINE new == [profile[p] EXCEPT !.finalizers =
                       @ \ {"foregroundDeletion"}]
  <2>1. profile[p] \in ProfileObject
    BY <1>2, <1>5 DEF FinishForeground, Finishable, StoreOK
  <2>2. new \in ProfileObject
    BY <2>1 DEF ProfileObject
  <2>3. PutProfile(p, Kept(new))
    BY <1>5 DEF FinishForeground
  <2> HIDE DEF new
  <2>4. Kept(new) \in ProfileObject \cup {Nil} /\ Held(Kept(new))
    BY <2>2, KeptType, KeptIsHeld
  <2> QED
    BY <1>1, <1>2, <2>3, <2>4, PutProfileSettles
<1> QED
  BY <1>3, <1>4, <1>5 DEF CollectorAction

(***************************************************************************)
(* Informers and the queue.                                                *)
(***************************************************************************)
LEMMA StoreUntouched ==
  ASSUME StoreInv, UNCHANGED <<profile, namespace, namespaceEvents,
                               seenNamespace>>
  PROVE  StoreInv'
BY DEF StoreInv, OwnedOnly, EventsWake, DeletionsHeld

LEMMA DeliverProfileSettles ==
  ASSUME SInv, NEW c \in Controllers, NEW p \in Profiles, DeliverProfile(c, p)
  PROVE  StoreInv' /\ Attention'
<1>1. StoreOK /\ CachesOK /\ ProcessesOK /\ StoreInv
  BY TypeParts DEF IInv, SInv, StoreInv
<1>2. /\ seenProfile' = [seenProfile EXCEPT ![c][p] = Head(profileEvents[c][p])]
      /\ profileEvents' = [profileEvents EXCEPT ![c][p] = Tail(@)]
      /\ queue' = [queue EXCEPT ![c] = @ \cup {p}]
      /\ UNCHANGED <<profile, namespace, namespaceEvents, seenNamespace,
                     seenConfig, delayed, worker>>
  BY DEF DeliverProfile, Enqueue
<1>3. StoreInv'
  BY <1>1, <1>2, StoreUntouched
<1>4. ASSUME NEW d \in Controllers, NEW q \in Profiles
      PROVE  EventsCome(d, q)' \/ Minded(d, q)'
  <2>1. CASE d = c /\ q = p
    BY <1>1, <1>2, <2>1 DEF Minded, ProcessesOK
  <2>2. CASE ~(d = c /\ q = p)
    <3>1. /\ seenProfile'[d][q] = seenProfile[d][q]
          /\ profileEvents'[d][q] = profileEvents[d][q]
          /\ queue[d] \subseteq queue'[d]
      BY <1>1, <1>2, <2>2 DEF StoreOK, CachesOK, ProcessesOK
    <3>2. EventsCome(d, q) \/ Minded(d, q)
      BY DEF SInv, Attention
    <3> QED
      BY <1>2, <3>1, <3>2 DEF EventsCome, Minded
  <2> QED
    BY <2>1, <2>2
<1> QED
  BY <1>3, <1>4 DEF Attention

LEMMA DeliverNamespaceSettles ==
  ASSUME SInv, NEW c \in Controllers, NEW p \in Profiles, DeliverNamespace(c, p)
  PROVE  StoreInv' /\ Attention'
<1> DEFINE Object == NamespaceObject \cup {Nil}
           old == seenNamespace[c][p]
           new == Head(namespaceEvents[c][p])
<1>1. StoreOK /\ CachesOK /\ ProcessesOK /\ StoreInv
  BY TypeParts DEF IInv, SInv, StoreInv
<1>2. /\ namespaceEvents[c][p] # <<>>
      /\ seenNamespace' = [seenNamespace EXCEPT ![c][p] = new]
      /\ namespaceEvents' = [namespaceEvents EXCEPT ![c][p] = Tail(@)]
      /\ queue' = [queue EXCEPT ![c] = @ \cup
                     (IF Controlled(old) \/ Controlled(new) THEN {p} ELSE {})]
      /\ UNCHANGED <<profile, namespace, profileEvents, seenProfile,
                     seenConfig, delayed, worker>>
  BY DEF DeliverNamespace, Enqueue
<1>3. /\ Controlled(old) \/ Controlled(new)
      /\ AllWake(new, Tail(namespaceEvents[c][p]))
  <2>1. namespaceEvents[c][p] \in Seq(Object)
    BY <1>1 DEF StoreOK
  <2>2. AllWake(old, namespaceEvents[c][p])
    BY <1>1 DEF StoreInv, EventsWake
  <2> HIDE DEF Object
  <2> QED
    BY <1>2, <2>1, <2>2, TailWakes
<1>4. queue' = [queue EXCEPT ![c] = @ \cup {p}]
  BY <1>2, <1>3
<1> HIDE DEF new, old
<1>5. /\ seenNamespace'[c][p] = new
      /\ namespaceEvents'[c][p] = Tail(namespaceEvents[c][p])
  BY <1>1, <1>2 DEF StoreOK, CachesOK
<1>6. \A d \in Controllers, q \in Profiles : ~(d = c /\ q = p) =>
        /\ seenNamespace'[d][q] = seenNamespace[d][q]
        /\ namespaceEvents'[d][q] = namespaceEvents[d][q]
  BY <1>1, <1>2 DEF StoreOK, CachesOK
<1>7. EventsWake'
  BY <1>1, <1>3, <1>5, <1>6 DEF StoreInv, EventsWake
<1>8. StoreInv'
  BY <1>1, <1>2, <1>7 DEF StoreInv, OwnedOnly, DeletionsHeld
<1>9. ASSUME NEW d \in Controllers, NEW q \in Profiles
      PROVE  EventsCome(d, q)' \/ Minded(d, q)'
  <2>1. CASE d = c /\ q = p
    BY <1>1, <1>4, <2>1 DEF Minded, ProcessesOK
  <2>2. CASE ~(d = c /\ q = p)
    <3>1. queue[d] \subseteq queue'[d]
      BY <1>1, <1>4 DEF ProcessesOK
    <3>2. EventsCome(d, q) \/ Minded(d, q)
      BY DEF SInv, Attention
    <3> QED
      BY <1>2, <1>6, <2>2, <3>1, <3>2 DEF EventsCome, Minded
  <2> QED
    BY <2>1, <2>2
<1> QED
  BY <1>8, <1>9 DEF Attention

LEMMA DeliverConfigSettles ==
  ASSUME SInv, NEW c \in Controllers, DeliverConfig(c)
  PROVE  StoreInv' /\ Attention'
<1>1. CachesOK /\ ProcessesOK /\ StoreInv
  BY TypeParts DEF IInv, SInv, StoreInv
<1>2. /\ seenConfig' = [seenConfig EXCEPT ![c] = Head(configEvents[c])]
      /\ queue' = [queue EXCEPT ![c] = @ \cup CachedProfiles(c)]
      /\ UNCHANGED <<profile, namespace, profileEvents, namespaceEvents,
                     seenProfile, seenNamespace, delayed, worker>>
  BY DEF DeliverConfig, Enqueue
<1>3. StoreInv'
  BY <1>1, <1>2, StoreUntouched
<1>4. ASSUME NEW d \in Controllers, NEW q \in Profiles
      PROVE  EventsCome(d, q)' \/ Minded(d, q)'
  <2>1. CASE d = c
    <3>1. seenProfile[c][q] = Nil \/ q \in queue'[c]
      BY <1>1, <1>2 DEF CachedProfiles, ProcessesOK
    <3> QED
      BY <1>2, <2>1, <3>1 DEF Minded, NothingToDo
  <2>2. CASE d # c
    <3>1. seenConfig'[d] = seenConfig[d] /\ queue'[d] = queue[d]
      BY <1>1, <1>2, <2>2 DEF CachesOK, ProcessesOK
    <3>2. EventsCome(d, q) \/ Minded(d, q)
      BY DEF SInv, Attention
    <3> QED
      BY <1>2, <3>1, <3>2 DEF EventsCome, Minded
  <2> QED
    BY <2>1, <2>2
<1> QED
  BY <1>3, <1>4 DEF Attention

LEMMA QueueSettles ==
  ASSUME SInv, NEW c \in Controllers,
         Resync(c) \/ \E p \in Profiles : Requeue(c, p)
  PROVE  StoreInv' /\ Attention'
<1>1. ProcessesOK /\ StoreInv
  BY TypeParts DEF IInv, SInv, StoreInv
<1>2. /\ UNCHANGED <<clusterVars, cacheVars, worker>>
      /\ UNCHANGED <<seenProfile, seenNamespace, seenConfig>>
      /\ \A d \in Controllers :
           queue[d] \cup delayed[d] \subseteq queue'[d] \cup delayed'[d]
  BY <1>1 DEF Resync, Requeue, Enqueue, ProcessesOK, cacheVars
<1>3. StoreInv'
  BY <1>1, <1>2, StoreUntouched DEF clusterVars
<1>4. Attention'
  BY <1>2 DEF SInv, Attention, EventsCome, Minded, clusterVars
<1> QED
  BY <1>3, <1>4

LEMMA BeginSettles ==
  ASSUME SInv, NEW c \in Controllers, NEW p \in Profiles, Begin(c, p)
  PROVE  StoreInv' /\ Attention'
<1>1. ProcessesOK /\ StoreInv
  BY TypeParts DEF IInv, SInv, StoreInv
<1>2. /\ worker[c].step = "idle"
      /\ queue' = [queue EXCEPT ![c] = @ \ {p}]
      /\ UNCHANGED <<profile, namespace, profileEvents, namespaceEvents, delayed>>
      /\ UNCHANGED <<seenProfile, seenNamespace, seenConfig>>
  BY DEF Begin, cacheVars
<1>3. StoreInv'
  BY <1>1, <1>2, StoreUntouched
<1>4. Minded(c, p)'
  <2>1. CASE seenProfile[c][p] = Nil
    BY <1>2, <2>1 DEF Minded, NothingToDo
  <2>2. CASE seenProfile[c][p] # Nil
    <3>1. worker'[c] = Started(p, seenProfile[c][p])
      BY <1>1, <2>2 DEF Begin, ProcessesOK
    <3> QED
      BY <1>2, <3>1 DEF Minded, Covered, Started
  <2> QED
    BY <2>1, <2>2
<1>5. ASSUME NEW d \in Controllers, NEW q \in Profiles, ~(d = c /\ q = p)
      PROVE  EventsCome(d, q)' \/ Minded(d, q)'
  <2>1. q \in queue[d] => q \in queue'[d]
    BY <1>1, <1>2, <1>5 DEF ProcessesOK
  <2>2. CASE d = c
    <3>1. worker[c].key = Nil
      BY <1>1, <1>2 DEF ProcessesOK, WorkerOK
    <3>2. worker[c].key # q
      BY <3>1, ControllerAssumption
    <3>3. EventsCome(d, q) \/ Minded(d, q)
      BY DEF SInv, Attention
    <3> QED
      BY <1>2, <2>1, <2>2, <3>2, <3>3 DEF EventsCome, Minded, Covered
  <2>3. CASE d # c
    <3>1. worker'[d] = worker[d]
      BY <1>1, <2>3 DEF Begin, ProcessesOK
    <3>2. EventsCome(d, q) \/ Minded(d, q)
      BY DEF SInv, Attention
    <3> QED
      BY <1>2, <2>1, <3>1, <3>2 DEF EventsCome, Minded
  <2> QED
    BY <2>2, <2>3
<1> QED
  BY <1>3, <1>4, <1>5 DEF Attention

LEMMA RestartSettles ==
  ASSUME SInv, NEW c \in Controllers, Restart(c)
  PROVE  StoreInv' /\ Attention'
<1>1. StoreOK /\ CachesOK /\ ProcessesOK /\ StoreInv
  BY TypeParts DEF IInv, SInv, StoreInv
<1>2. /\ seenProfile' = [seenProfile EXCEPT ![c] = profile]
      /\ seenNamespace' = [seenNamespace EXCEPT ![c] = namespace]
      /\ seenConfig' = [seenConfig EXCEPT ![c] = config]
      /\ profileEvents' = [profileEvents EXCEPT ![c] = [p \in Profiles |-> <<>>]]
      /\ namespaceEvents' = [namespaceEvents EXCEPT ![c] =
                               [p \in Profiles |-> <<>>]]
      /\ queue' = [queue EXCEPT ![c] = {p \in Profiles :
                      profile[p] # Nil \/ Controlled(namespace[p])}]
      /\ delayed' = [delayed EXCEPT ![c] = {}]
      /\ worker' = [worker EXCEPT ![c] = IdleWorker]
      /\ UNCHANGED <<profile, namespace>>
  BY DEF Restart
<1>3. \A d \in Controllers : d # c =>
        /\ seenProfile'[d] = seenProfile[d]
        /\ seenNamespace'[d] = seenNamespace[d]
        /\ seenConfig'[d] = seenConfig[d]
        /\ profileEvents'[d] = profileEvents[d]
        /\ namespaceEvents'[d] = namespaceEvents[d]
        /\ queue'[d] = queue[d]
        /\ delayed'[d] = delayed[d]
        /\ worker'[d] = worker[d]
  BY <1>1, <1>2 DEF StoreOK, CachesOK, ProcessesOK
<1>4. EventsWake'
  <2> SUFFICES ASSUME NEW d \in Controllers, NEW q \in Profiles
               PROVE  AllWake(seenNamespace'[d][q], namespaceEvents'[d][q])
    BY DEF EventsWake
  <2>1. CASE d = c
    <3>1. namespaceEvents'[d][q] = <<>>
      BY <1>1, <1>2, <2>1 DEF StoreOK
    <3>2. Len(<<>>) = 0
      BY EmptySeq
    <3> QED
      BY <3>1, <3>2 DEF AllWake
  <2>2. CASE d # c
    BY <1>1, <1>3, <2>2 DEF StoreInv, EventsWake
  <2> QED
    BY <2>1, <2>2
<1>5. StoreInv'
  BY <1>1, <1>2, <1>4 DEF StoreInv, OwnedOnly, DeletionsHeld
<1>6. ASSUME NEW d \in Controllers, NEW q \in Profiles
      PROVE  EventsCome(d, q)' \/ Minded(d, q)'
  <2>1. CASE d = c
    <3>1. seenProfile'[c][q] = profile[q]
      BY <1>1, <1>2 DEF CachesOK
    <3>2. profile[q] # Nil => q \in queue'[c]
      BY <1>1, <1>2 DEF ProcessesOK
    <3> QED
      BY <2>1, <3>1, <3>2 DEF Minded, NothingToDo
  <2>2. CASE d # c
    <3>1. EventsCome(d, q) \/ Minded(d, q)
      BY DEF SInv, Attention
    <3> QED
      BY <1>3, <2>2, <3>1 DEF EventsCome, Minded
  <2> QED
    BY <2>1, <2>2
<1> QED
  BY <1>5, <1>6 DEF Attention

(***************************************************************************)
(* The worker: only the profile it works on is to be looked at.            *)
(***************************************************************************)
LEMMA WorkerAttends ==
  ASSUME SInv, NEW c \in Controllers, NEW p \in Profiles, worker[c].key = p,
         UNCHANGED <<cacheVars, queue>>, StreamsGrow,
         \A d \in Controllers : /\ delayed[d] \subseteq delayed'[d]
                                /\ d # c => worker'[d] = worker[d],
         EventsCome(c, p)' \/ Minded(c, p)'
  PROVE  Attention'
<1>1. UNCHANGED <<queue, seenProfile, seenNamespace, seenConfig>>
  BY DEF cacheVars
<1> SUFFICES ASSUME NEW d \in Controllers, NEW q \in Profiles
             PROVE  EventsCome(d, q)' \/ Minded(d, q)'
  BY DEF Attention
<1>2. EventsCome(d, q) \/ Minded(d, q)
  BY DEF SInv, Attention
<1>3. EventsCome(d, q) => EventsCome(d, q)'
  BY DEF StreamsGrow
<1>4. CASE d # c
  <2>1. Minded(d, q) => Minded(d, q)'
    BY <1>1, <1>4 DEF Minded
  <2> QED
    BY <1>2, <1>3, <2>1
<1>5. CASE d = c /\ q # p
  <2>1. Minded(c, q) => Minded(c, q)'
    BY <1>1, <1>5 DEF Minded, Covered
  <2> QED
    BY <1>2, <1>3, <1>5, <2>1
<1>6. CASE d = c /\ q = p
  BY <1>6
<1> QED
  BY <1>4, <1>5, <1>6

LEMMA ReturnAttends ==
  ASSUME ProcessesOK, NEW c \in Controllers, NEW p \in Profiles,
         worker[c].key = p, NEW error \in BOOLEAN, Return(c, error)
  PROVE  /\ \A d \in Controllers : /\ delayed[d] \subseteq delayed'[d]
                                   /\ d # c => worker'[d] = worker[d]
         /\ error => Minded(c, p)'
<1>2. delayed \in [Controllers -> SUBSET Profiles]
      /\ worker \in [Controllers -> Worker]
  BY DEF ProcessesOK
<1>3. \A d \in Controllers : d # c => worker'[d] = worker[d]
  BY <1>2 DEF Return
<1>4. \A d \in Controllers : delayed[d] \subseteq delayed'[d]
  BY <1>2 DEF Return
<1>5. error => p \in delayed'[c]
  BY <1>2 DEF Return
<1> QED
  BY <1>3, <1>4, <1>5 DEF Minded

LEMMA ProceedAttends ==
  ASSUME ProcessesOK, NEW c \in Controllers, NEW step, Proceed(c, step)
  PROVE  /\ worker'[c].key = worker[c].key
         /\ worker'[c].profile = worker[c].profile
         /\ worker'[c].step = step
         /\ \A d \in Controllers : d # c => worker'[d] = worker[d]
BY DEF ProcessesOK, Worker, Proceed

(* A return that writes nothing, after an error or with nothing to do.      *)
LEMMA UnwrittenSettles ==
  ASSUME SInv, NEW c \in Controllers,
         MissConfig(c) \/ KeepFinalizer(c) \/ Refused(c) \/ LoseRequest(c)
  PROVE  StoreInv' /\ Attention'
<1>1. ProcessesOK /\ StoreInv
  BY TypeParts DEF IInv, SInv, StoreInv
<1>2. worker[c].step # "idle"
  BY DEF MissConfig, KeepFinalizer, Refused, LoseRequest, Writing
<1>3. PICK p \in Profiles : worker[c].key = p
  BY <1>1, <1>2, WorkerBusy
<1>4. PICK error \in BOOLEAN : /\ ReturnUnwritten(c, error)
                               /\ error \/ KeepFinalizer(c)
  BY DEF MissConfig, KeepFinalizer, Refused, LoseRequest
<1>5. /\ Return(c, error)
      /\ UNCHANGED <<profile, namespace, profileEvents, namespaceEvents>>
      /\ UNCHANGED <<cacheVars, queue>>
      /\ UNCHANGED <<seenProfile, seenNamespace, seenConfig>>
  BY <1>4 DEF ReturnUnwritten, cacheVars
<1>6. StoreInv'
  BY <1>1, <1>5, StoreUntouched
<1>7. /\ \A d \in Controllers : /\ delayed[d] \subseteq delayed'[d]
                                /\ d # c => worker'[d] = worker[d]
      /\ error => Minded(c, p)'
  BY <1>1, <1>5, <1>3, ReturnAttends
<1>8. ASSUME KeepFinalizer(c)
      PROVE  EventsCome(c, p)' \/ Minded(c, p)'
  <2>1. /\ worker[c].step = "finalizer"
        /\ WantedFinalizers(worker[c].profile) = worker[c].profile.finalizers
    BY <1>8 DEF KeepFinalizer, Writing
  <2>2. EventsCome(c, p) \/ Minded(c, p)
    BY <1>3 DEF SInv, Attention
  <2>3. ASSUME Covered(worker[c], p, seenProfile[c][p], seenNamespace[c][p],
                       seenConfig[c])
        PROVE  NothingToDo(seenProfile[c][p], seenNamespace[c][p], seenConfig[c])
    BY <2>1, <2>3 DEF Covered, NothingToDo
  <2>4. queue[c] \cup delayed[c] \subseteq queue'[c] \cup delayed'[c]
    BY <1>5, <1>7
  <2> QED
    BY <1>5, <2>2, <2>3, <2>4 DEF EventsCome, Minded
<1>9. StreamsGrow
  BY <1>5 DEF StreamsGrow, EventsCome
<1>10. Attention'
  BY <1>4, <1>5, <1>7, <1>3, <1>8, <1>9, WorkerAttends
<1> QED
  BY <1>6, <1>10

(* The steps that read the cache.                                           *)
LEMMA ReadSettles ==
  ASSUME SInv, NEW c \in Controllers,
         \/ ReadConfig(c) \/ MissNamespace(c) \/ RejectNamespace(c)
         \/ FindNamespace(c) \/ WaitNamespace(c)
  PROVE  StoreInv' /\ Attention'
<1>1. ProcessesOK /\ StoreInv
  BY TypeParts DEF IInv, SInv, StoreInv
<1>2. /\ worker[c].step # "idle"
      /\ UNCHANGED <<profile, namespace, profileEvents, namespaceEvents, delayed>>
      /\ UNCHANGED <<cacheVars, queue>>
      /\ UNCHANGED <<seenProfile, seenNamespace, seenConfig>>
  BY DEF ReadConfig, MissNamespace, RejectNamespace, FindNamespace,
         WaitNamespace, clusterVars, cacheVars
<1>3. StoreInv'
  BY <1>1, <1>2, StoreUntouched
<1>4. StreamsGrow
  BY <1>2 DEF StreamsGrow, EventsCome
<1>5. worker[c] \in Worker /\ WorkerOK(worker[c])
  BY <1>1 DEF ProcessesOK
<1> DEFINE w == worker'[c]
<1>6. PICK p \in Profiles : worker[c].key = p
  BY <1>1, <1>2, WorkerBusy
<1>7. EventsCome(c, p) \/ Minded(c, p)
  BY <1>5 DEF SInv, Attention
<1>8. ASSUME \A d \in Controllers : d # c => worker'[d] = worker[d],
             Covered(worker[c], p, seenProfile[c][p], seenNamespace[c][p],
                     seenConfig[c]) =>
               Covered(w, p, seenProfile[c][p], seenNamespace[c][p],
                       seenConfig[c])
      PROVE  Attention'
  <2>1. EventsCome(c, p)' \/ Minded(c, p)'
    BY <1>2, <1>7, <1>8 DEF EventsCome, Minded
  <2>2. \A d \in Controllers : /\ delayed[d] \subseteq delayed'[d]
                               /\ d # c => worker'[d] = worker[d]
    BY <1>2, <1>8
  <2> QED
    BY <1>2, <1>4, <1>6, <2>1, <2>2, WorkerAttends
<1>9. CASE ReadConfig(c)
  <2>1. /\ w = [worker[c] EXCEPT !.step = "namespace", !.defaults = seenConfig[c]]
        /\ \A d \in Controllers : d # c => worker'[d] = worker[d]
    BY <1>1, <1>9 DEF ReadConfig, ProcessesOK
  <2>2. /\ w.key = worker[c].key /\ w.profile = worker[c].profile
        /\ w.step = "namespace" /\ w.defaults = seenConfig[c]
    BY <1>5, <2>1 DEF Worker
  <2> QED
    BY <1>3, <1>6, <1>8, <2>1, <2>2 DEF Covered
<1>10. CASE MissNamespace(c)
  <2>1. /\ w = [worker[c] EXCEPT !.step = "create"]
        /\ \A d \in Controllers : d # c => worker'[d] = worker[d]
    BY <1>1, <1>10 DEF MissNamespace, ProcessesOK
  <2>2. w.key = worker[c].key /\ w.profile = worker[c].profile /\ w.step = "create"
    BY <1>5, <2>1 DEF Worker
  <2> QED
    BY <1>3, <1>6, <1>8, <2>1, <2>2 DEF Covered
<1>11. CASE RejectNamespace(c)
  <2>1. /\ worker[c].step = "namespace"
        /\ seenNamespace[c][p] # Nil
        /\ seenNamespace[c][p].owner # worker[c].profile.owner
        /\ Proceed(c, "reject")
    BY <1>6, <1>11 DEF RejectNamespace
  <2>2. /\ w.key = worker[c].key /\ w.profile = worker[c].profile
        /\ w.step = "reject"
        /\ \A d \in Controllers : d # c => worker'[d] = worker[d]
    BY <1>1, <2>1, ProceedAttends
  <2>3. worker[c].defaults # Nil
    BY <1>5, <2>1 DEF WorkerOK
  <2> QED
    BY <1>3, <1>6, <1>8, <2>1, <2>2, <2>3 DEF Covered
<1>12. CASE FindNamespace(c)
  <2> DEFINE found == seenNamespace[c][p]
             labels == SetNamespaceLabels(found.labels, worker[c].defaults)
  <2>1. worker[c].step = "namespace" /\ found # Nil
    BY <1>6, <1>12 DEF FindNamespace
  <2>2. CASE labels = found.labels
    <3>1. Proceed(c, "finalizer")
      BY <1>6, <1>12, <2>2 DEF FindNamespace
    <3>2. /\ w.key = worker[c].key /\ w.profile = worker[c].profile
          /\ w.step = "finalizer"
          /\ \A d \in Controllers : d # c => worker'[d] = worker[d]
      BY <1>1, <3>1, ProceedAttends
    <3>3. worker[c].defaults # Nil
      BY <1>5, <2>1 DEF WorkerOK
    <3> QED
      BY <1>3, <1>6, <1>8, <2>1, <2>2, <3>2, <3>3 DEF Covered
  <2>3. CASE labels # found.labels
    <3>1. worker' = [worker EXCEPT
               ![c].step = "label",
               ![c].namespace = [found EXCEPT !.labels = labels]]
      BY <1>6, <1>12, <2>3 DEF FindNamespace
    <3> HIDE DEF found, labels
    <3>2. /\ w.key = worker[c].key /\ w.profile = worker[c].profile
          /\ w.step = "label"
          /\ \A d \in Controllers : d # c => worker'[d] = worker[d]
      BY <1>1, <1>5, <3>1 DEF ProcessesOK, Worker
    <3> QED
      BY <1>3, <1>6, <1>8, <3>2 DEF Covered
  <2> QED
    BY <2>2, <2>3
<1>13. CASE WaitNamespace(c)
  <2>1. /\ worker[c].step = "wait"
        /\ \E step : Proceed(c, step)
    BY <1>13 DEF WaitNamespace
  <2>2. \A d \in Controllers : d # c => worker'[d] = worker[d]
    BY <1>1, <2>1, ProceedAttends
  <2> QED
    BY <1>3, <1>6, <1>8, <2>1, <2>2 DEF Covered
<1> QED
  BY <1>3, <1>9, <1>10, <1>11, <1>12, <1>13

(* The end of a write keeps every other profile attended.                   *)
LEMMA WriteEnds ==
  ASSUME ProcessesOK, NEW c \in Controllers, worker[c].step # "idle",
         \/ \E step : Proceed(c, step) /\ UNCHANGED delayed
         \/ \E error \in BOOLEAN : Return(c, error)
  PROVE  \A d \in Controllers : /\ delayed[d] \subseteq delayed'[d]
                                /\ d # c => worker'[d] = worker[d]
<1>1. PICK p \in Profiles : worker[c].key = p
  BY WorkerBusy
<1> QED
  BY <1>1, ProceedAttends, ReturnAttends

(* A namespace is created for the profile, or its labels are changed: the   *)
(* event of it will queue the profile.                                      *)
LEMMA NamespaceWriteSettles ==
  ASSUME SInv, NEW c \in Controllers, CreateNamespace(c) \/ UpdateLabels(c)
  PROVE  StoreInv' /\ Attention'
<1>1. StoreOK /\ ProcessesOK /\ IInv /\ StoreInv
  BY TypeParts DEF IInv, SInv, StoreInv
<1>2. /\ worker[c].step # "idle"
      /\ UNCHANGED <<cacheVars, queue>>
      /\ UNCHANGED cacheVars
  BY DEF CreateNamespace, UpdateLabels
<1>3. PICK p \in Profiles : worker[c].key = p
  BY <1>1, <1>2, WorkerBusy
<1>4. worker[c] \in Worker /\ WorkerOK(worker[c]) /\ worker[c].profile \in ProfileObject
  BY <1>1, <1>2, WorkerBusy DEF ProcessesOK
<1>5. PICK new \in NamespaceObject : PutNamespace(p, new) /\ Controlled(new)
  <2>1. CASE CreateNamespace(c)
    <3> DEFINE new == NewNamespace(worker[c].profile, worker[c].defaults)
    <3>1. worker[c].defaults \in LabelMap
      BY <1>4, <2>1 DEF CreateNamespace, Worker, WorkerOK
    <3>2. new \in NamespaceObject
      BY <1>4, <3>1, NewNamespaceType
    <3>3. new.controller # 0
      BY <1>4 DEF NewNamespace, ProfileObject
    <3>4. PutNamespace(p, new)
      BY <1>3, <2>1 DEF CreateNamespace
    <3> HIDE DEF new
    <3> QED
      BY <3>2, <3>3, <3>4, NilIsNoObject DEF Controlled
  <2>2. CASE UpdateLabels(c)
    <3> DEFINE new == worker[c].namespace
    <3>1. worker[c].step = "label" /\ <<"namespace", c, worker[c].key>> \in fresh
      BY <2>2 DEF UpdateLabels
    <3>2. /\ namespace[p] \in NamespaceObject
          /\ new = [namespace[p] EXCEPT !.labels =
               SetNamespaceLabels(namespace[p].labels, worker[c].defaults)]
      BY <1>1, <1>3, <3>1, FreshNamespace
    <3>3. namespace[p].controller # 0
      BY <1>1, <3>2, NilIsNoObject DEF StoreInv, OwnedOnly, Controlled
    <3>4. new \in NamespaceObject
      BY <1>4, <3>1 DEF Worker, WorkerOK
    <3>5. new.controller # 0
      BY <3>2, <3>3 DEF NamespaceObject
    <3>6. PutNamespace(p, new)
      BY <1>3, <2>2 DEF UpdateLabels
    <3> HIDE DEF new
    <3> QED
      BY <3>4, <3>5, <3>6, NilIsNoObject DEF Controlled
  <2> QED
    BY <2>1, <2>2
<1>6. StoreInv' /\ StreamsGrow /\ EventsCome(c, p)'
  BY <1>1, <1>2, <1>5, NilIsNoObject, PutNamespaceSettles
<1>7. \/ \E step : Proceed(c, step) /\ UNCHANGED delayed
      \/ \E error \in BOOLEAN : Return(c, error)
  BY DEF CreateNamespace, UpdateLabels, LoseAnswer
<1>8. \A d \in Controllers : /\ delayed[d] \subseteq delayed'[d]
                             /\ d # c => worker'[d] = worker[d]
  BY <1>1, <1>2, <1>7, WriteEnds
<1>9. Attention'
  BY <1>2, <1>3, <1>6, <1>8, WorkerAttends
<1> QED
  BY <1>6, <1>9

(* A finalizer is written, which an event tells, or the failure of a        *)
(* rejected profile, which changes nothing and leaves nothing to do.        *)
LEMMA ProfileWriteSettles ==
  ASSUME SInv, NEW c \in Controllers, UpdateFinalizer(c) \/ RecordFailure(c)
  PROVE  StoreInv' /\ Attention'
<1>1. StoreOK /\ ProcessesOK /\ IInv /\ StoreInv
  BY TypeParts DEF IInv, SInv, StoreInv
<1>2. /\ worker[c].step # "idle"
      /\ <<"profile", c, worker[c].key>> \in fresh
      /\ UNCHANGED <<cacheVars, queue>>
      /\ UNCHANGED cacheVars
      /\ UNCHANGED <<queue, seenProfile, seenNamespace, seenConfig>>
      /\ \E error \in BOOLEAN : Return(c, error)
  BY DEF UpdateFinalizer, RecordFailure, LoseAnswer, cacheVars
<1>3. PICK p \in Profiles : worker[c].key = p
  BY <1>1, <1>2, WorkerBusy
<1>4. profile[p] = worker[c].profile /\ profile[p] \in ProfileObject
  BY <1>1, <1>2, <1>3, FreshProfile
<1>5. \A d \in Controllers : /\ delayed[d] \subseteq delayed'[d]
                             /\ d # c => worker'[d] = worker[d]
  BY <1>1, <1>2, WriteEnds
<1>6. CASE UpdateFinalizer(c)
  <2> DEFINE copy == [profile[p] EXCEPT !.finalizers =
                        WantedFinalizers(profile[p])]
             new == [copy EXCEPT !.failed = profile[p].failed]
  <2>1. new = copy /\ copy.finalizers = WantedFinalizers(profile[p])
    BY <1>4 DEF ProfileObject
  <2>2. worker[c].step = "finalizer" /\ Writing(c) /\ UpdateProfile(p, copy)
    BY <1>3, <1>4, <1>6 DEF UpdateFinalizer
  <2>3. WantedFinalizers(profile[p]) # profile[p].finalizers
    BY <1>4, <2>2 DEF Writing
  <2>4. copy # profile[p]
    BY <2>1, <2>3
  <2>5. PutProfile(p, Kept(copy))
    BY <2>1, <2>2, <2>4 DEF UpdateProfile
  <2>6. WantedFinalizers(profile[p]) \in SUBSET Finalizers
    BY <1>4 DEF WantedFinalizers, ProfileObject, Finalizers
  <2>7. copy \in ProfileObject
    BY <1>4, <2>6 DEF ProfileObject
  <2> HIDE DEF copy
  <2>8. Kept(copy) \in ProfileObject \cup {Nil} /\ Held(Kept(copy))
    BY <2>7, KeptType, KeptIsHeld
  <2>9. StoreInv' /\ StreamsGrow /\ EventsCome(c, p)'
    BY <1>1, <1>2, <2>5, <2>8, PutProfileSettles
  <2>10. Attention'
    BY <1>2, <1>3, <1>5, <2>9, WorkerAttends
  <2> QED
    BY <2>9, <2>10
<1>7. CASE RecordFailure(c)
  <2> DEFINE copy == [profile[p] EXCEPT !.failed = TRUE]
             new == [copy EXCEPT !.failed = profile[p].failed]
  <2>1. new = profile[p]
    BY <1>4 DEF ProfileObject
  <2>2. worker[c].step = "reject" /\ UpdateProfile(p, copy)
    BY <1>3, <1>4, <1>7 DEF RecordFailure
  <2>3. UNCHANGED <<profile, namespace, profileEvents, namespaceEvents>>
    BY <2>1, <2>2 DEF UpdateProfile
  <2>4. StoreInv' /\ StreamsGrow
    BY <1>1, <1>2, <2>3, StoreUntouched DEF StreamsGrow, EventsCome
  <2>5. EventsCome(c, p) \/ Minded(c, p)
    BY DEF SInv, Attention
  <2>6. ASSUME Covered(worker[c], p, seenProfile[c][p], seenNamespace[c][p],
                       seenConfig[c])
        PROVE  NothingToDo(seenProfile[c][p], seenNamespace[c][p], seenConfig[c])
    BY <2>2, <2>6 DEF Covered, NothingToDo
  <2>7. queue[c] \cup delayed[c] \subseteq queue'[c] \cup delayed'[c]
    BY <1>2, <1>5
  <2>8. EventsCome(c, p)' \/ Minded(c, p)'
    BY <1>2, <2>3, <2>5, <2>6, <2>7 DEF EventsCome, Minded
  <2>9. Attention'
    BY <1>2, <1>3, <1>5, <2>4, <2>8, WorkerAttends
  <2> QED
    BY <2>4, <2>9
<1> QED
  BY <1>6, <1>7

(***************************************************************************)
(* The invariant.                                                          *)
(***************************************************************************)
LEMMA InitSInv == Init => SInv
<1> SUFFICES ASSUME Init PROVE SInv
  OBVIOUS
<1>1. IInv
  BY InitIInv
<1>2. Attention
  BY DEF Init, ClusterInit, Attention, Minded, NothingToDo
<1>3. OwnedOnly /\ DeletionsHeld
  BY DEF Init, ClusterInit, OwnedOnly, DeletionsHeld, Held
<1>4. EventsWake
  BY EmptySeq DEF Init, ClusterInit, EventsWake, AllWake
<1> QED
  BY <1>1, <1>2, <1>3, <1>4 DEF SInv

LEMMA NextSInv ==
  ASSUME ~AdminNamespaces, SInv, [Next]_vars
  PROVE  SInv'
<1>1. IInv'
  BY NextIInv DEF SInv
<1>2. CASE ClusterAction
  <2>1. UNCHANGED controllerVars
    BY <1>2 DEF ClusterAction
  <2>2. StoreInv' /\ StreamsGrow
    BY <1>2, <2>1, UserSettles, CollectorSettles DEF ClusterAction
  <2>3. Attention'
    BY <2>1, <2>2, OthersAttended DEF SInv
  <2> QED
    BY <1>1, <2>2, <2>3 DEF SInv, StoreInv
<1>3. ASSUME NEW c \in Controllers, ControllerAction(c)
      PROVE  SInv'
  <2>1. StoreInv' /\ Attention'
    <3>1. CASE Deliver(c)
      BY <3>1, DeliverProfileSettles, DeliverNamespaceSettles,
         DeliverConfigSettles DEF Deliver
    <3>2. CASE \E p \in Profiles : Begin(c, p) \/ Requeue(c, p)
      BY <3>2, BeginSettles, QueueSettles
    <3>3. CASE WorkerStep(c)
      BY <3>3, UnwrittenSettles, ReadSettles, NamespaceWriteSettles,
         ProfileWriteSettles DEF WorkerStep
    <3>4. CASE LoseRequest(c) \/ Resync(c) \/ Restart(c)
      BY <3>4, UnwrittenSettles, QueueSettles, RestartSettles
    <3> QED
      BY <1>3, <3>1, <3>2, <3>3, <3>4 DEF ControllerAction
  <2> QED
    BY <1>1, <2>1 DEF SInv, StoreInv
<1>4. CASE UNCHANGED vars
  <2>1. UNCHANGED <<profile, namespace, profileEvents, namespaceEvents, queue,
                    delayed, worker, seenProfile, seenNamespace, seenConfig>>
    BY <1>4 DEF vars, clusterVars, controllerVars, cacheVars
  <2>2. StoreInv'
    BY <2>1, StoreUntouched DEF SInv, StoreInv
  <2>3. Attention'
    BY <2>1 DEF SInv, Attention, EventsCome, Minded
  <2> QED
    BY <1>1, <2>2, <2>3 DEF SInv, StoreInv
<1> QED
  BY <1>2, <1>3, <1>4 DEF Next

(* What a quiet state leaves of it: with no event to come, the caches show   *)
(* what is stored, and every controller has nothing to do there.            *)
LEMMA QuietSettled ==
  ASSUME Controllers # {}, SInv
  PROVE  QuietIsSettled
<1> SUFFICES ASSUME Quiescent, NEW p \in Profiles
             PROVE  Settled(p)
  BY DEF QuietIsSettled
<1>1. PICK c \in Controllers : TRUE
  OBVIOUS
<1>2. /\ worker[c] = IdleWorker
      /\ queue[c] = {} /\ delayed[c] = {}
      /\ configEvents[c] = <<>>
      /\ profileEvents[c][p] = <<>> /\ namespaceEvents[c][p] = <<>>
      /\ ~Collectable(p) /\ ~Finishable(p)
      /\ namespace[p] # Nil => ~namespace[p].terminating
  BY <1>1 DEF Quiescent
<1>3. StoreOK /\ CacheCurrent
  BY TypeParts DEF SInv, IInv, CopiesAreCurrent
<1>4. /\ seenProfile[c][p] = profile[p]
      /\ seenNamespace[c][p] = namespace[p]
      /\ seenConfig[c] = config
  BY <1>1, <1>2, <1>3 DEF CacheCurrent, Latest
<1>5. worker[c].key # p
  BY <1>2, ControllerAssumption DEF IdleWorker
<1>6. NothingToDo(profile[p], namespace[p], config)
  BY <1>1, <1>2, <1>4, <1>5 DEF SInv, Attention, EventsCome, Minded, Covered
<1>7. CASE profile[p] = Nil
  BY <1>2, <1>7 DEF Settled, Controlled, Collectable, OwnerAlive
<1>8. CASE profile[p] # Nil /\ Foreign(p)
  BY <1>8 DEF Settled
<1>9. CASE profile[p] # Nil /\ ~Foreign(p)
  <2>1. /\ config # Nil /\ namespace[p] # Nil
        /\ SetNamespaceLabels(namespace[p].labels, config) = namespace[p].labels
        /\ WantedFinalizers(profile[p]) = profile[p].finalizers
    BY <1>6, <1>9 DEF NothingToDo, Foreign
  <2>2. /\ profile[p] \in ProfileObject
        /\ namespace[p] \in NamespaceObject
        /\ config \in LabelMap
    BY <1>3, <1>9, <2>1 DEF StoreOK
  <2>3. Conforms(namespace[p].labels, config)
    BY <2>1, <2>2, LabelsConform DEF NamespaceObject
  <2>4. ~profile[p].deleting
    <3> SUFFICES ASSUME profile[p].deleting PROVE FALSE
      OBVIOUS
    <3>1. "profile-finalizer" \notin profile[p].finalizers
      BY <2>1 DEF WantedFinalizers
    <3>2. profile[p].finalizers # {}
      BY <1>9 DEF SInv, DeletionsHeld, Held
    <3>3. "foregroundDeletion" \in profile[p].finalizers
      BY <2>2, <3>1, <3>2 DEF ProfileObject, Finalizers
    <3>4. OwnerAlive(p)
      BY <1>2, <1>9, <3>3 DEF Finishable
    <3>5. namespace[p].controller # 0
      BY <2>2, <3>4 DEF OwnerAlive, ProfileObject
    <3> QED
      BY <1>2, <2>1, <3>3, <3>4, <3>5 DEF Collectable, Blocking
  <2>5. "profile-finalizer" \in profile[p].finalizers
    BY <2>1, <2>4 DEF WantedFinalizers
  <2> QED
    BY <1>2, <1>9, <2>1, <2>3, <2>4, <2>5 DEF Settled
<1> QED
  BY <1>7, <1>8, <1>9

(* No wake-up is lost: with a controller, and namespaces that only           *)
(* controllers make, whenever everything is quiet every profile is settled, *)
(* after any crashes, faults, edits and interleaving.  A namespace made by  *)
(* hand is what it takes to break it: its events wake nobody.               *)
THEOREM NoWakeupLost ==
  ASSUME Controllers # {}, ~AdminNamespaces
  PROVE  Spec => []QuietIsSettled
<1>1. SInv /\ [Next]_vars => SInv'
  BY NextSInv
<1>2. SInv => QuietIsSettled
  BY QuietSettled
<1> QED
  BY InitSInv, <1>1, <1>2, PTL DEF Spec
=============================================================================
