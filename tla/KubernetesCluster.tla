------------------------- MODULE KubernetesCluster -------------------------
(***************************************************************************)
(* What the profile controller runs against: the objects the API server    *)
(* stores, the watch streams it keeps per controller process, the users    *)
(* and administrators that edit the objects, and the garbage collector.    *)
(* A Profile is cluster scoped and its namespace has its name, so both are *)
(* indexed by Profiles.  The one Config named "config" is its map of       *)
(* default namespace labels.                                               *)
(***************************************************************************)
EXTENDS Naturals, Sequences, NamespaceLabels

CONSTANTS
  Profiles,         \* names of profiles, and of their namespaces
  Owners,           \* users a profile or a namespace can belong to
  Controllers,      \* running controller processes
  Nil,              \* no such object
  MaxEdits,         \* bound: edits made by users and administrators
  MaxLag,           \* bound: versions a cache is behind, per object
  AdminNamespaces   \* whether administrators also create namespaces by hand

Finalizers == {"profile-finalizer", "foregroundDeletion"}

(* uid tells a profile from an earlier one of the same name.  failed is a   *)
(* Failed entry in status.conditions.                                       *)
ProfileObject ==
  [uid : Nat \ {0}, owner : Owners, finalizers : SUBSET Finalizers,
   deleting : BOOLEAN, failed : BOOLEAN]

(* owner is the annotation "owner"; controller is the uid in the controller *)
(* reference, 0 if there is none.                                           *)
NamespaceObject ==
  [owner : Owners \cup {Nil}, labels : LabelMap, controller : Nat,
   terminating : BOOLEAN]

ASSUME ClusterAssumption ==
  /\ Nil \notin ProfileObject \cup NamespaceObject \cup LabelMap \cup Owners
  /\ MaxEdits \in Nat
  /\ MaxLag \in Nat \ {0}
  /\ AdminNamespaces \in BOOLEAN

VARIABLES
  profile,          \* profile[p]: the stored Profile p or Nil
  namespace,        \* namespace[p]: the stored Namespace p or Nil
  config,           \* the stored default labels or Nil
  profileEvents,    \* profileEvents[c][p]: versions of p not yet seen by c
  namespaceEvents,  \* the same for namespaces
  configEvents,     \* configEvents[c]: the same for the Config
  fresh,            \* <<kind, c, p>>: the copy c works on has the stored
                    \* resourceVersion
  uids,             \* uids given out so far
  edits             \* edits made so far

clusterVars == <<profile, namespace, config, profileEvents, namespaceEvents,
                 configEvents, fresh, uids, edits>>

Kinds == {"profile", "namespace"}

ClusterInit ==
  /\ profile = [p \in Profiles |-> Nil]
  /\ namespace = [p \in Profiles |-> Nil]
  /\ config \in LabelMap \cup {Nil}
  /\ profileEvents = [c \in Controllers |-> [p \in Profiles |-> <<>>]]
  /\ namespaceEvents = [c \in Controllers |-> [p \in Profiles |-> <<>>]]
  /\ configEvents = [c \in Controllers |-> <<>>]
  /\ fresh = {}
  /\ uids = 0
  /\ edits = 0

(***************************************************************************)
(* The API server.  A write stores the object, sends it to every watch and *)
(* makes every copy of the object stale.  (A write waits for the watches   *)
(* that are MaxLag versions behind: that keeps the state space finite.)    *)
(***************************************************************************)
Outdated(kind, p) == {kind} \X Controllers \X {p}

PutProfile(p, new) ==
  /\ \A c \in Controllers : Len(profileEvents[c][p]) < MaxLag
  /\ profile' = [profile EXCEPT ![p] = new]
  /\ profileEvents' = [c \in Controllers |->
       [profileEvents[c] EXCEPT ![p] = Append(@, new)]]
  /\ fresh' = fresh \ Outdated("profile", p)
  /\ UNCHANGED <<namespace, config, namespaceEvents, configEvents>>

PutNamespace(p, new) ==
  /\ \A c \in Controllers : Len(namespaceEvents[c][p]) < MaxLag
  /\ namespace' = [namespace EXCEPT ![p] = new]
  /\ namespaceEvents' = [c \in Controllers |->
       [namespaceEvents[c] EXCEPT ![p] = Append(@, new)]]
  /\ fresh' = fresh \ Outdated("namespace", p)
  /\ UNCHANGED <<profile, config, profileEvents, configEvents>>

PutConfig(new) ==
  /\ \A c \in Controllers : Len(configEvents[c]) < MaxLag
  /\ config' = new
  /\ configEvents' = [c \in Controllers |-> Append(configEvents[c], new)]
  /\ UNCHANGED <<profile, namespace, profileEvents, namespaceEvents, fresh>>

(* A profile that is being deleted disappears with its last finalizer.      *)
Kept(object) ==
  IF object.deleting /\ object.finalizers = {} THEN Nil ELSE object

(* An update through the main resource: status is a subresource of every    *)
(* version of the CRD, so the stored conditions stay; a write that changes  *)
(* nothing is not stored.                                                   *)
UpdateProfile(p, copy) ==
  LET new == [copy EXCEPT !.failed = profile[p].failed]
  IN IF new = profile[p]
       THEN UNCHANGED <<profile, namespace, config, profileEvents,
                        namespaceEvents, configEvents, fresh>>
       ELSE PutProfile(p, Kept(new))

(***************************************************************************)
(* Users and administrators.                                               *)
(***************************************************************************)
Edit ==
  /\ edits < MaxEdits
  /\ edits' = edits + 1

CreateProfile(p, owner) ==
  /\ Edit
  /\ profile[p] = Nil
  /\ PutProfile(p, [uid |-> uids + 1, owner |-> owner, finalizers |-> {},
                    deleting |-> FALSE, failed |-> FALSE])
  /\ uids' = uids + 1

ChangeOwner(p, owner) ==
  /\ Edit
  /\ profile[p] # Nil
  /\ profile[p].owner # owner
  /\ PutProfile(p, [profile[p] EXCEPT !.owner = owner])
  /\ UNCHANGED uids

DeleteProfile(p, waiting) ==
  /\ Edit
  /\ profile[p] # Nil
  /\ ~profile[p].deleting
  /\ PutProfile(p, Kept([profile[p] EXCEPT !.deleting = TRUE,
                                           !.finalizers = @ \cup waiting]))
  /\ UNCHANGED uids

CreateNamespaceByHand(p, owner, labels) ==
  /\ AdminNamespaces
  /\ Edit
  /\ namespace[p] = Nil
  /\ PutNamespace(p, [owner |-> owner, labels |-> labels, controller |-> 0,
                      terminating |-> FALSE])
  /\ UNCHANGED uids

AnnotateNamespace(p, owner) ==
  /\ Edit
  /\ namespace[p] # Nil
  /\ namespace[p].owner # owner
  /\ PutNamespace(p, [namespace[p] EXCEPT !.owner = owner])
  /\ UNCHANGED uids

LabelNamespace(p, key, value) ==
  /\ Edit
  /\ namespace[p] # Nil
  /\ namespace[p].labels[key] # value
  /\ PutNamespace(p, [namespace[p] EXCEPT !.labels[key] = value])
  /\ UNCHANGED uids

DeleteNamespace(p) ==
  /\ Edit
  /\ namespace[p] # Nil
  /\ ~namespace[p].terminating
  /\ PutNamespace(p, [namespace[p] EXCEPT !.terminating = TRUE])
  /\ UNCHANGED uids

WriteConfig(new) ==
  /\ Edit
  /\ config # new
  /\ PutConfig(new)
  /\ UNCHANGED uids

UserAction ==
  \/ \E p \in Profiles, o \in Owners : CreateProfile(p, o) \/ ChangeOwner(p, o)
  \/ \E p \in Profiles, waiting \in {{}, {"foregroundDeletion"}} :
       DeleteProfile(p, waiting)
  \/ \E p \in Profiles, o \in Owners \cup {Nil}, labels \in LabelMap :
       CreateNamespaceByHand(p, o, labels)
  \/ \E p \in Profiles, o \in Owners \cup {Nil} : AnnotateNamespace(p, o)
  \/ \E p \in Profiles, k \in LabelKeys, v \in LabelValues \cup {Empty, Unset} :
       LabelNamespace(p, k, v)
  \/ \E p \in Profiles : DeleteNamespace(p)
  \/ \E new \in LabelMap \cup {Nil} : WriteConfig(new)

(***************************************************************************)
(* The garbage collector and the namespace controller.                     *)
(***************************************************************************)
OwnerAlive(p) ==
  profile[p] # Nil /\ profile[p].uid = namespace[p].controller

Blocking(p) ==
  /\ OwnerAlive(p)
  /\ profile[p].deleting
  /\ "foregroundDeletion" \in profile[p].finalizers

(* A dependent whose owner is gone or waits for it to go first is deleted.  *)
Collectable(p) ==
  /\ namespace[p] # Nil
  /\ namespace[p].controller # 0
  /\ ~namespace[p].terminating
  /\ ~OwnerAlive(p) \/ Blocking(p)

CollectNamespace(p) ==
  /\ Collectable(p)
  /\ PutNamespace(p, [namespace[p] EXCEPT !.terminating = TRUE])
  /\ UNCHANGED <<uids, edits>>

(* The namespace controller has emptied a terminating namespace.            *)
RemoveNamespace(p) ==
  /\ namespace[p] # Nil
  /\ namespace[p].terminating
  /\ PutNamespace(p, Nil)
  /\ UNCHANGED <<uids, edits>>

(* A profile deleted in the foreground goes when it has no dependent left.  *)
Finishable(p) ==
  /\ profile[p] # Nil
  /\ profile[p].deleting
  /\ "foregroundDeletion" \in profile[p].finalizers
  /\ namespace[p] # Nil => ~OwnerAlive(p)

FinishForeground(p) ==
  /\ Finishable(p)
  /\ PutProfile(p, Kept([profile[p] EXCEPT
                           !.finalizers = @ \ {"foregroundDeletion"}]))
  /\ UNCHANGED <<uids, edits>>

CollectorAction(p) ==
  CollectNamespace(p) \/ RemoveNamespace(p) \/ FinishForeground(p)
=============================================================================
