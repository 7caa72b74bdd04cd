---------------------------- MODULE ChildObjects ----------------------------
(***************************************************************************)
(* The helpers of ProfileReconciler that create or update the objects of a *)
(* profile in its namespace: updateIstioRequestAuthentication,             *)
(* updateIstioAuthorizationPolicy, updateResourceQuota, updateRoleBinding  *)
(* and updateServiceAccount.  A helper reads the object from a cache that  *)
(* can be stale, and creates it, updates it or leaves it.  Of an object    *)
(* matter: fixed, which the API server lets nobody change (the roleRef of  *)
(* a role binding); main, which the helper keeps up to date (a spec, or    *)
(* the subjects of a role binding); and notes, its annotations.            *)
(***************************************************************************)
EXTENDS Naturals

CONSTANTS
  Workers,          \* who runs a helper
  AccountWorkers,   \* bound: the workers that run updateServiceAccount
  Kinds,            \* the objects of this instance
  Values,           \* contents an object can have
  Nil,              \* no such object
  RoleEdits,        \* whether users change the cluster role of a profile
  MaxEdits,         \* bound: edits by users and administrators
  MaxFaults         \* bound: lost requests, lost answers and crashes

ServiceAccounts == {"default-editor", "default-viewer"}

AllKinds ==
  {"RequestAuthentication", "AuthorizationPolicy", "ResourceQuota",
   "namespaceAdmin", "editorBinding", "viewerBinding"} \cup ServiceAccounts

BindingOf(account) ==
  IF account = "default-editor" THEN "editorBinding" ELSE "viewerBinding"

Bindings == {"namespaceAdmin", "editorBinding", "viewerBinding"}

Content == [fixed : Values, main : Values, notes : Values]

(* What is always the same, and the cluster role of a profile at first.     *)
Default == CHOOSE v \in Values : TRUE

(* Role bindings have a roleRef, and service accounts nothing to keep up to *)
(* date.                                                                    *)
Contents(k) ==
  [fixed : IF k \in Bindings THEN Values ELSE {Default},
   main : IF k \in ServiceAccounts THEN {Default} ELSE Values,
   notes : Values]

ASSUME ChildAssumption ==
  /\ Kinds \subseteq AllKinds
  /\ \A k \in Kinds \cap ServiceAccounts : BindingOf(k) \in Kinds
  /\ Nil \notin Content
  /\ RoleEdits \in BOOLEAN
  /\ MaxEdits \in Nat
  /\ MaxFaults \in Nat

VARIABLES
  wish,      \* the values that the profile and the Config ask for
  object,    \* object[k]: the stored object or Nil
  version,   \* version[k]: its resourceVersion
  cache,     \* cache[w][k]: the object and the version that w reads
  call,      \* call[w]: the helper that w runs or Nil
  edits,     \* edits so far
  faults     \* faults so far

vars == <<wish, object, version, cache, call, edits, faults>>

(* The objects that the helpers of a worker read.                           *)
Reads(w) ==
  IF w \in AccountWorkers THEN Kinds
  ELSE Kinds \ (ServiceAccounts \cup {"editorBinding", "viewerBinding"})

(* An object as the helper builds it, and the name of the step it is at.    *)
CallRecord ==
  [step : {"get", "create", "update"}, kind : Kinds, wanted : Content,
   found : Content \cup {Nil}, version : Nat]

(* The role binding of a service account refers to the same role always.    *)
Wanted(k) ==
  LET rest == IF k \in {"editorBinding", "viewerBinding"} THEN Default
              ELSE wish.rest
  IN [fixed |-> IF k = "namespaceAdmin" THEN wish.role ELSE Default,
      main |-> IF k \in ServiceAccounts THEN Default ELSE rest,
      notes |-> rest]

Init ==
  /\ wish \in [role : {Default}, rest : Values]
  /\ object = [k \in Kinds |-> Nil]
  /\ version = [k \in Kinds |-> 0]
  /\ cache = [w \in Workers |-> [k \in Kinds |->
                                   [object |-> Nil, version |-> 0]]]
  /\ call = [w \in Workers |-> Nil]
  /\ edits = 0
  /\ faults = 0

(***************************************************************************)
(* The API server, and the users and administrators.                       *)
(***************************************************************************)
Store(k, new) ==
  /\ object' = [object EXCEPT ![k] = new]
  /\ version' = [version EXCEPT ![k] = IF new = object[k] THEN @ ELSE @ + 1]

(* A role binding has its roleRef for life.                                 *)
Allowed(k, new) ==
  k \in Bindings /\ object[k] # Nil => new.fixed = object[k].fixed

Edit ==
  /\ edits < MaxEdits
  /\ edits' = edits + 1

ChangeWish(new) ==
  /\ Edit
  /\ new # wish
  /\ RoleEdits \/ new.role = wish.role
  /\ wish' = new
  /\ UNCHANGED <<object, version, cache, call, faults>>

ChangeObject(k, new) ==
  /\ Edit
  /\ object[k] # Nil
  /\ object[k] # new
  /\ new # Nil => Allowed(k, new)
  /\ Store(k, new)
  /\ UNCHANGED <<wish, cache, call, faults>>

Sync(w, k) ==
  /\ k \in Reads(w)
  /\ cache[w][k].version # version[k]
  /\ cache' = [cache EXCEPT ![w][k] = [object |-> object[k],
                                       version |-> version[k]]]
  /\ UNCHANGED <<wish, object, version, call, edits, faults>>

(***************************************************************************)
(* The helpers.                                                            *)
(***************************************************************************)
Starts(w, k) ==
  call' = [call EXCEPT ![w] = [step |-> "get", kind |-> k, wanted |-> Wanted(k),
                               found |-> Nil, version |-> 0]]

(* The bindings of the service accounts are left to updateServiceAccount.   *)
Begin(w, k) ==
  /\ call[w] = Nil
  /\ k \in Reads(w) \ {"editorBinding", "viewerBinding"}
  /\ Starts(w, k)
  /\ UNCHANGED <<wish, object, version, cache, edits, faults>>

\* Mutant: updateServiceAccount returns once there is a service account.
ContinueNowhere(w) == call' = [call EXCEPT ![w] = Nil]

(* updateServiceAccount goes on with updateRoleBinding, the others return.  *)
Continue(w) ==
  IF call[w].kind \in ServiceAccounts
    THEN Starts(w, BindingOf(call[w].kind))
    ELSE call' = [call EXCEPT ![w] = Nil]

Fail(w) == call' = [call EXCEPT ![w] = Nil]

\* Mutant: NotFound is taken for an object.
GetMissingUnnoticed(w) ==
  /\ call[w] # Nil
  /\ call[w].step = "get"
  /\ cache[w][call[w].kind].object = Nil
  /\ call' = [call EXCEPT ![w].step = "update"]
  /\ UNCHANGED <<wish, object, version, cache, edits, faults>>

GetMissing(w) ==
  /\ call[w] # Nil
  /\ call[w].step = "get"
  /\ cache[w][call[w].kind].object = Nil
  /\ call' = [call EXCEPT ![w].step = "create"]
  /\ UNCHANGED <<wish, object, version, cache, edits, faults>>

\* Mutant: only the roleRef is compared.
DiffersInRole(k, found, wanted) == found.fixed # wanted.fixed

(* The Istio objects are compared as a whole, and never equal what the API  *)
(* server has completed; a service account is not compared at all.          *)
Differs(k, found, wanted) ==
  CASE k \in {"RequestAuthentication", "AuthorizationPolicy"} -> TRUE
    [] k = "ResourceQuota" -> found.main # wanted.main
    [] k \in Bindings -> found.fixed # wanted.fixed \/ found.main # wanted.main
    [] k \in ServiceAccounts -> FALSE

Updated(k, found, wanted) ==
  IF k \in Bindings
    THEN [found EXCEPT !.fixed = wanted.fixed, !.main = wanted.main]
    ELSE [found EXCEPT !.main = wanted.main]

GetFound(w) ==
  LET k == call[w].kind
      seen == cache[w][k]
  IN /\ call[w] # Nil
     /\ call[w].step = "get"
     /\ seen.object # Nil
     /\ IF Differs(k, seen.object, call[w].wanted)
          THEN call' = [call EXCEPT
                 ![w].step = "update", ![w].version = seen.version,
                 ![w].found = Updated(k, seen.object, call[w].wanted)]
          ELSE Continue(w)
     /\ UNCHANGED <<wish, object, version, cache, edits, faults>>

LoseAnswer(w) ==
  /\ faults < MaxFaults
  /\ faults' = faults + 1
  /\ Fail(w)

Create(w) ==
  LET k == call[w].kind
  IN /\ call[w] # Nil
     /\ call[w].step = "create"
     /\ object[k] = Nil
     /\ Store(k, call[w].wanted)
     /\ \/ Continue(w) /\ UNCHANGED faults
        \/ LoseAnswer(w)
     /\ UNCHANGED <<wish, cache, edits>>

\* Mutant: whatever was stored meanwhile is overwritten.
UpdateUnchecked(w) ==
  LET k == call[w].kind
  IN /\ call[w] # Nil
     /\ call[w].step = "update"
     /\ object[k] # Nil
     /\ Allowed(k, call[w].found)
     /\ Store(k, call[w].found)
     /\ Continue(w)
     /\ UNCHANGED <<wish, cache, edits, faults>>

Update(w) ==
  LET k == call[w].kind
  IN /\ call[w] # Nil
     /\ call[w].step = "update"
     /\ call[w].version = version[k]
     /\ Allowed(k, call[w].found)
     /\ Store(k, call[w].found)
     /\ \/ Continue(w) /\ UNCHANGED faults
        \/ LoseAnswer(w)
     /\ UNCHANGED <<wish, cache, edits>>

(* AlreadyExists, Conflict, NotFound or Invalid.                            *)
Refused(w) ==
  LET k == call[w].kind
  IN /\ call[w] # Nil
     /\ \/ call[w].step = "create" /\ object[k] # Nil
        \/ /\ call[w].step = "update"
           /\ call[w].version # version[k] \/ ~Allowed(k, call[w].found)
     /\ Fail(w)
     /\ UNCHANGED <<wish, object, version, cache, edits, faults>>

LoseRequest(w) ==
  /\ call[w] # Nil
  /\ LoseAnswer(w)
  /\ UNCHANGED <<wish, object, version, cache, edits>>

WorkerStep(w) ==
  GetMissing(w) \/ GetFound(w) \/ Create(w) \/ Update(w) \/ Refused(w)

Next ==
  \/ \E new \in [role : Values, rest : Values] : ChangeWish(new)
  \/ \E k \in Kinds : \E new \in Contents(k) \cup {Nil} : ChangeObject(k, new)
  \/ \E w \in Workers :
       \/ \E k \in Kinds : Begin(w, k) \/ Sync(w, k)
       \/ WorkerStep(w)
       \/ LoseRequest(w)

Spec == Init /\ [][Next]_vars

(***************************************************************************)
(* Reconcile is repeated after an error and after a change, every helper   *)
(* has its turn, and the watches deliver.                                  *)
(***************************************************************************)
FairSpec ==
  /\ Spec
  /\ \A w \in Workers :
       /\ WF_vars(WorkerStep(w))
       /\ \A k \in Kinds : SF_vars(Begin(w, k)) /\ WF_vars(Sync(w, k))

(***************************************************************************)
(* Properties.                                                             *)
(***************************************************************************)
TypeOK ==
  /\ wish \in [role : Values, rest : Values]
  /\ object \in [Kinds -> Content \cup {Nil}]
  /\ version \in [Kinds -> Nat]
  /\ cache \in [Workers -> [Kinds -> [object : Content \cup {Nil},
                                      version : Nat]]]
  /\ call \in [Workers -> CallRecord \cup {Nil}]
  /\ \A w \in Workers :
       call[w] # Nil => (call[w].step = "update" <=> call[w].found # Nil)
  /\ edits \in 0 .. MaxEdits
  /\ faults \in 0 .. MaxFaults

(* Of an object that exists, the helpers change main only, to what they     *)
(* were called for: an annotation somebody has put on it, at whatever       *)
(* moment, stays, and an object that somebody has deleted stays deleted     *)
(* until a helper creates it as a whole.                                    *)
OnlyMainChanges ==
  [][\A w \in Workers : call'[w] # call[w] => \A k \in Kinds :
       object'[k] # object[k] =>
         /\ call[w].kind = k
         /\ object'[k] = IF object[k] = Nil THEN call[w].wanted
                         ELSE [object[k] EXCEPT !.main = call[w].wanted.main]
    ]_vars

(* Once the wishes stand still, every object exists and what the helpers    *)
(* keep up to date is as wished, for good: stale caches, refused writes and *)
(* two workers that began with different wishes do not make them go on      *)
(* forever, although the Istio objects are written in every call.           *)
MainFollows ==
  <>[](\A k \in Kinds :
         /\ object[k] # Nil
         /\ k \notin ServiceAccounts => object[k].main = Wanted(k).main)
=============================================================================
