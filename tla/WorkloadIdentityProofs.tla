----------------------- MODULE WorkloadIdentityProofs -----------------------
(***************************************************************************)
(* The GCP plugin keeps its types, changes no role but its own, and is an  *)
(* implementation of PluginGrants, for any workers, profiles, identities   *)
(* and bounds; undisturbed, it leaves no grant of a deleted profile.       *)
(***************************************************************************)
EXTENDS WorkloadIdentity, PluginCallerProofs

(* What the call of w makes of the bindings that are stored now.            *)
Changed(w) ==
  LET bindings == Bindings(call[w].identity)
      member == call[w].namespace
  IN IF call[w].kind = "apply" THEN AddBinding(bindings, member)
                               ELSE RevokeBinding(bindings, member)

(* The copy with the stored etag was made from the stored policy.           *)
CopiesCurrent == \A w \in current : copy[w] = Changed(w)

IInv == TypeOK /\ CopiesCurrent

USE DEF WorkloadIdentityUser, Roles

(***************************************************************************)
(* The bindings.                                                           *)
(***************************************************************************)
(* The bindings read from a typed policy, and what the functions make of    *)
(* them, are bindings.                                                      *)
LEMMA BindingsTyped ==
  ASSUME NEW i \in Identities, NEW member \in Namespaces,
         policy \in [Identities -> [Roles -> SUBSET Namespaces]]
  PROVE  /\ AddBinding(Bindings(i), member) \in SUBSET Binding
         /\ RevokeBinding(Bindings(i), member) \in SUBSET Binding
<1>1. Bindings(i) \in SUBSET Binding
  BY DEF Bindings, Binding
<1>2. [role |-> WorkloadIdentityUser, members |-> {member}] \in Binding
  BY DEF Binding
<1>3. \A b \in Binding : [b EXCEPT !.members = @ \ {member}] \in Binding
  BY DEF Binding
<1> QED BY <1>1, <1>2, <1>3 DEF AddBinding, RevokeBinding

(* Merging bindings gives every role a set of members.                      *)
LEMMA MergedTyped ==
  ASSUME NEW bindings \in SUBSET Binding
  PROVE  Merged(bindings) \in [Roles -> SUBSET Namespaces]
BY DEF Merged, Binding

(* Merging the bindings with the added one adds the member to its role and  *)
(* leaves the other roles alone.                                            *)
LEMMA MergedAdd ==
  ASSUME NEW i \in Identities, NEW member \in Namespaces, NEW r \in Roles,
         policy \in [Identities -> [Roles -> SUBSET Namespaces]]
  PROVE  Merged(AddBinding(Bindings(i), member))[r] =
           IF r = WorkloadIdentityUser THEN policy[i][r] \cup {member}
                                       ELSE policy[i][r]
<1> DEFINE all == AddBinding(Bindings(i), member)
           old == [role |-> r, members |-> policy[i][r]]
           new == [role |-> WorkloadIdentityUser, members |-> {member}]
<1>1. Merged(all)[r] = UNION {b.members : b \in {b \in all : b.role = r}}
  BY DEF Merged
<1>2. \A b : b \in all <=> (b = new \/ \E s \in Roles :
                              b = [role |-> s, members |-> policy[i][s]])
  BY DEF AddBinding, Bindings
<1>3. CASE r = WorkloadIdentityUser
  <2>1. {b \in all : b.role = r} = {old, new}
    BY <1>2, <1>3
  <2>2. /\ {b.members : b \in {old, new}} = {old.members, new.members}
        /\ old.members = policy[i][r] /\ new.members = {member}
    OBVIOUS
  <2>3. Merged(all)[r] = UNION {policy[i][r], {member}}
    <3> HIDE DEF all, old, new
    <3> QED BY <1>1, <2>1, <2>2
  <2>4. UNION {policy[i][r], {member}} = policy[i][r] \cup {member}
    OBVIOUS
  <2> QED BY <1>3, <2>3, <2>4
<1>4. CASE r # WorkloadIdentityUser
  <2>1. {b \in all : b.role = r} = {old}
    BY <1>2, <1>4
  <2>2. Merged(all)[r] = old.members
    <3> HIDE DEF all, old
    <3> QED BY <1>1, <2>1
  <2> QED BY <1>4, <2>2
<1> QED BY <1>3, <1>4

(* Merging the bindings after a revocation takes the member out of its role *)
(* and leaves the other roles alone.                                        *)
LEMMA MergedRevoke ==
  ASSUME NEW i \in Identities, NEW member \in Namespaces, NEW r \in Roles,
         policy \in [Identities -> [Roles -> SUBSET Namespaces]]
  PROVE  Merged(RevokeBinding(Bindings(i), member))[r] =
           IF r = WorkloadIdentityUser THEN policy[i][r] \ {member}
                                       ELSE policy[i][r]
<1> DEFINE all == RevokeBinding(Bindings(i), member)
           left == IF r = WorkloadIdentityUser THEN policy[i][r] \ {member}
                                               ELSE policy[i][r]
           After(b) == IF b.role = WorkloadIdentityUser
                         THEN [b EXCEPT !.members = @ \ {member}] ELSE b
           Read(s) == [role |-> s, members |-> policy[i][s]]
<1>1. Merged(all)[r] = UNION {b.members : b \in {b \in all : b.role = r}}
  BY DEF Merged
<1>2. \A b : b \in all <=> \E s \in Roles : b = After(Read(s))
  BY DEF RevokeBinding, Bindings
<1>3. \A s \in Roles : /\ After(Read(s)).role = s
                       /\ After(Read(s)).members =
                            IF s = WorkloadIdentityUser
                              THEN policy[i][s] \ {member} ELSE policy[i][s]
  OBVIOUS
<1>4. {b \in all : b.role = r} = {After(Read(r))}
  BY <1>2, <1>3
<1>5. Merged(all)[r] = After(Read(r)).members
  <2> HIDE DEF all, After, Read
  <2> QED BY <1>1, <1>4
<1> QED BY <1>3, <1>5

(***************************************************************************)
(* Types.                                                                  *)
(***************************************************************************)
Writers == {w \in Workers : call[w] # Nil /\ call[w].step = "write"}

GcpTypes ==
  /\ policy \in [Identities -> [Roles -> SUBSET Namespaces]]
  /\ copy \in [Workers -> SUBSET Binding]
  /\ current \subseteq Writers

(* The parts of TypeOK.                                                     *)
LEMMA TypesSplit == TypeOK <=> CallerTypes /\ GcpTypes
BY DEF TypeOK, CallerTypes, GcpTypes, Writers

(* The steps of a call outside the plugin's policy keep all types and       *)
(* leave no call writing.                                                   *)
LEMMA CallerStepTypes ==
  ASSUME TypeOK, NEW w \in Workers, UNCHANGED gcpVars,
         \/ PatchAnnotation(w, call[w].identity)
         \/ MissServiceAccount(w) \/ Finish(w) \/ FailProjectID(w)
  PROVE  TypeOK'
<1> USE TypesSplit
<1>1. /\ call[w] # Nil /\ call[w].step # "write"
      /\ \/ Goto(w, "read") \/ Goto(w, "revoke") \/ Hangup(w)
      /\ edits' = edits /\ faults' = faults
  BY DEF PatchAnnotation, MissServiceAccount, Finish, FailProjectID
<1>2. /\ call' \in [Workers -> CallRecord \cup {Nil}]
      /\ \A v \in Workers \ {w} : call'[v] = call[v]
  BY <1>1, CallMoves
<1>3. /\ call[w].namespace \in Namespaces
      /\ call[w].identity \in Identities
  BY <1>1 DEF CallerTypes, CallRecord
<1>4. /\ phase' \in [Namespaces -> {"live", "deleting", "gone"}]
      /\ plugin' \in [Namespaces -> Identities]
      /\ serviceAccount' \in [Namespaces -> Identities \cup {Nil, Unannotated}]
  BY <1>3 DEF CallerTypes, PatchAnnotation, MissServiceAccount, Finish,
              FailProjectID
<1>5. CallerTypes'
  BY <1>1, <1>2, <1>4 DEF CallerTypes
<1>6. current \subseteq Writers'
  BY <1>1, <1>2 DEF GcpTypes, Writers
<1>7. GcpTypes'
  BY <1>6 DEF GcpTypes, gcpVars
<1> QED BY <1>5, <1>7, TypesSplit, PTL

(* A set keeps the policy typed and leaves no copy of it current.           *)
LEMMA StoreTypes ==
  ASSUME GcpTypes, NEW i \in Identities,
         NEW new \in [Roles -> SUBSET Namespaces], Store(i, new)
  PROVE  /\ policy' \in [Identities -> [Roles -> SUBSET Namespaces]]
         /\ policy'[i] = new
         /\ \A j \in Identities \ {i} : policy'[j] = policy[j]
         /\ \A v \in current' : v \in current /\ call[v].identity # i
BY DEF GcpTypes, Store

(* The calls of the workers other than w, and which of them write, stay.    *)
LEMMA WritersStay ==
  ASSUME NEW w \in Workers, \A v \in Workers \ {w} : call'[v] = call[v],
         GcpTypes
  PROVE  \A v \in current \ {w} : v \in Writers'
BY DEF GcpTypes, Writers

(* A call gets its copy.                                                    *)
LEMMA GetIamPolicyTypes ==
  ASSUME TypeOK, NEW w \in Workers, GetIamPolicy(w)
  PROVE  TypeOK'
<1> USE TypesSplit
<1>1. /\ call[w] # Nil
      /\ Goto(w, "write")
      /\ current' = current \cup {w}
      /\ UNCHANGED <<phase, plugin, serviceAccount, edits, faults, policy>>
  BY DEF GetIamPolicy
<1>2. /\ call' \in [Workers -> CallRecord \cup {Nil}]
      /\ call'[w] = [call[w] EXCEPT !.step = "write"]
      /\ \A v \in Workers \ {w} : call'[v] = call[v]
  BY <1>1, CallMoves
<1>3. call[w] \in CallRecord
  BY <1>1 DEF CallerTypes
<1>4. call'[w] \in CallRecord /\ call'[w].step = "write"
  BY <1>2, <1>3 DEF CallRecord
<1>5. w \in Writers'
  BY <1>4, NilAssumption DEF Writers
<1>6. current' \subseteq Writers'
  BY <1>1, <1>2, <1>5, WritersStay
<1>7. copy' \in [Workers -> SUBSET Binding]
  <2>1. /\ call[w].identity \in Identities
        /\ call[w].namespace \in Namespaces
    BY <1>3 DEF CallRecord
  <2>2. Changed(w) \in SUBSET Binding
    BY <2>1, BindingsTyped DEF Changed, GcpTypes
  <2>3. copy' = [copy EXCEPT ![w] = Changed(w)]
    BY DEF GetIamPolicy, Changed
  <2> QED BY <2>2, <2>3 DEF GcpTypes
<1>8. CallerTypes'
  BY <1>1, <1>2 DEF CallerTypes
<1>9. GcpTypes'
  BY <1>1, <1>6, <1>7 DEF GcpTypes
<1> QED BY <1>8, <1>9, PTL

(* SetIamPolicy ends the call or brings it to its end.                      *)
LEMMA SetIamPolicyTypes ==
  ASSUME TypeOK, NEW w \in Workers, SetIamPolicy(w)
  PROVE  TypeOK'
<1> USE TypesSplit
<1>1. /\ call[w] # Nil
      /\ w \in current
      /\ Store(call[w].identity, Merged(copy[w]))
      /\ \/ Goto(w, "done") /\ UNCHANGED faults
         \/ AbortAfter(w)
      /\ copy' = [copy EXCEPT ![w] = {}]
      /\ UNCHANGED <<phase, plugin, serviceAccount, edits>>
  BY DEF SetIamPolicy
<1>2. /\ call' \in [Workers -> CallRecord \cup {Nil}]
      /\ \A v \in Workers \ {w} : call'[v] = call[v]
  BY <1>1, CallMoves DEF AbortAfter
<1>3. faults' \in 0 .. MaxFaults
  BY <1>1, BoundsKept DEF AbortAfter, CallerTypes
<1>4. call[w] \in CallRecord /\ call[w].identity \in Identities
  BY <1>1 DEF CallerTypes, CallRecord
<1>5. Merged(copy[w]) \in [Roles -> SUBSET Namespaces]
  BY MergedTyped DEF GcpTypes
<1>6. /\ policy' \in [Identities -> [Roles -> SUBSET Namespaces]]
      /\ \A v \in current' : v \in current /\ call[v].identity # call[w].identity
  BY <1>1, <1>4, <1>5, StoreTypes
<1>7. current' \subseteq Writers'
  BY <1>2, <1>6, WritersStay
<1>8. copy' \in [Workers -> SUBSET Binding]
  BY <1>1 DEF GcpTypes
<1>9. CallerTypes'
  BY <1>1, <1>2, <1>3 DEF CallerTypes
<1>10. GcpTypes'
  BY <1>6, <1>7, <1>8 DEF GcpTypes
<1> QED BY <1>9, <1>10, PTL

(* A call that gives up, or whose set is refused.                           *)
LEMMA EndTypes ==
  ASSUME TypeOK, NEW w \in Workers, GiveUp(w) \/ Conflict(w)
  PROVE  TypeOK'
<1> USE TypesSplit
<1>1. /\ call[w] # Nil
      /\ Hangup(w)
      /\ current' = current \ {w}
      /\ copy' = [copy EXCEPT ![w] = {}]
      /\ UNCHANGED <<phase, plugin, serviceAccount, edits, policy>>
  BY DEF GiveUp, Conflict, Abort
<1>2. /\ call' \in [Workers -> CallRecord \cup {Nil}]
      /\ \A v \in Workers \ {w} : call'[v] = call[v]
  BY <1>1, CallMoves
<1>3. faults' \in 0 .. MaxFaults
  BY BoundsKept DEF GiveUp, Conflict, Abort, CallerTypes
<1>4. current' \subseteq Writers'
  BY <1>1, <1>2, WritersStay
<1>5. CallerTypes'
  BY <1>1, <1>2, <1>3 DEF CallerTypes
<1>6. GcpTypes'
  BY <1>1, <1>4 DEF GcpTypes
<1> QED BY <1>5, <1>6, PTL

(* A call starts, at the beginning of a pass or in the middle of it.        *)
Begins(w) ==
  /\ UNCHANGED gcpVars
  /\ (\E n \in Namespaces : ApplyPlugin(w, n)) \/ RevokePlugin(w, "read")

LEMMA BeginsCall ==
  ASSUME TypeOK, NEW w \in Workers, Begins(w)
  PROVE  /\ CallerTypes'
         /\ UNCHANGED <<phase, plugin, policy, copy, current>>
         /\ call' # call
         /\ w \notin current
         /\ \A v \in Workers \ {w} : call'[v] = call[v]
<1> USE TypesSplit
<1>1. /\ CallerTypes'
      /\ call'[w] \in CallRecord
      /\ call'[w].step # "revoke"
      /\ \A v \in Workers \ {w} : call'[v] = call[v]
  BY ApplyStarts, RevokeStarts DEF Begins
<1>2. /\ UNCHANGED <<phase, plugin, policy, copy, current>>
      /\ call[w] = Nil \/ call[w].step = "revoke"
  BY DEF Begins, ApplyPlugin, RevokePlugin, gcpVars
<1>3. w \notin current
  BY <1>2 DEF GcpTypes, Writers
<1> QED BY <1>1, <1>2, <1>3, NilAssumption

LEMMA StartTypes ==
  ASSUME TypeOK, NEW w \in Workers, Begins(w)
  PROVE  TypeOK'
<1> USE TypesSplit
<1>1. current \subseteq Writers'
  BY BeginsCall, WritersStay
<1>2. GcpTypes'
  BY <1>1, BeginsCall DEF GcpTypes
<1> QED BY <1>2, BeginsCall, PTL

(* An administrator gives a role to namespaces.                             *)
LEMMA AdministerTypes ==
  ASSUME TypeOK, NEW i \in Identities, NEW role \in AdministeredRoles,
         NEW members \in SUBSET Namespaces, Administer(i, role, members)
  PROVE  TypeOK'
<1> USE TypesSplit
<1>1. /\ edits' \in 0 .. MaxEdits
      /\ UNCHANGED <<phase, plugin, serviceAccount, call, faults, copy>>
      /\ Store(i, [policy[i] EXCEPT ![role] = members])
  BY BoundsKept DEF Administer
<1>2. [policy[i] EXCEPT ![role] = members] \in [Roles -> SUBSET Namespaces]
  BY GcpAssumption DEF GcpTypes
<1>3. /\ policy' \in [Identities -> [Roles -> SUBSET Namespaces]]
      /\ \A v \in current' : v \in current
  BY <1>1, <1>2, StoreTypes
<1>4. current' \subseteq Writers'
  BY <1>1, <1>3 DEF GcpTypes, Writers
<1>5. CallerTypes'
  BY <1>1 DEF CallerTypes
<1>6. GcpTypes'
  BY <1>1, <1>3, <1>4 DEF GcpTypes
<1> QED BY <1>5, <1>6, PTL

(* Every step keeps the types.                                              *)
LEMMA NextTypes == TypeOK /\ [Next]_vars => TypeOK'
<1> SUFFICES ASSUME TypeOK, [Next]_vars
             PROVE  TypeOK'
  OBVIOUS
<1>1. CASE UserAction /\ UNCHANGED gcpVars
  <2>1. CallerTypes'
    BY <1>1, UserActionTypes, TypesSplit
  <2>2. UNCHANGED call
    BY <1>1 DEF UserAction, DeleteProfile, ChangePlugin, DeleteServiceAccount
  <2>3. GcpTypes'
    BY <1>1, <2>2, TypesSplit DEF GcpTypes, gcpVars, Writers
  <2> QED BY <2>1, <2>3, TypesSplit, PTL
<1>2. CASE \E i \in Identities, r \in AdministeredRoles,
             members \in SUBSET Namespaces : Administer(i, r, members)
  BY <1>2, AdministerTypes
<1>3. ASSUME NEW w \in Workers, Begins(w)
      PROVE  TypeOK'
  BY <1>3, StartTypes
<1>4. ASSUME NEW w \in Workers, WorkerStep(w)
      PROVE  TypeOK'
  <2>1. CASE GetIamPolicy(w)
    BY <2>1, GetIamPolicyTypes
  <2>2. CASE SetIamPolicy(w)
    BY <2>2, SetIamPolicyTypes
  <2>3. CASE Conflict(w)
    BY <2>3, EndTypes
  <2>4. CASE /\ UNCHANGED gcpVars
             /\ \/ PatchAnnotation(w, call[w].identity)
                \/ MissServiceAccount(w) \/ Finish(w) \/ FailProjectID(w)
    BY <2>4, CallerStepTypes
  <2>5. FailProjectID(w) => UNCHANGED gcpVars
    BY DEF FailProjectID
  <2>6. RevokePlugin(w, "read") /\ UNCHANGED gcpVars => Begins(w)
    BY DEF Begins
  <2> QED BY <1>3, <1>4, <2>1, <2>2, <2>3, <2>4, <2>5, <2>6 DEF WorkerStep
<1>5. ASSUME NEW w \in Workers, GiveUp(w)
      PROVE  TypeOK'
  BY <1>5, EndTypes
<1>6. CASE UNCHANGED vars
  BY <1>6 DEF TypeOK, vars, callerVars, gcpVars
<1> QED BY <1>1, <1>2, <1>3, <1>4, <1>5, <1>6 DEF Next, Begins

(* The types: every reachable state has the types, a copy is only current   *)
(* while its worker is about to write it.                                   *)
THEOREM TypeCorrect == Spec => []TypeOK
<1>1. Init => TypeOK
  BY CallerAssumption DEF Init, CallerInit, TypeOK
<1> QED BY <1>1, NextTypes, PTL DEF Spec

(***************************************************************************)
(* The copies.                                                             *)
(***************************************************************************)
(* A copy stays current with its call, while the policy of its identity is  *)
(* the same; otherwise it has to be made from the stored policy.            *)
LEMMA CopiesKept ==
  ASSUME CopiesCurrent,
         \A v \in current' :
           \/ /\ v \in current /\ call'[v] = call[v] /\ copy'[v] = copy[v]
              /\ policy'[call[v].identity] = policy[call[v].identity]
           \/ copy'[v] = Changed(v)'
  PROVE  CopiesCurrent'
<1> SUFFICES ASSUME NEW v \in current', copy'[v] # Changed(v)'
             PROVE  copy'[v] = Changed(v)'
  BY DEF CopiesCurrent
<1>1. copy[v] = Changed(v)
  BY DEF CopiesCurrent
<1>2. /\ call'[v] = call[v]
      /\ policy'[call[v].identity] = policy[call[v].identity]
      /\ copy'[v] = copy[v]
  OBVIOUS
<1>3. Changed(v)' = Changed(v)
  BY <1>2 DEF Changed, Bindings, AddBinding, RevokeBinding
<1> QED BY <1>1, <1>2, <1>3

(* Every step keeps the copies current, by what it does to calls, policies  *)
(* and copies.                                                              *)
LEMMA NextCopies == IInv /\ [Next]_vars => CopiesCurrent'
<1> SUFFICES ASSUME IInv, [Next]_vars
             PROVE  CopiesCurrent'
  OBVIOUS
<1> USE TypesSplit DEF IInv
<1>1. CASE UNCHANGED <<call, policy, copy, current>>
  BY <1>1, CopiesKept
<1>2. ASSUME NEW i \in Identities, NEW r \in AdministeredRoles,
             NEW members \in SUBSET Namespaces, Administer(i, r, members)
      PROVE  CopiesCurrent'
  <2>1. [policy[i] EXCEPT ![r] = members] \in [Roles -> SUBSET Namespaces]
    BY GcpAssumption DEF GcpTypes
  <2>2. /\ UNCHANGED <<call, copy>>
        /\ \A v \in current' : v \in current /\ call[v].identity # i
        /\ \A j \in Identities \ {i} : policy'[j] = policy[j]
    BY <1>2, <2>1, StoreTypes DEF Administer
  <2>3. \A v \in current : call[v].identity \in Identities
    BY DEF GcpTypes, CallerTypes, Writers, CallRecord
  <2>4. \A v \in current' : policy'[call[v].identity] = policy[call[v].identity]
    BY <2>2, <2>3
  <2> QED BY <2>2, <2>4, CopiesKept
<1>3. ASSUME NEW w \in Workers, GetIamPolicy(w)
      PROVE  CopiesCurrent'
  <2>1. /\ call[w] # Nil /\ Goto(w, "write")
        /\ copy' = [copy EXCEPT ![w] = Changed(w)]
        /\ current' = current \cup {w}
        /\ UNCHANGED policy
    BY <1>3 DEF GetIamPolicy, Changed
  <2>2. /\ call'[w] = [call[w] EXCEPT !.step = "write"]
        /\ \A v \in Workers \ {w} : call'[v] = call[v]
    BY <2>1, CallMoves
  <2>3. call[w] \in CallRecord
    BY <2>1 DEF CallerTypes
  <2>4. /\ call'[w].identity = call[w].identity
        /\ call'[w].namespace = call[w].namespace
        /\ call'[w].kind = call[w].kind
    BY <2>2, <2>3 DEF CallRecord
  <2>5. Changed(w)' = Changed(w)
    BY <2>1, <2>4 DEF Changed, Bindings, AddBinding, RevokeBinding
  <2>6. copy'[w] = Changed(w)'
    BY <2>1, <2>5 DEF GcpTypes
  <2>7. \A v \in current' \ {w} :
          /\ v \in current /\ call'[v] = call[v] /\ copy'[v] = copy[v]
          /\ policy'[call[v].identity] = policy[call[v].identity]
    BY <2>1, <2>2 DEF GcpTypes, Writers
  <2> QED BY <2>6, <2>7, CopiesKept
<1>4. ASSUME NEW w \in Workers, SetIamPolicy(w)
      PROVE  CopiesCurrent'
  <2>1. /\ call[w] # Nil /\ w \in current
        /\ Store(call[w].identity, Merged(copy[w]))
        /\ Goto(w, "done") \/ Hangup(w)
        /\ copy' = [copy EXCEPT ![w] = {}]
    BY <1>4 DEF SetIamPolicy, AbortAfter
  <2>2. \A v \in Workers \ {w} : call'[v] = call[v]
    BY <2>1, CallMoves
  <2>3. \A v \in current : call[v].identity \in Identities
    BY DEF GcpTypes, CallerTypes, Writers, CallRecord
  <2>4. Merged(copy[w]) \in [Roles -> SUBSET Namespaces]
    BY MergedTyped DEF GcpTypes
  <2>5. /\ \A v \in current' : v \in current /\ call[v].identity # call[w].identity
        /\ \A j \in Identities \ {call[w].identity} : policy'[j] = policy[j]
    BY <2>1, <2>3, <2>4, StoreTypes
  <2>6. \A v \in current' \ {w} :
          /\ v \in current /\ call'[v] = call[v] /\ copy'[v] = copy[v]
          /\ policy'[call[v].identity] = policy[call[v].identity]
    BY <2>1, <2>2, <2>3, <2>5 DEF GcpTypes, Writers
  <2>7. w \notin current'
    BY <2>5
  <2> QED BY <2>6, <2>7, CopiesKept
<1>5. ASSUME NEW w \in Workers, w \notin current', current' \subseteq current,
             UNCHANGED policy, \A v \in Workers \ {w} : copy'[v] = copy[v],
             \A v \in Workers \ {w} : call'[v] = call[v]
      PROVE  CopiesCurrent'
  BY <1>5, CopiesKept DEF GcpTypes, Writers
<1>6. ASSUME NEW w \in Workers, GiveUp(w) \/ Conflict(w)
      PROVE  CopiesCurrent'
  <2>1. /\ call[w] # Nil /\ Hangup(w)
        /\ current' = current \ {w}
        /\ copy' = [copy EXCEPT ![w] = {}]
        /\ UNCHANGED policy
    BY <1>6 DEF GiveUp, Conflict, Abort
  <2> QED BY <2>1, <1>5, CallMoves DEF GcpTypes
<1>7. ASSUME NEW w \in Workers, UNCHANGED gcpVars,
             \/ PatchAnnotation(w, call[w].identity)
             \/ MissServiceAccount(w) \/ Finish(w) \/ FailProjectID(w)
      PROVE  CopiesCurrent'
  <2>1. /\ call[w] # Nil /\ call[w].step # "write"
        /\ Goto(w, "read") \/ Goto(w, "revoke") \/ Hangup(w)
    BY <1>7 DEF PatchAnnotation, MissServiceAccount, Finish, FailProjectID
  <2>2. w \notin current
    BY <2>1 DEF GcpTypes, Writers
  <2> QED BY <1>7, <2>1, <2>2, <1>5, CallMoves DEF gcpVars
<1>8. ASSUME NEW w \in Workers, Begins(w)
      PROVE  CopiesCurrent'
  BY <1>5, <1>8, BeginsCall
<1>9. ASSUME NEW w \in Workers, WorkerStep(w)
      PROVE  CopiesCurrent'
  BY <1>3, <1>4, <1>6, <1>7, <1>8, <1>9 DEF WorkerStep, FailProjectID, Begins
<1>10. CASE UserAction /\ UNCHANGED gcpVars
  <2>1. UNCHANGED call
    BY <1>10 DEF UserAction, DeleteProfile, ChangePlugin, DeleteServiceAccount
  <2> QED BY <1>1, <1>10, <2>1 DEF gcpVars
<1>11. CASE UNCHANGED vars
  BY <1>1, <1>11 DEF vars, callerVars, gcpVars
<1> QED BY <1>2, <1>6, <1>8, <1>9, <1>10, <1>11 DEF Next, Begins

(* A copy with the stored etag is what the call makes of the stored policy. *)
THEOREM CopiesCurrentAlways == Spec => []IInv
<1>1. Init => IInv
  <2>1. Init => TypeOK
    BY CallerAssumption DEF Init, CallerInit, TypeOK
  <2> QED BY <2>1 DEF Init, IInv, CopiesCurrent
<1>2. IInv /\ [Next]_vars => IInv'
  BY NextTypes, NextCopies DEF IInv
<1> QED BY <1>1, <1>2, PTL DEF Spec

(***************************************************************************)
(* What a step does to the grants and to the pending calls.                *)
(***************************************************************************)
(* The end of a call is a Leave if the policies stay; between two calls a   *)
(* pass ends unseen.                                                        *)
LEMMA EndPromise ==
  ASSUME TypeOK, NEW w \in Workers, call[w] # Nil, UNCHANGED policy,
         Hangup(w) \/ (call[w].step # "revoke" /\ Goto(w, "revoke"))
  PROVE  Promise!Next \/ UNCHANGED Promise!vars
<1>1. Granted' = Granted
  BY DEF Granted
<1>2. CASE call[w].step = "revoke"
  BY <1>1, <1>2, PassEnds, TypesSplit DEF Promise!vars
<1>3. CASE call[w].step # "revoke"
  <2>1. Pending[w] # Nil /\ Pending' = [Pending EXCEPT ![w] = Nil]
    BY <1>3, PendingEnds, TypesSplit
  <2>2. Promise!Leave(w)
    BY <1>1, <2>1 DEF Promise!Leave
  <2> QED BY <2>2 DEF Promise!Next
<1> QED BY <1>2, <1>3

(* The start of a call is a Call.                                           *)
LEMMA StartPromise ==
  ASSUME TypeOK, NEW w \in Workers, Begins(w)
  PROVE  Promise!Next
<1>1. /\ Pending[w] = Nil
      /\ \E c \in PendingCall : ~c.done /\ Pending' = [Pending EXCEPT ![w] = c]
  BY PendingStarts, TypesSplit DEF Begins
<1>2. Granted' = Granted
  BY BeginsCall DEF Granted
<1>3. Promise!Call(w)
  BY <1>1, <1>2 DEF Promise!Call, Promise!Calls, PendingCall
<1> QED BY <1>3 DEF Promise!Next

(* A set has its effect on the grant of the call and on nothing else.       *)
LEMMA SetIamPolicyEffect ==
  ASSUME IInv, NEW w \in Workers, SetIamPolicy(w)
  PROVE  /\ Granted' = Promise!Outcome(Pending[w])
         /\ \A i \in Identities, r \in Roles \ {WorkloadIdentityUser} :
              policy'[i][r] = policy[i][r]
<1> USE TypesSplit DEF IInv
<1> DEFINE i == call[w].identity
           n == call[w].namespace
           apply == call[w].kind = "apply"
<1>1. /\ call[w] # Nil /\ call[w].step = "write" /\ w \in current
      /\ Store(i, Merged(copy[w]))
  BY DEF SetIamPolicy
<1>2. /\ call[w] \in CallRecord
      /\ i \in Identities /\ n \in Namespaces
      /\ apply \/ call[w].kind = "revoke"
  BY <1>1 DEF CallerTypes, CallRecord
<1>3. policy \in [Identities -> [Roles -> SUBSET Namespaces]]
  BY DEF GcpTypes
<1>4. copy[w] = IF apply THEN AddBinding(Bindings(i), n)
                         ELSE RevokeBinding(Bindings(i), n)
  BY <1>1 DEF CopiesCurrent, Changed
<1>5. Merged(copy[w]) \in [Roles -> SUBSET Namespaces]
  BY MergedTyped DEF GcpTypes
<1>6. /\ policy'[i] = Merged(copy[w])
      /\ \A j \in Identities \ {i} : policy'[j] = policy[j]
  BY <1>1, <1>2, <1>5, StoreTypes
<1>7. \A r \in Roles :
        policy'[i][r] = IF r # WorkloadIdentityUser THEN policy[i][r]
                        ELSE IF apply THEN policy[i][r] \cup {n}
                        ELSE policy[i][r] \ {n}
  <2> SUFFICES ASSUME NEW r \in Roles
               PROVE  Merged(copy[w])[r] =
                        IF r # WorkloadIdentityUser THEN policy[i][r]
                        ELSE IF apply THEN policy[i][r] \cup {n}
                        ELSE policy[i][r] \ {n}
    BY <1>6
  <2>1. CASE apply
    <3>1. copy[w] = AddBinding(Bindings(i), n)
      BY <1>4, <2>1
    <3> HIDE DEF i, n, apply
    <3> QED BY <1>2, <1>3, <2>1, <3>1, MergedAdd
  <2>2. CASE ~apply
    <3>1. copy[w] = RevokeBinding(Bindings(i), n)
      BY <1>4, <2>2
    <3> HIDE DEF i, n, apply
    <3> QED BY <1>2, <1>3, <2>2, <3>1, MergedRevoke
  <2> QED BY <2>1, <2>2
<1>8. Granted' = IF apply THEN Granted \cup {<<i, n>>} ELSE Granted \ {<<i, n>>}
  <2> HIDE DEF i, n, apply
  <2>1. \A g \in Identities \X Namespaces :
          g \in Granted' <=> g[2] \in policy'[g[1]][WorkloadIdentityUser]
    BY DEF Granted
  <2>2. \A g \in Identities \X Namespaces :
          g \in Granted <=> g[2] \in policy[g[1]][WorkloadIdentityUser]
    BY DEF Granted
  <2>3. \A g \in Identities \X Namespaces :
          g \in Granted' <=> IF apply THEN g \in Granted \/ g = <<i, n>>
                                      ELSE g \in Granted /\ g # <<i, n>>
    BY <1>2, <1>6, <1>7, <2>1, <2>2
  <2>4. /\ Granted \subseteq Identities \X Namespaces
        /\ Granted' \subseteq Identities \X Namespaces
        /\ <<i, n>> \in Identities \X Namespaces
    BY <1>2 DEF Granted
  <2> QED BY <2>3, <2>4
<1>9. Promise!Outcome(Pending[w])
        = IF apply THEN Granted \cup {<<i, n>>} ELSE Granted \ {<<i, n>>}
  BY <1>1, <1>2 DEF Promise!Outcome, Pending, PendingOf
<1>10. \A j \in Identities, r \in Roles \ {WorkloadIdentityUser} :
         policy'[j][r] = policy[j][r]
  BY <1>6, <1>7
<1> QED BY <1>8, <1>9, <1>10

(* A set is an Effect.                                                      *)
LEMMA SetIamPolicyPromise ==
  ASSUME IInv, NEW w \in Workers, SetIamPolicy(w)
  PROVE  Promise!Next
<1> USE TypesSplit DEF IInv
<1>1. /\ call[w] # Nil /\ call[w].step = "write"
      /\ Goto(w, "done") \/ Hangup(w)
  BY DEF SetIamPolicy, AbortAfter
<1>2. /\ Pending[w] # Nil /\ ~Pending[w].done
      /\ \/ Pending' = [Pending EXCEPT ![w].done = TRUE]
         \/ Pending' = [Pending EXCEPT ![w] = Nil]
  BY <1>1, PendingEnds, PendingDone
<1>3. Promise!Effect(w)
  BY <1>2, SetIamPolicyEffect DEF Promise!Effect
<1> QED BY <1>3 DEF Promise!Next

(* A step of the plugin is a step of the promise or none.                   *)
LEMMA NextPromise == IInv /\ [Next]_vars => [Promise!Next]_(Promise!vars)
<1> SUFFICES ASSUME IInv, [Next]_vars
             PROVE  Promise!Next \/ UNCHANGED Promise!vars
  OBVIOUS
<1> USE DEF IInv
<1>1. CASE UNCHANGED <<call, policy>>
  BY <1>1 DEF Promise!vars, Granted, Pending, PendingOf
<1>2. ASSUME NEW i \in Identities, NEW r \in AdministeredRoles,
             NEW members \in SUBSET Namespaces, Administer(i, r, members)
      PROVE  Promise!Next
  <2>1. Granted' \in SUBSET Promise!Grants
    BY DEF Granted, Promise!Grants
  <2>2. UNCHANGED Pending
    BY <1>2 DEF Administer, Pending, PendingOf
  <2> QED BY <2>1, <2>2 DEF Promise!Administer, Promise!Next
<1>3. ASSUME NEW w \in Workers, Begins(w)
      PROVE  Promise!Next
  BY <1>3, StartPromise
<1>4. ASSUME NEW w \in Workers, WorkerStep(w) \/ GiveUp(w)
      PROVE  Promise!Next \/ UNCHANGED Promise!vars
  <2>1. ASSUME SetIamPolicy(w)
        PROVE  Promise!Next
    BY <2>1, SetIamPolicyPromise
  <2>2. ASSUME call[w] # Nil, UNCHANGED policy,
               Hangup(w) \/ (call[w].step # "revoke" /\ Goto(w, "revoke"))
        PROVE  Promise!Next \/ UNCHANGED Promise!vars
    BY <2>2, EndPromise
  <2>3. ASSUME call[w] # Nil, call[w].step \notin {"done", "revoke"},
               UNCHANGED policy, Goto(w, "read") \/ Goto(w, "write")
        PROVE  UNCHANGED Promise!vars
    <3>1. UNCHANGED Pending
      BY <2>3, PendingOnTheWay, TypesSplit DEF IInv
    <3> QED BY <2>3, <3>1 DEF Promise!vars, Granted
  <2>4. \/ SetIamPolicy(w)
        \/ Begins(w)
        \/ /\ call[w] # Nil /\ UNCHANGED policy
           /\ Hangup(w) \/ (call[w].step # "revoke" /\ Goto(w, "revoke"))
        \/ /\ call[w] # Nil /\ call[w].step \notin {"done", "revoke"}
           /\ UNCHANGED policy
           /\ Goto(w, "read") \/ Goto(w, "write")
    BY <1>4 DEF WorkerStep, GiveUp, Abort, FailProjectID, GetIamPolicy, Conflict,
                PatchAnnotation, MissServiceAccount, Finish, gcpVars, Begins
  <2> QED BY <1>3, <2>1, <2>2, <2>3, <2>4
<1>5. CASE UserAction /\ UNCHANGED gcpVars
  BY <1>1, <1>5 DEF UserAction, DeleteProfile, ChangePlugin,
                    DeleteServiceAccount, gcpVars
<1>6. CASE UNCHANGED vars
  BY <1>1, <1>6 DEF vars, callerVars, gcpVars
<1> QED BY <1>2, <1>3, <1>4, <1>5, <1>6 DEF Next, Begins

(* Through interleaved calls, edits by administrators, lost answers and     *)
(* crashes, every call of the plugin takes effect atomically or not at all  *)
(* and returns without an error only if it did.                             *)
THEOREM GcpKeepsPromise == Spec => KeepsPromise
<1>1. Init => Promise!Init
  BY DEF Init, CallerInit, Promise!Init, Promise!Grants, Granted, Pending, PendingOf
<1> QED BY <1>1, NextPromise, CopiesCurrentAlways, PTL
        DEF Spec, KeepsPromise, Promise!Spec

(* A step of a call leaves the members of other roles as they are stored.   *)
LEMMA NextOtherRoles ==
  IInv /\ [Next]_vars =>
    [call' # call => \A i \in Identities, r \in Roles \ {WorkloadIdentityUser} :
       policy'[i][r] = policy[i][r]]_vars
<1> SUFFICES ASSUME IInv, Next, call' # call
             PROVE  \A i \in Identities, r \in Roles \ {WorkloadIdentityUser} :
                      policy'[i][r] = policy[i][r]
  OBVIOUS
<1>1. ASSUME NEW w \in Workers, Begins(w)
      PROVE  UNCHANGED policy
  BY <1>1 DEF Begins, gcpVars
<1>2. ASSUME NEW w \in Workers, WorkerStep(w) \/ GiveUp(w)
      PROVE  SetIamPolicy(w) \/ UNCHANGED policy
  BY <1>2 DEF WorkerStep, GiveUp, FailProjectID, GetIamPolicy, Conflict, gcpVars
<1>3. (\E w \in Workers : SetIamPolicy(w)) \/ UNCHANGED policy
  BY <1>1, <1>2 DEF Next, Administer, Begins, gcpVars
<1> QED BY <1>3, SetIamPolicyEffect

(* The plugin reads and writes a whole policy, but whatever others change   *)
(* meanwhile it leaves the members of other roles as they are stored.       *)
THEOREM OtherRolesStay == Spec => OtherRolesKept
BY NextOtherRoles, CopiesCurrentAlways, PTL DEF Spec, OtherRolesKept

(***************************************************************************)
(* A deleted profile leaves no grant behind on GCP, for any profiles,      *)
(* identities and bounds, if there is one worker, if users do not change   *)
(* the identity that a profile names and if administrators leave the       *)
(* plugin's role alone.  Without any one of the three it is not so: the    *)
(* late ApplyPlugin of another worker, the grant on an earlier identity,   *)
(* or the administrator's own grant would remain.                          *)
(***************************************************************************)

Undisturbed ==
  /\ \E w : Workers = {w}
  /\ ~PluginEdits
  /\ WorkloadIdentityUser \notin AdministeredRoles

(* A profile only ever has a grant on the identity it names.                *)
GrantsNamed == \A g \in Granted : g[1] = plugin[g[2]]

(* A pass is for the identity that its profile names; as long as it has not *)
(* begun to revoke the profile is there, and a revocation that is done has  *)
(* left no grant.                                                           *)
CallSound(w) ==
  LET n == call[w].namespace
  IN call[w] # Nil =>
       /\ call[w].identity = plugin[n]
       /\ call[w].kind = "apply" => phase[n] # "gone"
       /\ call[w].kind = "revoke" /\ call[w].step = "done" =>
            <<plugin[n], n>> \notin Granted

Sound == NothingLeft /\ GrantsNamed /\ \A w \in Workers : CallSound(w)

(* Users delete profiles and service accounts, which disturbs nothing.      *)
LEMMA UserActionSound ==
  ASSUME Undisturbed, IInv, Sound, UserAction, UNCHANGED gcpVars
  PROVE  Sound'
<1>1. /\ UNCHANGED <<plugin, call, Granted>>
      /\ \A n \in Namespaces : phase'[n] = "gone" <=> phase[n] = "gone"
  BY DEF UserAction, DeleteProfile, ChangePlugin, DeleteServiceAccount,
         Undisturbed, gcpVars, Granted, IInv, TypeOK
<1>2. \A w \in Workers : call[w] # Nil => call[w].namespace \in Namespaces
  BY DEF IInv, TypeOK, CallRecord
<1>3. NothingLeft' /\ GrantsNamed'
  BY <1>1 DEF Sound, NothingLeft, GrantsNamed
<1>4. \A w \in Workers : CallSound(w)'
  BY <1>1, <1>2 DEF Sound, CallSound
<1> QED BY <1>3, <1>4 DEF Sound

(* Administrators change other roles only.                                  *)
LEMMA AdministerSound ==
  ASSUME Undisturbed, IInv, Sound, NEW i \in Identities,
         NEW r \in AdministeredRoles, NEW members \in SUBSET Namespaces,
         Administer(i, r, members)
  PROVE  Sound'
<1>1. UNCHANGED <<phase, plugin, call>>
  BY DEF Administer
<1>2. r \in Roles /\ r # WorkloadIdentityUser
  BY GcpAssumption DEF Undisturbed
<1>3. \A j \in Identities :
        policy'[j][WorkloadIdentityUser] = policy[j][WorkloadIdentityUser]
  BY <1>2 DEF Administer, Store, IInv, TypeOK
<1>4. Granted' = Granted
  BY <1>3 DEF Granted
<1> QED BY <1>1, <1>4 DEF Sound, NothingLeft, GrantsNamed, CallSound

(* The only call starts, goes on or ends, without an effect on the grants.  *)
LEMMA CallSoundKept ==
  ASSUME Undisturbed, IInv, Sound, NEW w \in Workers,
         UNCHANGED <<phase, plugin, policy>>,
         call'[w] = Nil \/ CallSound(w)'
  PROVE  Sound'
<1>1. Granted' = Granted
  BY DEF Granted
<1>2. Workers = {w}
  BY DEF Undisturbed
<1>3. CallSound(w)'
  BY DEF CallSound
<1> QED BY <1>1, <1>2, <1>3 DEF Sound, NothingLeft, GrantsNamed

(* A call starts.                                                           *)
LEMMA StartSound ==
  ASSUME Undisturbed, IInv, Sound, NEW w \in Workers, Begins(w)
  PROVE  Sound'
<1>1. UNCHANGED <<phase, plugin, policy>>
  BY BeginsCall DEF IInv
<1>2. CASE \E n \in Namespaces : ApplyPlugin(w, n)
  <2>1. PICK n \in Namespaces : ApplyPlugin(w, n)
    BY <1>2
  <2>2. /\ call'[w].kind = "apply" /\ call'[w].namespace = n
        /\ call'[w].identity = plugin[n]
    BY <2>1, ApplyStarts, TypesSplit DEF IInv
  <2>3. phase[n] # "gone"
    BY <2>1 DEF ApplyPlugin
  <2>4. CallSound(w)'
    BY <1>1, <2>2, <2>3 DEF CallSound
  <2> QED BY <1>1, <2>4, CallSoundKept
<1>3. CASE RevokePlugin(w, "read")
  <2>1. /\ call'[w].kind = "revoke" /\ call'[w].step = "read"
        /\ call'[w].identity = call[w].identity
        /\ call'[w].namespace = call[w].namespace
    BY <1>3, RevokeStarts, TypesSplit DEF IInv
  <2>2. call[w] # Nil
    BY <1>3 DEF RevokePlugin
  <2>3. CallSound(w)'
    BY <1>1, <2>1, <2>2 DEF Sound, CallSound
  <2> QED BY <1>1, <2>3, CallSoundKept
<1> QED BY <1>2, <1>3 DEF Begins

(* A step on the way of a pass, up to the end of ApplyPlugin.               *)
LEMMA OnTheWaySound ==
  ASSUME Undisturbed, IInv, Sound, NEW w \in Workers, call[w] # Nil,
         UNCHANGED <<phase, plugin, policy>>,
         Goto(w, "read") \/ Goto(w, "write") \/ Goto(w, "revoke")
  PROVE  Sound'
<1>1. PICK step \in {"read", "write", "revoke"} :
        call'[w] = [call[w] EXCEPT !.step = step]
  BY CallMoves, TypesSplit DEF IInv
<1>2. call[w] \in CallRecord
  BY DEF IInv, TypeOK
<1>3. /\ call'[w].identity = call[w].identity
      /\ call'[w].namespace = call[w].namespace
      /\ call'[w].kind = call[w].kind
      /\ call'[w].step # "done"
  BY <1>1, <1>2 DEF CallRecord
<1>4. CallSound(w)'
  BY <1>3 DEF Sound, CallSound
<1> QED BY <1>4, CallSoundKept

(* A set grants to a profile that is there, or revokes.                     *)
LEMMA SetIamPolicySound ==
  ASSUME Undisturbed, IInv, Sound, NEW w \in Workers, SetIamPolicy(w)
  PROVE  Sound'
<1> DEFINE n == call[w].namespace
           g == <<call[w].identity, n>>
<1>1. /\ call[w] # Nil /\ call[w].step = "write"
      /\ Goto(w, "done") \/ Hangup(w)
      /\ UNCHANGED <<phase, plugin>>
  BY DEF SetIamPolicy, AbortAfter
<1>2. /\ call[w] \in CallRecord /\ n \in Namespaces
      /\ call[w].kind \in {"apply", "revoke"}
  BY <1>1 DEF IInv, TypeOK, CallRecord
<1>3. g = <<plugin[n], n>> /\ (call[w].kind = "apply" => phase[n] # "gone")
  BY <1>1 DEF Sound, CallSound
<1>4. Granted' = IF call[w].kind = "apply" THEN Granted \cup {g}
                                           ELSE Granted \ {g}
  BY <1>1, SetIamPolicyEffect DEF Promise!Outcome, Pending, PendingOf
<1> HIDE DEF g
<1>5. GrantsNamed'
  BY <1>1, <1>3, <1>4 DEF Sound, GrantsNamed
<1>6. NothingLeft'
  <2> HIDE DEF n
  <2> SUFFICES ASSUME NEW m \in Namespaces, phase[m] = "gone",
                      NEW i \in Identities
               PROVE  <<i, m>> \notin Granted'
    BY <1>1 DEF NothingLeft
  <2>1. <<i, m>> \notin Granted
    BY DEF Sound, NothingLeft
  <2>2. call[w].kind = "apply" => <<i, m>> # g
    BY <1>3
  <2> QED BY <1>4, <2>1, <2>2
<1>7. CallSound(w)'
  <2>1. CASE Hangup(w)
    BY <1>1, <2>1, CallMoves, TypesSplit DEF IInv, CallSound
  <2>2. CASE Goto(w, "done")
    <3>1. call'[w] = [call[w] EXCEPT !.step = "done"]
      BY <1>1, <2>2, CallMoves, TypesSplit DEF IInv
    <3>2. /\ call'[w].identity = call[w].identity /\ call'[w].namespace = n
          /\ call'[w].kind = call[w].kind
      BY <1>2, <3>1 DEF CallRecord
    <3>3. call[w].kind = "revoke" => g \notin Granted'
      BY <1>4
    <3>4. call[w].identity = plugin[n]
      BY <1>1 DEF Sound, CallSound
    <3> HIDE DEF n
    <3> QED BY <1>1, <1>3, <3>2, <3>3, <3>4 DEF CallSound
  <2> QED BY <1>1, <2>1, <2>2
<1>8. Workers = {w}
  BY DEF Undisturbed
<1> QED BY <1>5, <1>6, <1>7, <1>8 DEF Sound

(* The finalizer is only removed after a revocation that is done.           *)
LEMMA FinishSound ==
  ASSUME Undisturbed, IInv, Sound, NEW w \in Workers, Finish(w), Hangup(w),
         UNCHANGED gcpVars
  PROVE  Sound'
<1> DEFINE n == call[w].namespace
<1>1. /\ call[w] # Nil /\ call[w].step = "done" /\ Hangup(w)
      /\ UNCHANGED plugin
      /\ phase' = phase \/ (/\ call[w].kind = "revoke"
                            /\ phase' = [phase EXCEPT ![n] = "gone"])
  <2>1. call[w] # Nil /\ call[w] \in CallRecord
    BY DEF Finish, IInv, TypeOK
  <2>2. /\ call[w].identity = plugin[n]
        /\ phase \in [Namespaces -> {"live", "deleting", "gone"}]
    BY <2>1 DEF Sound, CallSound, IInv, TypeOK
  <2> HIDE DEF n
  <2>3. /\ call[w].step = "done" /\ UNCHANGED plugin
        /\ \/ phase' = phase
           \/ /\ call[w].kind = "revoke"
              /\ phase' = [phase EXCEPT ![n] =
                             IF plugin[n] = call[w].identity THEN "gone" ELSE @]
    BY DEF Finish, n
  <2> QED BY <2>1, <2>2, <2>3
<1>2. Granted' = Granted
  BY DEF Granted, gcpVars
<1>3. call'[w] = Nil
  BY <1>1, CallMoves, TypesSplit DEF IInv
<1>4. NothingLeft'
  <2> SUFFICES ASSUME NEW m \in Namespaces, phase'[m] = "gone",
                      NEW i \in Identities, <<i, m>> \in Granted
               PROVE  FALSE
    BY <1>2 DEF NothingLeft
  <2>1. phase[m] # "gone"
    BY DEF Sound, NothingLeft
  <2>2. call[w].kind = "revoke" /\ m = n
    BY <1>1, <2>1 DEF IInv, TypeOK
  <2>3. <<plugin[m], m>> \notin Granted
    BY <1>1, <2>2 DEF Sound, CallSound
  <2>4. i = plugin[m]
    BY DEF Sound, GrantsNamed
  <2> QED BY <2>3, <2>4
<1>5. Workers = {w}
  BY DEF Undisturbed
<1> QED BY <1>1, <1>2, <1>3, <1>4, <1>5 DEF Sound, GrantsNamed, CallSound

(* Every step.                                                              *)
LEMMA NextSound ==
  ASSUME Undisturbed, IInv, Sound, [Next]_vars
  PROVE  Sound'
<1>1. ASSUME NEW w \in Workers, WorkerStep(w) \/ GiveUp(w)
      PROVE  Sound'
  <2>1. ASSUME call[w] # Nil, UNCHANGED <<phase, plugin, policy>>, Hangup(w)
        PROVE  Sound'
    BY <2>1, CallMoves, CallSoundKept, TypesSplit DEF IInv
  <2>2. \/ SetIamPolicy(w)
        \/ Finish(w) /\ Hangup(w) /\ UNCHANGED gcpVars
        \/ /\ call[w] # Nil /\ UNCHANGED <<phase, plugin, policy>>
           /\ \/ Goto(w, "read") \/ Goto(w, "write") \/ Goto(w, "revoke")
              \/ Hangup(w)
        \/ Begins(w)
    BY <1>1 DEF WorkerStep, GiveUp, Abort, FailProjectID, GetIamPolicy, Conflict,
                PatchAnnotation, MissServiceAccount, Finish, Begins, gcpVars
  <2> QED BY <2>1, <2>2, SetIamPolicySound, FinishSound, OnTheWaySound, StartSound
<1>2. CASE UNCHANGED vars
  BY <1>2 DEF vars, callerVars, gcpVars, Sound, NothingLeft, GrantsNamed,
              CallSound, Granted
<1> QED BY <1>1, <1>2, UserActionSound, AdministerSound, StartSound DEF Next, Begins

(* "to cleanup any non-k8s resources created via ApplyPlugin" (the Plugin   *)
(* interface): the service account of a deleted profile has no grant left.  *)
THEOREM GcpLeavesNothing ==
  ASSUME Undisturbed
  PROVE  Spec => []NothingLeft
<1>1. Init => Sound
  <2> SUFFICES ASSUME Init
               PROVE  Sound
    OBVIOUS
  <2>1. Granted = {}
    <3>1. \A i \in Identities : policy[i][WorkloadIdentityUser] = {}
      BY DEF Init, Roles
    <3>2. \A g \in Identities \X Namespaces : g[1] \in Identities
      OBVIOUS
    <3> QED BY <3>1, <3>2 DEF Granted
  <2>2. \A w \in Workers : call[w] = Nil
    BY DEF Init, CallerInit
  <2> QED BY <2>1, <2>2 DEF Sound, NothingLeft, GrantsNamed, CallSound
<1>2. IInv /\ Sound /\ [Next]_vars => Sound'
  BY NextSound
<1>3. Sound => NothingLeft
  BY DEF Sound
<1> QED BY <1>1, <1>2, <1>3, CopiesCurrentAlways, PTL DEF Spec
=============================================================================
