-------------------------- MODULE WorkloadIdentity --------------------------
(***************************************************************************)
(* The GCP plugin: GcpWorkloadIdentity.  It reads the IAM policy of the    *)
(* GCP service account, adds or removes a binding and sets the policy,     *)
(* which IAM refuses if the etag that was read is no longer the stored one.*)
(***************************************************************************)
EXTENDS PluginCaller

CONSTANTS
  AdministeredRoles,   \* the roles administrators give and take away
  Invalid              \* the identities that are no GCP service accounts

VARIABLES
  policy,     \* policy[i][role]: the members with that role on identity i
  copy,       \* copy[w]: the bindings w has read and changed
  current     \* the workers whose copy has the stored etag

gcpVars == <<policy, copy, current>>
vars == <<callerVars, gcpVars>>

WorkloadIdentityUser == "roles/iam.workloadIdentityUser"

Roles == {WorkloadIdentityUser, "roles/other"}

ASSUME GcpAssumption ==
  /\ AdministeredRoles \subseteq Roles
  /\ Invalid \subseteq Identities

Binding == [role : Roles, members : SUBSET Namespaces]

Init ==
  /\ CallerInit
  /\ policy = [i \in Identities |-> [r \in Roles |-> {}]]
  /\ copy = [w \in Workers |-> {}]
  /\ current = {}

(***************************************************************************)
(* The IAM service: bindings of the same role are merged, and a set makes  *)
(* every other copy of the policy stale.                                   *)
(***************************************************************************)
Bindings(i) == {[role |-> r, members |-> policy[i][r]] : r \in Roles}

Merged(bindings) ==
  [r \in Roles |-> UNION {b.members : b \in {b \in bindings : b.role = r}}]

Store(i, new) ==
  /\ policy' = [policy EXCEPT ![i] = new]
  /\ current' = {w \in current : call[w].identity # i}

(* An administrator changes who has a role.                                 *)
Administer(i, role, members) ==
  /\ Edit
  /\ policy[i][role] # members
  /\ Store(i, [policy[i] EXCEPT ![role] = members])
  /\ UNCHANGED <<phase, plugin, serviceAccount, call, faults, copy>>

(***************************************************************************)
(* The plugin.                                                             *)
(***************************************************************************)
\* Mutant: the role of the new binding is not set.
AddBindingNoRole(bindings, member) ==
  bindings \cup {[role |-> "", members |-> {member}]}

AddBinding(bindings, member) ==
  bindings \cup {[role |-> WorkloadIdentityUser, members |-> {member}]}

\* Mutant: only a binding of just this member is removed.
RevokeWholeBinding(bindings, member) ==
  bindings \ {[role |-> WorkloadIdentityUser, members |-> {member}]}

\* Mutant: the member is removed from the bindings of every role.
RevokeEveryRole(bindings, member) ==
  {[b EXCEPT !.members = @ \ {member}] : b \in bindings}

RevokeBinding(bindings, member) ==
  {IF b.role = WorkloadIdentityUser
     THEN [b EXCEPT !.members = @ \ {member}]
     ELSE b : b \in bindings}

(* updateWorkloadIdentity: without a project ID nothing is read.  If the    *)
(* identity is shorter than the suffix that GetProjectID takes from it, the *)
(* call does not return an error but ends the process.                      *)
GetProjectID(identity) == identity \notin Invalid

FailProjectID(w) ==
  /\ call[w] # Nil
  /\ call[w].step = "read"
  /\ ~GetProjectID(call[w].identity)
  /\ Hangup(w)
  /\ UNCHANGED <<phase, plugin, serviceAccount, edits, faults, gcpVars>>

(* ... and from then on up to the change of the copy.                       *)
GetIamPolicy(w) ==
  LET bindings == Bindings(call[w].identity)
      member == call[w].namespace
  IN /\ call[w] # Nil
     /\ call[w].step = "read"
     /\ GetProjectID(call[w].identity)
     /\ copy' = [copy EXCEPT ![w] =
          IF call[w].kind = "apply" THEN AddBinding(bindings, member)
                                    ELSE RevokeBinding(bindings, member)]
     /\ current' = current \cup {w}
     /\ Goto(w, "write")
     /\ UNCHANGED <<phase, plugin, serviceAccount, edits, faults, policy>>

\* Mutant: the policy is set whatever its etag.
SetIamPolicyUnchecked(w) ==
  /\ call[w] # Nil
  /\ call[w].step = "write"
  /\ Store(call[w].identity, Merged(copy[w]))
  /\ Goto(w, "done") /\ UNCHANGED faults
  /\ copy' = [copy EXCEPT ![w] = {}]
  /\ UNCHANGED <<phase, plugin, serviceAccount, edits>>

SetIamPolicy(w) ==
  /\ call[w] # Nil
  /\ call[w].step = "write"
  /\ w \in current
  /\ Store(call[w].identity, Merged(copy[w]))
  /\ \/ Goto(w, "done") /\ UNCHANGED faults
     \/ AbortAfter(w)
  /\ copy' = [copy EXCEPT ![w] = {}]
  /\ UNCHANGED <<phase, plugin, serviceAccount, edits>>

Conflict(w) ==
  /\ call[w] # Nil
  /\ call[w].step = "write"
  /\ w \notin current
  /\ Hangup(w)
  /\ copy' = [copy EXCEPT ![w] = {}]
  /\ UNCHANGED <<phase, plugin, serviceAccount, edits, faults, policy, current>>

GiveUp(w) ==
  /\ Abort(w)
  /\ copy' = [copy EXCEPT ![w] = {}]
  /\ current' = current \ {w}
  /\ UNCHANGED policy

WorkerStep(w) ==
  \/ RevokePlugin(w, "read") /\ UNCHANGED gcpVars
  \/ FailProjectID(w)
  \/ GetIamPolicy(w) \/ SetIamPolicy(w) \/ Conflict(w)
  \/ PatchAnnotation(w, call[w].identity) /\ UNCHANGED gcpVars
  \/ MissServiceAccount(w) /\ UNCHANGED gcpVars
  \/ Finish(w) /\ UNCHANGED gcpVars

Next ==
  \/ UserAction /\ UNCHANGED gcpVars
  \/ \E i \in Identities, r \in AdministeredRoles, members \in SUBSET Namespaces :
       Administer(i, r, members)
  \/ \E w \in Workers :
       \/ \E n \in Namespaces : ApplyPlugin(w, n) /\ UNCHANGED gcpVars
       \/ WorkerStep(w)
       \/ GiveUp(w)

Spec == Init /\ [][Next]_vars

(***************************************************************************)
(* Passes go on, and a profile being deleted has its turn: the queue is    *)
(* first in first out and a failed Reconcile is repeated.                  *)
(***************************************************************************)
Turn(w, n) == phase[n] = "deleting" /\ ApplyPlugin(w, n) /\ UNCHANGED gcpVars

FairSpec ==
  /\ Spec
  /\ \A w \in Workers : /\ WF_vars(WorkerStep(w))
                        /\ \A n \in Namespaces : SF_vars(Turn(w, n))

(***************************************************************************)
(* Properties.                                                             *)
(***************************************************************************)
TypeOK ==
  /\ phase \in [Namespaces -> {"live", "deleting", "gone"}]
  /\ plugin \in [Namespaces -> Identities]
  /\ serviceAccount \in [Namespaces -> Identities \cup {Nil, Unannotated}]
  /\ call \in [Workers -> CallRecord \cup {Nil}]
  /\ edits \in 0 .. MaxEdits
  /\ faults \in 0 .. MaxFaults
  /\ policy \in [Identities -> [Roles -> SUBSET Namespaces]]
  /\ copy \in [Workers -> SUBSET Binding]
  /\ current \subseteq {w \in Workers : call[w] # Nil /\ call[w].step = "write"}

Granted ==
  {g \in Identities \X Namespaces : g[2] \in policy[g[1]][WorkloadIdentityUser]}

Promise == INSTANCE PluginGrants
             WITH Idle <- Nil, granted <- Granted, pending <- Pending

(* Through interleaved calls, edits by administrators, lost answers and     *)
(* crashes, every call of the plugin takes effect atomically or not at all  *)
(* and returns without an error only if it did.                             *)
KeepsPromise == Promise!Spec

(* The plugin reads and writes a whole policy, but whatever others change   *)
(* meanwhile it leaves the members of other roles as they are stored.       *)
OtherRolesKept ==
  [][call' # call => \A i \in Identities, r \in Roles \ {WorkloadIdentityUser} :
       policy'[i][r] = policy[i][r]]_vars

(* "to cleanup any non-k8s resources created via ApplyPlugin" (the Plugin   *)
(* interface): the service account of a deleted profile has no grant left.  *)
NothingLeft ==
  \A n \in Namespaces :
    phase[n] = "gone" => \A i \in Identities : <<i, n>> \notin Granted

(* A profile that is deleted is let go.  Every pass for it applies the      *)
(* plugin before it revokes it, and an error of either ends the pass; yet   *)
(* lost answers, conflicts and a service account that users delete, also    *)
(* again and again as long as they stop, do not keep it.  Only an invalid   *)
(* identity does, its own, or one of another profile, since a process that  *)
(* panics again and again may not come to this profile.                     *)
DeletionFinishes ==
  \A n \in Namespaces :
    phase[n] = "deleting" ~>
      \/ phase[n] = "gone"
      \/ \E m \in Namespaces : phase[m] # "gone" /\ ~GetProjectID(plugin[m])
=============================================================================
