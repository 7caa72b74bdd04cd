------------------------------- MODULE AwsIam -------------------------------
(***************************************************************************)
(* The AWS plugin: AwsIAMForServiceAccount.  It reads the trust policy of  *)
(* a role, adds or removes the service account in its first statement and  *)
(* writes the policy back, with nothing that tells IAM which version the   *)
(* change was made to.  A policy is the sequence of its statements, each   *)
(* the set of the namespaces whose service account it names in its :sub    *)
(* condition; no name, no :sub condition.  A policy whose Statement is not *)
(* a list, which JSON policies allow if there is just one, is to the code  *)
(* a policy of no statements.                                              *)
(***************************************************************************)
EXTENDS PluginCaller, Sequences

CONSTANTS
  Unreadable,     \* a document that is no JSON, such as the empty string
  MaxStatements   \* bound: statements in a policy

ASSUME StatementsAssumption == MaxStatements \in Nat \ {0}

VARIABLES
  policy,     \* policy[i]: the trust policy of role i as IAM returns it
  copy        \* copy[w]: the document w is about to write, or Nil

awsVars == <<policy, copy>>
vars == <<callerVars, awsVars>>

Statement == SUBSET Namespaces

Policies == UNION {[1 .. k -> Statement] : k \in 0 .. MaxStatements}

Documents == Policies \cup {Unreadable}

ASSUME PoliciesAssumption == Unreadable \notin Policies /\ Nil \notin Documents

(* What a document names in any of its statements.                          *)
Named(document) ==
  IF document = Unreadable THEN {}
  ELSE UNION {document[k] : k \in DOMAIN document}

Init ==
  /\ CallerInit
  /\ policy \in [Identities -> {p \in Policies : 1 \in DOMAIN p => p[1] = {}}
                                 \cup {Unreadable}]
  /\ copy = [w \in Workers |-> Nil]

(***************************************************************************)
(* The change: the new policy has the one statement built from the         *)
(* identities of the first one.                                            *)
(***************************************************************************)
\* Mutant: the new statement is added to an old one.
MakePolicyDocumentAdding(statement) == <<statement, statement>>

MakePolicyDocument(statement) == <<statement>>

\* Mutant: the new identity replaces the ones that are there.
AddOnlyServiceAccount(document, member) ==
  IF document = Unreadable THEN Unreadable ELSE MakePolicyDocument({member})

(* The error of a document that is no JSON comes with an empty document.    *)
AddServiceAccount(document, member) ==
  IF document = Unreadable THEN Unreadable
  ELSE MakePolicyDocument(document[1] \cup {member})

RemoveServiceAccount(document, member) ==
  MakePolicyDocument(document[1] \ {member})

(***************************************************************************)
(* The plugin.                                                             *)
(***************************************************************************)
(* addIAMRoleAnnotation, removeIAMRoleAnnotation.                           *)
Annotation(w) ==
  IF call[w].kind = "apply" THEN call[w].identity ELSE Unannotated

(* statements[0] of no statements is a panic.  Only addServiceAccount looks *)
(* at the error of a document that is no JSON before that.                  *)
Panic(w) ==
  LET document == policy[call[w].identity]
  IN /\ call[w] # Nil
     /\ call[w].step = "read"
     /\ IF document = Unreadable THEN call[w].kind = "revoke"
                                 ELSE document = <<>>
     /\ Hangup(w)
     /\ UNCHANGED <<phase, plugin, serviceAccount, edits, faults, awsVars>>

\* Mutant: any error of the policy function skips the update.
SkipAfterError(w) ==
  LET document == policy[call[w].identity]
  IN /\ call[w] # Nil
     /\ call[w].step = "read"
     /\ call[w].kind = "apply"
     /\ document # Unreadable =>
          document # <<>> /\ call[w].namespace \in document[1]
     /\ Goto(w, "done")
     /\ UNCHANGED <<phase, plugin, serviceAccount, edits, faults, awsVars>>

(* The ConditionExistError: the identity is there and nothing is written.   *)
Skip(w) ==
  LET document == policy[call[w].identity]
  IN /\ call[w] # Nil
     /\ call[w].step = "read"
     /\ call[w].kind = "apply"
     /\ document \notin {Unreadable, <<>>}
     /\ call[w].namespace \in document[1]
     /\ Goto(w, "done")
     /\ UNCHANGED <<phase, plugin, serviceAccount, edits, faults, awsVars>>

(* Any other error of the policy function is not returned, and its empty    *)
(* document is on its way to IAM.                                           *)
GetRole(w) ==
  LET document == policy[call[w].identity]
      member == call[w].namespace
  IN /\ call[w] # Nil
     /\ call[w].step = "read"
     /\ document # <<>>
     /\ \/ /\ call[w].kind = "apply"
           /\ document # Unreadable => member \notin document[1]
           /\ copy' = [copy EXCEPT ![w] = AddServiceAccount(document, member)]
        \/ /\ call[w].kind = "revoke"
           /\ document # Unreadable
           /\ copy' = [copy EXCEPT ![w] = RemoveServiceAccount(document, member)]
     /\ Goto(w, "write")
     /\ UNCHANGED <<phase, plugin, serviceAccount, edits, faults, policy>>

UpdateAssumeRolePolicy(w) ==
  /\ call[w] # Nil
  /\ call[w].step = "write"
  /\ copy[w] # Unreadable
  /\ policy' = [policy EXCEPT ![call[w].identity] = copy[w]]
  /\ \/ Goto(w, "done") /\ UNCHANGED faults
     \/ AbortAfter(w)
  /\ copy' = [copy EXCEPT ![w] = Nil]
  /\ UNCHANGED <<phase, plugin, serviceAccount, edits>>

(* IAM refuses an empty document, and the call returns that error.          *)
RefuseDocument(w) ==
  /\ call[w] # Nil
  /\ call[w].step = "write"
  /\ copy[w] = Unreadable
  /\ Hangup(w)
  /\ copy' = [copy EXCEPT ![w] = Nil]
  /\ UNCHANGED <<phase, plugin, serviceAccount, edits, faults, policy>>

GiveUp(w) ==
  /\ Abort(w)
  /\ copy' = [copy EXCEPT ![w] = Nil]
  /\ UNCHANGED policy

WorkerStep(w) ==
  \/ RevokePlugin(w, "annotate") /\ UNCHANGED awsVars
  \/ PatchAnnotation(w, Annotation(w)) /\ UNCHANGED awsVars
  \/ MissServiceAccount(w) /\ UNCHANGED awsVars
  \/ Panic(w) \/ Skip(w) \/ GetRole(w)
  \/ UpdateAssumeRolePolicy(w) \/ RefuseDocument(w)
  \/ Finish(w) /\ UNCHANGED awsVars

Next ==
  \/ UserAction /\ UNCHANGED awsVars
  \/ \E w \in Workers :
       \/ \E n \in Namespaces : ApplyPlugin(w, n) /\ UNCHANGED awsVars
       \/ WorkerStep(w)
       \/ GiveUp(w)

Spec == Init /\ [][Next]_vars

(***************************************************************************)
(* Passes go on, and a profile being deleted has its turn, as in           *)
(* WorkloadIdentity.                                                       *)
(***************************************************************************)
Turn(w, n) == phase[n] = "deleting" /\ ApplyPlugin(w, n) /\ UNCHANGED awsVars

FairSpec ==
  /\ Spec
  /\ \A w \in Workers : /\ WF_vars(WorkerStep(w))
                        /\ \A n \in Namespaces : SF_vars(Turn(w, n))

(***************************************************************************)
(* Properties.                                                             *)
(***************************************************************************)
TypeOK ==
  /\ phase \in [Namespaces -> {"live", "deleting", "gone"}]
  /\ plugin \in [Namespaces -> Identities]
  /\ serviceAccount \in [Namespaces -> Identities \cup {Nil, Unannotated}]
  /\ call \in [Workers -> CallRecord \cup {Nil}]
  /\ edits \in 0 .. MaxEdits
  /\ faults \in 0 .. MaxFaults
  /\ policy \in [Identities -> Documents]
  /\ copy \in [Workers -> Documents \cup {Nil}]
  /\ \A w \in Workers :
       copy[w] # Nil <=> call[w] # Nil /\ call[w].step = "write"

Granted == {g \in Identities \X Namespaces : g[2] \in Named(policy[g[1]])}

Promise == INSTANCE PluginGrants
             WITH Idle <- Nil, granted <- Granted, pending <- Pending

(* "We assume we only operator on first statement" (plugin_iam.go:147).  If *)
(* policies have no other, with one worker, and through lost answers,       *)
(* crashes, panics and documents that cannot be read, every call of the     *)
(* plugin records or removes its service account and no other, or nothing,  *)
(* and returns without an error only if it did.  A policy of two statements *)
(* loses what the second names.                                             *)
KeepsPromise == Promise!Spec

(* "to cleanup any non-k8s resources created via ApplyPlugin" (the Plugin   *)
(* interface): no role records the service account of a deleted profile.    *)
NothingLeft ==
  \A n \in Namespaces :
    phase[n] = "gone" => \A i \in Identities : <<i, n>> \notin Granted

(* A profile that is deleted is let go, although ApplyPlugin and            *)
(* RevokePlugin both need the service account, which users may delete: the  *)
(* next pass makes it again.  Only a policy without a first statement keeps *)
(* the profile: its own, or that of another, if the process panics on it    *)
(* and does not come to this profile.                                       *)
DeletionFinishes ==
  \A n \in Namespaces :
    phase[n] = "deleting" ~>
      \/ phase[n] = "gone"
      \/ policy[plugin[n]] = Unreadable
      \/ \E m \in Namespaces : phase[m] # "gone" /\ policy[plugin[m]] = <<>>

(* "update trust relationship of IAM role" (ApplyPlugin): what one call has *)
(* recorded only a RevokePlugin for the same service account removes.       *)
OnlyRevokeRemoves ==
  [][\A g \in Granted \ Granted' : \E w \in Workers :
       /\ call'[w] # call[w]
       /\ call[w].kind = "revoke"
       /\ <<call[w].identity, call[w].namespace>> = g]_vars
=============================================================================
