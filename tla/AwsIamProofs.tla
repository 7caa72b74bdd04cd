---------------------------- MODULE AwsIamProofs ----------------------------
(***************************************************************************)
(* The AWS plugin keeps its types, for any workers, policies and bounds.   *)
(* With one worker, and with policies of at most one statement, it         *)
(* implements PluginGrants and leaves no record of a deleted profile, for  *)
(* any profiles, roles and bounds.  With two workers it does neither: a    *)
(* policy is written back over what another worker has written since.      *)
(* With more statements a write drops all but the first, with what they    *)
(* name, and what they name on other roles from the start is never removed.*)
(***************************************************************************)
EXTENDS AwsIam, PluginCallerProofs

OneWorker == \E w : Workers = {w}

OneStatement == MaxStatements = 1

(* A document that has a first statement for the code.                      *)
HasStatement(document) == document # Unreadable /\ document # <<>>

(* What the call of w makes of the stored first statement.                  *)
Recorded(w) ==
  LET old == policy[call[w].identity][1]
  IN IF call[w].kind = "apply" THEN old \cup {call[w].namespace}
                               ELSE old \ {call[w].namespace}

(* A policy that is about to be written was made from the stored one.       *)
CopyCurrent(w) ==
  copy[w] \in {Nil, Unreadable} \/
    (copy[w] = <<Recorded(w)>> /\ HasStatement(policy[call[w].identity]))

CopiesCurrent == \A w \in Workers : CopyCurrent(w)

IInv == TypeOK /\ CopiesCurrent

(***************************************************************************)
(* Types.                                                                  *)
(***************************************************************************)
AwsTypes ==
  /\ policy \in [Identities -> Documents]
  /\ copy \in [Workers -> Documents \cup {Nil}]

Writes(w) == call[w] # Nil /\ call[w].step = "write"

(* The parts of TypeOK.                                                     *)
LEMMA TypesSplit ==
  TypeOK <=> /\ CallerTypes /\ AwsTypes
             /\ \A w \in Workers : copy[w] # Nil <=> Writes(w)
BY DEF TypeOK, CallerTypes, AwsTypes, Writes

(* A policy of one statement, and the first statement of any policy.        *)
LEMMA DocumentTyped ==
  /\ \A s \in SUBSET Namespaces : /\ <<s>> \in Documents
                                 /\ <<s>> # Unreadable /\ <<s>> # Nil
                                 /\ Named(<<s>>) = s
  /\ \A d \in Documents : HasStatement(d) => d[1] \in SUBSET Namespaces
<1>1. ASSUME NEW s \in SUBSET Namespaces
      PROVE  /\ <<s>> \in Policies
             /\ <<s>> # Unreadable => Named(<<s>>) = s
  <2>1. <<s>> \in [1 .. 1 -> Statement]
    BY DEF Statement
  <2>2. 1 \in 0 .. MaxStatements
    BY StatementsAssumption
  <2>3. <<s>> \in Policies
    BY <2>1, <2>2 DEF Policies
  <2>4. DOMAIN <<s>> = {1} /\ <<s>>[1] = s
    OBVIOUS
  <2>5. UNION {<<s>>[k] : k \in DOMAIN <<s>>} = s
    BY <2>4
  <2> QED BY <2>3, <2>5 DEF Named
<1>2. ASSUME NEW p \in Policies, p # <<>>
      PROVE  p[1] \in SUBSET Namespaces
  <2>1. PICK k \in 0 .. MaxStatements : p \in [1 .. k -> Statement]
    BY DEF Policies
  <2>2. k # 0
    <3> SUFFICES ASSUME k = 0
                 PROVE  FALSE
      OBVIOUS
    <3>1. p \in Seq(Statement) /\ Len(p) = 0
      BY <2>1
    <3> QED BY <1>2, <3>1
  <2>3. 1 \in 1 .. k
    BY <2>1, <2>2, StatementsAssumption
  <2> QED BY <2>1, <2>3 DEF Statement
<1> QED BY <1>1, <1>2, PoliciesAssumption DEF Documents, HasStatement

(* The types are kept if they are for the caller, the policies and w.       *)
LEMMA TypesKept ==
  ASSUME TypeOK, NEW w \in Workers, CallerTypes', AwsTypes',
         \A v \in Workers \ {w} : call'[v] = call[v] /\ copy'[v] = copy[v],
         copy'[w] # Nil <=> Writes(w)'
  PROVE  TypeOK'
<1>1. \A v \in Workers : copy'[v] # Nil <=> Writes(v)'
  BY TypesSplit DEF Writes
<1> QED BY <1>1 DEF TypeOK, CallerTypes, AwsTypes, Writes

(* A call starts, at the beginning of a pass or in the middle of it.        *)
Begins(w) ==
  /\ UNCHANGED awsVars
  /\ (\E n \in Namespaces : ApplyPlugin(w, n)) \/ RevokePlugin(w, "annotate")

LEMMA BeginsCall ==
  ASSUME TypeOK, NEW w \in Workers, Begins(w)
  PROVE  /\ CallerTypes'
         /\ UNCHANGED <<phase, plugin, policy, copy>>
         /\ copy[w] = Nil
         /\ ~Writes(w)'
         /\ \A v \in Workers \ {w} : call'[v] = call[v]
<1> USE TypesSplit
<1>1. /\ CallerTypes'
      /\ call'[w].step = "annotate"
      /\ \A v \in Workers \ {w} : call'[v] = call[v]
  BY ApplyStarts, RevokeStarts DEF Begins
<1>2. /\ UNCHANGED <<phase, plugin, policy, copy>>
      /\ call[w] = Nil \/ call[w].step = "revoke"
  BY DEF Begins, ApplyPlugin, RevokePlugin, awsVars
<1>3. copy[w] = Nil
  BY <1>2 DEF Writes
<1> QED BY <1>1, <1>2, <1>3 DEF Writes

LEMMA StartTypes ==
  ASSUME TypeOK, NEW w \in Workers, Begins(w)
  PROVE  TypeOK'
<1>1. AwsTypes'
  BY BeginsCall, TypesSplit DEF AwsTypes
<1>2. copy'[w] # Nil <=> Writes(w)'
  BY BeginsCall
<1>3. CallerTypes' /\ \A v \in Workers \ {w} : call'[v] = call[v] /\ copy'[v] = copy[v]
  BY BeginsCall
<1> QED BY <1>1, <1>2, <1>3, TypesKept

(* A call goes on or ends without a copy of the policy.                     *)
LEMMA MoveTypes ==
  ASSUME TypeOK, NEW w \in Workers, call[w] # Nil, AwsTypes',
         \/ Goto(w, "read") \/ Goto(w, "done") \/ Goto(w, "revoke") \/ Hangup(w),
         copy' = [copy EXCEPT ![w] = Nil],
         phase' \in [Namespaces -> {"live", "deleting", "gone"}],
         serviceAccount' \in [Namespaces -> Identities \cup {Nil, Unannotated}],
         UNCHANGED <<plugin, edits>>,
         faults' \in 0 .. MaxFaults
  PROVE  TypeOK'
<1> USE TypesSplit
<1>1. /\ call' \in [Workers -> CallRecord \cup {Nil}]
      /\ \/ call'[w] = [call[w] EXCEPT !.step = "read"]
         \/ call'[w] = [call[w] EXCEPT !.step = "done"]
         \/ call'[w] = [call[w] EXCEPT !.step = "revoke"]
         \/ call'[w] = Nil
      /\ \A v \in Workers \ {w} : call'[v] = call[v]
  BY CallMoves
<1>2. ~Writes(w)'
  BY <1>1 DEF Writes, CallerTypes, CallRecord
<1>3. CallerTypes'
  BY <1>1 DEF CallerTypes
<1>4. copy'[w] = Nil /\ \A v \in Workers \ {w} : copy'[v] = copy[v]
  BY DEF AwsTypes
<1> QED BY <1>1, <1>2, <1>3, <1>4, TypesKept

(* The copy of a worker that writes nothing is Nil.                         *)
LEMMA NoCopy ==
  ASSUME TypeOK, NEW w \in Workers, call[w] # Nil, call[w].step # "write",
         UNCHANGED copy
  PROVE  copy' = [copy EXCEPT ![w] = Nil]
BY TypesSplit DEF AwsTypes, Writes

(* What a call makes of a policy.                                           *)
LEMMA GetRoleCopy ==
  ASSUME TypeOK, NEW w \in Workers, GetRole(w)
  PROVE  /\ copy' \in [Workers -> Documents \cup {Nil}]
         /\ copy'[w] \in Documents
         /\ \/ copy'[w] = Unreadable
            \/ copy'[w] = <<Recorded(w)>> /\ HasStatement(policy[call[w].identity])
         /\ \A v \in Workers \ {w} : copy'[v] = copy[v]
<1> DEFINE i == call[w].identity
           n == call[w].namespace
<1>1. /\ call[w] \in CallRecord /\ i \in Identities /\ n \in Namespaces
      /\ policy[i] \in Documents /\ policy[i] # <<>>
  BY DEF GetRole, TypeOK, CallRecord
<1>2. \/ policy[i] = Unreadable /\ copy' = [copy EXCEPT ![w] = Unreadable]
      \/ /\ policy[i] # Unreadable
         /\ copy' = [copy EXCEPT ![w] = <<Recorded(w)>>]
  <2>1. CASE call[w].kind = "apply"
    BY <2>1 DEF GetRole, AddServiceAccount, MakePolicyDocument, Recorded
  <2>2. CASE call[w].kind = "revoke"
    BY <2>2 DEF GetRole, RemoveServiceAccount, MakePolicyDocument, Recorded
  <2> QED BY <2>1, <2>2 DEF GetRole
<1>3. copy \in [Workers -> Documents \cup {Nil}]
  BY DEF TypeOK
<1>4. CASE policy[i] = Unreadable
  <2>1. copy' = [copy EXCEPT ![w] = Unreadable] /\ Unreadable \in Documents
    BY <1>2, <1>4 DEF Documents
  <2> QED BY <1>3, <2>1
<1>5. CASE policy[i] # Unreadable
  <2>1. HasStatement(policy[i])
    BY <1>1, <1>5 DEF HasStatement
  <2>2. policy[i][1] \in SUBSET Namespaces
    BY <1>1, <2>1, DocumentTyped
  <2>3. Recorded(w) \in SUBSET Namespaces
    BY <1>1, <2>2 DEF Recorded
  <2>4. <<Recorded(w)>> \in Documents
    BY <2>3, DocumentTyped
  <2>5. copy' = [copy EXCEPT ![w] = <<Recorded(w)>>]
    BY <1>2, <1>5
  <2> QED BY <1>3, <2>1, <2>4, <2>5
<1> QED BY <1>4, <1>5

(* A call gets its copy.                                                    *)
LEMMA GetRoleTypes ==
  ASSUME TypeOK, NEW w \in Workers, GetRole(w)
  PROVE  TypeOK'
<1> USE TypesSplit
<1>1. /\ call[w] # Nil /\ Goto(w, "write")
      /\ UNCHANGED <<phase, plugin, serviceAccount, edits, faults, policy>>
  BY DEF GetRole
<1>2. /\ call' \in [Workers -> CallRecord \cup {Nil}]
      /\ call'[w] = [call[w] EXCEPT !.step = "write"]
      /\ \A v \in Workers \ {w} : call'[v] = call[v]
  BY <1>1, CallMoves
<1>3. call'[w] \in CallRecord /\ call'[w].step = "write"
  BY <1>1, <1>2 DEF CallerTypes, CallRecord
<1>4. CallerTypes' /\ AwsTypes'
  BY <1>1, <1>2, GetRoleCopy DEF CallerTypes, AwsTypes
<1>5. copy'[w] # Nil /\ Writes(w)'
  BY <1>3, GetRoleCopy, PoliciesAssumption, NilAssumption DEF Writes
<1> QED BY <1>2, <1>4, <1>5, GetRoleCopy, TypesKept

(* A write stores the copy.                                                 *)
LEMMA UpdateStores ==
  ASSUME TypeOK, NEW w \in Workers, UpdateAssumeRolePolicy(w)
  PROVE  /\ call[w] \in CallRecord /\ copy[w] \in Documents
         /\ copy[w] # Nil /\ copy[w] # Unreadable
         /\ policy' = [policy EXCEPT ![call[w].identity] = copy[w]]
         /\ AwsTypes'
<1>1. /\ call[w] # Nil /\ call[w].step = "write"
      /\ policy' = [policy EXCEPT ![call[w].identity] = copy[w]]
      /\ copy' = [copy EXCEPT ![w] = Nil]
  BY DEF UpdateAssumeRolePolicy
<1>2. call[w] \in CallRecord /\ copy[w] \in Documents /\ copy[w] # Nil
  BY <1>1 DEF TypeOK
<1>3. copy[w] # Unreadable
  BY DEF UpdateAssumeRolePolicy
<1> QED BY <1>1, <1>2, <1>3 DEF TypeOK, AwsTypes

(* Every step keeps the types.                                              *)
LEMMA NextTypes == TypeOK /\ [Next]_vars => TypeOK'
<1> SUFFICES ASSUME TypeOK, [Next]_vars
             PROVE  TypeOK'
  OBVIOUS
<1> USE TypesSplit
<1>1. CASE UserAction /\ UNCHANGED awsVars
  <2>1. CallerTypes' /\ AwsTypes'
    BY <1>1, UserActionTypes DEF AwsTypes, awsVars
  <2>2. UNCHANGED <<call, copy>>
    BY <1>1 DEF UserAction, DeleteProfile, ChangePlugin, DeleteServiceAccount,
                awsVars
  <2>3. \A w \in Workers : copy'[w] # Nil <=> Writes(w)'
    BY <2>2 DEF Writes
  <2> QED BY <2>1, <2>3 DEF TypeOK, CallerTypes, AwsTypes, Writes
<1>2. ASSUME NEW w \in Workers, Begins(w)
      PROVE  TypeOK'
  BY <1>2, StartTypes
<1>3. ASSUME NEW w \in Workers, UNCHANGED awsVars,
             PatchAnnotation(w, Annotation(w)) \/ MissServiceAccount(w)
               \/ Panic(w) \/ Skip(w) \/ Finish(w)
      PROVE  TypeOK'
  <2>1. /\ call[w] # Nil /\ call[w].step # "write" /\ UNCHANGED copy
        /\ Goto(w, "read") \/ Goto(w, "done") \/ Goto(w, "revoke") \/ Hangup(w)
        /\ UNCHANGED <<plugin, edits, faults>>
    BY <1>3 DEF PatchAnnotation, MissServiceAccount, Panic, Skip, Finish, awsVars
  <2>2. /\ call[w].namespace \in Namespaces
        /\ Annotation(w) \in Identities \cup {Unannotated}
    BY <2>1 DEF CallerTypes, CallRecord, Annotation
  <2>3. /\ phase' \in [Namespaces -> {"live", "deleting", "gone"}]
        /\ serviceAccount' \in [Namespaces -> Identities \cup {Nil, Unannotated}]
    BY <1>3, <2>2 DEF CallerTypes, PatchAnnotation, MissServiceAccount, Panic, Skip,
                      Finish
  <2>4. copy' = [copy EXCEPT ![w] = Nil]
    BY <2>1, NoCopy
  <2>5. AwsTypes' /\ faults' \in 0 .. MaxFaults
    BY <1>3, <2>1 DEF AwsTypes, awsVars, CallerTypes
  <2> QED BY <2>1, <2>3, <2>4, <2>5, MoveTypes
<1>4. ASSUME NEW w \in Workers, UpdateAssumeRolePolicy(w)
      PROVE  TypeOK'
  <2>1. /\ call[w] # Nil
        /\ Goto(w, "done") \/ Hangup(w)
        /\ copy' = [copy EXCEPT ![w] = Nil]
        /\ UNCHANGED <<phase, plugin, serviceAccount, edits>>
    BY <1>4 DEF UpdateAssumeRolePolicy, AbortAfter
  <2>2. faults' \in 0 .. MaxFaults
    BY <1>4, BoundsKept DEF UpdateAssumeRolePolicy, AbortAfter, CallerTypes
  <2>3. AwsTypes'
    BY <1>4, UpdateStores
  <2> QED BY <2>1, <2>2, <2>3, MoveTypes DEF CallerTypes
<1>5. ASSUME NEW w \in Workers, GiveUp(w) \/ RefuseDocument(w)
      PROVE  TypeOK'
  <2>1. /\ call[w] # Nil /\ Hangup(w)
        /\ copy' = [copy EXCEPT ![w] = Nil]
        /\ UNCHANGED <<phase, plugin, serviceAccount, edits, policy>>
    BY <1>5 DEF GiveUp, RefuseDocument, Abort
  <2>2. faults' \in 0 .. MaxFaults
    BY <1>5, BoundsKept DEF GiveUp, RefuseDocument, Abort, CallerTypes
  <2>3. AwsTypes'
    BY <2>1 DEF AwsTypes
  <2> QED BY <2>1, <2>2, <2>3, MoveTypes DEF CallerTypes
<1>6. CASE UNCHANGED vars
  BY <1>6 DEF TypeOK, vars, callerVars, awsVars
<1> QED BY <1>1, <1>2, <1>3, <1>4, <1>5, <1>6, GetRoleTypes
    DEF Next, WorkerStep, Begins, Panic, Skip

(* Every reachable state has the types, and a worker has a copy of a policy *)
(* exactly if it is about to write it.                                      *)
THEOREM TypeCorrect == Spec => []TypeOK
<1>1. Init => TypeOK
  <2> SUFFICES ASSUME Init
               PROVE  TypeOK
    OBVIOUS
  <2>1. policy \in [Identities -> Documents]
    BY DEF Init, Documents
  <2>2. CallerTypes
    BY CallerAssumption DEF Init, CallerInit, CallerTypes
  <2> QED BY <2>1, <2>2, TypesSplit DEF Init, CallerInit, AwsTypes, Writes
<1> QED BY <1>1, NextTypes, PTL DEF Spec

(***************************************************************************)
(* The copies, with one worker.                                            *)
(***************************************************************************)
(* Nobody else changes a policy that is about to be written.                *)
LEMMA NextCopies == OneWorker /\ IInv /\ [Next]_vars => CopiesCurrent'
<1> SUFFICES ASSUME OneWorker, IInv, [Next]_vars
             PROVE  CopiesCurrent'
  OBVIOUS
<1> USE DEF IInv
<1>1. CASE UNCHANGED <<call, policy, copy>>
  BY <1>1 DEF CopiesCurrent, CopyCurrent, Recorded
<1>2. ASSUME NEW w \in Workers, CopyCurrent(w)'
      PROVE  CopiesCurrent'
  BY <1>2 DEF OneWorker, CopiesCurrent
<1>3. ASSUME NEW w \in Workers, GetRole(w)
      PROVE  CopiesCurrent'
  <2>1. call[w] \in CallRecord /\ Goto(w, "write") /\ UNCHANGED policy
    BY <1>3 DEF GetRole, TypeOK
  <2>2. call'[w] = [call[w] EXCEPT !.step = "write"]
    BY <1>3, <2>1, CallMoves, TypesSplit DEF GetRole
  <2>3. /\ call'[w].kind = call[w].kind
        /\ call'[w].identity = call[w].identity
        /\ call'[w].namespace = call[w].namespace
    BY <2>1, <2>2 DEF CallRecord
  <2>4. Recorded(w)' = Recorded(w)
    BY <2>1, <2>3 DEF Recorded
  <2>5. CopyCurrent(w)'
    BY <1>3, <2>1, <2>3, <2>4, GetRoleCopy DEF CopyCurrent
  <2> QED BY <1>2, <2>5
<1>4. ASSUME NEW w \in Workers, copy' = [copy EXCEPT ![w] = Nil]
      PROVE  CopiesCurrent'
  <2>1. copy'[w] = Nil
    BY <1>4 DEF TypeOK
  <2> QED BY <1>2, <2>1 DEF CopyCurrent
<1>5. ASSUME NEW w \in Workers, call[w] # Nil, call[w].step # "write",
             UNCHANGED copy
      PROVE  CopiesCurrent'
  BY <1>4, <1>5, NoCopy
<1>6. ASSUME NEW w \in Workers, Begins(w)
      PROVE  CopiesCurrent'
  <2>1. copy'[w] = Nil
    BY <1>6, BeginsCall
  <2> QED BY <1>2, <2>1 DEF CopyCurrent
<1>7. CASE UserAction /\ UNCHANGED awsVars
  BY <1>1, <1>7 DEF UserAction, DeleteProfile, ChangePlugin,
                    DeleteServiceAccount, awsVars
<1>8. CASE UNCHANGED vars
  BY <1>1, <1>8 DEF vars, callerVars, awsVars
<1>9. ASSUME NEW w \in Workers,
             \/ PatchAnnotation(w, Annotation(w)) /\ UNCHANGED awsVars
             \/ MissServiceAccount(w) /\ UNCHANGED awsVars
             \/ Panic(w) \/ Skip(w)
             \/ Finish(w) /\ UNCHANGED awsVars
      PROVE  CopiesCurrent'
  BY <1>5, <1>9 DEF PatchAnnotation, MissServiceAccount, Panic, Skip, Finish,
                    awsVars
<1>10. ASSUME NEW w \in Workers,
              UpdateAssumeRolePolicy(w) \/ RefuseDocument(w) \/ GiveUp(w)
      PROVE  CopiesCurrent'
  BY <1>4, <1>10 DEF UpdateAssumeRolePolicy, RefuseDocument, GiveUp
<1> QED BY <1>3, <1>6, <1>7, <1>8, <1>9, <1>10 DEF Next, WorkerStep, Begins

(* A policy that is about to be written was made from the stored one.       *)
THEOREM CopiesCurrentAlways ==
  ASSUME OneWorker
  PROVE  Spec => []IInv
<1>1. Init => CopiesCurrent
  BY DEF Init, CopiesCurrent, CopyCurrent
<1>2. IInv /\ [Next]_vars => CopiesCurrent'
  BY NextCopies
<1> QED BY <1>1, <1>2, TypeCorrect, PTL DEF Spec, IInv

(***************************************************************************)
(* The promise.                                                            *)
(***************************************************************************)
(* In a policy of at most one statement the names are those of the first.   *)
LEMMA NamedFirst ==
  ASSUME OneStatement, NEW d \in Documents
  PROVE  HasStatement(d) => Named(d) = d[1]
<1> SUFFICES ASSUME HasStatement(d)
             PROVE  Named(d) = d[1]
  OBVIOUS
<1>1. PICK k \in 0 .. 1 : d \in [1 .. k -> Statement]
  BY DEF HasStatement, Documents, Policies, OneStatement
<1>2. k # 0
  <2> SUFFICES ASSUME k = 0
               PROVE  FALSE
    OBVIOUS
  <2>1. d \in Seq(Statement) /\ Len(d) = 0
    BY <1>1
  <2> QED BY <2>1 DEF HasStatement
<1>3. DOMAIN d = {1}
  BY <1>1, <1>2
<1>4. UNION {d[j] : j \in DOMAIN d} = d[1]
  BY <1>3
<1> QED BY <1>4 DEF Named, HasStatement

(* A write changes the record of its call and no other.                     *)
LEMMA UpdateEffect ==
  ASSUME OneStatement, IInv, NEW w \in Workers, UpdateAssumeRolePolicy(w)
  PROVE  Granted' = Promise!Outcome(Pending[w])
<1> DEFINE i == call[w].identity
           n == call[w].namespace
           apply == call[w].kind = "apply"
<1>1. /\ call[w] \in CallRecord /\ i \in Identities /\ n \in Namespaces
      /\ policy' = [policy EXCEPT ![i] = <<Recorded(w)>>]
      /\ HasStatement(policy[i])
  BY UpdateStores DEF IInv, CopiesCurrent, CopyCurrent, CallRecord
<1>2. policy \in [Identities -> Documents]
  BY DEF IInv, TypeOK
<1>3. /\ Named(policy[i]) = policy[i][1]
      /\ policy[i][1] \in SUBSET Namespaces
  BY <1>1, <1>2, NamedFirst, DocumentTyped
<1>4. Recorded(w) = IF apply THEN policy[i][1] \cup {n} ELSE policy[i][1] \ {n}
  BY DEF Recorded
<1>5. /\ policy'[i] = <<Recorded(w)>>
      /\ \A j \in Identities \ {i} : policy'[j] = policy[j]
  BY <1>1, <1>2
<1>6. Named(<<Recorded(w)>>) = Recorded(w)
  BY <1>1, <1>3, <1>4, DocumentTyped
<1>7. /\ Named(policy'[i]) = IF apply THEN Named(policy[i]) \cup {n}
                                       ELSE Named(policy[i]) \ {n}
      /\ \A j \in Identities \ {i} : Named(policy'[j]) = Named(policy[j])
  BY <1>3, <1>4, <1>5, <1>6
<1>8. /\ \A g \in Identities \X Namespaces :
           g \in Granted <=> g[2] \in Named(policy[g[1]])
      /\ \A g \in Identities \X Namespaces :
           g \in Granted' <=> g[2] \in Named(policy'[g[1]])
  BY DEF Granted, Named
<1>9. Granted' = IF apply THEN Granted \cup {<<i, n>>} ELSE Granted \ {<<i, n>>}
  <2> HIDE DEF i, n, apply
  <2>1. \A g \in Identities \X Namespaces :
          g \in Granted' <=> IF apply THEN g \in Granted \/ g = <<i, n>>
                                      ELSE g \in Granted /\ g # <<i, n>>
    BY <1>1, <1>7, <1>8
  <2>2. /\ Granted \subseteq Identities \X Namespaces
        /\ Granted' \subseteq Identities \X Namespaces
        /\ <<i, n>> \in Identities \X Namespaces
    BY <1>1 DEF Granted
  <2> QED BY <2>1, <2>2
<1>10. call[w].step # "revoke"
  BY DEF UpdateAssumeRolePolicy
<1>11. Pending[w].kind = call[w].kind /\ Pending[w].identity = i
      /\ Pending[w].namespace = n
  BY <1>1, <1>10, PendingTyped DEF Pending
<1> QED BY <1>9, <1>11 DEF Promise!Outcome

(* A write is an Effect.                                                    *)
LEMMA UpdatePromise ==
  ASSUME OneStatement, IInv, NEW w \in Workers, UpdateAssumeRolePolicy(w)
  PROVE  Promise!Next
<1> USE TypesSplit DEF IInv
<1>1. /\ call[w] # Nil /\ call[w].step = "write"
      /\ Goto(w, "done") \/ Hangup(w)
  BY DEF UpdateAssumeRolePolicy, AbortAfter
<1>2. /\ Pending[w] # Nil /\ ~Pending[w].done
      /\ \/ Pending' = [Pending EXCEPT ![w].done = TRUE]
         \/ Pending' = [Pending EXCEPT ![w] = Nil]
  BY <1>1, PendingEnds, PendingDone
<1>3. Promise!Effect(w)
  BY <1>2, UpdateEffect DEF Promise!Effect
<1> QED BY <1>3 DEF Promise!Next

(* An ApplyPlugin that finds its service account recorded is done.          *)
LEMMA SkipPromise ==
  ASSUME OneStatement, IInv, NEW w \in Workers, Skip(w)
  PROVE  Promise!Next
<1> USE TypesSplit DEF IInv
<1>1. /\ call[w] # Nil /\ call[w].step = "read" /\ call[w].kind = "apply"
      /\ call[w].namespace \in policy[call[w].identity][1]
      /\ HasStatement(policy[call[w].identity])
      /\ Goto(w, "done") /\ UNCHANGED policy
  BY DEF Skip, HasStatement, awsVars
<1>2. /\ call[w] \in CallRecord /\ call[w].identity \in Identities
      /\ call[w].namespace \in Namespaces
  BY <1>1 DEF CallerTypes, CallRecord
<1>3. <<call[w].identity, call[w].namespace>> \in Granted /\ Granted' = Granted
  <2>1. call[w].namespace \in Named(policy[call[w].identity])
    BY <1>1, <1>2, NamedFirst DEF AwsTypes
  <2> QED BY <1>1, <1>2, <2>1 DEF Granted
<1>4. /\ Pending[w].kind = "apply"
      /\ Pending[w].identity = call[w].identity
      /\ Pending[w].namespace = call[w].namespace
  BY <1>1, <1>2, PendingTyped DEF Pending
<1>5. Granted' = Promise!Outcome(Pending[w])
  BY <1>3, <1>4 DEF Promise!Outcome
<1>6. /\ Pending[w] # Nil /\ ~Pending[w].done
      /\ Pending' = [Pending EXCEPT ![w].done = TRUE]
  BY <1>1, PendingDone
<1>7. Promise!Effect(w)
  BY <1>5, <1>6 DEF Promise!Effect
<1> QED BY <1>7 DEF Promise!Next

(* A step of the plugin is a step of the promise or none.                   *)
LEMMA NextPromise ==
  OneStatement /\ IInv /\ [Next]_vars => [Promise!Next]_(Promise!vars)
<1> SUFFICES ASSUME OneStatement, IInv, [Next]_vars
             PROVE  Promise!Next \/ UNCHANGED Promise!vars
  OBVIOUS
<1> USE TypesSplit DEF IInv
<1>1. CASE UNCHANGED <<call, policy>>
  BY <1>1 DEF Promise!vars, Granted, Pending, PendingOf
<1>2. ASSUME NEW w \in Workers, Begins(w)
      PROVE  Promise!Next
  <2>1. /\ Pending[w] = Nil
        /\ \E c \in PendingCall : ~c.done /\ Pending' = [Pending EXCEPT ![w] = c]
    BY <1>2, PendingStarts DEF Begins
  <2>2. Granted' = Granted
    BY <1>2, BeginsCall DEF Granted
  <2>3. Promise!Call(w)
    BY <2>1, <2>2 DEF Promise!Call, Promise!Calls, PendingCall
  <2> QED BY <2>3 DEF Promise!Next
<1>3. ASSUME NEW w \in Workers, call[w] # Nil, UNCHANGED policy,
             Hangup(w) \/ (call[w].step # "revoke" /\ Goto(w, "revoke"))
      PROVE  Promise!Next \/ UNCHANGED Promise!vars
  <2>1. Granted' = Granted
    BY <1>3 DEF Granted
  <2>2. CASE call[w].step = "revoke"
    <3>1. Pending' = Pending
      BY <1>3, <2>2, PassEnds
    <3> QED BY <2>1, <3>1 DEF Promise!vars
  <2>3. CASE call[w].step # "revoke"
    <3>1. Pending[w] # Nil /\ Pending' = [Pending EXCEPT ![w] = Nil]
      BY <1>3, <2>3, PendingEnds
    <3>2. Promise!Leave(w)
      BY <2>1, <3>1 DEF Promise!Leave
    <3> QED BY <3>2 DEF Promise!Next
  <2> QED BY <2>2, <2>3
<1>4. ASSUME NEW w \in Workers, call[w] # Nil,
             call[w].step \notin {"done", "revoke"},
             UNCHANGED policy, Goto(w, "read") \/ Goto(w, "write")
      PROVE  UNCHANGED Promise!vars
  <2>1. UNCHANGED Pending
    BY <1>4, PendingOnTheWay
  <2> QED BY <1>4, <2>1 DEF Promise!vars, Granted
<1>5. ASSUME NEW w \in Workers,
             \/ PatchAnnotation(w, Annotation(w)) /\ UNCHANGED awsVars
             \/ MissServiceAccount(w) /\ UNCHANGED awsVars
             \/ Panic(w) \/ GetRole(w) \/ RefuseDocument(w)
             \/ Finish(w) /\ UNCHANGED awsVars
             \/ GiveUp(w)
      PROVE  Promise!Next \/ UNCHANGED Promise!vars
  <2>1. /\ call[w] # Nil /\ UNCHANGED policy
        /\ \/ Hangup(w) \/ (call[w].step # "revoke" /\ Goto(w, "revoke"))
           \/ /\ call[w].step \notin {"done", "revoke"}
              /\ Goto(w, "read") \/ Goto(w, "write")
    BY <1>5 DEF PatchAnnotation, MissServiceAccount, Panic, GetRole,
                RefuseDocument, Finish, GiveUp, Abort, awsVars
  <2> QED BY <1>3, <1>4, <2>1
<1>6. CASE UserAction /\ UNCHANGED awsVars
  BY <1>1, <1>6 DEF UserAction, DeleteProfile, ChangePlugin,
                    DeleteServiceAccount, awsVars
<1>7. CASE UNCHANGED vars
  BY <1>1, <1>7 DEF vars, callerVars, awsVars
<1> QED BY <1>2, <1>5, <1>6, <1>7, UpdatePromise, SkipPromise
    DEF Next, WorkerStep, Begins

(* If no policy has more than one statement ("We assume we only operator on *)
(* first statement", plugin_iam.go:147), with one worker, and through lost  *)
(* answers, crashes, panics and documents that cannot be read, every call   *)
(* of the plugin records or removes its service account and no other, or    *)
(* nothing, and returns without an error only if it did.                    *)
THEOREM AwsKeepsPromise ==
  ASSUME OneWorker, OneStatement
  PROVE  Spec => KeepsPromise
<1>1. Init => Promise!Init
  BY DEF Init, CallerInit, Promise!Init, Promise!Grants, Granted, Pending, PendingOf
<1> QED BY <1>1, NextPromise, CopiesCurrentAlways, PTL
        DEF Spec, KeepsPromise, Promise!Spec

(***************************************************************************)
(* Nothing is left of a deleted profile.                                   *)
(***************************************************************************)
(* A profile only ever has a grant on the role it names.                    *)
GrantsNamed == \A g \in Granted : g[1] = plugin[g[2]]

(* A pass is for the role that its profile names; as long as it has not     *)
(* begun to revoke the profile is there, and a revocation that is done has  *)
(* left no record.                                                          *)
CallSound(w) ==
  LET n == call[w].namespace
  IN call[w] # Nil =>
       /\ call[w].identity = plugin[n]
       /\ call[w].kind = "apply" => phase[n] # "gone"
       /\ call[w].kind = "revoke" /\ call[w].step = "done" =>
            <<plugin[n], n>> \notin Granted

(* One worker, policies of at most one statement, and users who do not      *)
(* change the role that a profile names.                                    *)
Steady == OneWorker /\ OneStatement /\ ~PluginEdits

Sound == NothingLeft /\ GrantsNamed /\ \A w \in Workers : CallSound(w)

(* Users delete profiles and service accounts, which disturbs nothing.      *)
LEMMA UserActionSound ==
  ASSUME Steady, IInv, Sound, UserAction, UNCHANGED awsVars
  PROVE  Sound'
<1>1. /\ UNCHANGED <<plugin, call, Granted>>
      /\ \A n \in Namespaces : phase'[n] = "gone" <=> phase[n] = "gone"
  BY DEF UserAction, DeleteProfile, ChangePlugin, DeleteServiceAccount,
         Steady, awsVars, Granted, IInv, TypeOK
<1>2. \A w \in Workers : call[w] # Nil => call[w].namespace \in Namespaces
  BY DEF IInv, TypeOK, CallRecord
<1>3. NothingLeft' /\ GrantsNamed'
  BY <1>1 DEF Sound, NothingLeft, GrantsNamed
<1>4. \A w \in Workers : CallSound(w)'
  BY <1>1, <1>2 DEF Sound, CallSound
<1> QED BY <1>3, <1>4 DEF Sound

(* The only call starts, goes on or ends, without an effect on the grants.  *)
LEMMA CallSoundKept ==
  ASSUME Steady, IInv, Sound, NEW w \in Workers,
         UNCHANGED <<phase, plugin, policy>>,
         call'[w] = Nil \/ CallSound(w)'
  PROVE  Sound'
<1>1. Granted' = Granted
  BY DEF Granted
<1>2. Workers = {w}
  BY DEF Steady, OneWorker
<1>3. CallSound(w)'
  BY DEF CallSound
<1> QED BY <1>1, <1>2, <1>3 DEF Sound, NothingLeft, GrantsNamed

(* A call starts.                                                           *)
LEMMA StartSound ==
  ASSUME Steady, IInv, Sound, NEW w \in Workers, Begins(w)
  PROVE  Sound'
<1>1. UNCHANGED <<phase, plugin, policy>>
  BY BeginsCall DEF IInv
<1>2. CASE \E n \in Namespaces : ApplyPlugin(w, n)
  <2>1. PICK n \in Namespaces : ApplyPlugin(w, n)
    BY <1>2
  <2>2. /\ call'[w].kind = "apply" /\ call'[w].namespace = n
        /\ call'[w].identity = plugin[n]
    BY <2>1, ApplyStarts, TypesSplit DEF IInv
  <2>3. phase[n] # "gone"
    BY <2>1 DEF ApplyPlugin
  <2>4. CallSound(w)'
    BY <1>1, <2>2, <2>3 DEF CallSound
  <2> QED BY <1>1, <2>4, CallSoundKept
<1>3. CASE RevokePlugin(w, "annotate")
  <2>1. /\ call'[w].kind = "revoke" /\ call'[w].step = "annotate"
        /\ call'[w].identity = call[w].identity
        /\ call'[w].namespace = call[w].namespace
    BY <1>3, RevokeStarts, TypesSplit DEF IInv
  <2>2. call[w] # Nil
    BY <1>3 DEF RevokePlugin
  <2>3. CallSound(w)'
    BY <1>1, <2>1, <2>2 DEF Sound, CallSound
  <2> QED BY <1>1, <2>3, CallSoundKept
<1> QED BY <1>2, <1>3 DEF Begins

(* A step on the way of a pass.                                             *)
LEMMA OnTheWaySound ==
  ASSUME Steady, IInv, Sound, NEW w \in Workers, call[w] # Nil,
         UNCHANGED <<phase, plugin, policy>>,
         Goto(w, "read") \/ Goto(w, "write") \/ Goto(w, "revoke")
  PROVE  Sound'
<1>1. PICK step \in {"read", "write", "revoke"} :
        call'[w] = [call[w] EXCEPT !.step = step]
  BY CallMoves, TypesSplit DEF IInv
<1>2. call[w] \in CallRecord
  BY DEF IInv, TypeOK
<1>3. /\ call'[w].identity = call[w].identity
      /\ call'[w].namespace = call[w].namespace
      /\ call'[w].kind = call[w].kind
      /\ call'[w].step # "done"
  BY <1>1, <1>2 DEF CallRecord
<1>4. CallSound(w)'
  BY <1>3 DEF Sound, CallSound
<1> QED BY <1>4, CallSoundKept

(* An ApplyPlugin that finds its service account recorded.                  *)
LEMMA SkipSound ==
  ASSUME Steady, IInv, Sound, NEW w \in Workers, Skip(w)
  PROVE  Sound'
<1>1. /\ call[w] # Nil /\ Goto(w, "done") /\ call[w].kind = "apply"
      /\ UNCHANGED <<phase, plugin, policy>>
  BY DEF Skip, awsVars
<1>2. call'[w] = [call[w] EXCEPT !.step = "done"]
  BY <1>1, CallMoves, TypesSplit DEF IInv
<1>3. call[w] \in CallRecord
  BY <1>1 DEF IInv, TypeOK
<1>4. /\ call'[w].identity = call[w].identity
      /\ call'[w].namespace = call[w].namespace
      /\ call'[w].kind = "apply"
  BY <1>1, <1>2, <1>3 DEF CallRecord
<1>5. CallSound(w)'
  BY <1>1, <1>4 DEF Sound, CallSound
<1> QED BY <1>1, <1>5, CallSoundKept

(* A write grants to a profile that is there, or revokes.                   *)
LEMMA UpdateSound ==
  ASSUME Steady, IInv, Sound, NEW w \in Workers, UpdateAssumeRolePolicy(w)
  PROVE  Sound'
<1> DEFINE n == call[w].namespace
           g == <<call[w].identity, n>>
<1>1. /\ call[w] # Nil /\ call[w].step = "write"
      /\ Goto(w, "done") \/ Hangup(w)
      /\ UNCHANGED <<phase, plugin>>
  BY DEF UpdateAssumeRolePolicy, AbortAfter
<1>2. /\ call[w] \in CallRecord /\ n \in Namespaces
      /\ call[w].kind \in {"apply", "revoke"}
  BY <1>1 DEF IInv, TypeOK, CallRecord
<1>3. g = <<plugin[n], n>> /\ (call[w].kind = "apply" => phase[n] # "gone")
  BY <1>1 DEF Sound, CallSound
<1>4. Granted' = IF call[w].kind = "apply" THEN Granted \cup {g}
                                           ELSE Granted \ {g}
  BY <1>1, UpdateEffect DEF Steady, Promise!Outcome, Pending, PendingOf
<1> HIDE DEF g
<1>5. GrantsNamed'
  BY <1>1, <1>3, <1>4 DEF Sound, GrantsNamed
<1>6. NothingLeft'
  <2> HIDE DEF n
  <2> SUFFICES ASSUME NEW m \in Namespaces, phase[m] = "gone",
                      NEW i \in Identities
               PROVE  <<i, m>> \notin Granted'
    BY <1>1 DEF NothingLeft
  <2>1. <<i, m>> \notin Granted
    BY DEF Sound, NothingLeft
  <2>2. call[w].kind = "apply" => <<i, m>> # g
    BY <1>3
  <2> QED BY <1>4, <2>1, <2>2
<1>7. CallSound(w)'
  <2>1. CASE Hangup(w)
    BY <1>1, <2>1, CallMoves, TypesSplit DEF IInv, CallSound
  <2>2. CASE Goto(w, "done")
    <3>1. call'[w] = [call[w] EXCEPT !.step = "done"]
      BY <1>1, <2>2, CallMoves, TypesSplit DEF IInv
    <3>2. /\ call'[w].identity = call[w].identity /\ call'[w].namespace = n
          /\ call'[w].kind = call[w].kind
      BY <1>2, <3>1 DEF CallRecord
    <3>3. call[w].kind = "revoke" => g \notin Granted'
      BY <1>4
    <3>4. call[w].identity = plugin[n]
      BY <1>1 DEF Sound, CallSound
    <3> HIDE DEF n
    <3> QED BY <1>1, <1>3, <3>2, <3>3, <3>4 DEF CallSound
  <2> QED BY <1>1, <2>1, <2>2
<1>8. Workers = {w}
  BY DEF Steady, OneWorker
<1> QED BY <1>5, <1>6, <1>7, <1>8 DEF Sound

(* The finalizer is only removed after a revocation that is done.           *)
LEMMA FinishSound ==
  ASSUME Steady, IInv, Sound, NEW w \in Workers, Finish(w), Hangup(w),
         UNCHANGED awsVars
  PROVE  Sound'
<1> DEFINE n == call[w].namespace
<1>1. /\ call[w] # Nil /\ call[w].step = "done" /\ Hangup(w)
      /\ UNCHANGED plugin
      /\ phase' = phase \/ (/\ call[w].kind = "revoke"
                            /\ phase' = [phase EXCEPT ![n] = "gone"])
  <2>1. call[w] # Nil /\ call[w] \in CallRecord
    BY DEF Finish, IInv, TypeOK
  <2>2. /\ call[w].identity = plugin[n]
        /\ phase \in [Namespaces -> {"live", "deleting", "gone"}]
    BY <2>1 DEF Sound, CallSound, IInv, TypeOK
  <2> HIDE DEF n
  <2>3. /\ call[w].step = "done" /\ UNCHANGED plugin
        /\ \/ phase' = phase
           \/ /\ call[w].kind = "revoke"
              /\ phase' = [phase EXCEPT ![n] =
                             IF plugin[n] = call[w].identity THEN "gone" ELSE @]
    BY DEF Finish, n
  <2> QED BY <2>1, <2>2, <2>3
<1>2. Granted' = Granted
  BY DEF Granted, awsVars
<1>3. call'[w] = Nil
  BY <1>1, CallMoves, TypesSplit DEF IInv
<1>4. NothingLeft'
  <2> SUFFICES ASSUME NEW m \in Namespaces, phase'[m] = "gone",
                      NEW i \in Identities, <<i, m>> \in Granted
               PROVE  FALSE
    BY <1>2 DEF NothingLeft
  <2>1. phase[m] # "gone"
    BY DEF Sound, NothingLeft
  <2>2. call[w].kind = "revoke" /\ m = n
    BY <1>1, <2>1 DEF IInv, TypeOK
  <2>3. <<plugin[m], m>> \notin Granted
    BY <1>1, <2>2 DEF Sound, CallSound
  <2>4. i = plugin[m]
    BY DEF Sound, GrantsNamed
  <2> QED BY <2>3, <2>4
<1>5. Workers = {w}
  BY DEF Steady, OneWorker
<1> QED BY <1>1, <1>2, <1>3, <1>4, <1>5 DEF Sound, GrantsNamed, CallSound

(* Every step.                                                              *)
LEMMA NextSound ==
  ASSUME Steady, IInv, Sound, [Next]_vars
  PROVE  Sound'
<1>1. ASSUME NEW w \in Workers,
             \/ PatchAnnotation(w, Annotation(w)) /\ UNCHANGED awsVars
             \/ MissServiceAccount(w) /\ UNCHANGED awsVars
             \/ Panic(w) \/ GetRole(w)
             \/ UpdateAssumeRolePolicy(w) \/ RefuseDocument(w)
             \/ Finish(w) /\ UNCHANGED awsVars
             \/ GiveUp(w)
      PROVE  Sound'
  <2>1. ASSUME call[w] # Nil, UNCHANGED <<phase, plugin, policy>>, Hangup(w)
        PROVE  Sound'
    BY <2>1, CallMoves, CallSoundKept, TypesSplit DEF IInv
  <2>2. \/ UpdateAssumeRolePolicy(w)
        \/ Finish(w) /\ Hangup(w) /\ UNCHANGED awsVars
        \/ /\ call[w] # Nil /\ UNCHANGED <<phase, plugin, policy>>
           /\ \/ Goto(w, "read") \/ Goto(w, "write") \/ Goto(w, "revoke")
              \/ Hangup(w)
    BY <1>1 DEF GiveUp, Abort, Panic, GetRole, RefuseDocument, Finish,
                PatchAnnotation, MissServiceAccount, awsVars
  <2> QED BY <2>1, <2>2, UpdateSound, FinishSound, OnTheWaySound
<1>2. CASE UNCHANGED vars
  BY <1>2 DEF vars, callerVars, awsVars, Sound, NothingLeft, GrantsNamed,
              CallSound, Granted
<1> QED BY <1>1, <1>2, UserActionSound, StartSound, SkipSound
    DEF Next, WorkerStep, Begins

(* The first statement of a policy names nobody at first.                   *)
LEMMA InitNamed ==
  ASSUME OneStatement, Init, NEW i \in Identities
  PROVE  Named(policy[i]) = {}
<1> DEFINE d == policy[i]
<1>1. \/ d = Unreadable
      \/ d \in Policies /\ (1 \in DOMAIN d => d[1] = {})
  BY DEF Init
<1> HIDE DEF d
<1>2. CASE d = Unreadable
  BY <1>2 DEF Named, d
<1>3. CASE d \in Policies /\ (1 \in DOMAIN d => d[1] = {})
  <2>1. PICK k \in 0 .. 1 : d \in [1 .. k -> Statement]
    BY <1>3 DEF Policies, OneStatement
  <2>2. \A j \in DOMAIN d : d[j] = {}
    BY <1>3, <2>1
  <2>3. UNION {d[j] : j \in DOMAIN d} = {}
    BY <2>2
  <2> QED BY <2>3 DEF Named, d
<1> QED BY <1>1, <1>2, <1>3

(* "to cleanup any non-k8s resources created via ApplyPlugin" (the Plugin   *)
(* interface): no role records the service account of a deleted profile, if *)
(* there is one worker, no policy has more than one statement, and users do *)
(* not change the role that a profile names.                                *)
THEOREM AwsLeavesNothing ==
  ASSUME Steady
  PROVE  Spec => []NothingLeft
<1>1. Init => Sound
  <2> SUFFICES ASSUME Init
               PROVE  Sound
    OBVIOUS
  <2>1. Granted = {}
    <3>1. \A i \in Identities : Named(policy[i]) = {}
      BY InitNamed DEF Steady
    <3>2. \A g \in Identities \X Namespaces : g[1] \in Identities
      OBVIOUS
    <3> QED BY <3>1, <3>2 DEF Granted
  <2>2. \A w \in Workers : call[w] = Nil
    BY DEF Init, CallerInit
  <2> QED BY <2>1, <2>2 DEF Sound, NothingLeft, GrantsNamed, CallSound
<1>2. IInv /\ Sound /\ [Next]_vars => Sound'
  BY NextSound
<1>3. Sound => NothingLeft
  BY DEF Sound
<1>4. Spec => []IInv
  BY CopiesCurrentAlways DEF Steady
<1> QED BY <1>1, <1>2, <1>3, <1>4, PTL DEF Spec
=============================================================================
