---------------------------- MODULE PluginCaller ----------------------------
(***************************************************************************)
(* The passes of Reconcile that call a Plugin.  A pass applies the plugin  *)
(* of its profile, also while the profile is being deleted, and in a pass  *)
(* that finds the profile deleted it then revokes the plugin and lets the  *)
(* finalizer go; an error ends the pass.  A worker is in one pass at a     *)
(* time, with the profile that it read.  What a plugin does inside a call  *)
(* is the business of the modules that extend this one.                    *)
(***************************************************************************)
EXTENDS Naturals

CONSTANTS
  Workers,       \* the workers of the running controller processes
  Namespaces,    \* profiles, by the name of their namespace
  Identities,    \* GCP service accounts or AWS roles
  Nil,           \* no service account; no pass
  Unannotated,   \* a service account as updateServiceAccount creates it
  PluginEdits,   \* whether users change the identity in a profile
  MaxEdits,      \* bound: edits by users and administrators
  MaxFaults      \* bound: lost requests, lost answers and crashes

ASSUME CallerAssumption ==
  /\ Nil \notin Identities \cup {Unannotated}
  /\ Unannotated \notin Identities
  /\ PluginEdits \in BOOLEAN
  /\ MaxEdits \in Nat
  /\ MaxFaults \in Nat

VARIABLES
  phase,            \* phase[n]: how far the profile is
  plugin,           \* plugin[n]: the identity in the profile's plugin spec
  serviceAccount,   \* serviceAccount[n]: the annotation of default-editor
  call,             \* call[w]: where the pass of w is, or Nil
  edits,            \* edits so far
  faults            \* faults so far

callerVars == <<phase, plugin, serviceAccount, call, edits, faults>>

(* A pass in a call of ApplyPlugin or RevokePlugin, or, with the step       *)
(* "revoke", between the two.                                               *)
CallRecord ==
  [step : {"annotate", "read", "write", "done", "revoke"},
   kind : {"apply", "revoke"}, identity : Identities, namespace : Namespaces,
   deleting : BOOLEAN]

(* A call as PluginGrants sees it.                                          *)
PendingCall ==
  [kind : {"apply", "revoke"}, identity : Identities, namespace : Namespaces,
   done : BOOLEAN]

ASSUME NilAssumption == Nil \notin CallRecord \cup PendingCall

PendingOf(c) ==
  IF c = Nil \/ c.step = "revoke" THEN Nil
  ELSE [kind |-> c.kind, identity |-> c.identity,
        namespace |-> c.namespace, done |-> c.step = "done"]

Pending == [w \in Workers |-> PendingOf(call[w])]

CallerInit ==
  /\ phase = [n \in Namespaces |-> "live"]
  /\ plugin \in [Namespaces -> Identities]
  /\ serviceAccount = [n \in Namespaces |-> Unannotated]
  /\ call = [w \in Workers |-> Nil]
  /\ edits = 0
  /\ faults = 0

(***************************************************************************)
(* Users and administrators.                                               *)
(***************************************************************************)
Edit ==
  /\ edits < MaxEdits
  /\ edits' = edits + 1

DeleteProfile(n) ==
  /\ Edit
  /\ phase[n] = "live"
  /\ phase' = [phase EXCEPT ![n] = "deleting"]
  /\ UNCHANGED <<plugin, serviceAccount, call, faults>>

ChangePlugin(n, identity) ==
  /\ PluginEdits
  /\ Edit
  /\ phase[n] # "gone"
  /\ plugin[n] # identity
  /\ plugin' = [plugin EXCEPT ![n] = identity]
  /\ UNCHANGED <<phase, serviceAccount, call, faults>>

(* The service account goes with its namespace, at any time.                *)
DeleteServiceAccount(n) ==
  /\ Edit
  /\ serviceAccount[n] # Nil
  /\ serviceAccount' = [serviceAccount EXCEPT ![n] = Nil]
  /\ UNCHANGED <<phase, plugin, call, faults>>

UserAction ==
  \E n \in Namespaces :
    \/ DeleteProfile(n)
    \/ \E identity \in Identities : ChangePlugin(n, identity)
    \/ DeleteServiceAccount(n)

(***************************************************************************)
(* The workers.                                                            *)
(***************************************************************************)
Goto(w, step) == call' = [call EXCEPT ![w].step = step]

Hangup(w) == call' = [call EXCEPT ![w] = Nil]

\* Mutant: the account of a profile being deleted is not made again.
ApplyPluginDeleting(w, n) ==
  /\ call[w] = Nil
  /\ phase[n] # "gone"
  /\ serviceAccount' = [serviceAccount EXCEPT ![n] =
       IF @ = Nil /\ phase[n] = "live" THEN Unannotated ELSE @]
  /\ call' = [call EXCEPT ![w] =
       [step |-> "annotate", kind |-> "apply", identity |-> plugin[n],
        namespace |-> n, deleting |-> phase[n] = "deleting"]]
  /\ UNCHANGED <<phase, plugin, edits, faults>>

(* A pass as far as its ApplyPlugin.  updateServiceAccount has created the  *)
(* account if there was none, and the profile is the stored one: the update *)
(* in PatchDefaultPluginSpec is refused for any other, and for none.        *)
ApplyPlugin(w, n) ==
  /\ call[w] = Nil
  /\ phase[n] # "gone"
  /\ serviceAccount' = [serviceAccount EXCEPT ![n] =
       IF @ = Nil THEN Unannotated ELSE @]
  /\ call' = [call EXCEPT ![w] =
       [step |-> "annotate", kind |-> "apply", identity |-> plugin[n],
        namespace |-> n, deleting |-> phase[n] = "deleting"]]
  /\ UNCHANGED <<phase, plugin, edits, faults>>

(* RevokePlugin, for the same profile, from its first step on.              *)
RevokePlugin(w, step) ==
  /\ call[w] # Nil
  /\ call[w].step = "revoke"
  /\ call' = [call EXCEPT ![w].kind = "revoke", ![w].step = step]
  /\ UNCHANGED <<phase, plugin, serviceAccount, edits, faults>>

PatchAnnotation(w, annotation) ==
  LET n == call[w].namespace
  IN /\ call[w] # Nil
     /\ call[w].step = "annotate"
     /\ serviceAccount[n] # Nil
     /\ serviceAccount' = [serviceAccount EXCEPT ![n] = annotation]
     /\ Goto(w, "read")
     /\ UNCHANGED <<phase, plugin, edits, faults>>

MissServiceAccount(w) ==
  /\ call[w] # Nil
  /\ call[w].step = "annotate"
  /\ serviceAccount[call[w].namespace] = Nil
  /\ Hangup(w)
  /\ UNCHANGED <<phase, plugin, serviceAccount, edits, faults>>

\* Mutant: the finalizer is removed after every call.
FinishEveryCall(w) ==
  LET n == call[w].namespace
  IN /\ call[w] # Nil
     /\ call[w].step = "done"
     /\ phase' = [phase EXCEPT ![n] = IF @ = "deleting" THEN "gone" ELSE @]
     /\ Hangup(w)
     /\ UNCHANGED <<plugin, serviceAccount, edits, faults>>

(* After ApplyPlugin the pass goes on to the finalizer, which it removes    *)
(* after RevokePlugin if the profile is being deleted, with an Update that  *)
(* is refused if the profile has changed since it was read.                 *)
Finish(w) ==
  LET n == call[w].namespace
  IN /\ call[w] # Nil
     /\ call[w].step = "done"
     /\ \/ /\ call[w].kind = "apply" /\ call[w].deleting
           /\ Goto(w, "revoke")
           /\ UNCHANGED phase
        \/ /\ call[w].kind = "apply" /\ ~call[w].deleting
           /\ Hangup(w)
           /\ UNCHANGED phase
        \/ /\ call[w].kind = "revoke"
           /\ phase' = [phase EXCEPT ![n] =
                          IF plugin[n] = call[w].identity THEN "gone" ELSE @]
           /\ Hangup(w)
     /\ UNCHANGED <<plugin, serviceAccount, edits, faults>>

(* A request is lost, the annotation's Update is refused because the cached *)
(* service account was stale, or the process crashes.                       *)
Abort(w) ==
  /\ faults < MaxFaults
  /\ faults' = faults + 1
  /\ call[w] # Nil
  /\ Hangup(w)
  /\ UNCHANGED <<phase, plugin, serviceAccount, edits>>

(* A request has its effect but its answer is lost.                         *)
AbortAfter(w) ==
  /\ faults < MaxFaults
  /\ faults' = faults + 1
  /\ Hangup(w)
=============================================================================
