---------------------------- MODULE PluginGrants ----------------------------
(***************************************************************************)
(* What a plugin promises.  ApplyPlugin and RevokePlugin grant a cloud     *)
(* identity to the service account of a namespace and take it away.  A     *)
(* call takes effect at one moment, for that identity and that namespace   *)
(* only; it can fail before or after, and returns without an error only if *)
(* it took effect.                                                         *)
(***************************************************************************)
CONSTANTS
  Workers,      \* the workers that call plugins
  Namespaces,   \* the namespaces of the profiles
  Identities,   \* GCP service accounts or AWS roles
  Idle          \* the worker is in no call

VARIABLES
  granted,      \* pairs <<identity, namespace>>
  pending       \* pending[w]: the call w is in, and whether it took effect

vars == <<granted, pending>>

Grants == Identities \X Namespaces

Calls ==
  [kind : {"apply", "revoke"}, identity : Identities, namespace : Namespaces,
   done : BOOLEAN]

Init ==
  /\ granted \in SUBSET Grants
  /\ pending = [w \in Workers |-> Idle]

Call(w) ==
  /\ pending[w] = Idle
  /\ \E call \in Calls : ~call.done /\ pending' = [pending EXCEPT ![w] = call]
  /\ UNCHANGED granted

Outcome(call) ==
  LET grant == <<call.identity, call.namespace>>
  IN IF call.kind = "apply" THEN granted \cup {grant} ELSE granted \ {grant}

Effect(w) ==
  /\ pending[w] # Idle
  /\ ~pending[w].done
  /\ granted' = Outcome(pending[w])
  /\ \/ pending' = [pending EXCEPT ![w].done = TRUE]
     \/ pending' = [pending EXCEPT ![w] = Idle]

Leave(w) ==
  /\ pending[w] # Idle
  /\ pending' = [pending EXCEPT ![w] = Idle]
  /\ UNCHANGED granted

(* An administrator changes the grants directly.                            *)
Administer ==
  /\ granted' \in SUBSET Grants
  /\ UNCHANGED pending

Next == Administer \/ \E w \in Workers : Call(w) \/ Effect(w) \/ Leave(w)

Spec == Init /\ [][Next]_vars
=============================================================================
