---------------------------- MODULE PluginSpecs -----------------------------
(***************************************************************************)
(* The plugins in the spec of a profile: what GetPluginSpec makes of them  *)
(* and the default that PatchDefaultPluginSpec adds.  A plugin is a record *)
(* of its kind and of what its spec holds: an identity, or a text that is  *)
(* not of the plugin's type.                                               *)
(***************************************************************************)
EXTENDS SequencesExt

CONSTANTS
  None,        \* no workload identity is configured
  Unreadable   \* a spec that cannot be unmarshalled

WORKLOADIDENTITY == "WorkloadIdentity"

Recognized == {WORKLOADIDENTITY, "AwsIamForServiceAccount"}

(* Other kinds are skipped, and one unreadable spec spoils them all.        *)
GetPluginSpec(plugins) ==
  LET known == FlattenSeq([i \in DOMAIN plugins |->
                 IF plugins[i].kind \in Recognized THEN << plugins[i] >> ELSE << >>])
  IN IF \E p \in Range(known) : p.spec = Unreadable THEN Unreadable ELSE known

\* Mutant: the default is added whatever plugins the profile has.
PatchAlways(plugins, workloadIdentity) ==
  IF workloadIdentity = None THEN plugins
  ELSE Append(plugins, [kind |-> WORKLOADIDENTITY, spec |-> workloadIdentity])

PatchDefaultPluginSpec(plugins, workloadIdentity) ==
  IF \/ workloadIdentity = None
     \/ \E p \in Range(plugins) : p.kind = WORKLOADIDENTITY
  THEN plugins
  ELSE Append(plugins, [kind |-> WORKLOADIDENTITY, spec |-> workloadIdentity])
=============================================================================
