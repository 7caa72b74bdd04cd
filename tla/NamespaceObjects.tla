-------------------------- MODULE NamespaceObjects --------------------------
(***************************************************************************)
(* The objects of AccessPolicy and PipelineObjects in the namespaces of    *)
(* the profiles while passes of Reconcile bring them up to date.  A pass   *)
(* reads the profile and the Config, and then creates or updates the       *)
(* objects one by one, in the order of the calls that lines 221-256 and    *)
(* 422-542 of Reconcile have as comments.  It can end early; then the      *)
(* namespace has objects of several versions of the profile and of the     *)
(* Config, and so it has while a pass is under way.                        *)
(*                                                                         *)
(* A pass may act on what it read long before.  There is no cache besides: *)
(* a pass that reads a stale one does what a pass does that began before   *)
(* the change.                                                             *)
(***************************************************************************)
EXTENDS PipelineObjects, Naturals

CONSTANTS
  Profiles,      \* profiles, by the name of their namespace
  Users,         \* owners, by the name in the profile
  Workers,       \* one for each controller process
  Configs,       \* the contents that the Config can have
  DeletedKinds,  \* the kinds of objects that users delete
  Nil,           \* no pass
  MaxEvents      \* bound: edits, and passes that end early

(* The part of the Config that goes into the objects.                       *)
ConfigSpec ==
  [issuer : STRING, userIdPrefix : STRING, provider : STRING,
   accountID : STRING, clusterOIDCIssuer : STRING, clusterName : STRING,
   bucketName : STRING]

ASSUME ObjectsAssumption ==
  /\ Profiles \cap {None, "kubeflow", "knative", "outside"} = {}
  /\ None \notin {"kubeflow", "knative", <<"kubeflow", "ml-pipeline">>}
  /\ Users # {}
  /\ Configs # {}
  /\ \A c \in Configs : c \in ConfigSpec /\ c.issuer # None
  /\ MaxEvents \in Nat

VARIABLES
  owner,      \* owner[n]: the owner of the profile n
  config,     \* the Config
  objects,    \* objects[n]: the objects in the namespace n
  pass,       \* pass[w]: the pass that w is in, or Nil
  events      \* edits and passes that ended early, so far

vars == <<owner, config, objects, pass, events>>

(* It does not matter whose the profiles are at first, and with what Config.*)
Init ==
  /\ owner = [n \in Profiles |-> CHOOSE user \in Users : TRUE]
  /\ config = CHOOSE c \in Configs : TRUE
  /\ objects = [n \in Profiles |-> {}]
  /\ pass = [w \in Workers |-> Nil]
  /\ events = 0

(***************************************************************************)
(* Users and administrators.  A profile changes its owner together with    *)
(* the annotation of its namespace: until both agree Reconcile rejects the *)
(* profile before it comes to these objects.                               *)
(***************************************************************************)
Event ==
  /\ events < MaxEvents
  /\ events' = events + 1

ChangeOwner(n, user) ==
  /\ Event
  /\ owner[n] # user
  /\ owner' = [owner EXCEPT ![n] = user]
  /\ UNCHANGED <<config, objects, pass>>

ChangeConfig(new) ==
  /\ Event
  /\ config # new
  /\ config' = new
  /\ UNCHANGED <<owner, objects, pass>>

DeleteObject(n, object) ==
  /\ Event
  /\ object.kind \in DeletedKinds
  /\ objects' = [objects EXCEPT ![n] = @ \ {object}]
  /\ UNCHANGED <<owner, config, pass>>

(***************************************************************************)
(* Passes.                                                                 *)
(***************************************************************************)
(* Everything that a pass stores, in its order.                             *)
Wanted(n, user, c) ==
  << RequestAuthentication(c.issuer),
     GetAuthorizationPolicy(n, user, c.userIdPrefix, c.issuer) >>
  \o GenerateServiceAccounts(n, c.accountID, c.clusterName)
  \o GenerateKFPConfigmap(c.bucketName)
  \o GenerateKFPDeployments
  \o << GenerateKFPDestinationRule, GenerateKFPAuthorizationPolicy >>
  \o GenerateKFPServices
  \o << GeneratePeerAuthentication, GenerateEnvoyFilter(n), GeneratePodDefault >>
  \o IF c.provider # "AWS" THEN << >>
     ELSE << GenerateKFPIAMPolicyACK(n, c.clusterName, c.bucketName),
             GenerateKFPIAMRoleACK(n, c.accountID, c.clusterOIDCIssuer,
                                   c.clusterName) >>

Generated ==
  [k \in Profiles \X Users \X Configs |-> Wanted(k[1], k[2], k[3])]

Begin(w, n) ==
  /\ pass[w] = Nil
  /\ pass' = [pass EXCEPT ![w] =
       [namespace |-> n, next |-> 1, owner |-> owner[n], config |-> config]]
  /\ UNCHANGED <<owner, config, objects, events>>

\* Mutant: an object is stored beside the one it replaces.
PutBeside(stored, object) == stored \cup {object}

(* A stored object is known by its kind and its name.                       *)
Put(stored, object) ==
  {o \in stored : <<o.kind, o.name>> # <<object.kind, object.name>>}
    \cup {object}

Reconcile(w) ==
  LET p == pass[w]
      generated == Generated[<<p.namespace, p.owner, p.config>>]
  IN /\ p # Nil
     /\ objects' = [objects EXCEPT ![p.namespace] = Put(@, generated[p.next])]
     /\ pass' = [pass EXCEPT ![w] = IF p.next = Len(generated) THEN Nil
                                    ELSE [p EXCEPT !.next = @ + 1]]
     /\ UNCHANGED <<owner, config, events>>

(* A request is lost or refused, or the process dies.                       *)
Abort(w) ==
  /\ Event
  /\ pass[w] # Nil
  /\ pass' = [pass EXCEPT ![w] = Nil]
  /\ UNCHANGED <<owner, config, objects>>

Next ==
  \/ \E n \in Profiles : \/ \E user \in Users : ChangeOwner(n, user)
                         \/ \E object \in objects[n] : DeleteObject(n, object)
  \/ \E new \in Configs : ChangeConfig(new)
  \/ \E w \in Workers : \/ Reconcile(w) \/ Abort(w)
                        \/ \E n \in Profiles : Begin(w, n)

(***************************************************************************)
(* Passes go on, and every profile has its turn: the queue is first in     *)
(* first out, and a change or an error queues the profile again.           *)
(***************************************************************************)
Spec ==
  /\ Init /\ [][Next]_vars
  /\ \A w \in Workers : /\ WF_vars(Reconcile(w))
                        /\ \A n \in Profiles : SF_vars(Begin(w, n))

(***************************************************************************)
(* Properties.                                                             *)
(***************************************************************************)
TypeOK ==
  /\ owner \in [Profiles -> Users]
  /\ config \in Configs
  /\ \A n \in Profiles : \A o, p \in objects[n] :
       o.kind = p.kind /\ o.name = p.name => o = p
  /\ pass \in [Workers -> {Nil} \cup [namespace : Profiles, next : 1 .. 18,
                                      owner : Users, config : Configs]]
  /\ events \in 0 .. MaxEvents

Tokens ==
  [issuer : {c.issuer : c \in Configs},
   email : {c.userIdPrefix : c \in Configs} \X Users]

Paths == {"/healthz", "/v1/models/*", "/notebook"}

AllRequests == Requests(Profiles, Tokens, Paths)

(* Requests as they are without a token.  Knative's probes are let through  *)
(* from everywhere.                                                         *)
Anonymous ==
  {[r EXCEPT !.token = None] : r \in {r \in AllRequests : r.path \notin ProbePaths}}

(* What a workload of m can send that sets the header as if it came from n. *)
RequestsAs(m, n) == {r \in Anonymous : r.origin = m /\ r.header = n}

(* The header that the model rule trusts tells the namespace a request      *)
(* comes from: once the objects exist, whatever versions of them, no        *)
(* workload of one profile reaches one of another but for Knative's probes, *)
(* also without a sidecar and with a header of its own.                     *)
Isolation ==
  \A m, n \in Profiles :
    /\ m # n
    /\ \E p \in Kind(objects[n], "AuthorizationPolicy") : p.spec.selector = None
    /\ Kind(objects[n], "PeerAuthentication") # {}
    /\ Kind(objects[m], "EnvoyFilter") # {}
    => LET guards == Guards(objects[m], objects[n])
       IN \A r \in RequestsAs(m, n) : ~Admitted(r, guards)

InPlace(n) ==
  LET wanted == Generated[<<n, owner[n], config>>]
  IN \A i \in DOMAIN wanted : wanted[i] \in objects[n]

(* Who should reach the workloads of the profile n, in terms of where a     *)
(* request comes from.                                                      *)
Rightful(r, n) ==
  /\ r.mesh
  /\ r.token # None => r.token.issuer = config.issuer
  /\ \/ r.token # None /\ r.token.email = <<config.userIdPrefix, owner[n]>>
     \/ ~r.relayed /\ r.origin \in {n, "kubeflow"}
     \/ (r.relayed \/ r.origin = "knative") /\ r.path \in ProbePaths
     \/ r.origin = n /\ r.path \in ModelPaths

(* Between passes, with all objects in place, the owner, the namespace      *)
(* itself, kubeflow and Knative's probes are admitted and nobody else: not  *)
(* the former owner, and no token of the former issuer.                     *)
AccessAsIntended ==
  (\A w \in Workers : pass[w] = Nil) /\ (\A n \in Profiles : InPlace(n)) =>
    \A n \in Profiles, origin \in Origins(Profiles) :
      LET sender == IF origin \in Profiles THEN objects[origin] ELSE {}
          guards == Guards(sender, objects[n])
      IN \A r \in {r \in AllRequests : r.origin = origin} :
           Admitted(r, guards) <=> Rightful(r, n)

Stored(kind) == UNION {Kind(objects[n], kind) : n \in Profiles}

(* Roles and policies of earlier Configs stay, and a role can meet policies *)
(* of another version; even so the pods of a profile can read and write no  *)
(* objects but those in the folders of their own namespace.  This says      *)
(* nothing of names: the listing of a bucket is allowed without a condition *)
(* (AllowRootListingOfCompanyBucket), so every profile can list the folders *)
(* of all others, and the conditions of the other listings restrict nothing.*)
FolderIsolation ==
  \A n \in Profiles :
    \A f \in FoldersOf(Statements(Assumable(n, Stored("Role")), Stored("Policy"))) :
      \E c \in Configs : f = Folder(c.bucketName, n)

(* The references between the objects of a namespace resolve: services find *)
(* pods, the role that default-editor is annotated with exists, trusts it   *)
(* and lets it list, read and write the folder where the workflows put      *)
(* their artifacts.                                                         *)
Usable(n) ==
  LET own == objects[n]
      named == {r \in Kind(own, "Role") :
                  \E a \in Kind(own, "ServiceAccount") :
                    Arn(r.spec.provider[1], r.name) \in a.spec.roles}
      repository == CHOOSE c \in Kind(own, "ConfigMap") :
                      c.name = "artifact-repositories"
  IN /\ \A s \in Kind(own, "Service") : Routed(own, s)
     /\ \A d \in Kind(own, "DestinationRule") :
          \E s \in Kind(own, "Service") : s.name = d.spec.host
     /\ \A p \in Kind(own, "PodDefault") : TokenFound(p)
     /\ config.provider = "AWS" =>
          LET allowed == Statements(Assumable(n, named), Stored("Policy"))
          IN /\ ArtifactFolder(repository, n) \in FoldersOf(allowed)
             /\ Listed(allowed, repository.spec.bucket, <<"pipelines", n, "*">>)

(* Objects of one version of the profile and the Config fit together, also  *)
(* while roles and policies of other versions are stored beside them.       *)
ReferencesResolve == \A n \in Profiles : InPlace(n) => Usable(n)

(* Once the edits stop, passes put all objects in place for good, and they  *)
(* fit together: no mixture of versions is left by an aborted pass, a stale *)
(* cache or the order in which the objects are stored.                      *)
EventuallyUsable == <>[](\A n \in Profiles : InPlace(n) /\ Usable(n))
=============================================================================
