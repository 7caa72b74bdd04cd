---------------------------- MODULE AccessPolicy ----------------------------
(***************************************************************************)
(* The Istio objects that decide who reaches the workloads of a profile:   *)
(* the RequestAuthentication and the AuthorizationPolicy that the helpers  *)
(* store, and generatePeerAuthentication, generateEnvoyFilter and          *)
(* generateKFPAuthorizationPolicy.  How Istio reads them is external.      *)
(*                                                                         *)
(* An object is its kind, its name and its spec.  A rule is a record that  *)
(* gives the allowed values of the attributes it restricts, so that what   *)
(* the source writes as a missing From, To or When is a missing field.     *)
(***************************************************************************)
CONSTANT None   \* an attribute that a request does not have

Object(kind, name, spec) == [kind |-> kind, name |-> name, spec |-> spec]

Kind(objects, kind) == {o \in objects : o.kind = kind}

VisualizationServer == "ml-pipeline-visualizationserver"

ProbePaths == {"/healthz", "/metrics", "/ready", "/wait-for-drain"}

ModelPaths == {"/v1/models/*", "/v2/models/*"}

(***************************************************************************)
(* The objects.                                                            *)
(***************************************************************************)
RequestAuthentication(issuer) ==
  Object("RequestAuthentication", "kubeflow-request-auth", [issuer |-> issuer])

\* Mutant: the prefix of the identity provider is left out.
GetAuthorizationPolicyUnprefixed(n, owner, userIdPrefix, issuer) ==
  Object("AuthorizationPolicy", "ns-owner-access-istio",
    [selector |-> None,
     rules |-> {[issuer |-> {issuer}, email |-> {<<"", owner>>}],
                [source |-> {n}],
                [source |-> {"kubeflow"}],
                [source |-> {"knative"}, path |-> ProbePaths],
                [path |-> ModelPaths, header |-> {n}]}])

GetAuthorizationPolicy(n, owner, userIdPrefix, issuer) ==
  Object("AuthorizationPolicy", "ns-owner-access-istio",
    [selector |-> None,
     rules |-> {[issuer |-> {issuer}, email |-> {<<userIdPrefix, owner>>}],
                [source |-> {n}],
                [source |-> {"kubeflow"}],
                [source |-> {"knative"}, path |-> ProbePaths],
                [path |-> ModelPaths, header |-> {n}]}])

GenerateKFPAuthorizationPolicy ==
  Object("AuthorizationPolicy", VisualizationServer,
    [selector |-> VisualizationServer,
     rules |-> {[principal |-> {<<"kubeflow", "ml-pipeline">>}]}])

GeneratePeerAuthentication ==
  Object("PeerAuthentication", "kserve-force-strict", [mtls |-> "STRICT"])

\* Mutant: a header that the workload has set is left alone.
GenerateEnvoyFilterAdding(n) ==
  Object("EnvoyFilter", "add-kubeflow-source-namespace-header",
         [replace |-> FALSE, header |-> n])

(* The filter replaces the header kubeflow-request-source-namespace of      *)
(* every request that leaves the namespace.                                 *)
GenerateEnvoyFilter(n) ==
  Object("EnvoyFilter", "add-kubeflow-source-namespace-header",
         [replace |-> TRUE, header |-> n])

(***************************************************************************)
(* A request as it is sent: by a workload of the namespace origin that     *)
(* runs as account, through a sidecar (mesh) or not, directly or relayed   *)
(* by Knative, to the workload app, with a user's token or without.        *)
(* Knative only takes requests from sidecars, and only workloads of        *)
(* profiles set the header themselves.                                     *)
(***************************************************************************)
Origins(profiles) == profiles \cup {"kubeflow", "knative", "outside"}

Requests(profiles, tokens, paths) ==
  {r \in [origin : Origins(profiles),
          account : {"default-editor", "ml-pipeline"},
          token : tokens \cup {None}, path : paths,
          header : profiles \cup {None},
          app : {VisualizationServer, "notebook"},
          mesh : BOOLEAN, relayed : BOOLEAN] :
     /\ r.relayed => r.mesh
     /\ r.account = "ml-pipeline" => r.origin = "kubeflow"
     /\ r.header # None => r.origin \in profiles}

(* What the filter makes of the header in the sender's sidecar.             *)
Outbound(filters, header) ==
  LET f == CHOOSE f \in filters : TRUE
  IN IF filters = {} THEN header
     ELSE IF f.spec.replace \/ header = None THEN f.spec.header ELSE header

(* The objects that a request passes on its way from one namespace into     *)
(* another.                                                                 *)
Guards(sender, receiver) ==
  [filters |-> Kind(sender, "EnvoyFilter"),
   authentications |-> Kind(receiver, "RequestAuthentication"),
   peers |-> Kind(receiver, "PeerAuthentication"),
   policies |-> Kind(receiver, "AuthorizationPolicy")]

(* The attributes of the request at the receiving workload.  Without mutual *)
(* TLS the sender is unknown.  Knative passes the header on.                *)
Arrived(request, guards) ==
  LET trusted == /\ request.token # None
                 /\ \E a \in guards.authentications :
                      a.spec.issuer = request.token.issuer
  IN [issuer |-> IF trusted THEN request.token.issuer ELSE None,
      email |-> IF trusted THEN request.token.email ELSE None,
      source |-> IF request.relayed THEN "knative"
                 ELSE IF request.mesh THEN request.origin ELSE None,
      principal |-> IF request.mesh /\ ~request.relayed
                      THEN <<request.origin, request.account>> ELSE None,
      path |-> request.path,
      header |-> IF request.mesh THEN Outbound(guards.filters, request.header)
                 ELSE request.header]

Matches(rule, request) == \A a \in DOMAIN rule : request[a] \in rule[a]

(* Istio admits a request if every object that applies lets it pass: a      *)
(* token of a foreign issuer and, in strict mode, plain text are refused;   *)
(* with policies for the workload, one of their rules has to match.         *)
Admitted(request, guards) ==
  LET arrived == Arrived(request, guards)
      policies == {p \in guards.policies : p.spec.selector \in {None, request.app}}
  IN /\ request.token # None /\ guards.authentications # {}
          => arrived.issuer # None
     /\ \A p \in guards.peers : p.spec.mtls = "STRICT" => request.mesh
     /\ policies # {} => \E p \in policies : \E rule \in p.spec.rules :
                           Matches(rule, arrived)
=============================================================================
