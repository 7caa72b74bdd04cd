-------------------------- MODULE PipelineObjects --------------------------
(***************************************************************************)
(* The objects that Kubeflow Pipelines needs in the namespace of a         *)
(* profile, as the generate functions build them from the profile's name   *)
(* and the Config, and what others make of them: Kubernetes of selectors   *)
(* and ports, AWS of roles and policies, the workflow engine of the        *)
(* artifact repository.                                                    *)
(*                                                                         *)
(* Objects refer to each other by names that are formatted in two places   *)
(* of the source; a formatted name is the tuple of what goes into it.      *)
(* Images, resources, regions and descriptions are left out.               *)
(***************************************************************************)
EXTENDS AccessPolicy, Sequences

Arn(account, resource) == <<"arn", account, resource>>

RoleName(cluster, n) == <<cluster, "kubeflow-assumable-role-ns", n>>

\* Mutant: the name of the policy is that of the cluster alone.
PolicyNameShared(cluster, n) == <<cluster, "kubeflow-s3-iam-policy-ns">>

PolicyName(cluster, n) == <<cluster, "kubeflow-s3-iam-policy-ns", n>>

Folder(bucket, n) == <<bucket, "pipelines", n>>

Subject(n) == <<"system:serviceaccount", n, "default-editor">>

(***************************************************************************)
(* The objects.                                                            *)
(***************************************************************************)
\* Mutant: the annotation names the role without its cluster.
GenerateServiceAccountsClusterless(n, account, cluster) ==
  << Object("ServiceAccount", "default-editor",
       [roles |-> {Arn(account, <<"kubeflow-assumable-role-ns", n>>)}]),
     Object("ServiceAccount", "default-viewer", [roles |-> {}]) >>

GenerateServiceAccounts(n, account, cluster) ==
  << Object("ServiceAccount", "default-editor",
       [roles |-> {Arn(account, RoleName(cluster, n))}]),
     Object("ServiceAccount", "default-viewer", [roles |-> {}]) >>

\* Mutant: all namespaces put their artifacts into one folder.
GenerateKFPConfigmapShared(bucket) ==
  << Object("ConfigMap", "metadata-grpc-configmap",
       [host |-> "metadata-grpc-service.kubeflow", port |-> 8080]),
     Object("ConfigMap", "kfp-launcher",
       [defaultPipelineRoot |-> <<bucket, "pipelines">>]),
     Object("ConfigMap", "artifact-repositories",
       [bucket |-> bucket, keyFormat |-> <<"pipelines">>]) >>

(* The workflow engine puts the namespace of a workflow into its keys.      *)
GenerateKFPConfigmap(bucket) ==
  << Object("ConfigMap", "metadata-grpc-configmap",
       [host |-> "metadata-grpc-service.kubeflow", port |-> 8080]),
     Object("ConfigMap", "kfp-launcher",
       [defaultPipelineRoot |-> <<bucket, "pipelines">>]),
     Object("ConfigMap", "artifact-repositories",
       [bucket |-> bucket,
        keyFormat |-> <<"pipelines", "workflow.namespace">>]) >>

GenerateKFPDeployments ==
  << Object("Deployment", VisualizationServer,
       [app |-> VisualizationServer, matchLabels |-> VisualizationServer,
        serviceAccountName |-> "default-editor", containerPort |-> 8888]),
     Object("Deployment", "ml-pipeline-ui-artifact",
       [app |-> "ml-pipeline-ui-artifact", matchLabels |-> "ml-pipeline-ui-artifact",
        serviceAccountName |-> "default-editor", containerPort |-> 3000]) >>

GenerateKFPDestinationRule ==
  Object("DestinationRule", VisualizationServer,
         [host |-> VisualizationServer, tls |-> "ISTIO_MUTUAL"])

GenerateKFPServices ==
  << Object("Service", VisualizationServer,
       [selector |-> VisualizationServer, port |-> 8888, targetPort |-> 8888]),
     Object("Service", "ml-pipeline-ui-artifact",
       [selector |-> "ml-pipeline-ui-artifact", port |-> 80, targetPort |-> 3000]) >>

GenerateKFPIAMPolicyACK(n, cluster, bucket) ==
  Object("Policy", PolicyName(cluster, n),
         [bucketName |-> bucket, namespace |-> n])

GenerateKFPIAMRoleACK(n, account, issuer, cluster) ==
  Object("Role", RoleName(cluster, n),
         [provider |-> <<account, issuer>>, subjects |-> {Subject(n)},
          policies |-> {Arn(account, PolicyName(cluster, n))}])

GeneratePodDefault ==
  LET directory == "/var/run/secrets/kubeflow/pipelines"
  IN Object("PodDefault", "access-ml-pipeline",
       [tokenPath |-> <<directory, "token">>,
        mounts |-> {<<"volume-kf-pipeline-token", directory>>},
        tokens |-> {<<"volume-kf-pipeline-token", "token">>}])

(***************************************************************************)
(* What others make of them.                                               *)
(***************************************************************************)

(* A request to a service arrives at a port on which a pod listens.         *)
Routed(objects, service) ==
  \E d \in Kind(objects, "Deployment") :
    /\ d.spec.app = service.spec.selector
    /\ d.spec.app = d.spec.matchLabels
    /\ d.spec.containerPort = service.spec.targetPort
    /\ \E a \in Kind(objects, "ServiceAccount") :
         a.name = d.spec.serviceAccountName

(* Where the workflows of the namespace n put their artifacts.              *)
ArtifactFolder(repository, n) ==
  <<repository.spec.bucket>> \o
    [i \in DOMAIN repository.spec.keyFormat |->
       IF repository.spec.keyFormat[i] = "workflow.namespace" THEN n
       ELSE repository.spec.keyFormat[i]]

(* The roles that a pod of default-editor in the namespace n can assume.    *)
Assumable(n, roles) == {r \in roles : Subject(n) \in r.spec.subjects}

Allow(actions, resource, prefixes) ==
  [actions |-> actions, resource |-> resource, prefixes |-> prefixes]

(* The statements of the document that a policy is made with.  Prefixes are *)
(* those that a listing must name; with none it may name any.               *)
Document(spec) ==
  LET bucket == <<spec.bucketName>>
      folder == Folder(spec.bucketName, spec.namespace)
  IN {Allow({"s3:ListAllMyBuckets", "s3:GetBucketLocation"}, <<"*">>, {}),
      Allow({"s3:ListBucket"}, bucket, {}),
      Allow({"s3:ListBucket"}, bucket,
            {<<>>, <<"pipelines">>, <<"pipelines", spec.namespace>>}),
      Allow({"s3:ListBucket"}, bucket, {<<"pipelines", spec.namespace, "*">>}),
      Allow({"s3:*"}, folder, {})}

(* What roles allow.  AWS knows a policy by its name, whatever namespace it *)
(* was stored in.                                                           *)
Statements(roles, policies) ==
  UNION {Document(p.spec) : p \in
           {p \in policies : \E r \in roles :
              Arn(r.spec.provider[1], p.name) \in r.spec.policies}}

(* Actions that tell names and nothing of what is in the objects.           *)
NameActions == {"s3:ListAllMyBuckets", "s3:GetBucketLocation", "s3:ListBucket"}

(* The folders whose objects the statements let read and write.             *)
FoldersOf(statements) ==
  {s.resource : s \in {s \in statements : ~(s.actions \subseteq NameActions)}}

(* Whether the names below a prefix of a bucket can be listed.              *)
Listed(statements, bucket, prefix) ==
  \E s \in statements :
    /\ "s3:ListBucket" \in s.actions
    /\ s.resource = <<bucket>>
    /\ s.prefixes = {} \/ prefix \in s.prefixes

(* A pod that takes the default finds its token where the variable says.    *)
TokenFound(podDefault) ==
  \E mount \in podDefault.spec.mounts, token \in podDefault.spec.tokens :
    /\ mount[1] = token[1]
    /\ podDefault.spec.tokenPath = <<mount[2], token[2]>>
=============================================================================
