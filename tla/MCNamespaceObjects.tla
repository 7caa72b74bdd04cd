------------------------ MODULE MCNamespaceObjects ------------------------
(* Small instances of the objects of a namespace for TLC.                   *)
EXTENDS NamespaceObjects

First ==
  [issuer |-> "issuer1", userIdPrefix |-> "", provider |-> "AWS",
   accountID |-> "account", clusterOIDCIssuer |-> "cluster-issuer",
   clusterName |-> "cluster1", bucketName |-> "bucket1"]

(* Another bucket, and another identity provider; another cluster name; and *)
(* a Config for another cloud.                                              *)
MCConfigs ==
  {First,
   [First EXCEPT !.bucketName = "bucket2", !.issuer = "issuer2",
                 !.userIdPrefix = "prefix:"],
   [First EXCEPT !.clusterName = "cluster2"],
   [First EXCEPT !.provider = "GCP"]}
=============================================================================
