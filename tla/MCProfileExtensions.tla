------------------------ MODULE MCProfileExtensions -------------------------
(* A small instance of the plugins and extra resources for TLC.             *)
EXTENDS ProfileExtensions

CONSTANTS id1, id2

MCTemplates ==
  "quota" :> << Resource("limits", "kubeflow", TRUE), Empty,
                Resource("quota", "kubeflow", TRUE) >>
    @@ "refused" :> << Resource("refused", "kubeflow", FALSE) >>
    @@ "broken" :> << Malformed >>

Extra(file, variables) == [file |-> file, vars |-> variables]

(* Good lists, and one for each way in which a list fails.                  *)
MCExtraLists ==
  { << Extra("quota", "v1") >>, << Extra("quota", "v2") >>,
    << Extra("quota", "v2"), Extra("refused", "v1") >>,
    << Extra("quota", "v1"), Extra("broken", "v1") >>,
    << Extra("quota", NoObject) >>, << Extra("absent", NoObject) >> }

MCPlugins ==
  { [kind |-> WORKLOADIDENTITY, spec |-> id1],
    [kind |-> "AwsIamForServiceAccount", spec |-> Unreadable],
    [kind |-> "Unknown", spec |-> Unreadable] }
=============================================================================
