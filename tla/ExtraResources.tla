--------------------------- MODULE ExtraResources ---------------------------
(***************************************************************************)
(* The extra resources of a profile.  Each names a template, a file in the *)
(* image of the controller, and the variables to execute it with; all the  *)
(* output together is one stream of YAML documents, which are applied in   *)
(* the namespace of the profile by server-side apply.  Templates end in a  *)
(* newline, so that the separator after one is a line of its own.          *)
(***************************************************************************)
EXTENDS SequencesExt

CONSTANTS
  Templates,   \* Templates[f]: the documents that the file f produces
  Namespace    \* the name of the profile, and of its namespace

(* Where a template has its variables.                                      *)
Placeholder == "variables"

(* Documents that are no resource.                                          *)
Empty == [kind |-> "empty", value |-> Placeholder]
Malformed == [kind |-> "malformed", value |-> Placeholder]

Resource(name, namespace, accepted) ==
  [kind |-> "resource", name |-> name, namespace |-> namespace,
   accepted |-> accepted, value |-> Placeholder]

Documents ==
  {Empty, Malformed}
    \cup [kind : {"resource"}, name : STRING, namespace : STRING,
          accepted : BOOLEAN, value : {Placeholder}]

ASSUME TemplatesAssumption ==
  \A f \in DOMAIN Templates : Templates[f] \in Seq(Documents)

(* Variables that are not a JSON object.                                    *)
NoObject == "no object"

Failing(extras) ==
  {i \in DOMAIN extras : \/ extras[i].file \notin DOMAIN Templates
                         \/ extras[i].vars = NoObject}

(* The documents of all templates, executed with their variables.           *)
Stream(extras) ==
  LET Execute(extra) == [i \in DOMAIN Templates[extra.file] |->
                           [Templates[extra.file][i] EXCEPT !.value = extra.vars]]
  IN FlattenSeq([i \in DOMAIN extras |-> Execute(extras[i])])

(* Variables that are not an object make the type assertion panic, unless a *)
(* file before, or the file they are for, cannot be read.                   *)
Panics(extras) ==
  /\ Failing(extras) # {}
  /\ extras[Min(Failing(extras))].file \in DOMAIN Templates

(* Nothing is applied unless the whole stream can be read.                  *)
Fails(extras) ==
  \/ Failing(extras) # {}
  \/ \E extra \in Range(extras) : Malformed \in Range(Templates[extra.file])

\* Mutant: an empty document ends the stream.
StopAtEmpty(documents) ==
  LET empty == SelectInSeq(documents, LAMBDA d : d.kind = "empty")
  IN IF empty = 0 THEN documents ELSE SubSeq(documents, 1, empty - 1)

SplitYaml(documents) ==
  FlattenSeq([i \in DOMAIN documents |->
    IF documents[i].kind = "empty" THEN << >> ELSE << documents[i] >>])

DeserializeExtraResources(extras) == SplitYaml(Stream(extras))

\* Mutant: a resource stays in the namespace that the template gives it.
KeepNamespace(resource) == resource

SetNamespace(resource) == [resource EXCEPT !.namespace = Namespace]

(* Server-side apply sets the fields of the template, which include the     *)
(* controller reference to the profile, and leaves the rest to others.      *)
Patch(stored, resource) ==
  [stored EXCEPT !.value = resource.value, !.owner = Namespace]
=============================================================================
