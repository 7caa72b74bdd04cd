------------------------- MODULE ProfileExtensions --------------------------
(***************************************************************************)
(* The part of Reconcile for the plugins and extra resources of a profile, *)
(* in the order of the calls that lines 370-421 have, in part as comments: *)
(* the default plugin is patched into the profile, the plugins are         *)
(* applied, the extra resources are applied, and last the finalizer is     *)
(* registered, or the plugins are revoked and the finalizer removed.  A    *)
(* pass acts on the copy of the profile that it read from the cache; the   *)
(* copy follows the pass's own updates, and the API server refuses an      *)
(* update of a copy that is not the stored version.                        *)
(*                                                                         *)
(* There is one profile and one process, which can restart with another    *)
(* default.  A call of a plugin takes effect at once or not at all, as     *)
(* PluginGrants promises.                                                  *)
(***************************************************************************)
EXTENDS PluginSpecs, ExtraResources, Naturals

CONSTANTS
  Plugins,      \* the plugins that users write into the profile
  ExtraLists,   \* the lists of extra resources that they write into it
  Defaults,     \* the workload identities a process is started with
  MaxEdits,     \* bound: edits of users
  MaxFaults     \* bound: lost requests, lost answers and restarts

(* The plugins of a profile are its users' and the defaults.                *)
AnyPlugin == Plugins \cup [kind : {WORKLOADIDENTITY}, spec : Defaults \ {None}]

Profile ==
  [plugins : Seq(AnyPlugin), extras : ExtraLists \cup {<< >>},
   finalizer : BOOLEAN, deleting : BOOLEAN, version : Nat]

ASSUME ExtensionsAssumption ==
  /\ \A extras \in ExtraLists : extras \in Seq(Range(extras))
  /\ None \notin Profile
  /\ MaxEdits \in Nat /\ MaxFaults \in Nat

VARIABLES
  profile,            \* the stored profile, or None
  seen,               \* the profile in the cache
  workloadIdentity,   \* the default of the process
  pass,               \* the pass under way, or None
  granted,            \* the plugins in effect
  objects,            \* objects[place]: what is stored there
  withdrawn,          \* history: the plugins that users took out
  edits,              \* edits so far
  faults              \* faults so far

vars == <<profile, seen, workloadIdentity, pass, granted, objects, withdrawn,
          edits, faults>>

Places ==
  LET resources == {d \in UNION {Range(t) : t \in Range(Templates)} :
                      d.kind = "resource"}
  IN ({Namespace} \cup {r.namespace : r \in resources})
       \X {r.name : r \in resources}

Absent == [value |-> None, owner |-> None, others |-> None]

Init ==
  /\ profile \in [plugins : {<< >>}, extras : {<< >>}, finalizer : {FALSE},
                  deleting : {FALSE}, version : {0}]
  /\ seen = profile
  /\ workloadIdentity \in Defaults
  /\ pass = None
  /\ granted = {}
  /\ objects = [place \in Places |-> Absent]
  /\ withdrawn = {}
  /\ edits = 0
  /\ faults = 0

(***************************************************************************)
(* The API server: an update that changes nothing makes no new version, and*)
(* a profile that is being deleted goes with its last finalizer.           *)
(***************************************************************************)
Stored(new) ==
  IF new = profile THEN profile
  ELSE IF new.deleting /\ ~new.finalizer THEN None
  ELSE [new EXCEPT !.version = profile.version + 1]

Accepts(copy) == profile # None /\ profile.version = copy.version

Sync ==
  /\ seen # profile
  /\ seen' = profile
  /\ UNCHANGED <<profile, workloadIdentity, pass, granted, objects, withdrawn,
                 edits, faults>>

(***************************************************************************)
(* Users.                                                                  *)
(***************************************************************************)
Edit ==
  /\ edits < MaxEdits
  /\ edits' = edits + 1
  /\ UNCHANGED <<seen, workloadIdentity, granted, faults>>

EditProfile(new) ==
  /\ Edit
  /\ profile' = Stored(new)
  /\ pass' = IF pass = None THEN None ELSE [pass EXCEPT !.edited = TRUE]
  /\ UNCHANGED objects

AddPlugin(p) ==
  /\ profile # None
  /\ EditProfile([profile EXCEPT !.plugins = Append(@, p)])
  /\ UNCHANGED withdrawn

WithdrawPlugin(i) ==
  /\ EditProfile([profile EXCEPT !.plugins = RemoveAt(@, i)])
  /\ withdrawn' = withdrawn \cup {profile.plugins[i]}

EditExtras(extras) ==
  /\ profile # None
  /\ profile.extras # extras
  /\ EditProfile([profile EXCEPT !.extras = extras])
  /\ UNCHANGED withdrawn

DeleteProfile ==
  /\ profile # None
  /\ ~profile.deleting
  /\ EditProfile([profile EXCEPT !.deleting = TRUE])
  /\ UNCHANGED withdrawn

EditObject(place) ==
  /\ Edit
  /\ objects[place].others = None
  /\ objects' = [objects EXCEPT ![place].others = "users"]
  /\ UNCHANGED <<profile, pass, withdrawn>>

DeleteObject(place) ==
  /\ Edit
  /\ objects[place] # Absent
  /\ objects' = [objects EXCEPT ![place] = Absent]
  /\ UNCHANGED <<profile, pass, withdrawn>>

(***************************************************************************)
(* Passes.                                                                 *)
(***************************************************************************)
Fault ==
  /\ faults < MaxFaults
  /\ faults' = faults + 1

(* A request has its effect, and then its answer comes or is lost.          *)
Proceed(next) ==
  \/ pass' = next /\ UNCHANGED faults
  \/ Fault /\ pass' = None

At(step) == pass # None /\ pass.step = step

Move(step, todo) == [pass EXCEPT !.step = step, !.todo = todo]

(* What a pass does to the plugins of its copy; none if they are unreadable.*)
Readable(plugins) ==
  IF GetPluginSpec(plugins) = Unreadable THEN << >> ELSE GetPluginSpec(plugins)

Begin ==
  /\ pass = None
  /\ seen # None
  /\ pass' = [step |-> "patch", profile |-> seen, todo |-> << >>,
              edited |-> FALSE]
  /\ UNCHANGED <<profile, seen, workloadIdentity, granted, objects, withdrawn,
                 edits, faults>>

Patched ==
  [pass.profile EXCEPT !.plugins = PatchDefaultPluginSpec(@, workloadIdentity)]

Continue(copy) ==
  [step |-> "apply", profile |-> copy, todo |-> Readable(copy.plugins),
   edited |-> FALSE]

\* Mutant: the default is in the pass's copy only.
PatchInMemory ==
  /\ At("patch")
  /\ Accepts(pass.profile)
  /\ profile' = profile
  /\ Proceed(Continue(Patched))
  /\ UNCHANGED <<seen, workloadIdentity, granted, objects, withdrawn, edits>>

\* Mutant: the copy does not follow the update.
PatchKeepVersion ==
  /\ At("patch")
  /\ Accepts(pass.profile)
  /\ profile' = Stored(Patched)
  /\ Proceed(Continue(Patched))
  /\ UNCHANGED <<seen, workloadIdentity, granted, objects, withdrawn, edits>>

PatchDefault ==
  /\ At("patch")
  /\ Accepts(pass.profile)
  /\ profile' = Stored(Patched)
  /\ Proceed(Continue(profile'))
  /\ UNCHANGED <<seen, workloadIdentity, granted, objects, withdrawn, edits>>

ApplyPlugin ==
  /\ At("apply")
  /\ pass.todo # << >>
  /\ granted' = granted \cup {Head(pass.todo)}
  /\ Proceed([pass EXCEPT !.todo = Tail(@)])
  /\ UNCHANGED <<profile, seen, workloadIdentity, objects, withdrawn, edits>>

(* A panic ends the process, which comes back and reads the profiles again. *)
Deserialize ==
  LET extras == pass.profile.extras
  IN /\ At("apply")
     /\ pass.todo = << >>
     /\ pass' = IF Fails(extras) THEN None
                ELSE Move("extras", DeserializeExtraResources(extras))
     /\ seen' = IF Panics(extras) THEN profile ELSE seen
     /\ UNCHANGED <<profile, workloadIdentity, granted, objects, withdrawn,
                    edits, faults>>

(* The first resource that is refused ends the pass.                        *)
ReconcileExtraResource ==
  LET resource == SetNamespace(Head(pass.todo))
      place == <<resource.namespace, resource.name>>
  IN /\ At("extras")
     /\ pass.todo # << >>
     /\ IF ~resource.accepted
          THEN pass' = None /\ UNCHANGED <<objects, faults>>
          ELSE /\ objects' = [objects EXCEPT ![place] = Patch(@, resource)]
               /\ Proceed([pass EXCEPT !.todo = Tail(@)])
     /\ UNCHANGED <<profile, seen, workloadIdentity, granted, withdrawn, edits>>

FinalizerNext == At("extras") /\ pass.todo = << >>

RegisterFinalizer ==
  /\ FinalizerNext
  /\ ~pass.profile.deleting
  /\ ~pass.profile.finalizer
  /\ Accepts(pass.profile)
  /\ profile' = Stored([pass.profile EXCEPT !.finalizer = TRUE])
  /\ Proceed(None)
  /\ UNCHANGED <<seen, workloadIdentity, granted, objects, withdrawn, edits>>

\* Mutant: the plugins are revoked whether or not the profile is deleted.
AlwaysRevoke ==
  /\ FinalizerNext
  /\ pass.profile.finalizer
  /\ pass' = Move("revoke", Readable(pass.profile.plugins))
  /\ UNCHANGED <<profile, seen, workloadIdentity, granted, objects, withdrawn,
                 edits, faults>>

\* Mutant: a plugin that cannot be read ends the pass.
RevokeReadable ==
  /\ FinalizerNext
  /\ pass.profile.deleting
  /\ pass.profile.finalizer
  /\ pass' = IF GetPluginSpec(pass.profile.plugins) = Unreadable THEN None
             ELSE Move("revoke", Readable(pass.profile.plugins))
  /\ UNCHANGED <<profile, seen, workloadIdentity, granted, objects, withdrawn,
                 edits, faults>>

StartRevoke ==
  /\ FinalizerNext
  /\ pass.profile.deleting
  /\ pass.profile.finalizer
  /\ pass' = Move("revoke", Readable(pass.profile.plugins))
  /\ UNCHANGED <<profile, seen, workloadIdentity, granted, objects, withdrawn,
                 edits, faults>>

RevokePlugin ==
  /\ At("revoke")
  /\ pass.todo # << >>
  /\ granted' = granted \ {Head(pass.todo)}
  /\ Proceed([pass EXCEPT !.todo = Tail(@)])
  /\ UNCHANGED <<profile, seen, workloadIdentity, objects, withdrawn, edits>>

RemoveFinalizer ==
  /\ At("revoke")
  /\ pass.todo = << >>
  /\ Accepts(pass.profile)
  /\ profile' = Stored([pass.profile EXCEPT !.finalizer = FALSE])
  /\ Proceed(None)
  /\ UNCHANGED <<seen, workloadIdentity, granted, objects, withdrawn, edits>>

(* The pass has nothing left to do, or an update of it is refused.          *)
End ==
  /\ \/ /\ FinalizerNext
        /\ pass.profile.finalizer = ~pass.profile.deleting
     \/ /\ \/ At("patch")
           \/ FinalizerNext /\ ~pass.profile.finalizer
           \/ At("revoke") /\ pass.todo = << >>
        /\ ~Accepts(pass.profile)
  /\ pass' = None
  /\ UNCHANGED <<profile, seen, workloadIdentity, granted, objects, withdrawn,
                 edits, faults>>

(* A request is lost before it has an effect.                               *)
LoseRequest ==
  /\ Fault
  /\ pass # None
  /\ pass' = None
  /\ UNCHANGED <<profile, seen, workloadIdentity, granted, objects, withdrawn,
                 edits>>

Restart(identity) ==
  /\ Fault
  /\ workloadIdentity' = identity
  /\ pass' = None
  /\ seen' = profile
  /\ UNCHANGED <<profile, granted, objects, withdrawn, edits>>

UserAction ==
  \/ \E p \in Plugins : AddPlugin(p)
  \/ profile # None /\ \E i \in DOMAIN profile.plugins : WithdrawPlugin(i)
  \/ \E extras \in ExtraLists : EditExtras(extras)
  \/ DeleteProfile
  \/ \E place \in Places : EditObject(place) \/ DeleteObject(place)

Step ==
  \/ PatchDefault \/ ApplyPlugin \/ Deserialize \/ ReconcileExtraResource
  \/ RegisterFinalizer \/ StartRevoke \/ RevokePlugin \/ RemoveFinalizer
  \/ End

Next ==
  \/ UserAction
  \/ Sync \/ Begin \/ Step
  \/ LoseRequest
  \/ \E identity \in Defaults : Restart(identity)

(***************************************************************************)
(* A pass goes on, the cache catches up, and the profile has its turn again*)
(* at the latest when the resync period of the informers is over.          *)
(***************************************************************************)
Spec ==
  /\ Init /\ [][Next]_vars
  /\ WF_vars(Sync) /\ WF_vars(Begin) /\ WF_vars(Step)

(***************************************************************************)
(* Properties.                                                             *)
(***************************************************************************)
AnyProfile(p) == p \in Profile /\ (p.deleting => p.finalizer)

Values == {e.vars : e \in UNION {Range(l) : l \in ExtraLists}}

TypeOK ==
  /\ \A p \in {profile, seen} \ {None} : AnyProfile(p)
  /\ workloadIdentity \in Defaults
  /\ pass # None =>
       /\ AnyProfile(pass.profile)
       /\ pass.step \in {"patch", "apply", "extras", "revoke"}
       /\ pass.step = "revoke" => pass.profile.deleting
  /\ \A p \in granted : p.kind \in Recognized
  /\ objects \in [Places -> [value : Values \cup {None},
                             owner : {Namespace, None},
                             others : {"users", None}]]
  /\ edits \in 0 .. MaxEdits
  /\ faults \in 0 .. MaxFaults

(* Although the default plugin changes the profile in the middle of a pass, *)
(* the pass goes on with the stored profile unless a user has changed it    *)
(* since: the update of the finalizer is not refused on account of the      *)
(* pass's own.                                                              *)
PassIsCurrent ==
  pass # None /\ pass.step # "patch" /\ ~pass.edited => pass.profile = profile

Identities(plugins) ==
  {i \in DOMAIN plugins : plugins[i].kind = WORKLOADIDENTITY}

(* Passes, restarts and stale caches never undo a user's change of the      *)
(* plugins or of the extra resources, and add a default only where there is *)
(* no workload identity.                                                    *)
UserPluginsKept ==
  [][edits' = edits /\ profile # None /\ profile' # None =>
       /\ profile'.extras = profile.extras
       /\ IsPrefix(profile.plugins, profile'.plugins)
       /\ Cardinality(Identities(profile'.plugins))
            <= Max({1, Cardinality(Identities(profile.plugins))})]_vars

(* "our finalizer is present, so lets revoke all Plugins" (Reconcile): when *)
(* the finalizer lets the profile go, no grant is left but of plugins that  *)
(* a user withdrew, also if answers were lost on the way or the process has *)
(* restarted with another default.                                          *)
ReleaseRevokes ==
  [][/\ edits' = edits /\ profile # None /\ profile' = None
     /\ GetPluginSpec(profile.plugins) # Unreadable
     => granted' \subseteq withdrawn]_vars

(* Whatever the templates say, extra resources change nothing outside the   *)
(* namespace of the profile, and nothing in it that others have set.        *)
ExtrasAtHome ==
  [][edits' = edits => \A place \in Places :
       /\ objects'[place].others = objects[place].others
       /\ place[1] # Namespace => objects'[place] = objects[place]]_vars

(* The extras, by position, and the documents in each that are resources.   *)
Positions ==
  {k \in (DOMAIN profile.extras) \X (1 .. 3) :
     LET documents == Templates[profile.extras[k[1]].file]
     IN k[2] \in DOMAIN documents /\ documents[k[2]].kind = "resource"}

(* A resource is due unless one of the same stream is refused before it.    *)
InPlace ==
  Fails(profile.extras) \/
    LET Document(k) == Templates[profile.extras[k[1]].file][k[2]]
        refused == {k \in Positions : ~Document(k).accepted}
        NotAfter(k, l) == k[1] < l[1] \/ (k[1] = l[1] /\ k[2] <= l[2])
    IN \A l \in Positions :
         \/ \E k \in refused : NotAfter(k, l)
         \/ /\ objects[<<Namespace, Document(l).name>>].value
                 = profile.extras[l[1]].vars
            /\ objects[<<Namespace, Document(l).name>>].owner = Namespace

(* Once the edits stop, the resources of the extras are there for good,     *)
(* with the variables they have now, up to the first that is refused.       *)
ExtrasFollow == <>[](profile = None \/ InPlace)

Applicable(extras) ==
  ~Fails(extras) /\ \A e \in Range(extras) : \A d \in Range(Templates[e.file]) :
                      d.kind = "resource" => d.accepted

(* A profile that is deleted is let go; only an extra resource that is      *)
(* refused or cannot be read holds it up, since it ends every pass before   *)
(* the finalizer.                                                           *)
Released ==
  profile # None /\ profile.deleting
    ~> profile = None \/ ~Applicable(profile.extras)
=============================================================================
