----------------------- MODULE ProfileExtensionsProofs ------------------------
(***************************************************************************)
(* The plugins and extra resources of a profile, for any plugins, defaults,*)
(* templates, lists of extra resources and bounds: what is stored is of    *)
(* its type, a pass goes on with the stored profile, no pass undoes a      *)
(* user's change of the plugins, a profile that is let go leaves no grant, *)
(* and extra resources stay in the namespace of the profile.               *)
(***************************************************************************)
EXTENDS ProfileExtensions, TLAPS, SequenceTheorems, FiniteSetTheorems

(***************************************************************************)
(* Sequences.  FlattenSeq is defined by a recursive function; what it      *)
(* returns follows by induction on the number of sequences.                *)
(***************************************************************************)
(* Induction, for a set of numbers.                                         *)
LEMMA AllNumbers ==
  ASSUME NEW T, 0 \in T, \A n \in Nat : n \in T => n + 1 \in T
  PROVE  Nat \subseteq T
<1> DEFINE U == Nat \ T
           R == OpToRel(<, Nat)
<1> SUFFICES ASSUME U # {} PROVE FALSE
  OBVIOUS
<1>1. IsWellFoundedOn(R, Nat)
  BY NatLessThanWellFounded, Zenon
<1> HIDE DEF R, U
<1>2. U \subseteq Nat
  BY DEF U
<1>3. PICK m \in U : \A k \in U : ~(<<k, m>> \in R)
  BY <1>1, <1>2, WFMin
<1>4. \A k \in U : ~(k < m)
  BY <1>2, <1>3 DEF R, OpToRel
<1>5. m # 0 /\ m \in Nat /\ m \notin T
  BY <1>3 DEF U
<1>6. m - 1 \in Nat /\ m - 1 < m /\ (m - 1) + 1 = m
  BY <1>5
<1>7. m - 1 \in T
  BY <1>4, <1>6 DEF U
<1> QED BY <1>5, <1>6, <1>7

(* The concatenation of sequences has their elements, and no others.        *)
LEMMA Flattened ==
  ASSUME NEW T, NEW seqs \in Seq(Seq(T))
  PROVE  /\ FlattenSeq(seqs) \in Seq(T)
         /\ Range(FlattenSeq(seqs)) = UNION {Range(seqs[i]) : i \in DOMAIN seqs}
<1> DEFINE n == Len(seqs)
           Law(f, k) ==
             f = [i \in 1 .. k |-> IF i = 1 THEN seqs[i] ELSE f[i - 1] \o seqs[i]]
           flatten == CHOOSE f : Law(f, n)
<1>1. n \in Nat /\ DOMAIN seqs = 1 .. n /\ \A i \in 1 .. n : seqs[i] \in Seq(T)
  OBVIOUS
<1>2. FlattenSeq(seqs) = IF n = 0 THEN seqs ELSE flatten[n]
  BY DEF FlattenSeq
<1>3. CASE n = 0
  <2>1. seqs = << >>
    BY <1>3
  <2> QED BY <1>2, <1>3, <2>1 DEF Range
<1>4. CASE n # 0
  <2>1. \E f : Law(f, n)
    <3> DEFINE Lawful == {k \in Nat : \E f : Law(f, k)}
    <3>1. 0 \in Lawful
      <4>1. Law(<< >>, 0)
        OBVIOUS
      <4> QED BY <4>1
    <3>2. ASSUME NEW k \in Nat, k \in Lawful
          PROVE  k + 1 \in Lawful
      <4>1. PICK f : Law(f, k)
        BY <3>2
      <4> DEFINE g == [i \in 1 .. k + 1 |->
                         IF i <= k THEN f[i]
                         ELSE IF i = 1 THEN seqs[i] ELSE f[i - 1] \o seqs[i]]
      <4>2. \A i \in 1 .. k + 1 :
              g[i] = IF i = 1 THEN seqs[i] ELSE g[i - 1] \o seqs[i]
        <5>1. ASSUME NEW i \in 1 .. k
              PROVE  g[i] = IF i = 1 THEN seqs[i] ELSE g[i - 1] \o seqs[i]
          <6>1. f[i] = IF i = 1 THEN seqs[i] ELSE f[i - 1] \o seqs[i]
            BY <4>1
          <6>2. i # 1 => i - 1 \in 1 .. k
            OBVIOUS
          <6>3. g[i] = f[i] /\ (i # 1 => g[i - 1] = f[i - 1])
            BY <6>2
          <6> QED BY <6>1, <6>3
        <5>2. g[k + 1] = IF k + 1 = 1 THEN seqs[k + 1]
                         ELSE g[(k + 1) - 1] \o seqs[k + 1]
          OBVIOUS
        <5>3. \A i \in 1 .. k + 1 : i \in 1 .. k \/ i = k + 1
          OBVIOUS
        <5> HIDE DEF g
        <5> QED BY <5>1, <5>2, <5>3
      <4>3. DOMAIN g = 1 .. k + 1 /\ g = [i \in DOMAIN g |-> g[i]]
        OBVIOUS
      <4> HIDE DEF g
      <4>4. Law(g, k + 1)
        BY <4>2, <4>3
      <4> HIDE DEF Law
      <4> QED BY <4>4
    <3> HIDE DEF Law, Lawful
    <3>3. n \in Lawful
      BY <1>1, <3>1, <3>2, AllNumbers
    <3> QED BY <3>3 DEF Lawful
  <2>2. Law(flatten, n)
    BY <2>1
  <2> HIDE DEF flatten
  <2>3. \A i \in 1 .. n :
          flatten[i] = IF i = 1 THEN seqs[i] ELSE flatten[i - 1] \o seqs[i]
    BY <2>2
  <2> DEFINE Flat(i) == /\ flatten[i] \in Seq(T)
                        /\ Range(flatten[i]) = UNION {Range(seqs[j]) : j \in 1 .. i}
             Good == {i \in Nat : i \in 1 .. n => Flat(i)}
  <2>4. 0 \in Good
    OBVIOUS
  <2>5. ASSUME NEW i \in Nat, i \in Good
        PROVE  i + 1 \in Good
    <3> SUFFICES ASSUME i + 1 \in 1 .. n
                 PROVE  Flat(i + 1)
      OBVIOUS
    <3>1. CASE i = 0
      <4>1. flatten[1] = seqs[1] /\ seqs[1] \in Seq(T)
        BY <1>1, <1>4, <2>3
      <4>2. 1 .. 1 = {1} /\ i + 1 = 1
        BY <3>1
      <4> QED BY <4>1, <4>2
    <3>2. CASE i # 0
      <4>1. /\ i \in 1 .. n /\ i + 1 # 1 /\ (i + 1) - 1 = i
            /\ 1 .. i + 1 = (1 .. i) \cup {i + 1}
        BY <1>1, <3>2
      <4>2. Flat(i)
        BY <2>5, <4>1
      <4>3. flatten[i + 1] = flatten[i] \o seqs[i + 1] /\ seqs[i + 1] \in Seq(T)
        BY <1>1, <2>3, <4>1
      <4>4. /\ flatten[i + 1] \in Seq(T)
            /\ Range(flatten[i + 1]) = Range(flatten[i]) \cup Range(seqs[i + 1])
        BY <4>2, <4>3, RangeConcatenation, ConcatProperties
      <4> QED BY <4>1, <4>2, <4>4
    <3> QED BY <3>1, <3>2
  <2>6. n \in Good
    <3> HIDE DEF Good
    <3> QED BY <1>1, <2>4, <2>5, AllNumbers
  <2>7. Flat(n)
    BY <1>1, <1>4, <2>6
  <2> QED BY <1>1, <1>2, <1>4, <2>7
<1> QED BY <1>3, <1>4

(* Taking a plugin out leaves the others.                                   *)
LEMMA Removed ==
  ASSUME NEW T, NEW s \in Seq(T), NEW i \in DOMAIN s
  PROVE  /\ RemoveAt(s, i) \in Seq(T)
         /\ Range(RemoveAt(s, i)) \subseteq Range(s)
         /\ Range(s) \subseteq Range(RemoveAt(s, i)) \cup {s[i]}
<1> DEFINE before == SubSeq(s, 1, i - 1)
           after == SubSeq(s, i + 1, Len(s))
<1>1. /\ Len(s) \in Nat /\ DOMAIN s = 1 .. Len(s)
      /\ i \in Int /\ i - 1 \in Int /\ i + 1 \in Int /\ 1 <= i /\ i <= Len(s)
  OBVIOUS
<1>2. /\ before \in Seq(T) /\ Len(before) = i - 1
      /\ \A k \in 1 .. i - 1 : before[k] = s[k]
  BY <1>1, SubSeqProperties
<1>3. /\ after \in Seq(T) /\ Len(after) = Len(s) - i
      /\ \A k \in 1 .. Len(s) - i : after[k] = s[k + i]
  BY <1>1, SubSeqProperties
<1>4. RemoveAt(s, i) = before \o after
  BY DEF RemoveAt
<1> HIDE DEF before, after
<1>5. Range(RemoveAt(s, i)) = Range(before) \cup Range(after)
  BY <1>2, <1>3, <1>4, RangeConcatenation
<1>6. /\ Range(before) = {before[k] : k \in 1 .. i - 1}
      /\ Range(after) = {after[k] : k \in 1 .. Len(s) - i}
      /\ Range(s) = {s[k] : k \in 1 .. Len(s)}
  BY <1>2, <1>3, RangeEquality
<1>7. Range(RemoveAt(s, i)) \subseteq Range(s)
  <2>1. \A k \in 1 .. i - 1 : k \in 1 .. Len(s) /\ before[k] = s[k]
    BY <1>1, <1>2
  <2>2. \A k \in 1 .. Len(s) - i : k + i \in 1 .. Len(s) /\ after[k] = s[k + i]
    BY <1>1, <1>3
  <2>3. Range(before) \subseteq Range(s)
    BY <1>6, <2>1
  <2>4. Range(after) \subseteq Range(s)
    BY <1>6, <2>2
  <2> QED BY <1>5, <2>3, <2>4
<1>8. Range(s) \subseteq Range(RemoveAt(s, i)) \cup {s[i]}
  <2> SUFFICES ASSUME NEW k \in 1 .. Len(s)
               PROVE  s[k] \in Range(before) \cup Range(after) \cup {s[i]}
    BY <1>5, <1>6
  <2>1. CASE k < i
    <3>1. k \in 1 .. i - 1 /\ before[k] = s[k]
      BY <1>1, <1>2, <2>1
    <3> QED BY <1>6, <3>1
  <2>2. CASE k > i
    <3>1. k - i \in 1 .. Len(s) - i /\ (k - i) + i = k
      BY <1>1, <2>2
    <3>2. after[k - i] = s[k]
      BY <1>3, <3>1
    <3> QED BY <1>6, <3>1, <3>2
  <2>3. CASE k = i
    BY <2>3
  <2> QED BY <1>1, <2>1, <2>2, <2>3
<1> QED BY <1>2, <1>3, <1>4, <1>7, <1>8, ConcatProperties

(* A list that is not empty has its first element and the others.           *)
LEMMA ListRange ==
  ASSUME NEW T, NEW list \in Seq(T), list # << >>
  PROVE  Range(list) = {Head(list)} \cup Range(Tail(list))
<1>1. /\ Head(list) = list[1] /\ Len(list) \in Nat /\ Len(list) >= 1
      /\ DOMAIN list = 1 .. Len(list)
  OBVIOUS
<1>2. /\ Tail(list) \in Seq(T) /\ Len(Tail(list)) = Len(list) - 1
      /\ \A i \in 1 .. Len(list) - 1 : Tail(list)[i] = list[i + 1]
  BY <1>1, HeadTailProperties
<1>3. /\ Range(list) = {list[i] : i \in 1 .. Len(list)}
      /\ Range(Tail(list)) = {Tail(list)[i] : i \in 1 .. Len(list) - 1}
  BY <1>2, RangeEquality
<1>4. ASSUME NEW i \in 1 .. Len(list)
      PROVE  list[i] \in {Head(list)} \cup Range(Tail(list))
  <2>1. CASE i = 1
    BY <1>1, <2>1
  <2>2. CASE i # 1
    <3>1. i - 1 \in 1 .. Len(list) - 1 /\ (i - 1) + 1 = i
      BY <1>1, <2>2
    <3>2. Tail(list)[i - 1] = list[i]
      BY <1>2, <3>1
    <3> QED BY <1>3, <3>1, <3>2
  <2> QED BY <2>1, <2>2
<1>5. ASSUME NEW i \in 1 .. Len(list) - 1
      PROVE  i + 1 \in 1 .. Len(list) /\ Tail(list)[i] = list[i + 1]
  BY <1>1, <1>2
<1>6. 1 \in 1 .. Len(list)
  BY <1>1
<1> QED BY <1>1, <1>3, <1>4, <1>5, <1>6

(***************************************************************************)
(* What a pass reads in a profile.                                         *)
(***************************************************************************)
(* The plugins that a pass applies or revokes are those of the profile that *)
(* the controller knows.                                                    *)
Known == {p \in AnyPlugin : p.kind \in Recognized}

LEMMA ReadableKnown ==
  ASSUME NEW plugins \in Seq(AnyPlugin)
  PROVE  /\ Readable(plugins) \in Seq(Known)
         /\ Range(Readable(plugins)) \subseteq Range(plugins)
         /\ GetPluginSpec(plugins) # Unreadable =>
              Range(Readable(plugins)) = Range(plugins) \cap Known
<1> DEFINE Piece(i) == IF plugins[i].kind \in Recognized THEN << plugins[i] >>
                       ELSE << >>
           pieces == [i \in DOMAIN plugins |-> Piece(i)]
           known == FlattenSeq(pieces)
<1>1. DOMAIN plugins = 1 .. Len(plugins) /\ Len(plugins) \in Nat
  OBVIOUS
<1>2. \A i \in DOMAIN plugins :
        Piece(i) \in Seq(Known) /\ Range(Piece(i)) = {plugins[i]} \cap Known
  <2> SUFFICES ASSUME NEW i \in DOMAIN plugins
               PROVE  Piece(i) \in Seq(Known)
                        /\ Range(Piece(i)) = {plugins[i]} \cap Known
    OBVIOUS
  <2>1. plugins[i] \in AnyPlugin
    BY <1>1
  <2>2. CASE plugins[i].kind \in Recognized
    <3>1. Piece(i) = << plugins[i] >> /\ plugins[i] \in Known
      BY <2>1, <2>2 DEF Known
    <3> HIDE DEF Piece
    <3>2. Range(<< plugins[i] >>) = {plugins[i]}
      BY DEF Range
    <3> QED BY <3>1, <3>2
  <2>3. CASE plugins[i].kind \notin Recognized
    <3>1. Piece(i) = << >> /\ plugins[i] \notin Known
      BY <2>3 DEF Known
    <3> HIDE DEF Piece
    <3>2. Range(<< >>) = {}
      BY DEF Range
    <3> QED BY <3>1, <3>2
  <2> QED BY <2>2, <2>3
<1> HIDE DEF Piece
<1>3. pieces \in Seq(Seq(Known))
  BY <1>1, <1>2
<1>4. DOMAIN pieces = DOMAIN plugins /\ \A i \in DOMAIN plugins : pieces[i] = Piece(i)
  OBVIOUS
<1> HIDE DEF pieces
<1>5. /\ known \in Seq(Known)
      /\ Range(known) = UNION {Range(pieces[i]) : i \in DOMAIN pieces}
  BY <1>3, Flattened
<1>6. Range(known) = Range(plugins) \cap Known
  <2>1. UNION {Range(pieces[i]) : i \in DOMAIN pieces}
          = UNION {{plugins[i]} \cap Known : i \in DOMAIN plugins}
    BY <1>2, <1>4
  <2>2. Range(plugins) = {plugins[i] : i \in DOMAIN plugins}
    BY DEF Range
  <2> QED BY <1>5, <2>1, <2>2
<1>7. GetPluginSpec(plugins) =
        IF \E p \in Range(known) : p.spec = Unreadable THEN Unreadable ELSE known
  BY DEF GetPluginSpec, pieces, Piece
<1> HIDE DEF known
<1>8. << >> \in Seq(Known) /\ Range(<< >>) = {}
  BY DEF Range
<1>9. Readable(plugins) = << >> \/ Readable(plugins) = known
  BY <1>7 DEF Readable
<1>10. GetPluginSpec(plugins) # Unreadable => Readable(plugins) = known
  BY <1>7 DEF Readable
<1> QED BY <1>5, <1>6, <1>8, <1>9, <1>10

(* The documents that can be read, with the variables of a list that a user *)
(* wrote; and those that a pass applies.                                    *)
Executed ==
  {[document EXCEPT !.value = v] :
     document \in Documents \ {Malformed}, v \in Values}

Manifests == {m \in Executed : m.kind = "resource"}

LEMMA ManifestFields ==
  ASSUME NEW m \in Manifests
  PROVE  m.value \in Values /\ {"namespace", "value"} \subseteq DOMAIN m
<1>1. PICK d \in Documents, v \in Values : m = [d EXCEPT !.value = v]
  BY DEF Manifests, Executed
<1>2. d.kind = "resource"
  BY <1>1 DEF Manifests, Documents, Empty, Malformed
<1>3. {"namespace", "value"} \subseteq DOMAIN d
  BY <1>2 DEF Documents, Empty, Malformed
<1> QED BY <1>1, <1>3

LEMMA DeserializedManifests ==
  ASSUME NEW extras \in ExtraLists \cup {<< >>}, ~Fails(extras)
  PROVE  DeserializeExtraResources(extras) \in Seq(Manifests)
<1> DEFINE Document(i, j) ==
             [Templates[extras[i].file][j] EXCEPT !.value = extras[i].vars]
           executed == [i \in DOMAIN extras |->
                          [j \in DOMAIN Templates[extras[i].file] |-> Document(i, j)]]
           stream == FlattenSeq(executed)
<1>1. /\ extras \in Seq(Range(extras)) /\ DOMAIN extras = 1 .. Len(extras)
      /\ Len(extras) \in Nat
  <2>1. << >> \in Seq(Range(<< >>))
    OBVIOUS
  <2>2. extras \in Seq(Range(extras))
    BY <2>1, ExtensionsAssumption
  <2> QED BY <2>2, LenProperties
<1>2. \A i \in DOMAIN extras : extras[i].file \in DOMAIN Templates
  BY DEF Fails, Failing
<1>3. \A i \in DOMAIN extras :
        /\ extras[i].vars \in Values
        /\ Malformed \notin Range(Templates[extras[i].file])
  <2>1. \A i \in DOMAIN extras : extras[i].vars \in Values
    BY <1>1 DEF Values, Range
  <2>2. \A i \in DOMAIN extras : extras[i] \in Range(extras)
    BY DEF Range
  <2> QED BY <2>1, <2>2 DEF Fails
<1>4. \A i \in DOMAIN extras : executed[i] \in Seq(Executed)
  <2> SUFFICES ASSUME NEW i \in DOMAIN extras
               PROVE  executed[i] \in Seq(Executed)
    OBVIOUS
  <2> DEFINE template == Templates[extras[i].file]
  <2>1. /\ template \in Seq(Documents) /\ DOMAIN template = 1 .. Len(template)
        /\ Len(template) \in Nat
    BY <1>2, TemplatesAssumption, LenProperties
  <2>2. \A j \in DOMAIN template : Document(i, j) \in Executed
    <3>1. \A j \in DOMAIN template : template[j] \in Documents
      BY <2>1, ElementOfSeq
    <3>2. \A j \in DOMAIN template : template[j] # Malformed
      BY <1>3 DEF Range
    <3> QED BY <1>3, <3>1, <3>2 DEF Executed
  <2> HIDE DEF Document
  <2>3. [j \in DOMAIN template |-> Document(i, j)] \in Seq(Executed)
    BY <2>1, <2>2
  <2> QED BY <2>3
<1>5. stream = Stream(extras)
  BY DEF Stream
<1>6. executed \in Seq(Seq(Executed))
  BY <1>1, <1>4
<1> HIDE DEF executed
<1>7. stream \in Seq(Executed)
  BY <1>6, Flattened
<1> HIDE DEF stream
<1>8. SplitYaml(stream) \in Seq(Manifests)
  <2> DEFINE Piece(i) == IF stream[i].kind = "empty" THEN << >> ELSE << stream[i] >>
             pieces == [i \in DOMAIN stream |-> Piece(i)]
  <2>1. DOMAIN stream = 1 .. Len(stream) /\ Len(stream) \in Nat
    BY <1>7
  <2>2. ASSUME NEW i \in DOMAIN stream
        PROVE  Piece(i) \in Seq(Manifests)
    <3>1. stream[i] \in Executed
      BY <1>7, <2>1
    <3>2. stream[i].kind # "empty" => stream[i] \in Manifests
      BY <3>1 DEF Manifests, Executed, Documents, Empty, Malformed
    <3> QED BY <3>2
  <2>3. SplitYaml(stream) = FlattenSeq(pieces)
    BY DEF SplitYaml
  <2> HIDE DEF Piece
  <2>4. pieces \in Seq(Seq(Manifests))
    BY <2>1, <2>2
  <2> HIDE DEF pieces
  <2> QED BY <2>3, <2>4, Flattened
<1> QED BY <1>5, <1>8 DEF DeserializeExtraResources

(***************************************************************************)
(* The types.                                                              *)
(***************************************************************************)
Steps == {"patch", "apply", "extras", "revoke"}

(* A pass has plugins before it that the controller knows, or resources of  *)
(* the templates; it only revokes for a profile that is being deleted.      *)
PassOK(p) ==
  /\ DOMAIN p = {"step", "profile", "todo", "edited"}
  /\ p.step \in Steps
  /\ AnyProfile(p.profile)
  /\ p.step \in {"apply", "revoke"} => p.todo \in Seq(Known)
  /\ p.step = "extras" => p.todo \in Seq(Manifests)
  /\ p.step = "revoke" => p.profile.deleting

CopiesTyped ==
  /\ profile # None => AnyProfile(profile)
  /\ seen # None => AnyProfile(seen)

PassTyped == pass # None => PassOK(pass)

Contents == [value : Values \cup {None}, owner : {Namespace, None},
            others : {"users", None}]

EffectsTyped == granted \subseteq Known /\ objects \in [Places -> Contents]

CountersTyped ==
  /\ workloadIdentity \in Defaults
  /\ edits \in 0 .. MaxEdits
  /\ faults \in 0 .. MaxFaults

Typed == CopiesTyped /\ PassTyped /\ EffectsTyped /\ CountersTyped

(* An update of the profile stores a profile, or takes the profile away.    *)
LEMMA StoredTyped ==
  ASSUME profile # None, AnyProfile(profile), NEW new \in Profile
  PROVE  /\ new.deleting /\ ~new.finalizer <=> Stored(new) = None
         /\ Stored(new) # None =>
              /\ AnyProfile(Stored(new))
              /\ Stored(new).plugins = new.plugins
              /\ Stored(new).extras = new.extras
              /\ \/ Stored(new) = profile
                 \/ Stored(new).version = profile.version + 1
<1>1. CASE new = profile
  BY <1>1 DEF Stored, AnyProfile
<1>2. CASE new # profile /\ new.deleting /\ ~new.finalizer
  BY <1>2 DEF Stored
<1>3. CASE new # profile /\ ~(new.deleting /\ ~new.finalizer)
  <2>1. Stored(new) = [new EXCEPT !.version = profile.version + 1]
    BY <1>3 DEF Stored
  <2>2. profile.version + 1 \in Nat
    BY DEF AnyProfile, Profile
  <2>3. /\ Stored(new) \in Profile /\ Stored(new).deleting = new.deleting
        /\ Stored(new).finalizer = new.finalizer
        /\ Stored(new).plugins = new.plugins
        /\ Stored(new).extras = new.extras
        /\ Stored(new).version = profile.version + 1
    BY <2>1, <2>2 DEF Profile
  <2>4. Stored(new) # None
    BY <2>3, ExtensionsAssumption
  <2> QED BY <1>3, <2>3, <2>4 DEF AnyProfile
<1> QED BY <1>1, <1>2, <1>3

(* What the patch adds is a workload identity, and only where there is none.*)
LEMMA PatchedTyped ==
  ASSUME NEW p, AnyProfile(p), workloadIdentity \in Defaults
  PROVE  /\ PatchDefaultPluginSpec(p.plugins, workloadIdentity) \in Seq(AnyPlugin)
         /\ [p EXCEPT !.plugins = PatchDefaultPluginSpec(@, workloadIdentity)]
              \in {q \in Profile : q.deleting => q.finalizer}
<1>1. p.plugins \in Seq(AnyPlugin)
  BY DEF AnyProfile, Profile
<1>2. workloadIdentity # None =>
        [kind |-> WORKLOADIDENTITY, spec |-> workloadIdentity] \in AnyPlugin
  BY DEF AnyPlugin
<1>3. PatchDefaultPluginSpec(p.plugins, workloadIdentity) \in Seq(AnyPlugin)
  BY <1>1, <1>2, AppendProperties DEF PatchDefaultPluginSpec
<1> QED BY <1>3 DEF AnyProfile, Profile

LEMMA InitTyped == Init => Typed
<1> SUFFICES ASSUME Init PROVE Typed
  OBVIOUS
<1>1. profile \in Profile /\ ~profile.deleting
  <2>1. << >> \in Seq(AnyPlugin)
    OBVIOUS
  <2>2. profile = [plugins |-> << >>, extras |-> << >>, finalizer |-> FALSE,
                   deleting |-> FALSE, version |-> 0]
    BY DEF Init
  <2> QED BY <2>1, <2>2 DEF Profile
<1>2. objects \in [Places -> Contents]
  BY DEF Init, Contents, Absent
<1> QED BY <1>1, <1>2, ExtensionsAssumption
        DEF Init, Typed, CopiesTyped, PassTyped, EffectsTyped, CountersTyped,
            AnyProfile

(* The steps that change the profile store one of its type; the pass and    *)
(* the cache follow it or stay.                                             *)
LEMMA UserActionTyped ==
  ASSUME Typed, UserAction
  PROVE  Typed'
<1>1. ASSUME NEW new \in Profile, profile # None, EditProfile(new)
      PROVE  Typed'
  <2>1. CopiesTyped'
    BY <1>1, StoredTyped DEF EditProfile, Edit, Typed, CopiesTyped, AnyProfile
  <2>2. PassTyped'
    <3>1. CASE pass = None
      BY <1>1, <3>1 DEF EditProfile, PassTyped
    <3>2. CASE pass # None
      <4>1. pass' = [pass EXCEPT !.edited = TRUE] /\ PassOK(pass)
        BY <1>1, <3>2 DEF EditProfile, Typed, PassTyped
      <4>2. /\ DOMAIN pass' = DOMAIN pass /\ pass'.step = pass.step
            /\ pass'.profile = pass.profile /\ pass'.todo = pass.todo
        BY <4>1 DEF PassOK
      <4> QED BY <4>1, <4>2 DEF PassTyped, PassOK
    <3> QED BY <3>1, <3>2
  <2>3. CountersTyped'
    BY <1>1, ExtensionsAssumption
    DEF EditProfile, Edit, Typed, CountersTyped
  <2> QED BY <1>1, <2>1, <2>2, <2>3 DEF EditProfile, Edit, Typed, EffectsTyped
<1>2. profile # None => AnyProfile(profile)
  BY DEF Typed, CopiesTyped
<1>3. CASE \E p \in Plugins : AddPlugin(p)
  <2>1. PICK p \in Plugins : AddPlugin(p)
    BY <1>3
  <2>2. [profile EXCEPT !.plugins = Append(@, p)] \in Profile
    <3>1. profile \in Profile /\ p \in AnyPlugin
      BY <1>2, <2>1 DEF AddPlugin, AnyProfile, AnyPlugin
    <3>2. Append(profile.plugins, p) \in Seq(AnyPlugin)
      BY <3>1, AppendProperties DEF Profile
    <3> QED BY <3>1, <3>2 DEF Profile
  <2> QED BY <1>1, <2>1, <2>2 DEF AddPlugin
<1>4. CASE profile # None /\ \E i \in DOMAIN profile.plugins : WithdrawPlugin(i)
  <2>1. PICK i \in DOMAIN profile.plugins : WithdrawPlugin(i)
    BY <1>4
  <2>2. [profile EXCEPT !.plugins = RemoveAt(@, i)] \in Profile
    <3>1. profile \in Profile /\ profile.plugins \in Seq(AnyPlugin)
      BY <1>2, <1>4 DEF AnyProfile, Profile
    <3>2. RemoveAt(profile.plugins, i) \in Seq(AnyPlugin)
      BY <2>1, <3>1, Removed
    <3> QED BY <3>1, <3>2 DEF Profile
  <2> QED BY <1>1, <1>4, <2>1, <2>2 DEF WithdrawPlugin
<1>5. CASE \E extras \in ExtraLists : EditExtras(extras)
  <2>1. PICK extras \in ExtraLists : EditExtras(extras)
    BY <1>5
  <2>2. [profile EXCEPT !.extras = extras] \in Profile
    BY <1>2, <2>1 DEF EditExtras, AnyProfile, Profile
  <2> QED BY <1>1, <2>1, <2>2 DEF EditExtras
<1>6. CASE DeleteProfile
  <2>1. [profile EXCEPT !.deleting = TRUE] \in Profile
    BY <1>2, <1>6 DEF DeleteProfile, AnyProfile, Profile
  <2> QED BY <1>1, <1>6, <2>1 DEF DeleteProfile
<1>7. CASE \E place \in Places : EditObject(place) \/ DeleteObject(place)
  <2>1. PICK place \in Places : EditObject(place) \/ DeleteObject(place)
    BY <1>7
  <2>2. /\ Edit /\ UNCHANGED <<profile, pass>>
        /\ \/ objects' = [objects EXCEPT ![place].others = "users"]
           \/ objects' = [objects EXCEPT ![place] = Absent]
    BY <2>1 DEF EditObject, DeleteObject
  <2>3. objects \in [Places -> Contents] /\ Absent \in Contents
    BY DEF Typed, EffectsTyped, Absent, Contents
  <2>4. objects' \in [Places -> Contents]
    <3>1. [objects[place] EXCEPT !.others = "users"] \in Contents
      BY <2>1, <2>3 DEF Contents
    <3> HIDE DEF Contents
    <3> QED BY <2>1, <2>2, <2>3, <3>1
  <2>5. CountersTyped'
    BY <2>2, ExtensionsAssumption DEF Edit, Typed, CountersTyped
  <2> QED BY <2>2, <2>4, <2>5
          DEF Edit, Typed, CopiesTyped, PassTyped, EffectsTyped
<1> QED BY <1>3, <1>4, <1>5, <1>6, <1>7 DEF UserAction

(* The pass takes the first plugin or resource of its list, or a new list.  *)
LEMMA ListTaken ==
  ASSUME NEW p, PassOK(p), p.todo # << >>,
         p.step \in {"apply", "extras", "revoke"}
  PROVE  /\ PassOK([p EXCEPT !.todo = Tail(@)])
         /\ p.step = "extras" => Head(p.todo) \in Manifests
         /\ p.step # "extras" => Head(p.todo) \in Known
<1> DEFINE q == [p EXCEPT !.todo = Tail(@)]
<1>1. /\ DOMAIN q = DOMAIN p /\ q.step = p.step /\ q.profile = p.profile
      /\ q.todo = Tail(p.todo)
  BY DEF PassOK
<1>2. CASE p.step = "extras"
  <2>1. p.todo \in Seq(Manifests)
    BY <1>2 DEF PassOK
  <2>2. Tail(p.todo) \in Seq(Manifests) /\ Head(p.todo) \in Manifests
    BY <2>1, HeadTailProperties
  <2> HIDE DEF q
  <2> QED BY <1>1, <1>2, <2>2 DEF PassOK
<1>3. CASE p.step # "extras"
  <2>1. p.todo \in Seq(Known)
    BY <1>3 DEF PassOK
  <2>2. Tail(p.todo) \in Seq(Known) /\ Head(p.todo) \in Known
    BY <2>1, HeadTailProperties
  <2> HIDE DEF q
  <2> QED BY <1>1, <1>3, <2>2 DEF PassOK
<1> QED BY <1>2, <1>3

LEMMA PassMoved ==
  ASSUME NEW p, PassOK(p), NEW step, NEW todo,
         \/ step = "extras" /\ todo \in Seq(Manifests)
         \/ step = "revoke" /\ todo \in Seq(Known) /\ p.profile.deleting
  PROVE  PassOK([p EXCEPT !.step = step, !.todo = todo])
<1> DEFINE q == [p EXCEPT !.step = step, !.todo = todo]
<1>1. /\ DOMAIN q = DOMAIN p /\ q.step = step /\ q.profile = p.profile
      /\ q.todo = todo
  BY DEF PassOK
<1> HIDE DEF q
<1>2. PassOK(q)
  BY <1>1 DEF PassOK, Steps
<1> QED BY <1>2 DEF q

(* A request that proceeds ends the pass or takes it further.               *)
LEMMA Proceeds ==
  ASSUME Typed, NEW next, Proceed(next), UNCHANGED <<workloadIdentity, edits>>
  PROVE  CountersTyped' /\ pass' \in {None, next}
BY ExtensionsAssumption DEF Proceed, Fault, Typed, CountersTyped

(* A patched copy of the profile.                                           *)
LEMMA PatchStep ==
  ASSUME Typed, PatchDefault
  PROVE  /\ profile # None /\ pass # None /\ AnyProfile(pass.profile)
         /\ Patched \in Profile /\ profile' # None /\ AnyProfile(profile')
         /\ profile'.plugins = PatchDefaultPluginSpec(pass.profile.plugins,
                                                      workloadIdentity)
         /\ profile'.extras = pass.profile.extras
         /\ profile' = profile \/ profile'.version = profile.version + 1
         /\ pass' \in {None, Continue(profile')}
<1>1. /\ profile # None /\ AnyProfile(profile)
      /\ pass # None /\ AnyProfile(pass.profile) /\ workloadIdentity \in Defaults
      /\ profile' = Stored(Patched)
  BY DEF PatchDefault, Accepts, At, Typed, CopiesTyped, PassTyped, PassOK,
         CountersTyped
<1>2. Patched \in Profile /\ (Patched.deleting => Patched.finalizer)
  BY <1>1, PatchedTyped DEF Patched
<1>3. /\ Patched.plugins = PatchDefaultPluginSpec(pass.profile.plugins,
                                                  workloadIdentity)
      /\ Patched.extras = pass.profile.extras
  BY <1>1 DEF Patched, AnyProfile, Profile
<1>4. /\ Stored(Patched) # None /\ AnyProfile(Stored(Patched))
      /\ Stored(Patched).plugins = Patched.plugins
      /\ Stored(Patched).extras = Patched.extras
      /\ \/ Stored(Patched) = profile
         \/ Stored(Patched).version = profile.version + 1
  BY <1>1, <1>2, StoredTyped
<1>5. pass' \in {None, Continue(profile')}
  BY DEF PatchDefault, Proceed
<1> QED BY <1>1, <1>2, <1>3, <1>4, <1>5

(* The registration of the finalizer, and its removal.                      *)
LEMMA FinalizerStep ==
  ASSUME Typed, RegisterFinalizer \/ RemoveFinalizer
  PROVE  /\ profile # None /\ pass # None /\ AnyProfile(pass.profile)
         /\ RegisterFinalizer =>
              /\ profile' # None /\ AnyProfile(profile')
              /\ profile'.plugins = pass.profile.plugins
              /\ profile'.extras = pass.profile.extras
              /\ profile' = profile \/ profile'.version = profile.version + 1
         /\ RemoveFinalizer => profile' = None
         /\ pass' = None
<1>1. /\ profile # None /\ AnyProfile(profile)
      /\ pass # None /\ AnyProfile(pass.profile)
      /\ RegisterFinalizer => pass.step = "extras"
      /\ RemoveFinalizer => pass.step = "revoke" /\ pass.profile.deleting
      /\ pass' = None
  BY DEF RegisterFinalizer, RemoveFinalizer, FinalizerNext, Accepts, At, Proceed,
         Typed, CopiesTyped, PassTyped, PassOK
<1>2. CASE RegisterFinalizer
  <2> DEFINE new == [pass.profile EXCEPT !.finalizer = TRUE]
  <2>1. new \in Profile /\ new.finalizer /\ new.plugins = pass.profile.plugins
        /\ new.extras = pass.profile.extras
    BY <1>1 DEF AnyProfile, Profile
  <2>2. profile' = Stored(new)
    BY <1>2 DEF RegisterFinalizer
  <2> HIDE DEF new
  <2>3. /\ profile' # None /\ AnyProfile(profile')
        /\ profile'.plugins = new.plugins /\ profile'.extras = new.extras
        /\ profile' = profile \/ profile'.version = profile.version + 1
    BY <1>1, <2>1, <2>2, StoredTyped
  <2> QED BY <1>1, <1>2, <2>1, <2>3
<1>3. CASE RemoveFinalizer
  <2> DEFINE new == [pass.profile EXCEPT !.finalizer = FALSE]
  <2>1. new \in Profile /\ ~new.finalizer /\ new.deleting
    BY <1>1, <1>3 DEF AnyProfile, Profile
  <2>2. profile' = Stored(new)
    BY <1>3 DEF RemoveFinalizer
  <2> HIDE DEF new
  <2>3. profile' = None
    BY <1>1, <2>1, <2>2, StoredTyped
  <2> QED BY <1>1, <1>3, <2>3
<1> QED BY <1>2, <1>3

LEMMA StepTyped ==
  ASSUME Typed, Step
  PROVE  Typed'
<1> USE DEF Typed
<1>1. CASE PatchDefault
  <2>1. AnyProfile(profile') /\ pass' \in {None, Continue(profile')}
    BY <1>1, PatchStep
  <2>2. CopiesTyped'
    BY <1>1, <2>1 DEF PatchDefault, CopiesTyped
  <2>3. PassOK(Continue(profile'))
    <3>1. Readable(profile'.plugins) \in Seq(Known)
      BY <2>1, ReadableKnown DEF AnyProfile, Profile
    <3> HIDE DEF AnyProfile, Readable
    <3> QED BY <2>1, <3>1 DEF Continue, PassOK, Steps
  <2>4. CountersTyped'
    BY <1>1, Proceeds DEF PatchDefault
  <2> QED BY <1>1, <2>1, <2>2, <2>3, <2>4 DEF PatchDefault, PassTyped, EffectsTyped
<1>2. CASE ApplyPlugin \/ RevokePlugin
  <2>1. /\ pass # None /\ PassOK(pass) /\ pass.todo # << >>
        /\ pass.step \in {"apply", "revoke"}
        /\ Proceed([pass EXCEPT !.todo = Tail(@)])
    BY <1>2 DEF ApplyPlugin, RevokePlugin, At, PassTyped
  <2>2. PassOK([pass EXCEPT !.todo = Tail(@)]) /\ Head(pass.todo) \in Known
    BY <2>1, ListTaken
  <2>3. CountersTyped' /\ pass' \in {None, [pass EXCEPT !.todo = Tail(@)]}
    BY <1>2, <2>1, Proceeds DEF ApplyPlugin, RevokePlugin
  <2>4. granted' \subseteq Known
    BY <1>2, <2>2 DEF ApplyPlugin, RevokePlugin, EffectsTyped
  <2> QED BY <1>2, <2>2, <2>3, <2>4
          DEF ApplyPlugin, RevokePlugin, PassTyped, CopiesTyped, EffectsTyped
<1>3. CASE Deserialize
  <2> DEFINE extras == pass.profile.extras
  <2>1. pass # None /\ PassOK(pass) /\ extras \in ExtraLists \cup {<< >>}
    BY <1>3 DEF Deserialize, At, PassTyped, PassOK, AnyProfile, Profile
  <2>2. ~Fails(extras) => DeserializeExtraResources(extras) \in Seq(Manifests)
    BY <2>1, DeserializedManifests
  <2>3. ~Fails(extras) => PassOK(Move("extras", DeserializeExtraResources(extras)))
    BY <2>1, <2>2, PassMoved DEF Move
  <2>4. PassTyped'
    BY <1>3, <2>3 DEF Deserialize, PassTyped
  <2>5. CopiesTyped'
    BY <1>3 DEF Deserialize, CopiesTyped
  <2> QED BY <1>3, <2>4, <2>5 DEF Deserialize, EffectsTyped, CountersTyped
<1>4. CASE ReconcileExtraResource
  <2> DEFINE resource == SetNamespace(Head(pass.todo))
             place == <<resource.namespace, resource.name>>
  <2>1. /\ pass # None /\ PassOK(pass) /\ pass.todo # << >> /\ pass.step = "extras"
    BY <1>4 DEF ReconcileExtraResource, At, PassTyped
  <2>2. PassOK([pass EXCEPT !.todo = Tail(@)]) /\ Head(pass.todo) \in Manifests
    BY <2>1, ListTaken
  <2>3. resource.value \in Values
    BY <2>2, ManifestFields DEF SetNamespace
  <2>4. \/ pass' = None /\ UNCHANGED <<objects, faults>>
        \/ /\ objects' = [objects EXCEPT ![place] = Patch(@, resource)]
           /\ Proceed([pass EXCEPT !.todo = Tail(@)])
    BY <1>4 DEF ReconcileExtraResource
  <2> HIDE DEF resource, place
  <2>5. \A o \in Contents : Patch(o, resource) \in Contents
    BY <2>3 DEF Patch, Contents
  <2>6. objects' \in [Places -> Contents]
    BY <2>4, <2>5 DEF EffectsTyped
  <2>7. CountersTyped' /\ pass' \in {None, [pass EXCEPT !.todo = Tail(@)]}
    <3>1. UNCHANGED <<workloadIdentity, edits>>
      BY <1>4 DEF ReconcileExtraResource
    <3>2. CASE pass' = None /\ UNCHANGED <<objects, faults>>
      BY <3>1, <3>2 DEF CountersTyped
    <3>3. CASE Proceed([pass EXCEPT !.todo = Tail(@)])
      BY <3>1, <3>3, Proceeds
    <3> QED BY <2>4, <3>2, <3>3
  <2> QED BY <1>4, <2>2, <2>6, <2>7
          DEF ReconcileExtraResource, PassTyped, CopiesTyped, EffectsTyped
<1>5. CASE RegisterFinalizer \/ RemoveFinalizer
  <2>1. pass' = None /\ (profile' # None => AnyProfile(profile'))
    BY <1>5, FinalizerStep
  <2>2. CountersTyped'
    BY <1>5, Proceeds DEF RegisterFinalizer, RemoveFinalizer
  <2> QED BY <1>5, <2>1, <2>2
          DEF RegisterFinalizer, RemoveFinalizer, PassTyped, CopiesTyped, EffectsTyped
<1>6. CASE StartRevoke
  <2>1. /\ pass # None /\ PassOK(pass) /\ pass.profile.deleting
        /\ pass.profile.plugins \in Seq(AnyPlugin)
    BY <1>6 DEF StartRevoke, FinalizerNext, At, PassTyped, PassOK, AnyProfile, Profile
  <2>2. Readable(pass.profile.plugins) \in Seq(Known)
    BY <2>1, ReadableKnown
  <2>3. PassOK(pass')
    BY <1>6, <2>1, <2>2, PassMoved DEF StartRevoke, Move
  <2> QED BY <1>6, <2>3
          DEF StartRevoke, PassTyped, CopiesTyped, EffectsTyped, CountersTyped
<1>7. CASE End
  BY <1>7 DEF End, PassTyped, CopiesTyped, EffectsTyped, CountersTyped
<1> QED BY <1>1, <1>2, <1>3, <1>4, <1>5, <1>6, <1>7 DEF Step

LEMMA NextTyped == Typed /\ [Next]_vars => Typed'
<1> SUFFICES ASSUME Typed, [Next]_vars
             PROVE  Typed'
  OBVIOUS
<1> USE DEF Typed
<1>1. CASE Sync
  BY <1>1 DEF Sync, CopiesTyped, PassTyped, EffectsTyped, CountersTyped
<1>2. CASE Begin
  <2>1. AnyProfile(seen)
    BY <1>2 DEF Begin, CopiesTyped
  <2>2. PassTyped'
    <3> HIDE DEF AnyProfile
    <3> QED BY <1>2, <2>1 DEF Begin, PassTyped, PassOK, Steps
  <2> QED BY <1>2, <2>2 DEF Begin, CopiesTyped, EffectsTyped, CountersTyped
<1>3. CASE LoseRequest \/ \E identity \in Defaults : Restart(identity)
  BY <1>3, ExtensionsAssumption
  DEF LoseRequest, Restart, Fault, CopiesTyped, PassTyped, EffectsTyped, CountersTyped
<1>4. CASE UNCHANGED vars
  BY <1>4 DEF vars, CopiesTyped, PassTyped, EffectsTyped, CountersTyped
<1> QED BY <1>1, <1>2, <1>3, <1>4, UserActionTyped, StepTyped DEF Next

LEMMA TypeInvariant == Spec => []Typed
BY InitTyped, NextTyped, PTL DEF Spec

(* The profiles, the copies of them, the plugins in effect and the stored   *)
(* extra resources are what they should be; a profile that is being deleted *)
(* is only there with the finalizer, and only a deleted one is revoked.     *)
THEOREM TypeCorrect == Spec => []TypeOK
<1>1. Typed => TypeOK
  <2> SUFFICES ASSUME Typed PROVE TypeOK
    OBVIOUS
  <2>1. \A p \in {profile, seen} \ {None} : AnyProfile(p)
    BY DEF Typed, CopiesTyped
  <2>2. objects \in [Places -> [value : Values \cup {None},
                                owner : {Namespace, None},
                                others : {"users", None}]]
    BY DEF Typed, EffectsTyped, Contents
  <2> QED BY <2>1, <2>2
          DEF Typed, PassTyped, PassOK, Steps, EffectsTyped, CountersTyped, Known,
              TypeOK
<1> QED BY <1>1, TypeInvariant, PTL

(***************************************************************************)
(* Extra resources.                                                        *)
(***************************************************************************)
(* An edit of a user counts.                                                *)
LEMMA EditsCount ==
  ASSUME Typed, UserAction
  PROVE  edits' # edits
<1>1. Edit
  BY DEF UserAction, AddPlugin, WithdrawPlugin, EditExtras, DeleteProfile,
         EditProfile, EditObject, DeleteObject
<1>2. edits' = edits + 1 /\ edits \in Nat
  BY <1>1 DEF Edit, Typed, CountersTyped
<1> QED BY <1>2

(* Whatever the templates say, extra resources change nothing outside the   *)
(* namespace of the profile, and nothing in it that others have set.        *)
THEOREM ExtrasStayAtHome == Spec => ExtrasAtHome
<1> DEFINE Home == edits' = edits => \A place \in Places :
             /\ objects'[place].others = objects[place].others
             /\ place[1] # Namespace => objects'[place] = objects[place]
<1>1. Typed /\ [Next]_vars => Home
  <2> SUFFICES ASSUME Typed, [Next]_vars, edits' = edits
               PROVE  Home
    OBVIOUS
  <2>1. CASE ReconcileExtraResource
    <3> DEFINE resource == SetNamespace(Head(pass.todo))
               target == <<resource.namespace, resource.name>>
    <3>1. resource.namespace = Namespace
      <4>1. Head(pass.todo) \in Manifests
        BY <2>1, ListTaken DEF ReconcileExtraResource, At, Typed, PassTyped
      <4>2. SetNamespace(Head(pass.todo)).namespace = Namespace
        BY <4>1, ManifestFields DEF SetNamespace
      <4> QED BY <4>2
    <3>2. \/ UNCHANGED objects
          \/ objects' = [objects EXCEPT ![target] = Patch(@, resource)]
      BY <2>1 DEF ReconcileExtraResource
    <3>3. objects \in [Places -> Contents]
      BY DEF Typed, EffectsTyped
    <3>4. target[1] = Namespace
      BY <3>1
    <3> HIDE DEF resource, target
    <3>5. \A o \in Contents : Patch(o, resource).others = o.others
      BY DEF Contents, Patch
    <3> HIDE DEF Contents
    <3> QED BY <3>2, <3>3, <3>4, <3>5
  <2>2. CASE UNCHANGED objects
    BY <2>2
  <2>3. ~UserAction
    BY EditsCount
  <2> QED BY <2>1, <2>2, <2>3
          DEF Next, Sync, Begin, Step, PatchDefault, ApplyPlugin, Deserialize,
              RegisterFinalizer, StartRevoke, RevokePlugin, RemoveFinalizer, End,
              LoseRequest, Restart, vars
<1>2. Home <=> (edits' = edits => \A place \in Places :
                  /\ objects'[place].others = objects[place].others
                  /\ place[1] # Namespace => objects'[place] = objects[place])
  OBVIOUS
<1> HIDE DEF Home
<1>3. Typed /\ [Next]_vars => [Home]_vars
  BY <1>1
<1>4. Spec => [][Home]_vars
  BY <1>3, TypeInvariant, PTL DEF Spec
<1> QED BY <1>4 DEF ExtrasAtHome, Home

(***************************************************************************)
(* The plugins over time.                                                  *)
(***************************************************************************)
LEMMA IdentitiesBound ==
  ASSUME NEW plugins \in Seq(AnyPlugin)
  PROVE  LET bound == Max({1, Cardinality(Identities(plugins))})
         IN 1 <= bound /\ Cardinality(Identities(plugins)) <= bound
<1>1. Cardinality(Identities(plugins)) \in Nat
  <2>1. Identities(plugins) \subseteq 1 .. Len(plugins)
    BY LenProperties DEF Identities
  <2>2. IsFiniteSet(1 .. Len(plugins))
    BY LenProperties, FS_Interval
  <2>3. IsFiniteSet(Identities(plugins))
    BY <2>1, <2>2, FS_Subset
  <2> QED BY <2>3, FS_CardinalityType
<1>2. ASSUME NEW a \in Nat
      PROVE  a <= Max({1, a}) /\ 1 <= Max({1, a})
  <2>1. \E x \in {1, a} : \A y \in {1, a} : x >= y
    <3>1. CASE a >= 1
      BY <3>1
    <3>2. CASE 1 >= a
      BY <3>2
    <3> QED BY <3>1, <3>2
  <2>2. Max({1, a}) \in {1, a} /\ \A y \in {1, a} : Max({1, a}) >= y
    BY <2>1 DEF Max
  <2> QED BY <2>2
<1> QED BY <1>1, <1>2

(* The default comes after the plugins there are, and not beside another    *)
(* identity.                                                                *)
LEMMA PatchExtends ==
  ASSUME NEW plugins \in Seq(AnyPlugin), NEW identity \in Defaults
  PROVE  LET patched == PatchDefaultPluginSpec(plugins, identity)
         IN /\ IsPrefix(plugins, patched)
            /\ Range(plugins) \subseteq Range(patched)
            /\ Cardinality(Identities(patched))
                 <= Max({1, Cardinality(Identities(plugins))})
<1> DEFINE patched == PatchDefaultPluginSpec(plugins, identity)
           default == [kind |-> WORKLOADIDENTITY, spec |-> identity]
<1>1. Len(plugins) \in Nat /\ DOMAIN plugins = 1 .. Len(plugins)
  OBVIOUS
<1>2. /\ Cardinality(Identities(plugins)) <= Max({1, Cardinality(Identities(plugins))})
      /\ 1 <= Max({1, Cardinality(Identities(plugins))})
  BY IdentitiesBound
<1>4. CASE patched = plugins
  <2>1. IsPrefix(plugins, patched)
    BY <1>1, <1>4 DEF IsPrefix
  <2> QED BY <1>2, <1>4, <2>1
<1>5. CASE patched # plugins
  <2>1. /\ patched = Append(plugins, default) /\ identity # None
        /\ \A p \in Range(plugins) : p.kind # WORKLOADIDENTITY
    BY <1>5 DEF PatchDefaultPluginSpec
  <2>2. default \in AnyPlugin /\ default.kind = WORKLOADIDENTITY
    BY <2>1 DEF AnyPlugin
  <2> HIDE DEF default
  <2>3. /\ patched \in Seq(AnyPlugin) /\ Len(patched) = Len(plugins) + 1
        /\ \A i \in 1 .. Len(plugins) : patched[i] = plugins[i]
        /\ patched[Len(plugins) + 1] = default
        /\ DOMAIN patched = 1 .. Len(plugins) + 1
    BY <2>1, <2>2, AppendProperties, LenProperties
  <2> HIDE DEF patched
  <2>4. IsPrefix(plugins, patched)
    <3>1. Len(plugins) <= Len(patched)
      BY <1>1, <2>3
    <3>2. /\ SubSeq(plugins, 1, Len(plugins)) \in Seq(AnyPlugin)
          /\ SubSeq(patched, 1, Len(plugins)) \in Seq(AnyPlugin)
          /\ Len(SubSeq(plugins, 1, Len(plugins))) = Len(plugins)
          /\ Len(SubSeq(patched, 1, Len(plugins))) = Len(plugins)
          /\ \A i \in 1 .. Len(plugins) :
               /\ SubSeq(plugins, 1, Len(plugins))[i] = plugins[i]
               /\ SubSeq(patched, 1, Len(plugins))[i] = patched[i]
      BY <1>1, <2>3
    <3>3. SubSeq(plugins, 1, Len(plugins)) = SubSeq(patched, 1, Len(plugins))
      BY <2>3, <3>2, SeqEqual
    <3> QED BY <3>1, <3>3 DEF IsPrefix
  <2>5. Range(plugins) \subseteq Range(patched)
    <3>1. \A i \in 1 .. Len(plugins) : i \in 1 .. Len(plugins) + 1
      BY <1>1
    <3> QED BY <1>1, <2>3, <3>1 DEF Range
  <2>6. Identities(patched) = {Len(plugins) + 1}
    <3>1. \A i \in 1 .. Len(plugins) + 1 : i \in 1 .. Len(plugins) \/ i = Len(plugins) + 1
      BY <1>1
    <3>2. \A i \in 1 .. Len(plugins) : patched[i].kind # WORKLOADIDENTITY
      BY <1>1, <2>1, <2>3 DEF Range
    <3>3. Len(plugins) + 1 \in 1 .. Len(plugins) + 1
      BY <1>1
    <3> QED BY <2>2, <2>3, <3>1, <3>2, <3>3 DEF Identities
  <2>7. Cardinality(Identities(patched)) = 1
    BY <2>6, FS_Singleton
  <2> QED BY <1>2, <2>4, <2>5, <2>7 DEF patched
<1> QED BY <1>4, <1>5

(* A copy of the profile that is not current is of an earlier version, and  *)
(* the API server refuses it.                                               *)
Behind(c, p) == c.version <= p.version /\ (c.version = p.version => c = p)

Versions ==
  profile # None =>
    /\ seen # None => Behind(seen, profile)
    /\ pass # None => Behind(pass.profile, profile)

(* What is in effect was in the profile, and still is unless a user took it *)
(* out; the pass that revokes has all of it before it.                      *)
Accounted ==
  /\ profile # None => granted \subseteq withdrawn \cup Range(profile.plugins)
  /\ pass # None /\ pass.step # "patch" =>
       /\ profile # None => Range(pass.profile.plugins)
                              \subseteq withdrawn \cup Range(profile.plugins)
       /\ granted \subseteq withdrawn \cup Range(pass.profile.plugins)
       /\ pass.step = "apply" =>
            Range(pass.todo) \subseteq Range(pass.profile.plugins)
       /\ pass.step = "revoke" /\ GetPluginSpec(pass.profile.plugins) # Unreadable =>
            granted \subseteq withdrawn \cup Range(pass.todo)

HInv == Typed /\ Versions /\ Accounted

LEMMA AcceptedIsCurrent ==
  ASSUME HInv, pass # None, Accepts(pass.profile)
  PROVE  pass.profile = profile
BY DEF HInv, Versions, Behind, Accepts

LEMMA BehindUpdates ==
  ASSUME NEW c, NEW p, NEW q, AnyProfile(c), AnyProfile(p), AnyProfile(q),
         Behind(c, p), q = p \/ q.version = p.version + 1
  PROVE  Behind(c, q)
<1>1. c.version \in Nat /\ p.version \in Nat /\ q.version \in Nat
  BY DEF AnyProfile, Profile
<1> QED BY <1>1 DEF Behind

(* What an edit of a user does to the profile and to the pass.              *)
LEMMA UserActionEffect ==
  ASSUME Typed, UserAction
  PROVE  /\ UNCHANGED <<seen, granted>>
         /\ \/ UNCHANGED <<profile, pass, withdrawn>>
            \/ /\ profile # None /\ withdrawn \subseteq withdrawn'
               /\ profile' # None =>
                    /\ profile' = profile \/ profile'.version = profile.version + 1
                    /\ Range(profile.plugins)
                         \subseteq withdrawn' \cup Range(profile'.plugins)
               /\ pass' = IF pass = None THEN None ELSE [pass EXCEPT !.edited = TRUE]
<1>1. UNCHANGED <<seen, granted>>
  BY DEF UserAction, AddPlugin, WithdrawPlugin, EditExtras, DeleteProfile,
         EditProfile, EditObject, DeleteObject, Edit
<1>2. ASSUME profile # None
      PROVE  AnyProfile(profile) /\ profile \in Profile
               /\ profile.plugins \in Seq(AnyPlugin)
  BY <1>2 DEF Typed, CopiesTyped, AnyProfile, Profile
<1>3. ASSUME NEW new \in Profile, profile # None, EditProfile(new),
             withdrawn \subseteq withdrawn',
             Range(profile.plugins) \subseteq withdrawn' \cup Range(new.plugins)
      PROVE  /\ profile' # None =>
                  /\ profile' = profile \/ profile'.version = profile.version + 1
                  /\ Range(profile.plugins)
                       \subseteq withdrawn' \cup Range(profile'.plugins)
             /\ pass' = IF pass = None THEN None ELSE [pass EXCEPT !.edited = TRUE]
  <2>1. profile' = Stored(new)
          /\ pass' = IF pass = None THEN None ELSE [pass EXCEPT !.edited = TRUE]
    BY <1>3 DEF EditProfile
  <2>2. profile' # None =>
          /\ profile'.plugins = new.plugins
          /\ profile' = profile \/ profile'.version = profile.version + 1
    BY <1>2, <1>3, <2>1, StoredTyped
  <2> QED BY <1>3, <2>1, <2>2
<1>4. CASE \E p \in Plugins : AddPlugin(p)
  <2>1. PICK p \in Plugins : AddPlugin(p)
    BY <1>4
  <2> DEFINE new == [profile EXCEPT !.plugins = Append(@, p)]
  <2>2. profile # None /\ EditProfile(new) /\ UNCHANGED withdrawn
    BY <2>1 DEF AddPlugin
  <2>3. /\ Append(profile.plugins, p) \in Seq(AnyPlugin)
        /\ Range(profile.plugins) \subseteq Range(Append(profile.plugins, p))
    <3>1. p \in AnyPlugin
      BY DEF AnyPlugin
    <3>2. Append(profile.plugins, p) = profile.plugins \o << p >>
      BY <1>2, <2>2, <3>1, AppendIsConcat
    <3>3. << p >> \in Seq(AnyPlugin)
      BY <3>1
    <3>4. Range(profile.plugins \o << p >>)
            = Range(profile.plugins) \cup Range(<< p >>)
      BY <1>2, <2>2, <3>3, RangeConcatenation
    <3> QED BY <1>2, <2>2, <3>1, <3>2, <3>4, AppendProperties
  <2>4. new \in Profile /\ new.plugins = Append(profile.plugins, p)
    BY <1>2, <2>2, <2>3 DEF Profile
  <2> HIDE DEF new
  <2> QED BY <1>1, <1>3, <2>2, <2>3, <2>4
<1>5. CASE profile # None /\ \E i \in DOMAIN profile.plugins : WithdrawPlugin(i)
  <2>1. PICK i \in DOMAIN profile.plugins : WithdrawPlugin(i)
    BY <1>5
  <2> DEFINE new == [profile EXCEPT !.plugins = RemoveAt(@, i)]
  <2>2. EditProfile(new) /\ withdrawn' = withdrawn \cup {profile.plugins[i]}
    BY <2>1 DEF WithdrawPlugin
  <2>3. /\ RemoveAt(profile.plugins, i) \in Seq(AnyPlugin)
        /\ Range(profile.plugins)
             \subseteq Range(RemoveAt(profile.plugins, i)) \cup {profile.plugins[i]}
    BY <1>2, <1>5, <2>1, Removed
  <2>4. new \in Profile /\ new.plugins = RemoveAt(profile.plugins, i)
    BY <1>2, <1>5, <2>3 DEF Profile
  <2> HIDE DEF new
  <2> QED BY <1>1, <1>3, <1>5, <2>2, <2>3, <2>4
<1>6. CASE \E extras \in ExtraLists : EditExtras(extras)
  <2>1. PICK extras \in ExtraLists : EditExtras(extras)
    BY <1>6
  <2> DEFINE new == [profile EXCEPT !.extras = extras]
  <2>2. profile # None /\ EditProfile(new) /\ UNCHANGED withdrawn
    BY <2>1 DEF EditExtras
  <2>3. new \in Profile /\ new.plugins = profile.plugins
    BY <1>2, <2>2 DEF Profile
  <2> HIDE DEF new
  <2> QED BY <1>1, <1>3, <2>2, <2>3
<1>7. CASE DeleteProfile
  <2> DEFINE new == [profile EXCEPT !.deleting = TRUE]
  <2>2. profile # None /\ EditProfile(new) /\ UNCHANGED withdrawn
    BY <1>7 DEF DeleteProfile
  <2>3. new \in Profile /\ new.plugins = profile.plugins
    BY <1>2, <2>2 DEF Profile
  <2> HIDE DEF new
  <2> QED BY <1>1, <1>3, <2>2, <2>3
<1>8. CASE \E place \in Places : EditObject(place) \/ DeleteObject(place)
  BY <1>1, <1>8 DEF EditObject, DeleteObject
<1> QED BY <1>4, <1>5, <1>6, <1>7, <1>8 DEF UserAction

LEMMA UserActionHistory ==
  ASSUME HInv, UserAction
  PROVE  HInv'
<1>1. Typed'
  BY UserActionTyped DEF HInv
<1>2. UNCHANGED <<seen, granted>>
  BY UserActionEffect DEF HInv
<1>3. CASE UNCHANGED <<profile, pass, withdrawn>>
  BY <1>1, <1>2, <1>3 DEF HInv, Versions, Accounted
<1>4. CASE /\ profile # None /\ withdrawn \subseteq withdrawn'
           /\ profile' # None =>
                /\ profile' = profile \/ profile'.version = profile.version + 1
                /\ Range(profile.plugins)
                     \subseteq withdrawn' \cup Range(profile'.plugins)
           /\ pass' = IF pass = None THEN None ELSE [pass EXCEPT !.edited = TRUE]
  <2>1. pass' # None =>
          /\ pass # None
          /\ pass'.step = pass.step /\ pass'.todo = pass.todo
          /\ pass'.profile = pass.profile
    BY <1>4 DEF HInv, Typed, PassTyped, PassOK
  <2>2. Versions'
    <3> SUFFICES ASSUME profile' # None
                 PROVE  /\ seen' # None => Behind(seen', profile')
                        /\ pass' # None => Behind(pass'.profile, profile')
      BY DEF Versions
    <3>1. AnyProfile(profile) /\ AnyProfile(profile')
      BY <1>1, <1>4 DEF HInv, Typed, CopiesTyped
    <3>2. seen' # None => AnyProfile(seen) /\ Behind(seen, profile)
      BY <1>2, <1>4 DEF HInv, Typed, CopiesTyped, Versions
    <3>3. pass' # None => AnyProfile(pass.profile) /\ Behind(pass.profile, profile)
      BY <1>4, <2>1 DEF HInv, Typed, PassTyped, PassOK, Versions
    <3> QED BY <1>2, <1>4, <2>1, <3>1, <3>2, <3>3, BehindUpdates
  <2>3. Accounted'
    BY <1>2, <1>4, <2>1 DEF HInv, Accounted
  <2> QED BY <1>1, <2>2, <2>3 DEF HInv
<1> QED BY <1>3, <1>4, UserActionEffect DEF HInv

(* Steps that leave the profile alone and move, begin or end the pass.      *)
LEMMA QuietStep ==
  ASSUME HInv, [Next]_vars, UNCHANGED <<profile, withdrawn>>,
         seen' \in {seen, profile},
         pass' # None =>
           \/ pass # None /\ pass'.profile = pass.profile
           \/ pass'.profile = seen /\ seen # None
  PROVE  Typed' /\ Versions'
<1>1. Typed'
  BY NextTyped DEF HInv
<1>2. profile # None => Behind(profile, profile)
  BY DEF HInv, Typed, CopiesTyped, AnyProfile, Profile, Behind
<1> QED BY <1>1, <1>2 DEF HInv, Versions

LEMMA StepHistory ==
  ASSUME HInv, Step
  PROVE  HInv'
<1>1. Typed' /\ [Next]_vars
  BY StepTyped DEF HInv, Next
<1>2. pass # None => PassOK(pass)
  BY DEF HInv, Typed, PassTyped
<1>3. CASE PatchDefault
  <2>1. /\ profile # None /\ pass # None /\ pass.profile = profile
        /\ UNCHANGED <<seen, granted, withdrawn>>
    <3>1. /\ pass # None /\ Accepts(pass.profile)
          /\ UNCHANGED <<seen, granted, withdrawn>>
      BY <1>3 DEF PatchDefault, At
    <3> QED BY <3>1, AcceptedIsCurrent DEF Accepts
  <2>2. /\ profile' # None /\ AnyProfile(profile')
        /\ profile'.plugins = PatchDefaultPluginSpec(profile.plugins, workloadIdentity)
        /\ profile' = profile \/ profile'.version = profile.version + 1
        /\ pass' \in {None, Continue(profile')}
    BY <1>3, <2>1, PatchStep DEF HInv
  <2>3. AnyProfile(profile) /\ workloadIdentity \in Defaults
    BY <2>1 DEF HInv, Typed, CopiesTyped, CountersTyped
  <2>4. Range(profile.plugins) \subseteq Range(profile'.plugins)
    BY <2>2, <2>3, PatchExtends DEF AnyProfile, Profile
  <2>5. pass' # None =>
          /\ pass'.profile = profile' /\ pass'.step = "apply"
          /\ pass'.todo = Readable(profile'.plugins)
    BY <2>2 DEF Continue
  <2>6. Versions'
    <3>1. seen # None => Behind(seen, profile')
      <4>1. seen # None => AnyProfile(seen) /\ Behind(seen, profile)
        BY <2>1 DEF HInv, Typed, CopiesTyped, Versions
      <4> QED BY <2>2, <2>3, <4>1, BehindUpdates
    <3>2. Behind(profile', profile')
      BY <2>2 DEF AnyProfile, Profile, Behind
    <3> QED BY <2>1, <2>5, <3>1, <3>2 DEF Versions
  <2>7. Range(Readable(profile'.plugins)) \subseteq Range(profile'.plugins)
    BY <2>2, ReadableKnown DEF AnyProfile, Profile
  <2>8. granted \subseteq withdrawn \cup Range(profile'.plugins)
    BY <2>1, <2>4 DEF HInv, Accounted
  <2> QED BY <1>1, <2>1, <2>5, <2>6, <2>7, <2>8 DEF HInv, Accounted
<1>4. CASE ApplyPlugin
  <2>1. /\ pass # None /\ pass.step = "apply" /\ pass.todo # << >>
        /\ granted' = granted \cup {Head(pass.todo)}
        /\ UNCHANGED <<profile, seen, withdrawn>>
    BY <1>4 DEF ApplyPlugin, At
  <2>2. pass' # None =>
          /\ pass'.profile = pass.profile /\ pass'.step = "apply"
          /\ pass'.todo = Tail(pass.todo)
    BY <1>2, <1>4, <2>1 DEF ApplyPlugin, Proceed, PassOK
  <2>3. Typed' /\ Versions'
    BY <1>1, <2>1, <2>2, QuietStep
  <2>4. /\ Head(pass.todo) \in Range(pass.todo)
        /\ Range(Tail(pass.todo)) \subseteq Range(pass.todo)
    BY <1>2, <2>1, ListRange DEF PassOK
  <2> QED BY <2>1, <2>2, <2>3, <2>4 DEF HInv, Accounted
<1>5. CASE RevokePlugin
  <2>1. /\ pass # None /\ pass.step = "revoke" /\ pass.todo # << >>
        /\ granted' = granted \ {Head(pass.todo)}
        /\ UNCHANGED <<profile, seen, withdrawn>>
    BY <1>5 DEF RevokePlugin, At
  <2>2. pass' # None =>
          /\ pass'.profile = pass.profile /\ pass'.step = "revoke"
          /\ pass'.todo = Tail(pass.todo)
    BY <1>2, <1>5, <2>1 DEF RevokePlugin, Proceed, PassOK
  <2>3. Typed' /\ Versions'
    BY <1>1, <2>1, <2>2, QuietStep
  <2>4. Range(pass.todo) \subseteq {Head(pass.todo)} \cup Range(Tail(pass.todo))
    BY <1>2, <2>1, ListRange DEF PassOK
  <2> QED BY <2>1, <2>2, <2>3, <2>4 DEF HInv, Accounted
<1>6. CASE Deserialize \/ ReconcileExtraResource
  <2>1. /\ pass # None /\ pass.step \in {"apply", "extras"}
        /\ UNCHANGED <<profile, withdrawn, granted>> /\ seen' \in {seen, profile}
    BY <1>6 DEF Deserialize, ReconcileExtraResource, At
  <2>2. pass' # None => pass'.profile = pass.profile /\ pass'.step = "extras"
    BY <1>2, <1>6, <2>1
    DEF Deserialize, ReconcileExtraResource, At, Move, Proceed, PassOK
  <2>3. Typed' /\ Versions'
    BY <1>1, <2>1, <2>2, QuietStep
  <2> QED BY <2>1, <2>2, <2>3 DEF HInv, Accounted
<1>7. CASE RegisterFinalizer \/ RemoveFinalizer
  <2>1. /\ profile # None /\ pass # None /\ pass.profile = profile /\ pass' = None
        /\ UNCHANGED <<seen, granted, withdrawn>>
    <3>1. pass # None /\ Accepts(pass.profile) /\ UNCHANGED <<seen, granted, withdrawn>>
      BY <1>7 DEF RegisterFinalizer, RemoveFinalizer, FinalizerNext, At
    <3> QED BY <1>7, <3>1, AcceptedIsCurrent, FinalizerStep DEF HInv
  <2>2. profile' # None =>
          /\ AnyProfile(profile') /\ profile'.plugins = profile.plugins
          /\ profile' = profile \/ profile'.version = profile.version + 1
    BY <1>7, <2>1, FinalizerStep DEF HInv
  <2>3. Versions'
    <3>1. profile' # None /\ seen # None => Behind(seen, profile')
      <4>1. seen # None => AnyProfile(seen) /\ Behind(seen, profile)
        BY <2>1 DEF HInv, Typed, CopiesTyped, Versions
      <4>2. AnyProfile(profile)
        BY <2>1 DEF HInv, Typed, CopiesTyped
      <4> QED BY <2>2, <4>1, <4>2, BehindUpdates
    <3> QED BY <2>1, <3>1 DEF Versions
  <2> QED BY <1>1, <2>1, <2>2, <2>3 DEF HInv, Accounted
<1>8. CASE StartRevoke
  <2>1. /\ pass # None /\ pass.step = "extras"
        /\ UNCHANGED <<profile, seen, withdrawn, granted>>
        /\ pass'.profile = pass.profile /\ pass'.step = "revoke"
        /\ pass'.todo = Readable(pass.profile.plugins)
    BY <1>2, <1>8 DEF StartRevoke, FinalizerNext, At, Move, PassOK
  <2>2. Typed' /\ Versions'
    BY <1>1, <2>1, QuietStep
  <2>3. GetPluginSpec(pass.profile.plugins) # Unreadable =>
          Range(Readable(pass.profile.plugins)) = Range(pass.profile.plugins) \cap Known
    BY <1>2, <2>1, ReadableKnown DEF PassOK, AnyProfile, Profile
  <2>4. granted \subseteq Known
    BY DEF HInv, Typed, EffectsTyped
  <2> QED BY <2>1, <2>2, <2>3, <2>4 DEF HInv, Accounted
<1>9. CASE End
  <2>1. pass' = None /\ UNCHANGED <<profile, seen, withdrawn, granted>>
    BY <1>9 DEF End
  <2>2. Typed' /\ Versions'
    BY <1>1, <2>1, QuietStep
  <2> QED BY <2>1, <2>2 DEF HInv, Accounted
<1> QED BY <1>3, <1>4, <1>5, <1>6, <1>7, <1>8, <1>9 DEF Step

LEMMA NextHistory == HInv /\ [Next]_vars => HInv'
<1> SUFFICES ASSUME HInv, [Next]_vars
             PROVE  HInv'
  OBVIOUS
<1>1. CASE Sync \/ UNCHANGED vars
  <2>1. UNCHANGED <<profile, pass, granted, withdrawn>> /\ seen' \in {seen, profile}
    BY <1>1 DEF Sync, vars
  <2>2. Typed' /\ Versions'
    BY <2>1, QuietStep
  <2> QED BY <2>1, <2>2 DEF HInv, Accounted
<1>2. CASE Begin
  <2>1. /\ seen # None /\ UNCHANGED <<profile, seen, granted, withdrawn>>
        /\ pass'.profile = seen /\ pass'.step = "patch"
    BY <1>2 DEF Begin
  <2>2. Typed' /\ Versions'
    BY <2>1, QuietStep
  <2> QED BY <2>1, <2>2 DEF HInv, Accounted
<1>3. CASE LoseRequest \/ \E identity \in Defaults : Restart(identity)
  <2>1. /\ UNCHANGED <<profile, granted, withdrawn>> /\ seen' \in {seen, profile}
        /\ pass' = None
    BY <1>3 DEF LoseRequest, Restart
  <2>2. Typed' /\ Versions'
    BY <2>1, QuietStep
  <2> QED BY <2>1, <2>2 DEF HInv, Accounted
<1> QED BY <1>1, <1>2, <1>3, UserActionHistory, StepHistory DEF Next

LEMMA HistoryInvariant == Spec => []HInv
<1>1. Init => HInv
  <2> SUFFICES ASSUME Init PROVE HInv
    OBVIOUS
  <2>1. Typed
    BY InitTyped
  <2>2. profile.version \in Nat
    BY DEF Init
  <2> QED BY <2>1, <2>2 DEF Init, HInv, Versions, Behind, Accounted
<1> QED BY <1>1, NextHistory, PTL DEF Spec

(* Passes, restarts and stale caches never undo a user's change of the      *)
(* plugins or of the extra resources, and add a default only where there is *)
(* no workload identity.                                                    *)
THEOREM PluginsStay == Spec => UserPluginsKept
<1> DEFINE Kept ==
             edits' = edits /\ profile # None /\ profile' # None =>
               /\ profile'.extras = profile.extras
               /\ IsPrefix(profile.plugins, profile'.plugins)
               /\ Cardinality(Identities(profile'.plugins))
                    <= Max({1, Cardinality(Identities(profile.plugins))})
<1>1. HInv /\ [Next]_vars => [Kept]_vars
  <2> SUFFICES ASSUME HInv, Next, edits' = edits,
                      profile # None, profile' # None
               PROVE  /\ profile'.extras = profile.extras
                      /\ IsPrefix(profile.plugins, profile'.plugins)
                      /\ Cardinality(Identities(profile'.plugins))
                           <= Max({1, Cardinality(Identities(profile.plugins))})
    OBVIOUS
  <2> USE DEF HInv
  <2>1. ~UserAction
    BY EditsCount
  <2>2. /\ AnyProfile(profile) /\ profile.plugins \in Seq(AnyPlugin)
        /\ workloadIdentity \in Defaults
    BY DEF Typed, CopiesTyped, CountersTyped, AnyProfile, Profile
  <2>3. CASE PatchDefault
    <3>1. pass.profile = profile
      BY <2>3, AcceptedIsCurrent DEF PatchDefault, At
    <3>2. /\ profile'.plugins
               = PatchDefaultPluginSpec(profile.plugins, workloadIdentity)
          /\ profile'.extras = profile.extras
      BY <2>3, <3>1, PatchStep
    <3> QED BY <2>2, <3>2, PatchExtends
  <2>4. CASE profile'.extras = profile.extras /\ profile'.plugins = profile.plugins
    <3>1. IsPrefix(profile.plugins, profile.plugins)
      BY <2>2 DEF IsPrefix
    <3>2. Cardinality(Identities(profile.plugins))
            <= Max({1, Cardinality(Identities(profile.plugins))})
      BY <2>2, IdentitiesBound
    <3> QED BY <2>4, <3>1, <3>2
  <2>5. CASE RegisterFinalizer \/ RemoveFinalizer
    <3>1. pass.profile = profile
      BY <2>5, AcceptedIsCurrent
      DEF RegisterFinalizer, RemoveFinalizer, FinalizerNext, At
    <3>2. profile'.extras = profile.extras /\ profile'.plugins = profile.plugins
      BY <2>5, <3>1, FinalizerStep
    <3> QED BY <2>4, <3>2
  <2>6. CASE UNCHANGED profile
    BY <2>4, <2>6
  <2> QED BY <2>1, <2>3, <2>5, <2>6
          DEF Next, Sync, Begin, Step, ApplyPlugin, Deserialize,
              ReconcileExtraResource, StartRevoke, RevokePlugin, End, LoseRequest,
              Restart
<1>2. Spec => [][Kept]_vars
  BY <1>1, HistoryInvariant, PTL DEF Spec
<1> QED BY <1>2 DEF UserPluginsKept, Kept

(* When the finalizer lets the profile go, no grant is left but of plugins  *)
(* that a user withdrew, also if answers were lost on the way or the process*)
(* has restarted with another default.                                      *)
THEOREM ReleaseLeavesNothing == Spec => ReleaseRevokes
<1> DEFINE Revoked ==
             /\ edits' = edits /\ profile # None /\ profile' = None
             /\ GetPluginSpec(profile.plugins) # Unreadable
             => granted' \subseteq withdrawn
<1>1. HInv /\ [Next]_vars => [Revoked]_vars
  <2> SUFFICES ASSUME HInv, Next, edits' = edits,
                      profile # None, profile' = None,
                      GetPluginSpec(profile.plugins) # Unreadable
               PROVE  granted' \subseteq withdrawn
    OBVIOUS
  <2> USE DEF HInv
  <2>1. ~UserAction
    BY EditsCount
  <2>2. ~PatchDefault /\ ~RegisterFinalizer
    BY PatchStep, FinalizerStep
  <2>3. RemoveFinalizer
    BY <2>1, <2>2
    DEF Next, Sync, Begin, Step, ApplyPlugin, Deserialize, ReconcileExtraResource,
        StartRevoke, RevokePlugin, End, LoseRequest, Restart
  <2>4. /\ pass # None /\ pass.step = "revoke" /\ pass.todo = << >>
        /\ Accepts(pass.profile) /\ UNCHANGED granted
    BY <2>3 DEF RemoveFinalizer, At
  <2>5. pass.profile = profile
    BY <2>4, AcceptedIsCurrent
  <2>6. Range(pass.todo) = {}
    BY <2>4 DEF Range
  <2> QED BY <2>4, <2>5, <2>6 DEF Accounted
<1>2. Spec => [][Revoked]_vars
  BY <1>1, HistoryInvariant, PTL DEF Spec
<1> QED BY <1>2 DEF ReleaseRevokes, Revoked

(***************************************************************************)
(* The profile that a pass goes on with.                                   *)
(***************************************************************************)
(* A pass records where it is and whether a user has intervened.            *)
PassShape == pass # None => {"step", "edited", "profile"} \subseteq DOMAIN pass

CurrentInv == PassShape /\ PassIsCurrent

(* Steps that leave the profile alone, and move, end or keep the pass.      *)
LEMMA PassMoves ==
  ASSUME CurrentInv, UNCHANGED profile,
         \/ pass' = None
         \/ pass' = pass
         \/ /\ pass # None /\ pass.step # "patch"
            /\ \/ \E step, todo : pass' = Move(step, todo)
               \/ \E todo : pass' = [pass EXCEPT !.todo = todo]
  PROVE  CurrentInv'
<1>1. CASE pass' = None \/ pass' = pass
  BY <1>1 DEF CurrentInv, PassShape, PassIsCurrent
<1>2. CASE /\ pass # None /\ pass.step # "patch"
           /\ \/ \E step, todo : pass' = Move(step, todo)
              \/ \E todo : pass' = [pass EXCEPT !.todo = todo]
  <2>1. /\ DOMAIN pass' = DOMAIN pass
        /\ pass'.edited = pass.edited /\ pass'.profile = pass.profile
    BY <1>2 DEF Move, CurrentInv, PassShape
  <2> QED BY <1>2, <2>1 DEF CurrentInv, PassShape, PassIsCurrent
<1> QED BY <1>1, <1>2

(* A user's edit is noted in the pass.                                      *)
LEMMA EditNoted ==
  ASSUME CurrentInv, pass' = IF pass = None THEN None ELSE [pass EXCEPT !.edited = TRUE]
  PROVE  CurrentInv'
<1>1. CASE pass = None
  BY <1>1 DEF CurrentInv, PassShape, PassIsCurrent
<1>2. CASE pass # None
  <2>1. DOMAIN pass' = DOMAIN pass /\ pass'.edited
    BY <1>2 DEF CurrentInv, PassShape
  <2> QED BY <1>2, <2>1 DEF CurrentInv, PassShape, PassIsCurrent
<1> QED BY <1>1, <1>2

LEMMA UserActionCurrent ==
  ASSUME CurrentInv, UserAction
  PROVE  CurrentInv'
<1>1. \/ pass' = IF pass = None THEN None ELSE [pass EXCEPT !.edited = TRUE]
      \/ UNCHANGED <<profile, pass>>
  BY DEF UserAction, AddPlugin, WithdrawPlugin, EditExtras, DeleteProfile,
         EditProfile, EditObject, DeleteObject
<1> QED BY <1>1, EditNoted, PassMoves

(* The pass starts with the default plugin, and goes on with what the       *)
(* update of it stored.                                                     *)
LEMMA PatchCurrent ==
  ASSUME CurrentInv, Begin \/ PatchDefault
  PROVE  CurrentInv'
<1>1. CASE Begin
  BY <1>1 DEF Begin, CurrentInv, PassShape, PassIsCurrent
<1>2. CASE PatchDefault
  <2>1. pass' = Continue(profile') \/ pass' = None
    BY <1>2 DEF PatchDefault, Proceed
  <2> QED BY <2>1 DEF Continue, CurrentInv, PassShape, PassIsCurrent
<1> QED BY <1>1, <1>2

(* Every step.                                                              *)
LEMMA NextCurrent == CurrentInv /\ [Next]_vars => CurrentInv'
<1> SUFFICES ASSUME CurrentInv, [Next]_vars
             PROVE  CurrentInv'
  OBVIOUS
<1>1. ASSUME pass' = None
      PROVE  CurrentInv'
  BY <1>1 DEF CurrentInv, PassShape, PassIsCurrent
<1>2. CASE Step
  <2>1. CASE RegisterFinalizer \/ RemoveFinalizer \/ End
    BY <1>1, <2>1 DEF RegisterFinalizer, RemoveFinalizer, End, Proceed
  <2>2. CASE ApplyPlugin \/ RevokePlugin
    BY <2>2, PassMoves DEF ApplyPlugin, RevokePlugin, Proceed, At
  <2>3. CASE Deserialize \/ StartRevoke
    BY <2>3, PassMoves DEF Deserialize, StartRevoke, FinalizerNext, At
  <2>4. CASE ReconcileExtraResource
    BY <2>4, PassMoves DEF ReconcileExtraResource, Proceed, At
  <2> QED BY <1>2, <2>1, <2>2, <2>3, <2>4, PatchCurrent DEF Step
<1>3. CASE Sync
  BY <1>3, PassMoves DEF Sync
<1>4. CASE LoseRequest \/ \E identity \in Defaults : Restart(identity)
  BY <1>1, <1>4 DEF LoseRequest, Restart
<1>5. CASE UNCHANGED vars
  BY <1>5, PassMoves DEF vars
<1> QED BY <1>2, <1>3, <1>4, <1>5, UserActionCurrent, PatchCurrent DEF Next

(* Although the default plugin changes the profile in the middle of a pass, *)
(* the pass goes on with the stored profile unless a user has changed it    *)
(* since.                                                                   *)
THEOREM PassStaysCurrent == Spec => []PassIsCurrent
<1>1. Init => CurrentInv
  BY DEF Init, CurrentInv, PassShape, PassIsCurrent
<1>2. CurrentInv => PassIsCurrent
  BY DEF CurrentInv
<1> QED BY <1>1, <1>2, NextCurrent, PTL DEF Spec
=============================================================================
