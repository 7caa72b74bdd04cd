----------------------- MODULE NamespaceObjectsProofs -----------------------
(***************************************************************************)
(* Who reaches the workloads and the artifacts of a profile, for any       *)
(* profiles, users, contents of the Config, numbers of workers and of      *)
(* edits: an object in a namespace was generated for that namespace, by a  *)
(* pass that read some owner and some Config, and no mixture of such       *)
(* objects opens a namespace or a folder to another profile.               *)
(***************************************************************************)
EXTENDS NamespaceObjects, TLAPS, SequenceTheorems

(* What an object of the namespace n can be.                                *)
Own(n, o) ==
  /\ o.kind = "RequestAuthentication" =>
       \E c \in Configs : o = RequestAuthentication(c.issuer)
  /\ o.kind = "AuthorizationPolicy" =>
       \/ o = GenerateKFPAuthorizationPolicy
       \/ \E user \in Users, c \in Configs :
            o = GetAuthorizationPolicy(n, user, c.userIdPrefix, c.issuer)
  /\ o.kind = "PeerAuthentication" => o = GeneratePeerAuthentication
  /\ o.kind = "EnvoyFilter" => o = GenerateEnvoyFilter(n)
  /\ o.kind = "Service" => \E i \in {1, 2} : o = GenerateKFPServices[i]
  /\ o.kind = "DestinationRule" => o = GenerateKFPDestinationRule
  /\ o.kind = "PodDefault" => o = GeneratePodDefault
  /\ o.kind = "Policy" =>
       \E c \in Configs : o = GenerateKFPIAMPolicyACK(n, c.clusterName, c.bucketName)
  /\ o.kind = "Role" =>
       \E c \in Configs : o = GenerateKFPIAMRoleACK(n, c.accountID,
                                c.clusterOIDCIssuer, c.clusterName)

Passes ==
  [namespace : Profiles, next : Nat, owner : Users, config : Configs]

PassOK(p) ==
  /\ p \in Passes
  /\ p.next \in 1 .. Len(Wanted(p.namespace, p.owner, p.config))

Typed ==
  /\ owner \in [Profiles -> Users]
  /\ config \in Configs
  /\ events \in 0 .. MaxEvents
  /\ pass \in [Workers -> {Nil} \cup Passes]
  /\ \A w \in Workers : pass[w] # Nil => PassOK(pass[w])
  /\ DOMAIN objects = Profiles

Distinct ==
  \A n \in Profiles : \A o, p \in objects[n] :
    o.kind = p.kind /\ o.name = p.name => o = p

OwnObjects == \A n \in Profiles : \A o \in objects[n] : Own(n, o)

IInv == Typed /\ Distinct /\ OwnObjects

(***************************************************************************)
(* What a pass stores.                                                     *)
(***************************************************************************)
(* The objects that a pass wants, whatever the provider, and on AWS.        *)
Common(n, user, c) ==
  { RequestAuthentication(c.issuer),
    GetAuthorizationPolicy(n, user, c.userIdPrefix, c.issuer),
    GenerateServiceAccounts(n, c.accountID, c.clusterName)[1],
    GenerateServiceAccounts(n, c.accountID, c.clusterName)[2],
    GenerateKFPConfigmap(c.bucketName)[1],
    GenerateKFPConfigmap(c.bucketName)[2],
    GenerateKFPConfigmap(c.bucketName)[3],
    GenerateKFPDeployments[1], GenerateKFPDeployments[2],
    GenerateKFPDestinationRule, GenerateKFPAuthorizationPolicy,
    GenerateKFPServices[1], GenerateKFPServices[2],
    GeneratePeerAuthentication, GenerateEnvoyFilter(n), GeneratePodDefault }

OnAws(n, c) ==
  { GenerateKFPIAMPolicyACK(n, c.clusterName, c.bucketName),
    GenerateKFPIAMRoleACK(n, c.accountID, c.clusterOIDCIssuer, c.clusterName) }

Candidates(n, user, c) == Common(n, user, c) \cup OnAws(n, c)

Contains(s, e) == \E i \in 1 .. Len(s) : s[i] = e

(* A sequence of length k over S that has all of C.                         *)
Part(S, C, k, s) ==
  s \in Seq(S) /\ Len(s) = k /\ \A e \in C : Contains(s, e)

LEMMA Concatenation ==
  ASSUME NEW S, NEW C, NEW D, NEW i \in Nat, NEW j \in Nat, NEW s, NEW t,
         Part(S, C, i, s), Part(S, D, j, t)
  PROVE  Part(S, C \cup D, i + j, s \o t)
<1>1. /\ Len(s) = i /\ Len(t) = j
      /\ s \o t \in Seq(S) /\ Len(s \o t) = i + j
      /\ \A k \in 1 .. i + j :
           (s \o t)[k] = IF k <= i THEN s[k] ELSE t[k - i]
  BY ConcatProperties DEF Part
<1>2. ASSUME NEW k \in 1 .. i
      PROVE  k \in 1 .. i + j /\ (s \o t)[k] = s[k]
  BY <1>1
<1>3. ASSUME NEW k \in 1 .. j
      PROVE  k + i \in 1 .. i + j /\ (s \o t)[k + i] = t[k]
  <2>1. k + i \in 1 .. i + j /\ ~(k + i <= i) /\ (k + i) - i = k
    OBVIOUS
  <2> QED BY <1>1, <2>1
<1>4. ASSUME NEW e \in C
      PROVE  Contains(s \o t, e)
  BY <1>1, <1>2 DEF Part, Contains
<1>5. ASSUME NEW e \in D
      PROVE  Contains(s \o t, e)
  BY <1>1, <1>3 DEF Part, Contains
<1> QED BY <1>1, <1>4, <1>5 DEF Part

LEMMA Pair ==
  ASSUME NEW S, NEW a \in S, NEW b \in S
  PROVE  Part(S, {a, b}, 2, <<a, b>>)
<1>1. Contains(<<a, b>>, a) /\ Contains(<<a, b>>, b)
  BY 1 \in 1 .. 2, 2 \in 1 .. 2 DEF Contains
<1> QED BY <1>1 DEF Part

LEMMA Triple ==
  ASSUME NEW S, NEW a \in S, NEW b \in S, NEW c \in S
  PROVE  Part(S, {a, b, c}, 3, <<a, b, c>>)
<1>1. /\ Contains(<<a, b, c>>, a) /\ Contains(<<a, b, c>>, b)
      /\ Contains(<<a, b, c>>, c)
  BY 1 \in 1 .. 3, 2 \in 1 .. 3, 3 \in 1 .. 3 DEF Contains
<1> QED BY <1>1 DEF Part

(* The sequence has 16 objects, and 18 on AWS, none left out.               *)
LEMMA WantedSequence ==
  ASSUME NEW n, NEW user, NEW c
  PROVE  /\ Wanted(n, user, c) \in Seq(Candidates(n, user, c))
         /\ Len(Wanted(n, user, c)) \in {16, 18}
         /\ \A e \in Common(n, user, c) : Contains(Wanted(n, user, c), e)
         /\ c.provider = "AWS" =>
              \A e \in OnAws(n, c) : Contains(Wanted(n, user, c), e)
<1> DEFINE S == Candidates(n, user, c)
           first == << RequestAuthentication(c.issuer),
                       GetAuthorizationPolicy(n, user, c.userIdPrefix, c.issuer) >>
           accounts == GenerateServiceAccounts(n, c.accountID, c.clusterName)
           maps == GenerateKFPConfigmap(c.bucketName)
           deployments == GenerateKFPDeployments
           rules == << GenerateKFPDestinationRule, GenerateKFPAuthorizationPolicy >>
           services == GenerateKFPServices
           last == << GeneratePeerAuthentication, GenerateEnvoyFilter(n),
                      GeneratePodDefault >>
           aws == IF c.provider # "AWS" THEN << >>
                  ELSE << GenerateKFPIAMPolicyACK(n, c.clusterName, c.bucketName),
                          GenerateKFPIAMRoleACK(n, c.accountID,
                            c.clusterOIDCIssuer, c.clusterName) >>
           Two(s) == {s[1], s[2]}
           Three(s) == {s[1], s[2], s[3]}
<1>1. Part(S, Two(first), 2, first)
  <2>1. first[1] \in S /\ first[2] \in S
    BY DEF Candidates, Common
  <2> QED BY <2>1, Pair
<1>2. Part(S, Two(accounts), 2, accounts)
  <2>1. accounts[1] \in S /\ accounts[2] \in S
    BY DEF Candidates, Common
  <2>2. accounts = <<accounts[1], accounts[2]>>
    BY DEF GenerateServiceAccounts
  <2> HIDE DEF S, accounts
  <2>3. Part(S, Two(accounts), 2, <<accounts[1], accounts[2]>>)
    BY <2>1, Pair
  <2> QED BY <2>2, <2>3
<1>3. Part(S, Three(maps), 3, maps)
  <2>1. maps[1] \in S /\ maps[2] \in S /\ maps[3] \in S
    BY DEF Candidates, Common
  <2>2. maps = <<maps[1], maps[2], maps[3]>>
    BY DEF GenerateKFPConfigmap
  <2> HIDE DEF S, maps
  <2>3. Part(S, Three(maps), 3, <<maps[1], maps[2], maps[3]>>)
    BY <2>1, Triple
  <2> QED BY <2>2, <2>3
<1>4. Part(S, Two(deployments), 2, deployments)
  <2>1. deployments[1] \in S /\ deployments[2] \in S
    BY DEF Candidates, Common
  <2>2. deployments = <<deployments[1], deployments[2]>>
    BY DEF GenerateKFPDeployments
  <2> HIDE DEF S, deployments
  <2>3. Part(S, Two(deployments), 2, <<deployments[1], deployments[2]>>)
    BY <2>1, Pair
  <2> QED BY <2>2, <2>3
<1>5. Part(S, Two(rules), 2, rules)
  <2>1. rules[1] \in S /\ rules[2] \in S
    BY DEF Candidates, Common
  <2> QED BY <2>1, Pair
<1>6. Part(S, Two(services), 2, services)
  <2>1. services[1] \in S /\ services[2] \in S
    BY DEF Candidates, Common
  <2>2. services = <<services[1], services[2]>>
    BY DEF GenerateKFPServices
  <2> HIDE DEF S, services
  <2>3. Part(S, Two(services), 2, <<services[1], services[2]>>)
    BY <2>1, Pair
  <2> QED BY <2>2, <2>3
<1>7. Part(S, Three(last), 3, last)
  <2>1. last[1] \in S /\ last[2] \in S /\ last[3] \in S
    BY DEF Candidates, Common
  <2> QED BY <2>1, Triple
<1>8. /\ c.provider # "AWS" => Part(S, {}, 0, aws)
      /\ c.provider = "AWS" => Part(S, OnAws(n, c), 2, aws)
  <2>1. CASE c.provider # "AWS"
    BY <2>1 DEF Part
  <2>2. CASE c.provider = "AWS"
    <3> DEFINE policy == GenerateKFPIAMPolicyACK(n, c.clusterName, c.bucketName)
               role == GenerateKFPIAMRoleACK(n, c.accountID,
                         c.clusterOIDCIssuer, c.clusterName)
    <3>1. /\ OnAws(n, c) = {policy, role} /\ aws = <<policy, role>>
          /\ policy \in S /\ role \in S
      BY <2>2 DEF Candidates, OnAws
    <3> HIDE DEF policy, role, S, aws
    <3> QED BY <2>2, <3>1, Pair
  <2> QED BY <2>1, <2>2
<1>9. Common(n, user, c) =
        ((((((Two(first) \cup Two(accounts)) \cup Three(maps)) \cup Two(deployments))
            \cup Two(rules)) \cup Two(services)) \cup Three(last))
  <2>1. /\ Two(first) = {RequestAuthentication(c.issuer),
             GetAuthorizationPolicy(n, user, c.userIdPrefix, c.issuer)}
        /\ Two(rules) = {GenerateKFPDestinationRule, GenerateKFPAuthorizationPolicy}
        /\ Three(last) = {GeneratePeerAuthentication, GenerateEnvoyFilter(n),
                          GeneratePodDefault}
    OBVIOUS
  <2> QED BY <2>1 DEF Common
<1>10. Wanted(n, user, c) =
         ((((((first \o accounts) \o maps) \o deployments) \o rules)
            \o services) \o last) \o aws
  BY DEF Wanted
<1> DEFINE A == Two(first)
           B == Two(accounts)
           C == Three(maps)
           D == Two(deployments)
           E == Two(rules)
           F == Two(services)
           G == Three(last)
<1> HIDE DEF S, first, accounts, maps, deployments, rules, services, last, aws
<1> HIDE DEF A, B, C, D, E, F, G
<1>11. /\ Part(S, A, 2, first) /\ Part(S, B, 2, accounts) /\ Part(S, C, 3, maps)
       /\ Part(S, D, 2, deployments) /\ Part(S, E, 2, rules)
       /\ Part(S, F, 2, services) /\ Part(S, G, 3, last)
  BY <1>1, <1>2, <1>3, <1>4, <1>5, <1>6, <1>7 DEF A, B, C, D, E, F, G
<1> HIDE DEF Two, Three
<1>12. Part(S, A \cup B, 4, first \o accounts)
  <2>1. Part(S, A \cup B, 2 + 2, first \o accounts)
    BY <1>11, Concatenation
  <2> QED BY <2>1
<1>13. Part(S, (A \cup B) \cup C, 7, (first \o accounts) \o maps)
  <2>1. Part(S, (A \cup B) \cup C, 4 + 3, (first \o accounts) \o maps)
    BY <1>11, <1>12, Concatenation
  <2> QED BY <2>1
<1> DEFINE C3 == (A \cup B) \cup C
           s3 == (first \o accounts) \o maps
<1>14. Part(S, C3 \cup D, 9, s3 \o deployments)
  <2> HIDE DEF C3, s3
  <2>1. Part(S, C3, 7, s3)
    BY <1>13 DEF C3, s3
  <2>2. Part(S, C3 \cup D, 7 + 2, s3 \o deployments)
    BY <1>11, <2>1, Concatenation
  <2> QED BY <2>2
<1>15. Part(S, (C3 \cup D) \cup E, 11, (s3 \o deployments) \o rules)
  <2> HIDE DEF C3, s3
  <2>1. Part(S, (C3 \cup D) \cup E, 9 + 2, (s3 \o deployments) \o rules)
    BY <1>11, <1>14, Concatenation
  <2> QED BY <2>1
<1> DEFINE C5 == (C3 \cup D) \cup E
           s5 == (s3 \o deployments) \o rules
<1>16. Part(S, C5 \cup F, 13, s5 \o services)
  <2> HIDE DEF C5, s5
  <2>1. Part(S, C5, 11, s5)
    BY <1>15 DEF C5, s5
  <2>2. Part(S, C5 \cup F, 11 + 2, s5 \o services)
    BY <1>11, <2>1, Concatenation
  <2> QED BY <2>2
<1> DEFINE C7 == (C5 \cup F) \cup G
           s7 == (s5 \o services) \o last
<1>17. Part(S, C7, 16, s7)
  <2> HIDE DEF C5, s5
  <2>1. Part(S, (C5 \cup F) \cup G, 13 + 3, (s5 \o services) \o last)
    BY <1>11, <1>16, Concatenation
  <2> QED BY <2>1
<1>18. Common(n, user, c) = C7
  BY <1>9 DEF C7, C5, C3, A, B, C, D, E, F, G
<1>19. Wanted(n, user, c) = s7 \o aws
  BY <1>10 DEF s7, s5, s3
<1> HIDE DEF C7, s7
<1>20. CASE c.provider # "AWS"
  <2>1. Part(S, C7 \cup {}, 16 + 0, s7 \o aws)
    BY <1>8, <1>17, <1>20, Concatenation
  <2>2. Part(S, C7 \cup {}, 16, s7 \o aws)
    BY <2>1
  <2> QED BY <1>18, <1>19, <1>20, <2>2 DEF S, Part
<1>21. CASE c.provider = "AWS"
  <2>1. Part(S, C7 \cup OnAws(n, c), 16 + 2, s7 \o aws)
    BY <1>8, <1>17, <1>21, Concatenation
  <2>2. Part(S, C7 \cup OnAws(n, c), 18, s7 \o aws)
    BY <2>1
  <2> QED BY <1>18, <1>19, <2>2 DEF S, Part
<1> QED BY <1>20, <1>21

LEMMA CandidatesOwn ==
  ASSUME NEW n \in Profiles, NEW user \in Users, NEW c \in Configs,
         NEW o \in Candidates(n, user, c)
  PROVE  Own(n, o)
<1>1. o.kind = "AuthorizationPolicy" =>
        o \in {GenerateKFPAuthorizationPolicy,
               GetAuthorizationPolicy(n, user, c.userIdPrefix, c.issuer)}
  BY DEF Candidates, Common, OnAws, Object,
         RequestAuthentication, GenerateServiceAccounts,
         GenerateKFPConfigmap, GenerateKFPDeployments, GenerateKFPDestinationRule,
         GenerateKFPServices, GeneratePeerAuthentication, GenerateEnvoyFilter,
         GeneratePodDefault, GenerateKFPIAMPolicyACK, GenerateKFPIAMRoleACK
<1>2. o.kind = "PeerAuthentication" => o = GeneratePeerAuthentication
  BY DEF Candidates, Common, OnAws, Object,
         RequestAuthentication, GenerateServiceAccounts,
         GenerateKFPConfigmap, GenerateKFPDeployments, GenerateKFPDestinationRule,
         GenerateKFPServices, GetAuthorizationPolicy, GenerateEnvoyFilter,
         GenerateKFPAuthorizationPolicy,
         GeneratePodDefault, GenerateKFPIAMPolicyACK, GenerateKFPIAMRoleACK
<1>3. o.kind = "EnvoyFilter" => o = GenerateEnvoyFilter(n)
  BY DEF Candidates, Common, OnAws, Object,
         RequestAuthentication, GenerateServiceAccounts,
         GenerateKFPConfigmap, GenerateKFPDeployments, GenerateKFPDestinationRule,
         GenerateKFPServices, GetAuthorizationPolicy, GeneratePeerAuthentication,
         GenerateKFPAuthorizationPolicy,
         GeneratePodDefault, GenerateKFPIAMPolicyACK, GenerateKFPIAMRoleACK
<1>4. o.kind = "Policy" =>
        o = GenerateKFPIAMPolicyACK(n, c.clusterName, c.bucketName)
  BY DEF Candidates, Common, OnAws, Object,
         RequestAuthentication, GenerateServiceAccounts,
         GenerateKFPConfigmap, GenerateKFPDeployments, GenerateKFPDestinationRule,
         GenerateKFPServices, GetAuthorizationPolicy, GeneratePeerAuthentication,
         GenerateKFPAuthorizationPolicy, GenerateEnvoyFilter,
         GeneratePodDefault, GenerateKFPIAMRoleACK
<1>5. o.kind = "Role" =>
        o = GenerateKFPIAMRoleACK(n, c.accountID, c.clusterOIDCIssuer,
                                  c.clusterName)
  BY DEF Candidates, Common, OnAws, Object,
         RequestAuthentication, GenerateServiceAccounts,
         GenerateKFPConfigmap, GenerateKFPDeployments, GenerateKFPDestinationRule,
         GenerateKFPServices, GetAuthorizationPolicy, GeneratePeerAuthentication,
         GenerateKFPAuthorizationPolicy, GenerateEnvoyFilter,
         GeneratePodDefault, GenerateKFPIAMPolicyACK
<1>6. o.kind = "RequestAuthentication" => o = RequestAuthentication(c.issuer)
  BY DEF Candidates, Common, OnAws, Object,
         GenerateServiceAccounts,
         GenerateKFPConfigmap, GenerateKFPDeployments, GenerateKFPDestinationRule,
         GenerateKFPServices, GetAuthorizationPolicy, GeneratePeerAuthentication,
         GenerateKFPAuthorizationPolicy, GenerateEnvoyFilter,
         GeneratePodDefault, GenerateKFPIAMPolicyACK, GenerateKFPIAMRoleACK
<1>7. o.kind = "Service" =>
        o = GenerateKFPServices[1] \/ o = GenerateKFPServices[2]
  BY DEF Candidates, Common, OnAws, Object,
         GenerateServiceAccounts,
         GenerateKFPConfigmap, GenerateKFPDeployments,
         GenerateKFPDestinationRule, RequestAuthentication,
         GetAuthorizationPolicy, GenerateKFPAuthorizationPolicy,
         GeneratePeerAuthentication, GenerateEnvoyFilter, GeneratePodDefault,
         GenerateKFPIAMPolicyACK, GenerateKFPIAMRoleACK
<1>8. o.kind = "DestinationRule" => o = GenerateKFPDestinationRule
  BY DEF Candidates, Common, OnAws, Object,
         GenerateServiceAccounts,
         GenerateKFPConfigmap, GenerateKFPDeployments, GenerateKFPServices,
         RequestAuthentication, GetAuthorizationPolicy,
         GenerateKFPAuthorizationPolicy, GeneratePeerAuthentication,
         GenerateEnvoyFilter, GeneratePodDefault, GenerateKFPIAMPolicyACK,
         GenerateKFPIAMRoleACK
<1>9. o.kind = "PodDefault" => o = GeneratePodDefault
  BY DEF Candidates, Common, OnAws, Object,
         GenerateServiceAccounts,
         GenerateKFPConfigmap, GenerateKFPDeployments,
         GenerateKFPDestinationRule, GenerateKFPServices,
         RequestAuthentication, GetAuthorizationPolicy,
         GenerateKFPAuthorizationPolicy, GeneratePeerAuthentication,
         GenerateEnvoyFilter, GenerateKFPIAMPolicyACK, GenerateKFPIAMRoleACK
<1> QED BY <1>1, <1>2, <1>3, <1>4, <1>5, <1>6, <1>7, <1>8, <1>9 DEF Own

(***************************************************************************)
(* The invariant.                                                          *)
(***************************************************************************)
LEMMA WantedOwn ==
  ASSUME NEW n \in Profiles, NEW user \in Users, NEW c \in Configs,
         NEW i \in 1 .. Len(Wanted(n, user, c))
  PROVE  Own(n, Wanted(n, user, c)[i])
<1>1. Wanted(n, user, c)[i] \in Candidates(n, user, c)
  BY WantedSequence, ElementOfSeq
<1> QED BY <1>1, CandidatesOwn

LEMMA GeneratedIsWanted ==
  ASSUME NEW n \in Profiles, NEW user \in Users, NEW c \in Configs
  PROVE  Generated[<<n, user, c>>] = Wanted(n, user, c)
BY DEF Generated

LEMMA InitInvariant ==
  ASSUME Init
  PROVE  IInv
<1>1. Typed
  <2>1. (CHOOSE user \in Users : TRUE) \in Users
    BY ObjectsAssumption
  <2>2. (CHOOSE c \in Configs : TRUE) \in Configs
    BY ObjectsAssumption
  <2>3. events \in 0 .. MaxEvents
    BY ObjectsAssumption DEF Init
  <2> QED BY <2>1, <2>2, <2>3 DEF Init, Typed
<1>2. Distinct /\ OwnObjects
  BY DEF Init, Distinct, OwnObjects
<1> QED BY <1>1, <1>2 DEF IInv

(* Users edit what a pass will read, and delete objects.                    *)
LEMMA EditInvariant ==
  ASSUME IInv,
         \/ \E n \in Profiles : \/ \E user \in Users : ChangeOwner(n, user)
                               \/ \E object \in objects[n] : DeleteObject(n, object)
         \/ \E new \in Configs : ChangeConfig(new)
  PROVE  IInv'
<1>1. events' \in 0 .. MaxEvents
  BY ObjectsAssumption
     DEF IInv, Typed, ChangeOwner, DeleteObject, ChangeConfig, Event
<1>2. owner' \in [Profiles -> Users] /\ config' \in Configs
  BY DEF IInv, Typed, ChangeOwner, DeleteObject, ChangeConfig
<1>3. UNCHANGED pass
  BY DEF ChangeOwner, DeleteObject, ChangeConfig
<1>4. /\ DOMAIN objects' = Profiles
      /\ \A n \in Profiles : objects'[n] \subseteq objects[n]
  BY DEF IInv, Typed, ChangeOwner, DeleteObject, ChangeConfig
<1>5. Typed'
  BY <1>1, <1>2, <1>3, <1>4 DEF IInv, Typed
<1>6. Distinct' /\ OwnObjects'
  BY <1>4 DEF IInv, Distinct, OwnObjects
<1> QED BY <1>5, <1>6 DEF IInv

LEMMA BeginInvariant ==
  ASSUME IInv, NEW w \in Workers, NEW n \in Profiles, Begin(w, n)
  PROVE  IInv'
<1> DEFINE p == [namespace |-> n, next |-> 1, owner |-> owner[n], config |-> config]
<1>1. p \in Passes /\ owner[n] \in Users /\ config \in Configs
  BY DEF IInv, Typed, Passes
<1>2. PassOK(p)
  <2>1. 1 \in 1 .. Len(Wanted(n, owner[n], config))
    <3> DEFINE length == Len(Wanted(n, owner[n], config))
    <3>1. length \in {16, 18}
      BY WantedSequence
    <3> HIDE DEF length
    <3>2. 1 \in 1 .. length
      BY <3>1
    <3> QED BY <3>2 DEF length
  <2>2. p.next = 1 /\ p.namespace = n /\ p.owner = owner[n] /\ p.config = config
    OBVIOUS
  <2> HIDE DEF p
  <2> QED BY <1>1, <2>1, <2>2 DEF PassOK
<1>3. pass' = [pass EXCEPT ![w] = p] /\ UNCHANGED <<owner, config, objects, events>>
  BY DEF Begin
<1> HIDE DEF p
<1>4. Typed'
  BY <1>1, <1>2, <1>3 DEF IInv, Typed
<1> QED BY <1>3, <1>4 DEF IInv, Distinct, OwnObjects

(* The next object replaces the one of its kind and name.                   *)
LEMMA ReconcileInvariant ==
  ASSUME IInv, NEW w \in Workers, Reconcile(w)
  PROVE  IInv'
<1> DEFINE p == pass[w]
           m == p.namespace
           wanted == Wanted(m, p.owner, p.config)
<1>1. /\ p \in Passes /\ PassOK(p)
      /\ m \in Profiles /\ p.owner \in Users /\ p.config \in Configs
      /\ p.next \in 1 .. Len(wanted)
  BY DEF Reconcile, IInv, Typed, PassOK, Passes
<1>2. Generated[<<m, p.owner, p.config>>] = wanted
  BY <1>1, GeneratedIsWanted
<1>3. Own(m, wanted[p.next])
  BY <1>1, WantedOwn
<1>4. /\ objects' = [objects EXCEPT ![m] = Put(@, wanted[p.next])]
      /\ pass' = [pass EXCEPT ![w] = IF p.next = Len(wanted) THEN Nil
                                     ELSE [p EXCEPT !.next = @ + 1]]
      /\ UNCHANGED <<owner, config, events>>
  BY <1>2 DEF Reconcile
<1>5. p.next # Len(wanted) => PassOK([p EXCEPT !.next = @ + 1])
  <2> SUFFICES ASSUME p.next # Len(wanted)
               PROVE  PassOK([p EXCEPT !.next = @ + 1])
    OBVIOUS
  <2> DEFINE q == [p EXCEPT !.next = @ + 1]
  <2>1. Len(wanted) \in Nat
    BY WantedSequence
  <2>2. q \in Passes /\ q.next = p.next + 1 /\ q.namespace = m
        /\ q.owner = p.owner /\ q.config = p.config
    BY <1>1 DEF Passes
  <2>3. q.next \in 1 .. Len(wanted)
    BY <1>1, <2>1, <2>2
  <2> HIDE DEF q
  <2>4. PassOK(q)
    BY <2>2, <2>3 DEF PassOK
  <2> QED BY <2>4 DEF q
<1> DEFINE new == wanted[p.next]
           next == IF p.next = Len(wanted) THEN Nil ELSE [p EXCEPT !.next = @ + 1]
<1>6. next = Nil \/ PassOK(next)
  BY <1>5
<1>7. /\ objects' = [objects EXCEPT ![m] = Put(@, new)]
      /\ pass' = [pass EXCEPT ![w] = next]
  BY <1>4
<1> HIDE DEF p, m, wanted, new, next
<1>8. pass' \in [Workers -> {Nil} \cup Passes]
  BY <1>6, <1>7 DEF IInv, Typed, PassOK
<1>9. \A v \in Workers : pass'[v] # Nil => PassOK(pass'[v])
  BY <1>6, <1>7 DEF IInv, Typed
<1>10. Typed'
  BY <1>4, <1>7, <1>8, <1>9 DEF IInv, Typed
<1>11. \A n \in Profiles :
         objects'[n] = IF n = m THEN Put(objects[m], new) ELSE objects[n]
  BY <1>1, <1>7 DEF IInv, Typed
<1>12. Distinct'
  BY <1>11 DEF IInv, Distinct, Put
<1>13. OwnObjects'
  BY <1>3, <1>11 DEF IInv, OwnObjects, Put, new
<1> QED BY <1>10, <1>12, <1>13 DEF IInv

LEMMA AbortInvariant ==
  ASSUME IInv, NEW w \in Workers, Abort(w)
  PROVE  IInv'
<1>1. events' \in 0 .. MaxEvents
  BY ObjectsAssumption DEF IInv, Typed, Abort, Event
<1>2. pass' = [pass EXCEPT ![w] = Nil] /\ UNCHANGED <<owner, config, objects>>
  BY DEF Abort
<1>3. Typed'
  BY <1>1, <1>2 DEF IInv, Typed
<1> QED BY <1>2, <1>3 DEF IInv, Distinct, OwnObjects

LEMMA NextInvariant ==
  ASSUME IInv, [Next]_vars
  PROVE  IInv'
<1>1. CASE \/ \E n \in Profiles : \/ \E user \in Users : ChangeOwner(n, user)
                                  \/ \E object \in objects[n] : DeleteObject(n, object)
           \/ \E new \in Configs : ChangeConfig(new)
  BY <1>1, EditInvariant
<1>2. CASE \E w \in Workers, n \in Profiles : Begin(w, n)
  BY <1>2, BeginInvariant
<1>3. CASE \E w \in Workers : Reconcile(w)
  BY <1>3, ReconcileInvariant
<1>4. CASE \E w \in Workers : Abort(w)
  BY <1>4, AbortInvariant
<1>5. CASE UNCHANGED vars
  BY <1>5 DEF vars, IInv, Typed, Distinct, OwnObjects
<1> QED BY <1>1, <1>2, <1>3, <1>4, <1>5 DEF Next

LEMMA Invariant == Spec => []IInv
BY InitInvariant, NextInvariant, PTL DEF Spec

(***************************************************************************)
(* The theorems.                                                           *)
(***************************************************************************)
(* The values are of their types, a namespace has one object of a kind and  *)
(* name, and a pass stores at most 18 objects.                              *)
THEOREM TypeCorrect == Spec => []TypeOK
<1>1. IInv => TypeOK
  <2> SUFFICES ASSUME IInv PROVE TypeOK
    OBVIOUS
  <2> DEFINE Bounded == [namespace : Profiles, next : 1 .. 18,
                         owner : Users, config : Configs]
  <2>1. \A w \in Workers : pass[w] # Nil => pass[w] \in Bounded
    <3> SUFFICES ASSUME NEW w \in Workers, pass[w] # Nil
                 PROVE  pass[w] \in Bounded
      OBVIOUS
    <3> DEFINE p == pass[w]
           length == Len(Wanted(p.namespace, p.owner, p.config))
    <3>1. p \in Passes /\ p.next \in 1 .. length
      BY DEF IInv, Typed, PassOK
    <3>2. length \in {16, 18}
      BY WantedSequence
    <3> HIDE DEF p, length
    <3>3. p.next \in 1 .. 18
      BY <3>1, <3>2
    <3> QED BY <3>1, <3>3 DEF Passes, p
  <2>2. pass \in [Workers -> {Nil} \cup Bounded]
    BY <2>1 DEF IInv, Typed
  <2> QED BY <2>2 DEF IInv, Typed, Distinct, TypeOK
<1> QED BY <1>1, Invariant, PTL

(* What arrives of a request without a token, sent through a sidecar of the *)
(* namespace m that has the filter.                                         *)
LEMMA HeaderReplaced ==
  ASSUME IInv, NEW m \in Profiles, NEW header,
         Kind(objects[m], "EnvoyFilter") # {}
  PROVE  Outbound(Kind(objects[m], "EnvoyFilter"), header) = m
<1> DEFINE filters == Kind(objects[m], "EnvoyFilter")
           f == CHOOSE f \in filters : TRUE
<1>1. f \in filters
  OBVIOUS
<1>2. f = GenerateEnvoyFilter(m)
  BY <1>1 DEF Kind, IInv, OwnObjects, Own
<1>3. f.spec.replace = TRUE /\ f.spec.header = m
  <2>1. GenerateEnvoyFilter(m).spec = [replace |-> TRUE, header |-> m]
    BY DEF GenerateEnvoyFilter, Object
  <2> HIDE DEF f
  <2> QED BY <1>2, <2>1
<1>4. Outbound(filters, header) =
        IF f.spec.replace \/ header = None THEN f.spec.header ELSE header
  BY DEF Outbound
<1> HIDE DEF f
<1> QED BY <1>3, <1>4

(* A request as it arrives from another profile matches no rule.            *)
LEMMA NoRuleMatches ==
  ASSUME IInv, NEW m \in Profiles, NEW n \in Profiles, m # n,
         NEW arrived,
         arrived.issuer = None,
         arrived.source \in {m, "knative"},
         \/ arrived.principal = None
         \/ \E account : arrived.principal = <<m, account>>,
         arrived.path \notin ProbePaths,
         arrived.header = m,
         NEW o \in Kind(objects[n], "AuthorizationPolicy"),
         NEW rule \in o.spec.rules
  PROVE  ~Matches(rule, arrived)
<1>1. {m, n} \cap {None, "kubeflow", "knative", "outside"} = {}
  BY ObjectsAssumption
<1>2. \/ o = GenerateKFPAuthorizationPolicy
      \/ \E user \in Users, c \in Configs :
           o = GetAuthorizationPolicy(n, user, c.userIdPrefix, c.issuer)
  BY DEF Kind, IInv, OwnObjects, Own
<1>3. CASE o = GenerateKFPAuthorizationPolicy
  <2>1. rule = [principal |-> {<<"kubeflow", "ml-pipeline">>}]
    BY <1>3 DEF GenerateKFPAuthorizationPolicy, Object
  <2>2. arrived.principal # <<"kubeflow", "ml-pipeline">>
    <3>1. ASSUME NEW account
          PROVE  <<m, account>> # <<"kubeflow", "ml-pipeline">>
      <4>1. m # "kubeflow"
        BY <1>1
      <4> QED BY <4>1
    <3>2. None # <<"kubeflow", "ml-pipeline">>
      BY ObjectsAssumption
    <3> QED BY <3>1, <3>2
  <2> QED BY <2>1, <2>2 DEF Matches
<1>4. ASSUME NEW user \in Users, NEW c \in Configs,
             o = GetAuthorizationPolicy(n, user, c.userIdPrefix, c.issuer)
      PROVE  ~Matches(rule, arrived)
  <2>1. \/ rule = [issuer |-> {c.issuer}, email |-> {<<c.userIdPrefix, user>>}]
        \/ rule = [source |-> {n}]
        \/ rule = [source |-> {"kubeflow"}]
        \/ rule = [source |-> {"knative"}, path |-> ProbePaths]
        \/ rule = [path |-> ModelPaths, header |-> {n}]
    BY <1>4 DEF GetAuthorizationPolicy, Object
  <2>2. CASE rule = [issuer |-> {c.issuer}, email |-> {<<c.userIdPrefix, user>>}]
    <3>1. c.issuer # None
      BY ObjectsAssumption
    <3>2. "issuer" \in DOMAIN rule /\ rule["issuer"] = {c.issuer}
      BY <2>2
    <3> QED BY <3>1, <3>2 DEF Matches
  <2>3. CASE rule = [source |-> {n}]
    <3>1. "source" \in DOMAIN rule /\ rule["source"] = {n}
      BY <2>3
    <3> QED BY <1>1, <3>1 DEF Matches
  <2>4. CASE rule = [source |-> {"kubeflow"}]
    <3>1. "source" \in DOMAIN rule /\ rule["source"] = {"kubeflow"}
      BY <2>4
    <3> QED BY <1>1, <3>1 DEF Matches
  <2>5. CASE rule = [source |-> {"knative"}, path |-> ProbePaths]
    <3>1. "path" \in DOMAIN rule /\ rule["path"] = ProbePaths
      BY <2>5
    <3> QED BY <3>1 DEF Matches
  <2>6. CASE rule = [path |-> ModelPaths, header |-> {n}]
    <3>1. "header" \in DOMAIN rule /\ rule["header"] = {n}
      BY <2>6
    <3> QED BY <3>1 DEF Matches
  <2> QED BY <2>1, <2>2, <2>3, <2>4, <2>5, <2>6
<1> QED BY <1>2, <1>3, <1>4

(* Once the objects exist, of whatever versions of the profiles and of the  *)
(* Config, no workload of one profile reaches one of another but for        *)
(* Knative's probes, whatever header it sets and with or without a sidecar. *)
THEOREM ProfilesIsolated == Spec => []Isolation
<1>1. IInv => Isolation
  <2> SUFFICES ASSUME IInv,
                      NEW m \in Profiles, NEW n \in Profiles, m # n,
                      \E p \in Kind(objects[n], "AuthorizationPolicy") :
                        p.spec.selector = None,
                      Kind(objects[n], "PeerAuthentication") # {},
                      Kind(objects[m], "EnvoyFilter") # {},
                      NEW r \in RequestsAs(m, n),
                      Admitted(r, Guards(objects[m], objects[n]))
               PROVE  FALSE
    BY DEF Isolation
  <2> DEFINE guards == Guards(objects[m], objects[n])
             arrived == Arrived(r, guards)
  <2>1. /\ r.origin = m /\ r.token = None /\ r.path \notin ProbePaths
        /\ r.mesh \in BOOLEAN /\ r.relayed \in BOOLEAN
    <3>1. PICK q \in AllRequests : /\ q.path \notin ProbePaths
                                  /\ r = [q EXCEPT !.token = None]
      BY DEF RequestsAs, Anonymous
    <3>2. r.origin = m
      BY DEF RequestsAs
    <3> QED BY <3>1, <3>2 DEF AllRequests, Requests
  <2>2. /\ guards.filters = Kind(objects[m], "EnvoyFilter")
        /\ guards.peers = Kind(objects[n], "PeerAuthentication")
        /\ guards.policies = Kind(objects[n], "AuthorizationPolicy")
    BY DEF Guards
  <2> HIDE DEF guards
  <2>3. /\ \A p \in guards.peers : p.spec.mtls = "STRICT" => r.mesh
        /\ \E p \in guards.policies : \E rule \in p.spec.rules :
             Matches(rule, arrived)
    BY <2>2 DEF Admitted, guards
  <2>4. r.mesh
    <3>1. PICK p \in Kind(objects[n], "PeerAuthentication") : TRUE
      OBVIOUS
    <3>2. p = GeneratePeerAuthentication
      BY <3>1 DEF Kind, IInv, OwnObjects, Own
    <3>3. p.spec.mtls = "STRICT"
      BY <3>2 DEF GeneratePeerAuthentication, Object
    <3> QED BY <2>2, <2>3, <3>3
  <2>5. /\ arrived.issuer = None
        /\ arrived.source \in {m, "knative"}
        /\ arrived.path \notin ProbePaths
    BY <2>1, <2>4 DEF Arrived
  <2>6. \/ arrived.principal = None
        \/ \E account : arrived.principal = <<m, account>>
    BY <2>1, <2>4 DEF Arrived
  <2>7. arrived.header = m
    <3>1. arrived.header = Outbound(guards.filters, r.header)
      BY <2>4 DEF Arrived
    <3> QED BY <2>2, <3>1, HeaderReplaced
  <2> HIDE DEF arrived
  <2> QED BY <2>2, <2>3, <2>5, <2>6, <2>7, NoRuleMatches
<1> QED BY <1>1, Invariant, PTL

LEMMA AllInPlace ==
  ASSUME IInv, NEW n \in Profiles, InPlace(n)
  PROVE  /\ Common(n, owner[n], config) \subseteq objects[n]
         /\ config.provider = "AWS" => OnAws(n, config) \subseteq objects[n]
<1> DEFINE wanted == Wanted(n, owner[n], config)
<1>1. owner[n] \in Users /\ config \in Configs
  BY DEF IInv, Typed
<1>2. Generated[<<n, owner[n], config>>] = wanted
  BY <1>1, GeneratedIsWanted
<1>3. \A i \in DOMAIN wanted : wanted[i] \in objects[n]
  BY <1>2 DEF InPlace
<1>4. DOMAIN wanted = 1 .. Len(wanted)
  BY WantedSequence, LenProperties
<1>5. /\ \A e \in Common(n, owner[n], config) : Contains(wanted, e)
      /\ config.provider = "AWS" =>
           \A e \in OnAws(n, config) : Contains(wanted, e)
  BY WantedSequence
<1> HIDE DEF wanted
<1> QED BY <1>3, <1>4, <1>5 DEF Contains

(* The objects in place are those of the profile and the Config as they are, *)
(* beside the policy for Kubeflow Pipelines, which adds nobody.             *)
LEMMA InPlaceGuards ==
  ASSUME IInv, NEW n \in Profiles, InPlace(n)
  PROVE  /\ Kind(objects[n], "RequestAuthentication")
              = {RequestAuthentication(config.issuer)}
         /\ GetAuthorizationPolicy(n, owner[n], config.userIdPrefix, config.issuer)
              \in Kind(objects[n], "AuthorizationPolicy")
         /\ Kind(objects[n], "AuthorizationPolicy") \subseteq
              {GetAuthorizationPolicy(n, owner[n], config.userIdPrefix, config.issuer),
               GenerateKFPAuthorizationPolicy}
         /\ Kind(objects[n], "PeerAuthentication") = {GeneratePeerAuthentication}
         /\ Kind(objects[n], "EnvoyFilter") = {GenerateEnvoyFilter(n)}
<1>6. Common(n, owner[n], config) \subseteq objects[n]
  BY AllInPlace
<1>7. ASSUME NEW o \in objects[n], NEW p \in objects[n],
             o.kind = p.kind, o.name = p.name
      PROVE  o = p
  BY <1>7 DEF IInv, Distinct
<1>8. \A o \in objects[n] : Own(n, o)
  BY DEF IInv, OwnObjects
<1>9. Kind(objects[n], "RequestAuthentication")
        = {RequestAuthentication(config.issuer)}
  <2>1. /\ RequestAuthentication(config.issuer) \in objects[n]
        /\ \A issuer : /\ RequestAuthentication(issuer).kind
                            = "RequestAuthentication"
                       /\ RequestAuthentication(issuer).name
                            = "kubeflow-request-auth"
    BY <1>6 DEF Common, RequestAuthentication, Object
  <2>2. \A o \in Kind(objects[n], "RequestAuthentication") :
          \E issuer : o = RequestAuthentication(issuer)
    BY <1>8 DEF Kind, Own
  <2> QED BY <1>7, <2>1, <2>2 DEF Kind
<1>10. LET policy == GetAuthorizationPolicy(n, owner[n], config.userIdPrefix,
                                            config.issuer)
       IN /\ policy \in Kind(objects[n], "AuthorizationPolicy")
          /\ Kind(objects[n], "AuthorizationPolicy") \subseteq
               {policy, GenerateKFPAuthorizationPolicy}
  <2> DEFINE policy == GetAuthorizationPolicy(n, owner[n], config.userIdPrefix,
                                              config.issuer)
  <2>1. policy \in objects[n]
    BY <1>6 DEF Common
  <2>2. \A user, prefix, issuer :
          /\ GetAuthorizationPolicy(n, user, prefix, issuer).kind
               = "AuthorizationPolicy"
          /\ GetAuthorizationPolicy(n, user, prefix, issuer).name
               = "ns-owner-access-istio"
    BY DEF GetAuthorizationPolicy, Object
  <2>3. \A o \in Kind(objects[n], "AuthorizationPolicy") :
          \/ o = GenerateKFPAuthorizationPolicy
          \/ \E user, prefix, issuer :
               o = GetAuthorizationPolicy(n, user, prefix, issuer)
    BY <1>8 DEF Kind, Own
  <2> QED BY <1>7, <2>1, <2>2, <2>3 DEF Kind
<1>11. Kind(objects[n], "PeerAuthentication") = {GeneratePeerAuthentication}
  <2>1. /\ GeneratePeerAuthentication \in objects[n]
        /\ GeneratePeerAuthentication.kind = "PeerAuthentication"
    BY <1>6 DEF Common, GeneratePeerAuthentication, Object
  <2> QED BY <1>8, <2>1 DEF Kind, Own
<1>12. Kind(objects[n], "EnvoyFilter") = {GenerateEnvoyFilter(n)}
  <2>1. /\ GenerateEnvoyFilter(n) \in objects[n]
        /\ GenerateEnvoyFilter(n).kind = "EnvoyFilter"
    BY <1>6 DEF Common, GenerateEnvoyFilter, Object
  <2> QED BY <1>8, <2>1 DEF Kind, Own
<1> QED BY <1>9, <1>10, <1>11, <1>12

(* What a request needs for one of the rules of the policy to match.        *)
LetThrough(arrived, n, user, prefix, issuer) ==
  \/ arrived.issuer = issuer /\ arrived.email = <<prefix, user>>
  \/ arrived.source \in {n, "kubeflow"}
  \/ arrived.source = "knative" /\ arrived.path \in ProbePaths
  \/ arrived.path \in ModelPaths /\ arrived.header = n

LEMMA OwnerPolicyMatches ==
  ASSUME NEW n, NEW user, NEW prefix, NEW issuer, NEW arrived
  PROVE  (\E rule \in GetAuthorizationPolicy(n, user, prefix, issuer).spec.rules :
            Matches(rule, arrived))
           <=> LetThrough(arrived, n, user, prefix, issuer)
<1> DEFINE byToken == [issuer |-> {issuer}, email |-> {<<prefix, user>>}]
           bySelf == [source |-> {n}]
           byKubeflow == [source |-> {"kubeflow"}]
           byProbe == [source |-> {"knative"}, path |-> ProbePaths]
           byModel == [path |-> ModelPaths, header |-> {n}]
<1>1. GetAuthorizationPolicy(n, user, prefix, issuer).spec.rules
        = {byToken, bySelf, byKubeflow, byProbe, byModel}
  BY DEF GetAuthorizationPolicy, Object
<1>2. Matches(byToken, arrived)
        <=> arrived.issuer = issuer /\ arrived.email = <<prefix, user>>
  <2>1. /\ DOMAIN byToken = {"issuer", "email"}
        /\ byToken["issuer"] = {issuer} /\ byToken["email"] = {<<prefix, user>>}
    OBVIOUS
  <2> HIDE DEF byToken
  <2> QED BY <2>1 DEF Matches
<1>3. Matches(bySelf, arrived) <=> arrived.source = n
  <2>1. DOMAIN bySelf = {"source"} /\ bySelf["source"] = {n}
    OBVIOUS
  <2> HIDE DEF bySelf
  <2> QED BY <2>1 DEF Matches
<1>4. Matches(byKubeflow, arrived) <=> arrived.source = "kubeflow"
  <2>1. DOMAIN byKubeflow = {"source"} /\ byKubeflow["source"] = {"kubeflow"}
    OBVIOUS
  <2> HIDE DEF byKubeflow
  <2> QED BY <2>1 DEF Matches
<1>5. Matches(byProbe, arrived)
        <=> arrived.source = "knative" /\ arrived.path \in ProbePaths
  <2>1. /\ DOMAIN byProbe = {"source", "path"}
        /\ byProbe["source"] = {"knative"} /\ byProbe["path"] = ProbePaths
    OBVIOUS
  <2> HIDE DEF byProbe
  <2> QED BY <2>1 DEF Matches
<1>6. Matches(byModel, arrived)
        <=> arrived.path \in ModelPaths /\ arrived.header = n
  <2>1. /\ DOMAIN byModel = {"path", "header"}
        /\ byModel["path"] = ModelPaths /\ byModel["header"] = {n}
    OBVIOUS
  <2> HIDE DEF byModel
  <2> QED BY <2>1 DEF Matches
<1> HIDE DEF byToken, bySelf, byKubeflow, byProbe, byModel
<1> QED BY <1>1, <1>2, <1>3, <1>4, <1>5, <1>6 DEF LetThrough

(* With all objects in place exactly the rightful requests are admitted:    *)
(* the owner's, those of the namespace itself and of kubeflow, and          *)
(* Knative's probes.  What the policy for Kubeflow Pipelines lets through   *)
(* comes from kubeflow.                                                     *)
THEOREM AccessExact == Spec => []AccessAsIntended
<1>1. IInv => AccessAsIntended
  <2> SUFFICES ASSUME IInv, \A n \in Profiles : InPlace(n),
                      NEW n \in Profiles, NEW origin \in Origins(Profiles),
                      NEW r \in AllRequests, r.origin = origin
               PROVE  Admitted(r, Guards(IF origin \in Profiles
                                           THEN objects[origin] ELSE {},
                                         objects[n]))
                        <=> Rightful(r, n)
    BY DEF AccessAsIntended
  <2> DEFINE sender == IF origin \in Profiles THEN objects[origin] ELSE {}
             guards == Guards(sender, objects[n])
             arrived == Arrived(r, guards)
             policy == GetAuthorizationPolicy(n, owner[n], config.userIdPrefix,
                                              config.issuer)
             known == r.token # None => r.token.issuer = config.issuer
  <2>1. /\ r.origin \in Origins(Profiles) /\ r.header \in Profiles \cup {None}
        /\ r.mesh \in BOOLEAN /\ r.relayed \in BOOLEAN
        /\ r.relayed => r.mesh
        /\ r.header # None => r.origin \in Profiles
        /\ r.app \in {VisualizationServer, "notebook"}
    BY DEF AllRequests, Requests
  <2>2. /\ n \notin {None, "kubeflow", "knative", "outside"}
        /\ None \notin {"kubeflow", "knative", <<"kubeflow", "ml-pipeline">>}
        /\ config.issuer # None
    BY ObjectsAssumption DEF IInv, Typed
  <2>3. /\ guards.filters = Kind(sender, "EnvoyFilter")
        /\ guards.authentications = {RequestAuthentication(config.issuer)}
        /\ guards.peers = {GeneratePeerAuthentication}
        /\ policy \in guards.policies
        /\ guards.policies \subseteq {policy, GenerateKFPAuthorizationPolicy}
    <3>1. /\ guards.filters = Kind(sender, "EnvoyFilter")
          /\ guards.authentications = Kind(objects[n], "RequestAuthentication")
          /\ guards.peers = Kind(objects[n], "PeerAuthentication")
          /\ guards.policies = Kind(objects[n], "AuthorizationPolicy")
      BY DEF Guards
    <3> HIDE DEF guards
    <3> QED BY <3>1, InPlaceGuards
  <2> HIDE DEF guards
  <2>4. guards.authentications # {}
        /\ \A a \in guards.authentications : a.spec.issuer = config.issuer
    BY <2>3 DEF RequestAuthentication, Object
  <2>5. /\ arrived.issuer = IF r.token # None /\ known THEN config.issuer ELSE None
        /\ r.token # None /\ known => arrived.email = r.token.email
    BY <2>4 DEF Arrived
  <2>6. r.mesh =>
          /\ arrived.source = IF r.relayed THEN "knative" ELSE origin
          /\ arrived.principal = <<"kubeflow", "ml-pipeline">>
               => ~r.relayed /\ origin = "kubeflow"
    <3>1. arrived.principal = IF r.mesh /\ ~r.relayed
                                THEN <<r.origin, r.account>> ELSE None
      BY DEF Arrived
    <3>2. <<r.origin, r.account>> = <<"kubeflow", "ml-pipeline">>
            => r.origin = "kubeflow"
      OBVIOUS
    <3>3. arrived.source = IF r.relayed THEN "knative"
                           ELSE IF r.mesh THEN r.origin ELSE None
      BY DEF Arrived
    <3> HIDE DEF arrived
    <3> QED BY <2>2, <3>1, <3>2, <3>3
  <2>7. r.mesh => (arrived.header = n <=> origin = n)
    <3>1. r.mesh => arrived.header = Outbound(guards.filters, r.header)
      BY DEF Arrived
    <3> HIDE DEF arrived
    <3>2. CASE origin \in Profiles
      <4>1. /\ guards.filters = Kind(objects[origin], "EnvoyFilter")
            /\ guards.filters = {GenerateEnvoyFilter(origin)}
        BY <2>3, <3>2, InPlaceGuards
      <4>2. Outbound(guards.filters, r.header) = origin
        BY <3>2, <4>1, HeaderReplaced
      <4> QED BY <3>1, <4>2
    <3>3. CASE origin \notin Profiles
      <4>1. guards.filters = {}
        BY <2>3, <3>3 DEF Kind
      <4>2. Outbound(guards.filters, r.header) = None
        BY <2>1, <3>3, <4>1 DEF Outbound
      <4> QED BY <2>2, <3>1, <3>3, <4>2
    <3> QED BY <3>2, <3>3
  <2>8. arrived.path = r.path
    BY DEF Arrived
  <2> HIDE DEF arrived, policy
  <2>9. (\E p \in {p \in guards.policies : p.spec.selector \in {None, r.app}} :
           \E rule \in p.spec.rules : Matches(rule, arrived))
          <=> \/ LetThrough(arrived, n, owner[n], config.userIdPrefix, config.issuer)
              \/ /\ GenerateKFPAuthorizationPolicy \in guards.policies
                 /\ GenerateKFPAuthorizationPolicy.spec.selector \in {None, r.app}
                 /\ arrived.principal = <<"kubeflow", "ml-pipeline">>
    <3>1. policy.spec.selector = None
      BY DEF policy, GetAuthorizationPolicy, Object
    <3>2. (\E rule \in policy.spec.rules : Matches(rule, arrived))
            <=> LetThrough(arrived, n, owner[n], config.userIdPrefix, config.issuer)
      BY OwnerPolicyMatches DEF policy
    <3>3. (\E rule \in GenerateKFPAuthorizationPolicy.spec.rules :
             Matches(rule, arrived))
            <=> arrived.principal = <<"kubeflow", "ml-pipeline">>
      <4> DEFINE rule == [principal |-> {<<"kubeflow", "ml-pipeline">>}]
      <4>1. GenerateKFPAuthorizationPolicy.spec.rules = {rule}
        BY DEF GenerateKFPAuthorizationPolicy, Object
      <4>2. /\ DOMAIN rule = {"principal"}
            /\ rule["principal"] = {<<"kubeflow", "ml-pipeline">>}
        OBVIOUS
      <4> HIDE DEF rule
      <4> QED BY <4>1, <4>2 DEF Matches
    <3> HIDE DEF LetThrough
    <3> QED BY <2>3, <3>1, <3>2, <3>3
  <2>10. {p \in guards.policies : p.spec.selector \in {None, r.app}} # {}
    BY <2>3 DEF policy, GetAuthorizationPolicy, Object
  <2>11. Admitted(r, guards)
           <=> /\ known /\ r.mesh
               /\ \/ LetThrough(arrived, n, owner[n], config.userIdPrefix, config.issuer)
                  \/ /\ GenerateKFPAuthorizationPolicy \in guards.policies
                     /\ GenerateKFPAuthorizationPolicy.spec.selector \in {None, r.app}
                     /\ arrived.principal = <<"kubeflow", "ml-pipeline">>
    <3>1. (\A p \in guards.peers : p.spec.mtls = "STRICT" => r.mesh) <=> r.mesh
      BY <2>1, <2>3 DEF GeneratePeerAuthentication, Object
    <3>2. (r.token # None /\ guards.authentications # {} => arrived.issuer # None)
            <=> known
      BY <2>2, <2>4, <2>5
    <3>3. Admitted(r, guards)
            <=> /\ r.token # None /\ guards.authentications # {}
                     => arrived.issuer # None
                /\ \A p \in guards.peers : p.spec.mtls = "STRICT" => r.mesh
                /\ \E p \in {p \in guards.policies :
                               p.spec.selector \in {None, r.app}} :
                     \E rule \in p.spec.rules : Matches(rule, arrived)
      BY <2>10 DEF Admitted, arrived
    <3> HIDE DEF known
    <3> QED BY <2>9, <3>1, <3>2, <3>3
  <2>12. ASSUME known, r.mesh
         PROVE  LetThrough(arrived, n, owner[n], config.userIdPrefix, config.issuer)
                  <=> \/ r.token # None
                         /\ r.token.email = <<config.userIdPrefix, owner[n]>>
                      \/ ~r.relayed /\ r.origin \in {n, "kubeflow"}
                      \/ (r.relayed \/ r.origin = "knative") /\ r.path \in ProbePaths
                      \/ r.origin = n /\ r.path \in ModelPaths
    BY <2>2, <2>5, <2>6, <2>7, <2>8, <2>12 DEF LetThrough
  <2> QED BY <2>6, <2>11, <2>12 DEF Rightful, guards
<1> QED BY <1>1, Invariant, PTL

(* What a policy lets read and write is its folder, all else are names.     *)
LEMMA DocumentFolder ==
  ASSUME NEW spec, NEW s \in Document(spec), ~(s.actions \subseteq NameActions)
  PROVE  s.resource = Folder(spec.bucketName, spec.namespace)
<1> DEFINE folder == Folder(spec.bucketName, spec.namespace)
<1>1. \/ s.actions = {"s3:ListAllMyBuckets", "s3:GetBucketLocation"}
      \/ s.actions = {"s3:ListBucket"}
      \/ s = Allow({"s3:*"}, folder, {})
  BY DEF Document, Allow
<1>2. s = Allow({"s3:*"}, folder, {})
  BY <1>1 DEF NameActions
<1> HIDE DEF folder
<1>3. s.resource = folder
  BY <1>2 DEF Allow
<1> QED BY <1>3 DEF folder

LEMMA DocumentAllows ==
  ASSUME NEW spec
  PROVE  /\ \E s \in Document(spec) :
              /\ ~(s.actions \subseteq NameActions)
              /\ s.resource = Folder(spec.bucketName, spec.namespace)
         /\ \E s \in Document(spec) :
              /\ "s3:ListBucket" \in s.actions
              /\ s.resource = <<spec.bucketName>>
              /\ s.prefixes = {}
<1> DEFINE folder == Folder(spec.bucketName, spec.namespace)
           bucket == <<spec.bucketName>>
           all == Allow({"s3:*"}, folder, {})
           list == Allow({"s3:ListBucket"}, bucket, {})
<1>1. all \in Document(spec) /\ list \in Document(spec)
  BY DEF Document
<1> HIDE DEF folder, bucket
<1>2. all.actions = {"s3:*"} /\ all.resource = folder
  BY DEF Allow
<1>3. /\ list.actions = {"s3:ListBucket"} /\ list.resource = bucket
      /\ list.prefixes = {}
  BY DEF Allow
<1> HIDE DEF all, list
<1>4. ~(all.actions \subseteq NameActions)
  BY <1>2 DEF NameActions
<1>5. "s3:ListBucket" \in list.actions
  BY <1>3
<1>6. \E s \in Document(spec) :
        ~(s.actions \subseteq NameActions) /\ s.resource = folder
  BY <1>1, <1>2, <1>4
<1>7. \E s \in Document(spec) :
        "s3:ListBucket" \in s.actions /\ s.resource = bucket /\ s.prefixes = {}
  BY <1>1, <1>3, <1>5
<1> QED BY <1>6, <1>7 DEF folder, bucket

(* Roles and policies of several Configs, some with others' policies, let   *)
(* the pods of a profile read and write no objects but those in folders of  *)
(* their own namespace; of all else they can at most list the names.        *)
THEOREM FoldersIsolated == Spec => []FolderIsolation
<1>1. IInv => FolderIsolation
  <2> SUFFICES ASSUME IInv, NEW n \in Profiles,
                      NEW r \in Assumable(n, Stored("Role")),
                      NEW p \in Stored("Policy"),
                      Arn(r.spec.provider[1], p.name) \in r.spec.policies,
                      NEW s \in Document(p.spec),
                      ~(s.actions \subseteq NameActions)
               PROVE  \E c \in Configs : s.resource = Folder(c.bucketName, n)
    BY DEF FolderIsolation, FoldersOf, Statements
  <2>1. PICK m \in Profiles, c \in Configs :
          r = GenerateKFPIAMRoleACK(m, c.accountID, c.clusterOIDCIssuer,
                                    c.clusterName)
    BY DEF Assumable, Stored, Kind, IInv, OwnObjects, Own
  <2>2. PICK k \in Profiles, d \in Configs :
          p = GenerateKFPIAMPolicyACK(k, d.clusterName, d.bucketName)
    BY DEF Stored, Kind, IInv, OwnObjects, Own
  <2>3. /\ r.spec.subjects = {Subject(m)}
        /\ r.spec.policies = {Arn(c.accountID, PolicyName(c.clusterName, m))}
    BY <2>1 DEF GenerateKFPIAMRoleACK, Object
  <2>4. /\ p.name = PolicyName(d.clusterName, k)
        /\ p.spec.bucketName = d.bucketName /\ p.spec.namespace = k
    BY <2>2 DEF GenerateKFPIAMPolicyACK, Object
  <2>5. m = n
    <3>1. Subject(n) = Subject(m)
      BY <2>3 DEF Assumable
    <3> QED BY <3>1 DEF Subject
  <2>6. k = m
    <3>1. PolicyName(d.clusterName, k) = PolicyName(c.clusterName, m)
      <4>1. Arn(r.spec.provider[1], p.name) =
              Arn(c.accountID, PolicyName(c.clusterName, m))
        BY <2>3
      <4> QED BY <2>4, <4>1 DEF Arn
    <3> QED BY <3>1 DEF PolicyName
  <2>7. s.resource = Folder(p.spec.bucketName, p.spec.namespace)
    BY DocumentFolder
  <2> QED BY <2>4, <2>5, <2>6, <2>7
<1> QED BY <1>1, Invariant, PTL

(***************************************************************************)
(* What refers to what.                                                    *)
(***************************************************************************)
LEMMA ServicesRouted ==
  ASSUME IInv, NEW n \in Profiles, InPlace(n),
         NEW s \in Kind(objects[n], "Service")
  PROVE  Routed(objects[n], s)
<1>1. \/ s = GenerateKFPServices[1]
      \/ s = GenerateKFPServices[2]
  BY DEF IInv, OwnObjects, Own, Kind
<1> DEFINE account == GenerateServiceAccounts(n, config.accountID,
                                              config.clusterName)[1]
<1>2. /\ GenerateKFPDeployments[1] \in objects[n]
      /\ GenerateKFPDeployments[2] \in objects[n]
      /\ account \in objects[n]
  BY AllInPlace DEF Common
<1>3. account.kind = "ServiceAccount" /\ account.name = "default-editor"
  BY DEF GenerateServiceAccounts, Object
<1> HIDE DEF account
<1>4. ASSUME NEW i \in {1, 2}, s = GenerateKFPServices[i]
      PROVE  LET d == GenerateKFPDeployments[i]
             IN /\ d \in Kind(objects[n], "Deployment")
                /\ d.spec.app = s.spec.selector
                /\ d.spec.app = d.spec.matchLabels
                /\ d.spec.containerPort = s.spec.targetPort
                /\ d.spec.serviceAccountName = "default-editor"
  BY <1>2, <1>4
     DEF GenerateKFPServices, GenerateKFPDeployments, Object, Kind
<1> QED BY <1>1, <1>2, <1>3, <1>4 DEF Routed, Kind

LEMMA OneAndTwo ==
  ASSUME NEW a, NEW b, NEW c
  PROVE  <<a>> \o <<b, c>> = <<a, b, c>>
<1> DEFINE S == {a, b, c}
           s == <<a>> \o <<b, c>>
<1>1. <<a>> \in Seq(S) /\ <<b, c>> \in Seq(S) /\ <<a, b, c>> \in Seq(S)
  OBVIOUS
<1>2. Len(<<a>>) = 1 /\ Len(<<b, c>>) = 2 /\ Len(<<a, b, c>>) = 3
  OBVIOUS
<1>3. /\ s \in Seq(S) /\ Len(s) = 1 + 2
      /\ \A i \in 1 .. 1 + 2 : s[i] = IF i <= 1 THEN <<a>>[i] ELSE <<b, c>>[i - 1]
  BY <1>1, <1>2, ConcatProperties
<1> HIDE DEF S, s
<1>4. Len(s) = 3 /\ \A i \in 1 .. 3 : s[i] = <<a, b, c>>[i]
  BY <1>3
<1>5. s = <<a, b, c>>
  BY <1>1, <1>2, <1>3, <1>4, SeqEqual
<1> QED BY <1>5 DEF s

(* The artifact repository is the one of the Config.                        *)
LEMMA RepositoryFolder ==
  ASSUME IInv, NEW n \in Profiles, InPlace(n)
  PROVE  LET repository == CHOOSE c \in Kind(objects[n], "ConfigMap") :
                             c.name = "artifact-repositories"
         IN /\ ArtifactFolder(repository, n) = Folder(config.bucketName, n)
            /\ repository.spec.bucket = config.bucketName
<1> DEFINE map == GenerateKFPConfigmap(config.bucketName)[3]
           chosen == CHOOSE c \in Kind(objects[n], "ConfigMap") :
                       c.name = "artifact-repositories"
<1>1. /\ map.kind = "ConfigMap" /\ map.name = "artifact-repositories"
      /\ map.spec.bucket = config.bucketName
      /\ map.spec.keyFormat = <<"pipelines", "workflow.namespace">>
  BY DEF GenerateKFPConfigmap, Object
<1>2. map \in objects[n]
  BY AllInPlace DEF Common
<1> HIDE DEF map
<1>3. /\ chosen \in Kind(objects[n], "ConfigMap")
      /\ chosen.name = "artifact-repositories"
  BY <1>1, <1>2 DEF Kind
<1>4. chosen = map
  <2> HIDE DEF chosen
  <2> QED BY <1>1, <1>2, <1>3 DEF IInv, Distinct, Kind
<1>5. ArtifactFolder(map, n) = Folder(config.bucketName, n)
  <2> DEFINE key == [i \in DOMAIN map.spec.keyFormat |->
                       IF map.spec.keyFormat[i] = "workflow.namespace" THEN n
                       ELSE map.spec.keyFormat[i]]
             b == config.bucketName
  <2>1. key = <<"pipelines", n>>
    BY <1>1
  <2> HIDE DEF key
  <2>2. <<b>> \o <<"pipelines", n>> = <<b, "pipelines", n>>
    BY OneAndTwo
  <2>3. ArtifactFolder(map, n) = <<b>> \o key
    BY <1>1 DEF ArtifactFolder, key
  <2> QED BY <2>1, <2>2, <2>3 DEF Folder
<1> QED BY <1>1, <1>4, <1>5

(* The role that default-editor is annotated with leads to the folder.      *)
LEMMA RoleReachesFolder ==
  ASSUME IInv, NEW n \in Profiles, InPlace(n), config.provider = "AWS"
  PROVE  LET own == objects[n]
             named == {r \in Kind(own, "Role") :
                         \E a \in Kind(own, "ServiceAccount") :
                           Arn(r.spec.provider[1], r.name) \in a.spec.roles}
             allowed == Statements(Assumable(n, named), Stored("Policy"))
         IN /\ Folder(config.bucketName, n) \in FoldersOf(allowed)
            /\ \A prefix : Listed(allowed, config.bucketName, prefix)
<1> DEFINE own == objects[n]
           named == {r \in Kind(own, "Role") :
                       \E a \in Kind(own, "ServiceAccount") :
                         Arn(r.spec.provider[1], r.name) \in a.spec.roles}
           c == config
           role == GenerateKFPIAMRoleACK(n, c.accountID, c.clusterOIDCIssuer,
                                         c.clusterName)
           policy == GenerateKFPIAMPolicyACK(n, c.clusterName, c.bucketName)
           account == GenerateServiceAccounts(n, c.accountID, c.clusterName)[1]
<1>1. role \in own /\ policy \in own /\ account \in own
  BY AllInPlace DEF Common, OnAws
<1>2. /\ role.kind = "Role" /\ role.name = RoleName(c.clusterName, n)
      /\ role.spec.provider[1] = c.accountID
      /\ role.spec.subjects = {Subject(n)}
      /\ role.spec.policies = {Arn(c.accountID, PolicyName(c.clusterName, n))}
  BY DEF GenerateKFPIAMRoleACK, Object
<1>3. /\ policy.kind = "Policy" /\ policy.name = PolicyName(c.clusterName, n)
      /\ policy.spec.bucketName = c.bucketName /\ policy.spec.namespace = n
  BY DEF GenerateKFPIAMPolicyACK, Object
<1>4. /\ account.kind = "ServiceAccount"
      /\ account.spec.roles = {Arn(c.accountID, RoleName(c.clusterName, n))}
  BY DEF GenerateServiceAccounts, Object
<1> HIDE DEF role, policy, account
<1>5. role \in named
  BY <1>1, <1>2, <1>4 DEF Kind
<1>6. policy \in Stored("Policy")
  BY <1>1, <1>3 DEF Stored, Kind
<1> HIDE DEF named
<1>7. role \in Assumable(n, named)
  BY <1>2, <1>5 DEF Assumable
<1> DEFINE allowed == Statements(Assumable(n, named), Stored("Policy"))
<1>8. Document(policy.spec) \subseteq allowed
  BY <1>2, <1>3, <1>6, <1>7 DEF Statements
<1> HIDE DEF allowed
<1>9. Folder(c.bucketName, n) \in FoldersOf(allowed)
  <2>1. PICK s \in Document(policy.spec) :
          /\ ~(s.actions \subseteq NameActions)
          /\ s.resource = Folder(policy.spec.bucketName, policy.spec.namespace)
    BY DocumentAllows
  <2>2. s \in {t \in allowed : ~(t.actions \subseteq NameActions)}
    BY <1>8, <2>1
  <2>3. s.resource = Folder(c.bucketName, n)
    BY <1>3, <2>1
  <2> QED BY <2>2, <2>3 DEF FoldersOf
<1>10. ASSUME NEW prefix
       PROVE  Listed(allowed, c.bucketName, prefix)
  BY <1>3, <1>8, DocumentAllows DEF Listed
<1> QED BY <1>9, <1>10 DEF named, allowed

(* ReferencesResolve: once the objects of the current owner and Config are  *)
(* in place, services reach pods, pods have an account, and the account has *)
(* by its role and policy the folder where the workflows put artifacts,     *)
(* whatever roles and policies of earlier Configs are still stored.         *)
THEOREM ReferencesFit == Spec => []ReferencesResolve
<1>1. IInv => ReferencesResolve
  <2> SUFFICES ASSUME IInv, NEW n \in Profiles, InPlace(n)
               PROVE  Usable(n)
    BY DEF ReferencesResolve
  <2>1. \A s \in Kind(objects[n], "Service") : Routed(objects[n], s)
    BY ServicesRouted
  <2>2. ASSUME NEW d \in Kind(objects[n], "DestinationRule")
        PROVE  \E s \in Kind(objects[n], "Service") : s.name = d.spec.host
    <3>1. d = GenerateKFPDestinationRule
      BY DEF IInv, OwnObjects, Own, Kind
    <3>2. GenerateKFPServices[1] \in objects[n]
      BY AllInPlace DEF Common
    <3>3. /\ GenerateKFPServices[1].kind = "Service"
          /\ GenerateKFPServices[1].name = d.spec.host
      BY <3>1 DEF GenerateKFPServices, GenerateKFPDestinationRule, Object
    <3> QED BY <3>2, <3>3 DEF Kind
  <2>3. ASSUME NEW p \in Kind(objects[n], "PodDefault")
        PROVE  TokenFound(p)
    <3>1. p = GeneratePodDefault
      BY DEF IInv, OwnObjects, Own, Kind
    <3> DEFINE mount == <<"volume-kf-pipeline-token",
                          "/var/run/secrets/kubeflow/pipelines">>
               token == <<"volume-kf-pipeline-token", "token">>
    <3>2. /\ mount \in p.spec.mounts /\ token \in p.spec.tokens
          /\ p.spec.tokenPath = <<mount[2], token[2]>>
          /\ mount[1] = token[1]
      BY <3>1 DEF GeneratePodDefault, Object
    <3> HIDE DEF mount, token
    <3> QED BY <3>2 DEF TokenFound
  <2> DEFINE own == objects[n]
             named == {r \in Kind(own, "Role") :
                         \E a \in Kind(own, "ServiceAccount") :
                           Arn(r.spec.provider[1], r.name) \in a.spec.roles}
             repository == CHOOSE c \in Kind(own, "ConfigMap") :
                             c.name = "artifact-repositories"
             allowed == Statements(Assumable(n, named), Stored("Policy"))
             prefix == <<"pipelines", n, "*">>
  <2>4. config.provider = "AWS" =>
          /\ ArtifactFolder(repository, n) \in FoldersOf(allowed)
          /\ Listed(allowed, repository.spec.bucket, prefix)
    <3> HIDE DEF prefix
    <3>1. config.provider = "AWS" =>
            /\ Folder(config.bucketName, n) \in FoldersOf(allowed)
            /\ Listed(allowed, config.bucketName, prefix)
      BY RoleReachesFolder
    <3>2. /\ ArtifactFolder(repository, n) = Folder(config.bucketName, n)
          /\ repository.spec.bucket = config.bucketName
      BY RepositoryFolder
    <3> HIDE DEF allowed, repository
    <3> QED BY <3>1, <3>2
  <2>5. Usable(n) <=>
          /\ \A s \in Kind(own, "Service") : Routed(own, s)
          /\ \A d \in Kind(own, "DestinationRule") :
               \E s \in Kind(own, "Service") : s.name = d.spec.host
          /\ \A p \in Kind(own, "PodDefault") : TokenFound(p)
          /\ config.provider = "AWS" =>
               /\ ArtifactFolder(repository, n) \in FoldersOf(allowed)
               /\ Listed(allowed, repository.spec.bucket, prefix)
    BY DEF Usable
  <2> HIDE DEF allowed, repository, prefix
  <2> QED BY <2>1, <2>2, <2>3, <2>4, <2>5
<1> QED BY <1>1, Invariant, PTL
=============================================================================
