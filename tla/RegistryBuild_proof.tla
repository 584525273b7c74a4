------------------------- MODULE RegistryBuild_proof -------------------------
(***************************************************************************)
(* Safety of Build for any hosts, options and images: an inductive         *)
(* invariant that says, for every point of Build, which source may have    *)
(* given a host its credential and what the sources passed so far owe.     *)
(***************************************************************************)
EXTENDS RegistryBuild, TLAPS

\* The points of Build before the tokens of a cloud may be there.
BeforeGcloud == {"local", "gcloud"}
BeforeEcr == BeforeGcloud \cup {"role"}

\* A secret is a host's credential from the moment the local sources are read,
\* and no other host has one.
SecretsWin ==
  /\ step = "local" => \A h \in Hosts : auths[h] = "none"
  /\ step # "local" => \A h \in Hosts : auths[h] = "secret" <=> h \in secrets

\* A token belongs to a host of its own cloud, was fetched by the step for that
\* cloud, and as the identity that step runs as.
TokensInPlace ==
  \A h \in Hosts :
    /\ auths[h] = "gcloud" => h \in GAR /\ step \notin BeforeGcloud
    /\ auths[h] \in Identities =>
         h \in ECR \ todo /\ auths[h] = identity /\ options.ecr /\ step \notin BeforeEcr

\* What the gcloud step owes the hosts of the images.
GcloudPaid ==
  step \notin BeforeGcloud /\ options.gcloud =>
    \A h \in (images \cap GAR) \ secrets : auths[h] = "gcloud" \/ "gcloud" \in warned

\* What the ECR step owes them, and what AssumeRole owes when it fell back.
EcrPaid ==
  /\ todo \subseteq AskedFor
  /\ IF step = "ecr" THEN options.ecr ELSE todo = {}
  /\ step \notin BeforeEcr /\ options.ecr =>
       /\ \A h \in AskedFor : h \in todo \/ auths[h] \in Identities \/ h \in warned
       /\ options.role => identity = "role" \/ "role" \in warned

\* Who has the directory.
DirOwned ==
  /\ step \in BeforeEcr \cup {"ecr", "dir"} => dir = "none"
  /\ step = "fill" => dir = "made"
  /\ step = "error" => dir # "made"
  /\ step = "ok" /\ dir = "made" => helpers = KeptHelpers

Inv == TypeOK /\ SecretsWin /\ TokensInPlace /\ GcloudPaid /\ EcrPaid /\ DirOwned

USE DEF BeforeGcloud, BeforeEcr, inputs, Identities, Tokens

(***************************************************************************)
(* The ambient config names registry hosts only, however it spells them.   *)
(***************************************************************************)
LEMMA AmbientHosts == ambient \in Ambients =>
                        ambient.auths \subseteq Hosts /\ ambient.helpers \subseteq HelperKeys
  BY DEF Ambients, NoConfig

(***************************************************************************)
(* Build starts with no credential, no debt and no directory.              *)
(***************************************************************************)
LEMMA InitInv == Init => Inv
  BY DEF Init, Inv, TypeOK, Sources, SecretsWin, TokensInPlace, GcloudPaid, EcrPaid, AskedFor, DirOwned

(***************************************************************************)
(* The local sources: only secrets and ambient credentials.                *)
(***************************************************************************)
LEMMA LoadLocalInv == ASSUME Inv, LoadLocal PROVE Inv'
<1> USE DEF Inv, TypeOK, LoadLocal, Warn
<1>1. TypeOK'
  BY DEF Sources
<1>2. SecretsWin' /\ TokensInPlace'
  BY DEF SecretsWin, TokensInPlace
<1>3. GcloudPaid' /\ EcrPaid' /\ DirOwned'
  BY DEF GcloudPaid, EcrPaid, DirOwned, AskedFor
<1> QED
  BY <1>1, <1>2, <1>3

(***************************************************************************)
(* The gcloud step gives a token to every GAR host without a secret, or    *)
(* says that it has none.                                                  *)
(***************************************************************************)
LEMMA GcloudTokenInv == ASSUME Inv, GcloudToken PROVE Inv'
<1> USE HostsAssumption DEF Inv, TypeOK, GcloudToken, Warn, WantsGcloud
<1>1. TypeOK'
  BY DEF Sources
<1>2. SecretsWin' /\ TokensInPlace'
  BY DEF SecretsWin, TokensInPlace
<1>3. GcloudPaid'
  BY DEF GcloudPaid
<1>4. EcrPaid' /\ DirOwned'
  BY DEF EcrPaid, DirOwned, AskedFor
<1> QED
  BY <1>1, <1>2, <1>3, <1>4

(***************************************************************************)
(* The identity is settled before the first ECR token is asked for.        *)
(***************************************************************************)
LEMMA AssumeRoleInv == ASSUME Inv, AssumeRole PROVE Inv'
<1> USE HostsAssumption DEF Inv, TypeOK, AssumeRole, Warn, AskedFor
<1>1. TypeOK'
  OBVIOUS
<1>2. SecretsWin' /\ TokensInPlace'
  BY DEF SecretsWin, TokensInPlace
<1>3. GcloudPaid' /\ DirOwned'
  BY DEF GcloudPaid, DirOwned
<1>4. EcrPaid'
  BY DEF EcrPaid
<1> QED
  BY <1>1, <1>2, <1>3, <1>4

(***************************************************************************)
(* Each host asked for gets its token or its warning, and no other host is *)
(* touched.                                                                *)
(***************************************************************************)
LEMMA EcrTokenInv == ASSUME Inv, EcrToken PROVE Inv'
<1> USE HostsAssumption DEF Inv, TypeOK, EcrToken, Warn, AskedFor
<1>1. TypeOK'
  BY DEF Sources
<1>2. SecretsWin'
  BY DEF SecretsWin, EcrPaid
<1>3. TokensInPlace'
  <2>1. CASE auths' = auths
    BY <2>1 DEF TokensInPlace, EcrPaid
  <2>2. ASSUME NEW h \in todo, todo' = todo \ {h}, auths' = [auths EXCEPT ![h] = identity],
               step' = step
        PROVE  TokensInPlace'
    <3>1. h \in ECR \ GAR /\ options.ecr /\ step = "ecr"
      BY <2>2 DEF EcrPaid
    <3>2. auths'[h] = identity /\ \A g \in Hosts \ {h} : auths'[g] = auths[g]
      BY <2>2, <3>1
    <3> QED
      BY <2>2, <3>1, <3>2 DEF TokensInPlace
  <2> QED
    BY <2>1, <2>2
<1>4. GcloudPaid' /\ DirOwned'
  BY DEF GcloudPaid, DirOwned, TokensInPlace, EcrPaid
<1>5. EcrPaid'
  BY DEF EcrPaid
<1> QED
  BY <1>1, <1>2, <1>3, <1>4, <1>5

(***************************************************************************)
(* The directory is made, filled and given away, or removed.               *)
(***************************************************************************)
LEMMA DirInv == ASSUME Inv, MakeDir \/ FillDir PROVE Inv'
<1> USE DEF Inv, TypeOK, MakeDir, FillDir
<1>1. TypeOK'
  BY AmbientHosts DEF KeptHelpers
<1>2. SecretsWin' /\ TokensInPlace' /\ GcloudPaid'
  BY DEF SecretsWin, TokensInPlace, GcloudPaid
<1>3. EcrPaid' /\ DirOwned'
  BY DEF EcrPaid, DirOwned, AskedFor, KeptHelpers, Resolved
<1> QED
  BY <1>1, <1>2, <1>3

(***************************************************************************)
(* Every step of Build preserves the invariant.                            *)
(***************************************************************************)
LEMMA NextInv == Inv /\ [Next]_vars => Inv'
<1>1. ASSUME Inv, UNCHANGED vars PROVE Inv'
  BY <1>1 DEF vars, Inv, TypeOK, SecretsWin, TokensInPlace, GcloudPaid, EcrPaid, AskedFor,
              DirOwned, KeptHelpers, Resolved
<1> QED
  BY <1>1, LoadLocalInv, GcloudTokenInv, AssumeRoleInv, EcrTokenInv, DirInv DEF Next

(***************************************************************************)
(* The invariant holds in every reachable state of Build.                  *)
(***************************************************************************)
THEOREM Invariance == Spec => []Inv
  BY InitInv, NextInv, PTL DEF Spec

(***************************************************************************)
(* Type correctness of Build.                                              *)
(***************************************************************************)
THEOREM TypeCorrect == Spec => []TypeOK
  BY Invariance, PTL DEF Inv

(***************************************************************************)
(* Whichever sources fail, no image's registry goes without its token      *)
(* unnoticed.                                                              *)
(***************************************************************************)
THEOREM GapsAreWarned == Spec => []NoSilentGap
<1>1. Inv => NoSilentGap
  BY DEF Inv, TypeOK, TokensInPlace, GcloudPaid, EcrPaid, AskedFor, NoSilentGap
<1> QED
  BY <1>1, Invariance, PTL

(***************************************************************************)
(* The written config has no credential helper beside the credential of    *)
(* the host it is keyed by, and an error leaves no directory.              *)
(***************************************************************************)
THEOREM HelpersAreKeptApart == Spec => []HelpersNeverShadow
<1>1. Inv => HelpersNeverShadow
  BY AmbientHosts DEF Inv, TypeOK, DirOwned, KeptHelpers, Resolved, HelpersNeverShadow, HelperKeys
<1> QED
  BY <1>1, Invariance, PTL

(***************************************************************************)
(* No step of Build takes a credential away, replaces a secret or replaces *)
(* a token.                                                                *)
(***************************************************************************)
THEOREM CredentialsImprove == Spec => CredentialsOnlyImprove
<1>1. ASSUME Inv, [Next]_vars, NEW h \in Hosts, auths'[h] # auths[h]
      PROVE  \/ auths[h] = "none"
             \/ auths[h] = "ambient" /\ auths'[h] \in Tokens
  <2>1. auths \in [Hosts -> Sources] /\ identity \in Identities
    BY <1>1 DEF Inv, TypeOK
  <2>2. CASE LoadLocal
    BY <1>1, <2>2 DEF LoadLocal, Inv, SecretsWin
  <2>3. CASE GcloudToken
    <3>1. step = "gcloud" /\ h \notin secrets /\ auths'[h] = "gcloud"
      BY <1>1, <2>1, <2>3 DEF GcloudToken
    <3>2. auths[h] \in {"none", "ambient"}
      BY <1>1, <2>1, <3>1 DEF Inv, SecretsWin, TokensInPlace, Sources
    <3> QED
      BY <3>1, <3>2
  <2>4. CASE EcrToken
    <3>1. h \in todo /\ auths'[h] = identity
      BY <1>1, <2>1, <2>4 DEF EcrToken
    <3>2. h \in ECR \ GAR /\ h \notin secrets /\ step = "ecr"
      BY <1>1, <2>4, <3>1, HostsAssumption DEF EcrToken, Inv, EcrPaid, AskedFor
    <3>3. auths[h] \in {"none", "ambient"}
      BY <1>1, <2>1, <3>1, <3>2 DEF Inv, SecretsWin, TokensInPlace, Sources
    <3> QED
      BY <2>1, <3>1, <3>3
  <2>5. CASE AssumeRole \/ MakeDir \/ FillDir \/ UNCHANGED vars
    BY <1>1, <2>5 DEF AssumeRole, MakeDir, FillDir, vars
  <2> QED
    BY <1>1, <2>2, <2>3, <2>4, <2>5 DEF Next
<1>2. Inv /\ [Next]_vars => [\A h \in Hosts : auths'[h] # auths[h] =>
        \/ auths[h] = "none"
        \/ auths[h] = "ambient" /\ auths'[h] \in Tokens]_vars
  BY <1>1
<1> QED
  BY <1>2, Invariance, PTL DEF Spec, CredentialsOnlyImprove
=============================================================================
