---------------------------- MODULE RegistryBuild ----------------------------
(***************************************************************************)
(* Build of internal/registry/builder.go: the credentials a run pulls its  *)
(* images with, merged from the local Docker config, the deployment's pull *)
(* secrets, a gcloud access token and ECR tokens of the aws CLI, and then  *)
(* written into a temporary DOCKER_CONFIG directory.                       *)
(*                                                                         *)
(* A credential is modelled by the source it came from; a host stands for  *)
(* its normalized name.  normalizeHost is applied to the keys of auths and *)
(* of the secrets, not to those of credHelpers, which therefore keep their *)
(* spelling.  Every external command may fail, and so may every step that  *)
(* makes the directory.                                                    *)
(***************************************************************************)
EXTENDS FiniteSets

CONSTANTS Hosts,     \* registry hosts
          GAR,       \* those Classify calls KindGAR
          ECR,       \* those it calls KindECR
          Respelled  \* those that a key of credHelpers may spell otherwise

ASSUME HostsAssumption ==
  /\ IsFiniteSet(Hosts)
  /\ GAR \subseteq Hosts /\ ECR \subseteq Hosts /\ Respelled \subseteq Hosts
  /\ GAR \cap ECR = {}

\* The identity an aws command runs as: what the environment already has, the
\* --aws-profile, or the assumed --aws-role-arn.
Identities == {"default", "profile", "role"}
Tokens == {"gcloud"} \cup Identities
Sources == {"none", "ambient", "secret"} \cup Tokens

Options == [gcloud : BOOLEAN, ecr : BOOLEAN, role : BOOLEAN, profile : BOOLEAN]

\* A key of credHelpers as it is written: a host's normalized name, or another
\* spelling of it that normalizeHost would map to the same name (with a scheme
\* or a path, as "https://index.docker.io/v1/" of Docker Hub).
HelperKeys == [host : Hosts, spelled : {"name"}] \cup [host : Respelled, spelled : {"url"}]

\* The ambient Docker config: its auths, normalized when it is read, and its
\* credHelpers, left as they are.
NoConfig == [found |-> "absent", auths |-> {}, helpers |-> {}]
Ambients == [found : {"valid"}, auths : SUBSET Hosts, helpers : SUBSET HelperKeys]
              \cup {NoConfig, [NoConfig EXCEPT !.found = "unreadable"]}

VARIABLES
  options,  \* Options
  images,   \* the hosts of the inventory's images
  ambient,  \* the ambient Docker config
  secrets,  \* the hosts of secretAuths
  step,     \* where Build is
  auths,    \* the source of each host's credential
  identity, \* what the ECR calls run as
  todo,     \* the ECR hosts still to be asked for
  warned,   \* the sources and hosts a warning names
  dir,      \* the temporary directory
  helpers   \* the credHelpers of the config.json in it

inputs == <<options, images, ambient, secrets>>
vars == <<inputs, step, auths, identity, todo, warned, dir, helpers>>

(***************************************************************************)
(* Type invariant of Build.                                                *)
(***************************************************************************)
TypeOK ==
  /\ options \in Options
  /\ images \in SUBSET Hosts /\ secrets \in SUBSET Hosts
  /\ ambient \in Ambients
  /\ step \in {"local", "gcloud", "role", "ecr", "dir", "fill", "ok", "error"}
  /\ auths \in [Hosts -> Sources]
  /\ identity \in Identities
  /\ todo \in SUBSET (ECR \ secrets)
  /\ warned \in SUBSET ({"ambient", "gcloud", "role"} \cup ECR)
  /\ dir \in {"none", "made", "removed"}
  /\ helpers \in SUBSET HelperKeys

Init ==
  /\ options \in Options
  /\ images \in SUBSET Hosts
  /\ ambient \in Ambients
  /\ secrets \in SUBSET Hosts
  /\ step = "local"
  /\ auths = [h \in Hosts |-> "none"]
  /\ identity = "default"
  /\ todo = {}
  /\ warned = {}
  /\ dir = "none"
  /\ helpers = {}

Warn(what) == warned' = warned \cup what

-----------------------------------------------------------------------------
\* The ambient config, overlaid with the secrets; one that cannot be read is
\* ignored with a warning.
LoadLocal ==
  /\ step = "local"
  /\ auths' = [h \in Hosts |-> IF h \in secrets THEN "secret"
                               ELSE IF h \in ambient.auths THEN "ambient" ELSE "none"]
  /\ Warn(IF ambient.found = "unreadable" THEN {"ambient"} ELSE {})
  /\ step' = "gcloud"
  /\ UNCHANGED <<inputs, identity, todo, dir, helpers>>

WantsGcloud == options.gcloud /\ images \cap GAR # {}

\* Mutant: the token replaces the secrets too.
GcloudToken_OverSecrets ==
  /\ step = "gcloud"
  /\ \/ WantsGcloud /\ warned' = warned
        /\ auths' = [h \in Hosts |-> IF h \in images \cap GAR THEN "gcloud" ELSE auths[h]]
     \/ WantsGcloud /\ Warn({"gcloud"}) /\ auths' = auths
     \/ ~WantsGcloud /\ UNCHANGED <<auths, warned>>
  /\ step' = "role"
  /\ UNCHANGED <<inputs, identity, todo, dir, helpers>>

\* One token for every GAR host without a secret.
GcloudToken ==
  /\ step = "gcloud"
  /\ \/ WantsGcloud /\ warned' = warned
        /\ auths' = [h \in Hosts |-> IF h \in (images \cap GAR) \ secrets THEN "gcloud" ELSE auths[h]]
     \/ WantsGcloud /\ Warn({"gcloud"}) /\ auths' = auths
     \/ ~WantsGcloud /\ UNCHANGED <<auths, warned>>
  /\ step' = "role"
  /\ UNCHANGED <<inputs, identity, todo, dir, helpers>>

AskedFor == (images \cap ECR) \ secrets

\* awsRoleEnv, also when no image is on ECR.  A role that cannot be assumed
\* leaves the environment empty, and the ECR calls are made all the same.
AssumeRole ==
  /\ step = "role"
  /\ \/ /\ ~options.ecr
        /\ step' = "dir"
        /\ UNCHANGED <<identity, todo, warned>>
     \/ /\ options.ecr
        /\ step' = "ecr"
        /\ todo' = AskedFor
        /\ \/ /\ ~options.role
              /\ identity' = IF options.profile THEN "profile" ELSE "default"
              /\ warned' = warned
           \/ options.role /\ identity' = "role" /\ warned' = warned
           \/ options.role /\ identity' = "default" /\ Warn({"role"})
  /\ UNCHANGED <<inputs, auths, dir, helpers>>

\* Mutant: a failed call is not warned about.
EcrToken_Silent ==
  /\ step = "ecr"
  /\ \/ /\ todo = {}
        /\ step' = "dir"
        /\ UNCHANGED <<auths, todo, warned>>
     \/ \E h \in todo :
          /\ todo' = todo \ {h}
          /\ auths' \in {[auths EXCEPT ![h] = identity], auths}
          /\ UNCHANGED <<step, warned>>
  /\ UNCHANGED <<inputs, identity, dir, helpers>>

\* One token per ECR host without a secret; the order of the hosts is of no
\* consequence.
EcrToken ==
  /\ step = "ecr"
  /\ \/ /\ todo = {}
        /\ step' = "dir"
        /\ UNCHANGED <<auths, todo, warned>>
     \/ \E h \in todo :
          /\ todo' = todo \ {h}
          /\ \/ auths' = [auths EXCEPT ![h] = identity] /\ warned' = warned
             \/ auths' = auths /\ Warn({h})
          /\ step' = step
  /\ UNCHANGED <<inputs, identity, dir, helpers>>

-----------------------------------------------------------------------------
Resolved == {h \in Hosts : auths[h] # "none"}

\* Without any credential there is no directory: Trivy uses its ambient one.
MakeDir ==
  /\ step = "dir"
  /\ \/ Resolved = {} /\ step' = "ok" /\ dir' = dir
     \/ Resolved # {} /\ step' = "fill" /\ dir' = "made"
     \/ Resolved # {} /\ step' = "error" /\ dir' = dir
  /\ UNCHANGED <<inputs, auths, identity, todo, warned, helpers>>

\* Mutant: only the hosts of the secrets lose their helpers.
KeptHelpers_Secrets == {k \in ambient.helpers : ~(k.spelled = "name" /\ k.host \in secrets)}

\* dropResolvedCredHelpers: a helper would be asked instead of the credential.
\* It looks the normalized hosts up among the keys as they are written.
KeptHelpers == {k \in ambient.helpers : ~(k.spelled = "name" /\ k.host \in Resolved)}

\* chmod, marshal and write config.json; any failure removes the directory.
FillDir ==
  /\ step = "fill"
  /\ \/ step' = "ok" /\ dir' = dir /\ helpers' = KeptHelpers
     \/ step' = "error" /\ dir' = "removed" /\ helpers' = helpers
  /\ UNCHANGED <<inputs, auths, identity, todo, warned>>

Next == LoadLocal \/ GcloudToken \/ AssumeRole \/ EcrToken \/ MakeDir \/ FillDir

Spec == Init /\ [][Next]_vars

-----------------------------------------------------------------------------
(***************************************************************************)
(* "Each source degrades gracefully" and "a cluster secret always wins":   *)
(* from one source to the next a host never loses its credential, a secret *)
(* is never replaced, and a token is never replaced by another one.        *)
(***************************************************************************)
CredentialsOnlyImprove ==
  [][\A h \in Hosts : auths'[h] # auths[h] =>
       \/ auths[h] = "none"
       \/ auths[h] = "ambient" /\ auths'[h] \in Tokens]_vars

(***************************************************************************)
(* No image goes without its registry's token unnoticed: when Build ended  *)
(* well, each GAR or ECR host of an image has its secret, a token of its   *)
(* own cloud, or a warning that names why not, whichever of the other      *)
(* sources failed before.                                                  *)
(***************************************************************************)
NoSilentGap ==
  step = "ok" => \A h \in images \ secrets :
    /\ h \in GAR /\ options.gcloud => auths[h] = "gcloud" \/ "gcloud" \in warned
    /\ h \in ECR /\ options.ecr => auths[h] \in Identities \/ h \in warned
    /\ h \in ECR /\ auths[h] \in Identities \ {"role"} /\ options.role => "role" \in warned

(***************************************************************************)
(* Docker asks a host's credential helper before its static credential.    *)
(* Whichever sources failed, a helper that is left beside a credential has *)
(* a key that is not the normalized name of its host; those are beyond     *)
(* dropResolvedCredHelpers, although its comment speaks of "hosts we have  *)
(* a resolved static credential for".  A host that is left without a       *)
(* credential keeps every helper it had.  A directory is left only by a    *)
(* Build that returns it to its caller, who removes it.                    *)
(***************************************************************************)
HelpersNeverShadow ==
  /\ step = "ok" /\ dir = "made" =>
       \A k \in HelperKeys :
         /\ k \in helpers /\ auths[k.host] # "none" => k.spelled = "url"
         /\ k \in ambient.helpers /\ auths[k.host] = "none" => k \in helpers
  /\ step = "error" => dir # "made"

(***************************************************************************)
(* "--aws-role-arn <arn> assumes the AWS role for every AWS call the       *)
(* plugin makes: ... and the aws CLI's ECR token fetch": with a role, no   *)
(* ECR token is one of another identity.                                   *)
(***************************************************************************)
RoleForEveryCall ==
  options.role => \A h \in Hosts : auths[h] \notin {"default", "profile"}
=============================================================================
