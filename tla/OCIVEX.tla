------------------------------- MODULE OCIVEX -------------------------------
(***************************************************************************)
(* The VEX lookup of one scanned image (internal/scanner/ocivex.go and     *)
(* ocivex_registry.go): a session with the image's registry that resolves  *)
(* the digest, lists the referrers, fetches the attestation manifests and  *)
(* their layers, and then annotates the findings of the scan.              *)
(*                                                                         *)
(* A document is modelled by what its parsing depends on, a request by the *)
(* kind of answer it gets.  The requests of a session follow one another;  *)
(* between any two of them a token may expire or the lookup run into its   *)
(* deadline, after which every request fails.                              *)
(***************************************************************************)
EXTENDS Integers, FiniteSets, SequencesExt, Lists

CONSTANTS Manifests,    \* the manifests of the registry
          Content,      \* the layers of each manifest
          Registries,   \* what the registry offers, one of these
          MaxReferrers, \* maxOCIVEXReferrers
          Findings      \* the findings a scan may end with, one at a time

ASSUME ContentAssumption ==
  /\ MaxReferrers \in Nat \ {0} /\ "none" \notin Manifests /\ DOMAIN Content = Manifests
  /\ \A m \in Manifests :
       /\ IsList(Content[m])
       /\ \A layer \in Range(Content[m]) :
            IsList(layer.blob.entries) /\ layer.blob.time \in Int

ASSUME RegistriesAssumption ==
  \A r \in Registries :
    /\ r.pinned \in {"tag", "sha256", "sha512"}
    /\ r.referrers \in Seq(Manifests) /\ r.page \in Nat /\ r.att \in Manifests \cup {"none"}

VARIABLES
  registry,   \* one of Registries
  request,    \* the request that is next, or where the lookup ended
  answered,   \* the request's 401 was answered
  header,     \* the session's Authorization header: "none", "valid" or "expired"
  late,       \* the deadline of the lookup has passed
  queue,      \* the referrers still to be fetched
  seen,       \* the manifests fetched or tried
  manifest,   \* the manifest whose layers are read,
  layers,     \* the layers of it still to be read,
  via,        \* and how it was found: "referrer" or "tag"
  attested,      \* some attestation layer was there
  warned,     \* the result has a warning
  statements, \* the statements of the result
  finding,    \* the finding to annotate
  vex         \* the statement it was annotated with, or none

session == <<answered, header, late>>
reading == <<queue, seen, manifest, layers, via>>
result == <<attested, warned, statements>>
scanned == <<registry, finding>>
vexVars == <<scanned, request, session, reading, result, vex>>

NoStatement == [ids |-> {}, purls |-> {}, scoped |-> FALSE, time |-> 0, from |-> "none"]

-----------------------------------------------------------------------------
(* Documents                                                               *)

\* parseAttestationStatement: a DSSE envelope, alone or in a Sigstore bundle,
\* with an in-toto payload.
EnvelopeOpens(blob) == blob.envelope \in {"dsse", "bundle"} /\ blob.payload = "in-toto"

\* cycloneDXVEXStatements: what is no CycloneDX document is of no interest, and
\* one that says it is and cannot be parsed is an error.
IsVEX(blob) == blob.predicate \in {"vex", "bom"}
IsForeign(blob) == EnvelopeOpens(blob) /\ blob.predicate = "foreign"

\* The purls an entry is scoped to: an affected ref is a purl, or a bom-ref of
\* a component with one; any other ref is dropped.
Purls(entry) == {r.purl : r \in {a \in entry.affects : a.kind \in {"purl", "bom-ref"}}}

StatementOf(entry, blob, m) ==
  [ids |-> entry.ids, purls |-> Purls(entry), scoped |-> entry.affects # {},
   time |-> blob.time, from |-> m]

\* One statement per entry with an id and an analysis, in document order.
StatementsIn(blob, m) ==
  LET told == Only(blob.entries, {e \in Range(blob.entries) : e.ids # {} /\ e.analysed})
  IN  [i \in DOMAIN told |-> StatementOf(told[i], blob, m)]

\* isAttestationLayer, and a declared predicate type that may be CycloneDX.
WorthFetching(layer) == layer.attestation /\ layer.declared \in {"none", "cyclonedx"}

-----------------------------------------------------------------------------
(* Matching                                                                *)

\* statementMatchesID: by the id of the finding or by one of its vendor's ids.
MatchesId(s, f) == s.ids \cap f.ids # {}

\* purlMatchesAny: the same package, and the same version if one is stated.
MatchesPurl(s, f) ==
  /\ f.base # ""
  /\ \E p \in s.purls : p.base = f.base /\ p.version \in {"", f.version}

Specific(s) == s.purls # {}

Applies(s, f) == MatchesId(s, f) /\ (Specific(s) => MatchesPurl(s, f))

\* Mutant: a newer statement wins, however wide it is.
Better_Newest(s, best) == best = NoStatement \/ s.time > best.time

Better(s, best) ==
  \/ best = NoStatement
  \/ Specific(s) /\ ~Specific(best)
  \/ Specific(s) = Specific(best) /\ s.time > best.time

\* selectOCIVEXStatement: one pass that keeps the best statement so far.
Select(f, all) ==
  LET best[n \in 0..Len(all)] ==
        IF n = 0 THEN NoStatement
        ELSE IF Applies(all[n], f) /\ Better(all[n], best[n - 1]) THEN all[n] ELSE best[n - 1]
  IN  best[Len(all)]

-----------------------------------------------------------------------------
VEXInit(registries, findings) ==
  /\ registry \in registries
  /\ finding \in findings
  /\ request = "parse"
  /\ answered = FALSE /\ header = "none" /\ late = FALSE
  /\ queue = <<>> /\ seen = {}
  /\ manifest = "none" /\ layers = <<>> /\ via = "referrer"
  /\ attested = FALSE /\ warned = FALSE /\ statements = <<>>
  /\ vex = NoStatement

\* The next request: its 401 has not been answered.
Ask(next) == request' = next /\ answered' = FALSE /\ UNCHANGED <<header, late>>

\* FetchVEX begins: a pinned image needs no lookup of its digest, and a digest
\* other than sha256 ends the lookup.
ParseReference ==
  /\ request = "parse"
  /\ Ask(CASE registry.pinned = "tag" -> "head"
           [] registry.pinned = "sha256" -> "referrers"
           [] registry.pinned = "sha512" -> "error")
  /\ UNCHANGED <<scanned, reading, result, vex>>

Requests == {"head", "tag", "referrers", "manifest", "att", "blob"}

\* What the registry holds under the name asked for.
Held ==
  CASE request \in {"head", "tag"} -> registry.image
    [] request = "referrers" -> registry.referrersAPI
    [] request = "manifest" -> manifest \notin registry.deleted
    [] request = "att" -> registry.att # "none"
    [] request = "blob" -> TRUE

\* A request without a header the registry accepts is answered with a challenge.
Unauthorized == ~late /\ registry.challenge # "none" /\ header # "valid"

\* Whether authorize has what the challenge asks for: credentials for Basic; a
\* token without them, if the registry gives one away, for Bearer.
CanAuthorize ==
  \/ registry.challenge = "basic" /\ registry.credentials
  \/ registry.challenge = "bearer" /\ (registry.credentials \/ registry.public)

\* do: the first 401 is answered with a new header, after which the request is
\* sent again.
Authorize ==
  /\ request \in Requests
  /\ Unauthorized /\ ~answered /\ CanAuthorize
  /\ header' = "valid" /\ answered' = TRUE
  /\ UNCHANGED <<scanned, request, late, reading, result, vex>>

\* What the session's caller gets in the end.  "garbled" is a body too long, not
\* of its digest or not parsable; "refused" a 400 or 405, "failed" any other
\* status, the second 401, or a challenge that could not be answered; "lost" the
\* client's own error.
Outcomes ==
  {"lost"} \cup
  (CASE late -> {}
     [] Unauthorized -> {"failed"}
     [] ~late /\ ~Unauthorized ->
          IF Held THEN {"ok", "garbled", "failed"}
          ELSE IF request = "referrers" THEN {"absent", "refused"} ELSE {"absent"})

TokenExpires ==
  /\ header = "valid"
  /\ registry.challenge = "bearer"
  /\ registry.shortLived
  /\ request \in Requests
  /\ header' = "expired"
  /\ UNCHANGED <<scanned, request, answered, late, reading, result, vex>>

DeadlinePasses ==
  /\ ~late
  /\ request \in Requests
  /\ late' = TRUE
  /\ UNCHANGED <<scanned, request, answered, header, reading, result, vex>>

-----------------------------------------------------------------------------
(* FetchVEX                                                                *)

\* resolveDigest: a HEAD that fails, for whatever reason, is followed by a GET.
ResolveByHead ==
  /\ request = "head"
  /\ \E o \in Outcomes : Ask(IF o = "ok" THEN "referrers" ELSE "tag")
  /\ UNCHANGED <<scanned, reading, result, vex>>

ResolveByGet ==
  /\ request = "tag"
  /\ \E o \in Outcomes : Ask(IF o = "ok" THEN "referrers" ELSE "error")
  /\ UNCHANGED <<scanned, reading, result, vex>>

UpTo(n, s) == SubSeq(s, 1, IF Len(s) > n THEN n ELSE Len(s))

\* Those that may be attestations (isAttestationArtifact).
Attestations(referrers) == Only(referrers, Manifests \ registry.artifacts)

\* Of the first page, up to the limit; nobody is told of the rest.
Listed == UpTo(MaxReferrers, Attestations(UpTo(registry.page, registry.referrers)))

\* referrers: a registry without the API has none.
ListReferrers ==
  /\ request = "referrers"
  /\ Ask("next")
  /\ \E o \in Outcomes :
       /\ queue' = IF o = "ok" THEN Listed ELSE <<>>
       /\ warned' = (warned \/ o \notin {"ok", "absent", "refused"})
  /\ UNCHANGED <<scanned, seen, manifest, layers, via, attested, statements, vex>>

TakeReferrer ==
  /\ request = "next"
  /\ queue # <<>>
  /\ queue' = Tail(queue)
  /\ IF Head(queue) \in seen
     THEN UNCHANGED <<request, session, seen, manifest>>
     ELSE seen' = seen \cup {Head(queue)} /\ manifest' = Head(queue) /\ Ask("manifest")
  /\ UNCHANGED <<scanned, layers, via, result, vex>>

\* collect: what is to be read of a manifest.
Collect(m) ==
  LET worth == Only(Content[m], {layer \in Range(Content[m]) : WorthFetching(layer)})
  IN  layers' = worth /\ attested' = (attested \/ worth # <<>>)

FetchReferrer ==
  /\ request = "manifest"
  /\ \E o \in Outcomes :
       IF o = "ok"
       THEN Collect(manifest) /\ via' = "referrer" /\ Ask("layer") /\ warned' = warned
       ELSE warned' = TRUE /\ Ask("next") /\ UNCHANGED <<layers, via, attested>>
  /\ UNCHANGED <<scanned, queue, seen, manifest, statements, vex>>

TurnToTag ==
  /\ request = "next"
  /\ queue = <<>>
  /\ Ask("att")
  /\ UNCHANGED <<scanned, reading, result, vex>>

\* Mutant: whether a referrer was the same manifest is not looked at.
FetchTagged_Again ==
  /\ request = "att"
  /\ \E o \in Outcomes :
       IF o = "ok"
       THEN /\ seen' = seen \cup {registry.att} /\ manifest' = registry.att /\ via' = "tag"
            /\ Collect(registry.att) /\ Ask("layer") /\ warned' = warned
       ELSE /\ warned' = (warned \/ o # "absent")
            /\ Ask("finish") /\ UNCHANGED <<seen, manifest, via, layers, attested>>
  /\ UNCHANGED <<scanned, queue, statements, vex>>

\* The manifest of cosign's .att tag, unless a referrer was the same one.
FetchTagged ==
  /\ request = "att"
  /\ \E o \in Outcomes :
       IF o = "ok" /\ registry.att \notin seen
       THEN /\ seen' = seen \cup {registry.att} /\ manifest' = registry.att /\ via' = "tag"
            /\ Collect(registry.att) /\ Ask("layer") /\ warned' = warned
       ELSE /\ warned' = (warned \/ o \notin {"ok", "absent"})
            /\ Ask("finish") /\ UNCHANGED <<seen, manifest, via, layers, attested>>
  /\ UNCHANGED <<scanned, queue, statements, vex>>

NextLayer ==
  /\ request = "layer"
  /\ Ask(IF layers # <<>> THEN "blob" ELSE IF via = "referrer" THEN "next" ELSE "finish")
  /\ UNCHANGED <<scanned, reading, result, vex>>

\* A layer that cannot be fetched or parsed is a warning, a foreign predicate
\* is not.
ReadLayer ==
  LET blob == Head(layers).blob
  IN  /\ request = "blob"
      /\ layers' = Tail(layers)
      /\ Ask("layer")
      /\ \E o \in Outcomes :
           IF o = "ok" /\ EnvelopeOpens(blob) /\ IsVEX(blob)
           THEN statements' = statements \o StatementsIn(blob, manifest) /\ warned' = warned
           ELSE statements' = statements /\ warned' = (warned \/ o # "ok" \/ ~IsForeign(blob))
      /\ UNCHANGED <<scanned, queue, seen, manifest, via, attested, vex>>

\* Nothing found and nothing failed: the image has no attestations.
EndLookup ==
  /\ request = "finish"
  /\ Ask(IF attested \/ warned THEN "annotate" ELSE "none")
  /\ UNCHANGED <<scanned, reading, result, vex>>

\* applyOCIVEX and annotateOCIVEX: errors and warnings are only logged.
Annotate ==
  /\ request = "annotate"
  /\ vex' = Select(finding, statements)
  /\ Ask("done")
  /\ UNCHANGED <<scanned, reading, result>>

Lookup ==
  \/ ParseReference
  \/ Authorize
  \/ ResolveByHead
  \/ ResolveByGet
  \/ ListReferrers
  \/ TakeReferrer
  \/ FetchReferrer
  \/ TurnToTag
  \/ FetchTagged
  \/ NextLayer
  \/ ReadLayer
  \/ EndLookup
  \/ Annotate

VEXEnded == request \in {"done", "none", "error"}

VEXNext == Lookup \/ TokenExpires \/ DeadlinePasses

-----------------------------------------------------------------------------
(***************************************************************************)
(* A lookup that warns of nothing missed nothing: it has the statements of *)
(* every attestation manifest that is reachable as a referrer or by its    *)
(* tag, of each of them once although both ways may lead to it, and it     *)
(* says that there are none only of an image that has none.  Excepted are  *)
(* the attestations behind the limit of the list or on further pages of    *)
(* it, which the program leaves out without a word.                        *)
(***************************************************************************)
Reachable ==
  (IF registry.referrersAPI THEN Range(Attestations(registry.referrers)) ELSE {})
    \cup ({registry.att} \ {"none"})

Beyond == Reachable \ (Range(Listed) \cup {registry.att})

StatementsOf(m) ==
  FlattenSeq([i \in DOMAIN Content[m] |->
    IF WorthFetching(Content[m][i]) /\ IsVEX(Content[m][i].blob)
    THEN StatementsIn(Content[m][i].blob, m) ELSE <<>>])

LookupIsComplete ==
  request = "none" \/ (request \in {"annotate", "done"} /\ ~warned) =>
    /\ \A m \in Manifests :
         Only(statements, {s \in Range(statements) : s.from = m}) =
           IF m \in Reachable \ Beyond THEN StatementsOf(m) ELSE <<>>
    /\ Beyond # {} => \/ Len(registry.referrers) > registry.page
                      \/ Len(Attestations(registry.referrers)) > MaxReferrers

(***************************************************************************)
(* The finding carries the best statement that was read: one that names    *)
(* it, for its package if any does so and for the image otherwise, and of  *)
(* those a newest; whatever the order in which the documents came.         *)
(***************************************************************************)
AnnotationIsBest ==
  LET read == {s \in Range(statements) : Applies(s, finding)}
  IN  request = "done" =>
        /\ vex = NoStatement <=> read = {}
        /\ vex # NoStatement =>
             /\ vex \in read
             /\ \A s \in read : Specific(s) => Specific(vex)
             /\ \A s \in read : Specific(s) = Specific(vex) => s.time <= vex.time
=============================================================================
