---------------------------- MODULE Survey_proof ----------------------------
(***************************************************************************)
(* Safety of the parts of a run around the image scans, for any inputs:    *)
(* the VEX statements of an image, the rating, and the theorems of a run.  *)
(* What the collections need is in Collections_proof and Kubernetes_proof. *)
(***************************************************************************)
EXTENDS Survey, Kubernetes_proof

-----------------------------------------------------------------------------
(* The VEX statements of an image                                          *)

(***************************************************************************)
(* The loop of selectOCIVEXStatement has a result, step by step.           *)
(***************************************************************************)
LEMMA SelectRuns ==
  ASSUME NEW S, NEW all \in Seq(S), NEW f
  PROVE  \E best :
           /\ best[0] = NoStatement
           /\ \A n \in 1..Len(all) :
                best[n] = IF Applies(all[n], f) /\ Better(all[n], best[n - 1])
                          THEN all[n] ELSE best[n - 1]
           /\ Select(f, all) = best[Len(all)]
<1> DEFINE N == Len(all)
           A == S \cup {NoStatement}
           grow(n, before) == IF Applies(all[n], f) /\ Better(all[n], before) THEN all[n] ELSE before
           loop(g) == [n \in 0..N |-> IF n = 0 THEN NoStatement ELSE grow(n, g[n - 1])]
           best == CHOOSE g : g = loop(g)
           h == [p \in (1..N) \X A |-> grow(p[1], p[2])]
<1>1. N \in Nat /\ NoStatement \in A /\ \A n \in 1..N : all[n] \in S
  OBVIOUS
<1>2. h \in [(1..N) \X A -> A]
  BY <1>1
<1>3. PICK g \in [0..N -> A] : Loop(g, N, NoStatement, h)
  <2> HIDE DEF h, A, N
  <2> QED
    BY <1>1, <1>2, LoopRuns
<1>4. g = loop(g)
  <2>1. \A n \in 1..N : g[n] = grow(n, g[n - 1])
    <3>1. ASSUME NEW n \in 1..N PROVE g[n] = grow(n, g[n - 1])
      <4>1. g[n - 1] \in A
        <5>1. n - 1 \in 0..N
          BY <1>1
        <5> HIDE DEF A, N, h
        <5> QED
          BY <1>3, <5>1
      <4>2. <<n, g[n - 1]>> \in (1..N) \X A
        BY <4>1, Zenon
      <4>3. h[<<n, g[n - 1]>>] = grow(n, g[n - 1])
        BY <4>2
      <4> QED
        BY <1>3, <4>3 DEF Loop
    <3> QED
      BY <3>1
  <2> HIDE DEF grow
  <2> QED
    BY <1>3, <2>1 DEF Loop
<1>5. best = loop(best)
  <2> HIDE DEF loop
  <2> QED
    BY <1>4, Zenon
<1>6. Select(f, all) = best[N]
  BY DEF Select
<1> HIDE DEF best
<1>7. best[0] = NoStatement /\ \A n \in 1..N : best[n] = grow(n, best[n - 1])
  <2> HIDE DEF grow
  <2>1. best[0] = NoStatement
    BY <1>1, <1>5
  <2>2. ASSUME NEW n \in 1..N PROVE best[n] = grow(n, best[n - 1])
    <3>1. n \in 0..N /\ n # 0
      BY <1>1
    <3>2. \A q : q = loop(best) => q[n] = IF n = 0 THEN NoStatement ELSE grow(n, best[n - 1])
      BY <3>1
    <3> QED
      BY <1>5, <3>1, <3>2
  <2> QED
    BY <2>1, <2>2
<1> QED
  BY <1>6, <1>7, Zenon

\* The best of some statements that apply, or none if there are none.
BestOf(b, read) ==
  /\ b = NoStatement <=> read = {}
  /\ b # NoStatement =>
       /\ b \in read
       /\ \A s \in read : Specific(s) => Specific(b)
       /\ \A s \in read : Specific(s) = Specific(b) => s.time <= b.time

(***************************************************************************)
(* Whatever the order of the statements, the one selected is a best one of *)
(* those that apply.                                                       *)
(***************************************************************************)
LEMMA SelectsBest ==
  ASSUME NEW S, \A s \in S : s.time \in Int, NEW all \in Seq(S), NEW f
  PROVE  BestOf(Select(f, all), {s \in Range(all) : Applies(s, f)})
<1> DEFINE N == Len(all)
           read(n) == {s \in {all[i] : i \in 1..n} : Applies(s, f)}
<1>1. PICK best :
        /\ best[0] = NoStatement
        /\ \A n \in 1..N :
             best[n] = IF Applies(all[n], f) /\ Better(all[n], best[n - 1])
                       THEN all[n] ELSE best[n - 1]
        /\ Select(f, all) = best[N]
  BY SelectRuns
<1> DEFINE Holds == {n \in Nat : n <= N => BestOf(best[n], read(n))}
<1>2. \A s : Applies(s, f) => s # NoStatement
  BY DEF Applies, MatchesId, NoStatement
<1>3. 0 \in Holds
  <2>1. read(0) = {}
    OBVIOUS
  <2> QED
    BY <1>1, <2>1 DEF BestOf
<1>4. ASSUME NEW n \in Nat, n \in Holds PROVE n + 1 \in Holds
  <2> SUFFICES ASSUME n + 1 <= N PROVE BestOf(best[n + 1], read(n + 1))
    OBVIOUS
  <2> DEFINE s == all[n + 1]
             before == best[n]
             after == best[n + 1]
  <2>1. BestOf(before, read(n)) /\ \A x \in read(n) : x.time \in Int /\ Applies(x, f)
    BY <1>4
  <2>2. after = (IF Applies(s, f) /\ Better(s, before) THEN s ELSE before) /\ s.time \in Int
    <3>1. n + 1 \in 1..N /\ (n + 1) - 1 = n
      OBVIOUS
    <3> QED
      BY <1>1, <3>1
  <2>3. read(n + 1) = IF Applies(s, f) THEN read(n) \cup {s} ELSE read(n)
    <3>1. 1..(n + 1) = 1..n \cup {n + 1}
      OBVIOUS
    <3> QED
      BY <3>1
  <2> DEFINE old == read(n)
             new == read(n + 1)
  <2> HIDE DEF before, after, s, old, new, Specific, Applies, NoStatement
  <2>4. CASE ~Applies(s, f)
    BY <2>1, <2>2, <2>3, <2>4 DEF old, new, before, after
  <2>5. CASE Applies(s, f)
    <3>1. new = old \cup {s} /\ s # NoStatement
      BY <1>2, <2>3, <2>5 DEF old, new
    <3>2. BestOf(before, old) /\ \A x \in old : x.time \in Int
      BY <2>1 DEF old, before
    <3>3. after = IF Better(s, before) THEN s ELSE before
      BY <2>2, <2>5
    <3>4. BestOf(after, new)
      <4>1. CASE Better(s, before)
        BY <2>2, <3>1, <3>2, <3>3, <4>1 DEF BestOf, Better
      <4>2. CASE ~Better(s, before)
        BY <2>2, <3>1, <3>2, <3>3, <4>2 DEF BestOf, Better
      <4> QED
        BY <4>1, <4>2
    <3> QED
      BY <3>4 DEF after, new
  <2> QED
    BY <2>4, <2>5
<1> HIDE DEF Holds
<1>5. Nat \subseteq Holds
  BY <1>3, <1>4, SetInduction
<1>6. N \in Holds /\ N <= N
  <2>1. N \in Nat /\ N <= N
    OBVIOUS
  <2> HIDE DEF N
  <2> QED
    BY <1>5, <2>1
<1>7. Range(all) = {all[i] : i \in 1..N}
  BY DEF Range
<1>8. read(N) = {s \in Range(all) : Applies(s, f)}
  BY <1>7
<1> HIDE DEF read, N
<1>9. BestOf(best[N], read(N))
  BY <1>6, Zenon DEF Holds
<1> QED
  BY <1>1, <1>8, <1>9

\* The layers of the registry's manifests, and the statements that they can make.
AllLayers == UNION {Range(Content[m]) : m \in Manifests}
Told ==
  UNION {{StatementOf(e, layer.blob, m) : e \in Range(layer.blob.entries), m \in Manifests} :
           layer \in AllLayers}

(***************************************************************************)
(* Every statement of a document has the time of its document.             *)
(***************************************************************************)
LEMMA ToldTyped == \A s \in Told : s.time \in Int
  BY ContentAssumption DEF Told, AllLayers, StatementOf

(***************************************************************************)
(* A document gives a list of statements.                                  *)
(***************************************************************************)
LEMMA StatementsAreTold ==
  ASSUME NEW layer \in AllLayers, NEW m \in Manifests
  PROVE  StatementsIn(layer.blob, m) \in Seq(Told)
<1> DEFINE entries == layer.blob.entries
           told == Only(entries, {e \in Range(entries) : e.ids # {} /\ e.analysed})
<1>1. entries \in Seq(Range(entries))
  BY ContentAssumption DEF AllLayers, IsList
<1>2. told \in Seq(Range(entries))
  BY <1>1, OnlyKept
<1>3. \A e \in Range(entries) : StatementOf(e, layer.blob, m) \in Told
  BY DEF Told
<1>4. StatementsIn(layer.blob, m) = [i \in DOMAIN told |-> StatementOf(told[i], layer.blob, m)]
  BY DEF StatementsIn
<1>5. Len(told) \in Nat /\ DOMAIN told = 1..Len(told) /\ \A i \in DOMAIN told : told[i] \in Range(entries)
  <2> HIDE DEF told, entries
  <2> QED
    BY <1>2
<1> HIDE DEF told, entries
<1> QED
  BY <1>3, <1>4, <1>5

\* What a lookup holds is what the registry has.
VEXTyped ==
  /\ registry \in Registries
  /\ queue \in Seq(Manifests)
  /\ request \in {"manifest", "layer", "blob"} => manifest \in Manifests
  /\ layers \in Seq(AllLayers)
  /\ request = "blob" => layers # <<>>
  /\ statements \in Seq(Told)

(***************************************************************************)
(* What is listed of the referrers are manifests.                          *)
(***************************************************************************)
LEMMA ListedTyped == ASSUME registry \in Registries PROVE Listed \in Seq(Manifests)
<1> DEFINE page == UpTo(registry.page, registry.referrers)
           all == Attestations(page)
<1>1. page \in Seq(Manifests)
  BY RegistriesAssumption DEF UpTo
<1>2. Listed = SubSeq(all, 1, IF Len(all) > MaxReferrers THEN MaxReferrers ELSE Len(all))
  BY DEF Listed, UpTo
<1> HIDE DEF page
<1>3. all \in Seq(Manifests)
  BY <1>1, OnlyKept DEF Attestations
<1> HIDE DEF all
<1> QED
  BY <1>2, <1>3, ContentAssumption

(***************************************************************************)
(* What is read of a manifest are layers.                                  *)
(***************************************************************************)
LEMMA WorthTyped ==
  ASSUME NEW m \in Manifests
  PROVE  Only(Content[m], {layer \in Range(Content[m]) : WorthFetching(layer)}) \in Seq(AllLayers)
<1>1. Content[m] \in Seq(Range(Content[m])) /\ Range(Content[m]) \subseteq AllLayers
  BY ContentAssumption DEF AllLayers, IsList
<1>2. Content[m] \in Seq(AllLayers)
  BY <1>1
<1> QED
  BY <1>2, OnlyKept

(***************************************************************************)
(* A lookup starts with nothing listed or read.                            *)
(***************************************************************************)
LEMMA TypedInit ==
  ASSUME NEW registries \in SUBSET Registries, NEW findings, VEXInit(registries, findings)
  PROVE  VEXTyped /\ AnnotationIsBest
  BY DEF VEXInit, VEXTyped, AnnotationIsBest

(***************************************************************************)
(* Before the end there is no annotation.                                  *)
(***************************************************************************)
LEMMA NotDone ==
  ASSUME request' # "done" PROVE AnnotationIsBest'
  BY DEF AnnotationIsBest

(***************************************************************************)
(* Every step of the lookup keeps what it holds typed, and the last one    *)
(* annotates the finding with a best statement.                            *)
(***************************************************************************)
LEMMA TypedNext ==
  VEXTyped /\ AnnotationIsBest /\ [VEXNext]_vexVars => VEXTyped' /\ AnnotationIsBest'
<1> SUFFICES ASSUME VEXTyped, AnnotationIsBest, [VEXNext]_vexVars
             PROVE  VEXTyped' /\ AnnotationIsBest'
  OBVIOUS
<1> USE DEF VEXTyped, Ask, scanned, session, reading, result
<1>1. CASE ParseReference
  <2>1. registry.pinned \in {"tag", "sha256", "sha512"}
    BY RegistriesAssumption
  <2>2. request' \in {"head", "referrers", "error"}
    BY <1>1, <2>1 DEF ParseReference
  <2> QED
    BY <1>1, <2>2, NotDone DEF ParseReference
<1>2. CASE Authorize
  BY <1>2, NotDone DEF Authorize, Requests
<1>3. CASE ResolveByHead \/ ResolveByGet
  BY <1>3, NotDone DEF ResolveByHead, ResolveByGet
<1>4. CASE ListReferrers
  <2>1. queue' \in {Listed, <<>>} /\ request' = "next"
    BY <1>4 DEF ListReferrers
  <2> QED
    BY <1>4, <2>1, ListedTyped, NotDone DEF ListReferrers
<1>5. CASE TakeReferrer
  <2>1. Head(queue) \in Manifests /\ Tail(queue) \in Seq(Manifests)
    BY <1>5 DEF TakeReferrer
  <2> QED
    BY <1>5, <2>1, NotDone DEF TakeReferrer
<1>6. CASE FetchReferrer
  <2>1. \/ Collect(manifest) /\ request' = "layer"
        \/ layers' = layers /\ request' = "next"
    BY <1>6 DEF FetchReferrer
  <2>2. manifest \in Manifests
    BY <1>6 DEF FetchReferrer
  <2>3. layers' \in Seq(AllLayers)
    BY <2>1, <2>2, WorthTyped DEF Collect
  <2> QED
    BY <1>6, <2>1, <2>2, <2>3, NotDone DEF FetchReferrer
<1>7. CASE TurnToTag \/ NextLayer
  BY <1>7, NotDone DEF TurnToTag, NextLayer
<1>8. CASE FetchTagged
  <2>1. \/ registry.att # "none" /\ manifest' = registry.att /\ Collect(registry.att) /\ request' = "layer"
        \/ layers' = layers /\ request' = "finish"
    <3>1. request = "att"
      BY <1>8 DEF FetchTagged
    <3>2. "ok" \in Outcomes => registry.att # "none"
      BY <3>1 DEF Outcomes, Held
    <3> QED
      BY <1>8, <3>2 DEF FetchTagged
  <2>2. registry.att \in Manifests \cup {"none"}
    BY RegistriesAssumption
  <2>3. layers' \in Seq(AllLayers)
    BY <2>1, <2>2, WorthTyped DEF Collect
  <2> QED
    BY <1>8, <2>1, <2>2, <2>3, NotDone DEF FetchTagged
<1>9. CASE ReadLayer
  <2>1. request = "blob" /\ layers # <<>> /\ manifest \in Manifests
    BY <1>9 DEF ReadLayer
  <2>2. Head(layers) \in AllLayers /\ Tail(layers) \in Seq(AllLayers)
    BY <2>1
  <2>3. StatementsIn(Head(layers).blob, manifest) \in Seq(Told)
    BY <2>1, <2>2, StatementsAreTold
  <2>4. /\ statements' \in {statements, statements \o StatementsIn(Head(layers).blob, manifest)}
        /\ layers' = Tail(layers) /\ request' = "layer"
        /\ UNCHANGED <<registry, queue, manifest>>
    BY <1>9 DEF ReadLayer
  <2>5. statements' \in Seq(Told)
    <3>1. \A s, t \in Seq(Told) : s \o t \in Seq(Told)
      OBVIOUS
    <3> QED
      BY <2>3, <2>4, <3>1, Zenon
  <2> QED
    BY <2>1, <2>2, <2>4, <2>5, NotDone
<1>10. CASE EndLookup
  BY <1>10, NotDone DEF EndLookup
<1>11. CASE Annotate
  <2>1. BestOf(vex', {s \in Range(statements) : Applies(s, finding)})
    BY <1>11, SelectsBest, ToldTyped DEF Annotate
  <2>2. UNCHANGED <<registry, queue, manifest, layers, statements, finding>> /\ request' = "done"
    BY <1>11 DEF Annotate
  <2>3. AnnotationIsBest'
    BY <2>1, <2>2 DEF AnnotationIsBest, BestOf
  <2> QED
    BY <2>2, <2>3
<1>12. CASE TokenExpires \/ DeadlinePasses
  BY <1>12, NotDone DEF TokenExpires, DeadlinePasses, Requests
<1>13. CASE UNCHANGED vexVars
  BY <1>13 DEF vexVars, AnnotationIsBest
<1> QED
  BY <1>1, <1>2, <1>3, <1>4, <1>5, <1>6, <1>7, <1>8, <1>9, <1>10, <1>11, <1>12, <1>13
  DEF VEXNext, Lookup

\* What each layer that is read has to say, and each layer of a manifest.
Tells(m) == [layer \in AllLayers |-> IF IsVEX(layer.blob) THEN StatementsIn(layer.blob, m) ELSE <<>>]
Adds(m) ==
  [layer \in AllLayers |->
     IF WorthFetching(layer) /\ IsVEX(layer.blob) THEN StatementsIn(layer.blob, m) ELSE <<>>]

Of(m) == {s \in Told : s.from = m}
Got(m) == Only(statements, Of(m))
Worth(m) == Only(Content[m], {layer \in Range(Content[m]) : WorthFetching(layer)})
Rest(list, m) == FlattenSeq(Mapped(list, Tells(m)))

(***************************************************************************)
(* The statements of a document are of its manifest.                       *)
(***************************************************************************)
LEMMA StatementsAreOf ==
  ASSUME NEW layer \in AllLayers, NEW m \in Manifests
  PROVE  StatementsIn(layer.blob, m) \in Seq(Of(m))
<1> DEFINE list == StatementsIn(layer.blob, m)
           entries == layer.blob.entries
           told == Only(entries, {e \in Range(entries) : e.ids # {} /\ e.analysed})
<1>1. list \in Seq(Told)
  BY StatementsAreTold
<1>2. list = [i \in DOMAIN told |-> StatementOf(told[i], layer.blob, m)]
  BY DEF StatementsIn
<1>3. \A i \in DOMAIN list : list[i].from = m
  BY <1>2 DEF StatementOf
<1> HIDE DEF list
<1>4. Len(list) \in Nat /\ DOMAIN list = 1..Len(list) /\ \A i \in DOMAIN list : list[i] \in Told
  BY <1>1
<1>5. \A i \in 1..Len(list) : list[i] \in Of(m)
  BY <1>3, <1>4 DEF Of
<1>6. list \in Seq(Of(m))
  <2>1. list = [i \in 1..Len(list) |-> list[i]]
    BY <1>1
  <2> QED
    BY <1>4, <1>5, <2>1
<1> QED
  BY <1>6 DEF list

(***************************************************************************)
(* What layers say are the manifest's statements.                          *)
(***************************************************************************)
LEMMA SaysTyped ==
  ASSUME NEW m \in Manifests
  PROVE  Tells(m) \in [AllLayers -> Seq(Of(m))] /\ Adds(m) \in [AllLayers -> Seq(Of(m))]
<1>1. <<>> \in Seq(Of(m))
  OBVIOUS
<1>2. \A layer \in AllLayers : StatementsIn(layer.blob, m) \in Seq(Of(m))
  BY StatementsAreOf
<1> DEFINE V == Seq(Of(m))
<1> HIDE DEF V
<1>3. Tells(m) \in [AllLayers -> V] /\ Adds(m) \in [AllLayers -> V]
  BY <1>1, <1>2 DEF Tells, Adds, V
<1> QED
  BY <1>3 DEF V

(***************************************************************************)
(* The layers worth fetching say all that a manifest has to say.           *)
(***************************************************************************)
LEMMA WorthIsAll == ASSUME NEW m \in Manifests PROVE Rest(Worth(m), m) = StatementsOf(m)
<1> DEFINE worth == {layer \in AllLayers : WorthFetching(layer)}
           kept == {layer \in Range(Content[m]) : WorthFetching(layer)}
           list == Content[m]
           F == Tells(m)
           G == Adds(m)
           A == Of(m)
<1>1. list \in Seq(Range(list)) /\ Range(list) \subseteq AllLayers
  BY ContentAssumption DEF AllLayers, IsList
<1>2. list \in Seq(AllLayers)
  BY <1>1
<1>3. Only(list, kept) = Only(list, worth)
  <2>1. \A x \in Range(list) : x \in kept <=> x \in worth
    BY <1>1
  <2> HIDE DEF kept, worth, list
  <2> QED
    BY <1>1, <2>1, OnlyAlike
<1>4. F \in [AllLayers -> Seq(A)] /\ G \in [AllLayers -> Seq(A)]
  BY SaysTyped
<1>5. Without(F, AllLayers, worth) = G
  BY DEF Tells, Adds, Without
<1>6. FlattenSeq(Mapped(Only(list, worth), F)) = FlattenSeq(Mapped(list, G))
  <2> HIDE DEF F, G, A, worth, list
  <2>1. F \in [AllLayers -> Seq(A)]
    BY <1>4
  <2>2. FlattenSeq(Mapped(Only(list, worth), F))
          = FlattenSeq(Mapped(list, Without(F, AllLayers, worth)))
    BY <1>2, <2>1, MappedOnly
  <2> QED
    BY <1>5, <2>2
<1>7. Mapped(list, G)
        = [i \in DOMAIN Content[m] |->
             IF WorthFetching(Content[m][i]) /\ IsVEX(Content[m][i].blob)
             THEN StatementsIn(Content[m][i].blob, m) ELSE <<>>]
  <2>1. \A i \in DOMAIN Content[m] : Content[m][i] \in AllLayers
    BY <1>2
  <2> QED
    BY <2>1 DEF Mapped, Adds
<1>8. StatementsOf(m) = FlattenSeq(Mapped(list, G))
  BY <1>7 DEF StatementsOf
<1> QED
  BY <1>3, <1>6, <1>8 DEF Rest, Worth

(***************************************************************************)
(* The layers left to read say what the next of them says, and the rest.   *)
(***************************************************************************)
LEMMA RestSplits ==
  ASSUME NEW m \in Manifests, NEW list \in Seq(AllLayers)
  PROVE  /\ Rest(<<>>, m) = <<>> /\ Rest(list, m) \in Seq(Told)
         /\ list # <<>> => Rest(list, m) = Tells(m)[Head(list)] \o Rest(Tail(list), m)
<1> DEFINE F == Tells(m)
           A == Of(m)
<1>1. F \in [AllLayers -> Seq(A)]
  BY SaysTyped
<1> HIDE DEF F, A
<1>2. Grows(F, AllLayers, A)
  BY <1>1, MappedGrows
<1>3. ASSUME list # <<>>
      PROVE  FlattenSeq(Mapped(list, F)) = F[Head(list)] \o FlattenSeq(Mapped(Tail(list), F))
  BY <1>1, <1>3, MappedHead
<1>4. FlattenSeq(Mapped(<<>>, F)) = <<>> /\ FlattenSeq(Mapped(list, F)) \in Seq(A)
  BY <1>2 DEF Grows
<1>5. FlattenSeq(Mapped(list, F)) \in Seq(Told)
  <2>1. A \subseteq Told
    BY DEF A, Of
  <2> QED
    BY <1>4, <2>1
<1> QED
  BY <1>3, <1>4, <1>5 DEF F, Rest

(***************************************************************************)
(* Of what a layer adds to the result, a manifest gets what is its own.    *)
(***************************************************************************)
LEMMA GotGrows ==
  ASSUME NEW m \in Manifests, NEW k \in Manifests, NEW old \in Seq(Told), NEW new \in Seq(Of(m))
  PROVE  Only(old \o new, Of(k)) = Only(old, Of(k)) \o (IF k = m THEN new ELSE <<>>)
<1>1. Of(m) \subseteq Told
  BY DEF Of
<1>2. new \in Seq(Told)
  BY <1>1
<1>3. Only(old \o new, Of(k)) = Only(old, Of(k)) \o Only(new, Of(k))
  <2> DEFINE kept == Of(k)
  <2> HIDE DEF kept
  <2>1. Only(old \o new, kept) = Only(old, kept) \o Only(new, kept)
    BY <1>2, OnlyJoins
  <2> QED
    BY <2>1 DEF kept
<1>4. Only(new, Of(k)) = IF k = m THEN new ELSE <<>>
  <2> DEFINE kept == Of(k)
             all == Of(m)
  <2>1. k = m => all \subseteq kept
    OBVIOUS
  <2>2. k # m => all \cap kept = {}
    BY DEF Of
  <2> HIDE DEF kept, all
  <2>3. (all \subseteq kept => Only(new, kept) = new) /\ (all \cap kept = {} => Only(new, kept) = <<>>)
    <3>1. new \in Seq(all)
      BY DEF all
    <3> QED
      BY <3>1, OnlyWhole
  <2> QED
    BY <2>1, <2>2, <2>3 DEF kept
<1> QED
  BY <1>3, <1>4

\* The manifests the lookup is told of as referrers, those and the tagged one, and
\* whether the layers of one are read.
Referrers == IF registry.referrersAPI THEN Range(Listed) ELSE {}
Fetchable == Referrers \cup ({registry.att} \ {"none"})
Reading == request \in {"layer", "blob"}

\* What the lookup has still to read of a manifest it knows of.
Unread(m) ==
  IF m # manifest THEN <<>>
  ELSE IF Reading THEN Rest(layers, m)
  ELSE IF request = "manifest" THEN StatementsOf(m) ELSE <<>>

\* Of each manifest, what is read and what is left is all it has, once.
ReadOrLeft ==
  \A m \in Manifests : Got(m) \o Unread(m) = IF m \in seen THEN StatementsOf(m) ELSE <<>>

\* The manifests that each stage of the lookup has seen.
Visited ==
  /\ request \in {"parse", "head", "tag", "referrers", "error"} => seen = {}
  /\ request \in {"next", "manifest"} \/ (Reading /\ via = "referrer") =>
       seen \cup Range(queue) = Referrers
  /\ request = "att" => seen = Referrers
  /\ request \in {"finish", "annotate", "done", "none"} \/ (Reading /\ via = "tag") =>
       seen = Fetchable

\* A lookup that has warned of nothing accounts for every manifest.
Followed ==
  /\ via \in {"referrer", "tag"} /\ seen \subseteq Manifests
  /\ request = "none" => ~warned
  /\ ~warned => ReadOrLeft /\ Visited

(***************************************************************************)
(* What was read and what is to be read are lists of statements.           *)
(***************************************************************************)
LEMMA GotTyped ==
  ASSUME VEXTyped, NEW m \in Manifests
  PROVE  Got(m) \in Seq(Told) /\ StatementsOf(m) \in Seq(Told)
<1>1. Got(m) \in Seq(Told)
  <2> DEFINE kept == Of(m)
  <2> HIDE DEF kept
  <2>1. Only(statements, kept) \in Seq(Told)
    BY OnlyKept DEF VEXTyped
  <2> QED
    BY <2>1 DEF Got, kept
<1>2. StatementsOf(m) \in Seq(Told)
  <2>1. Rest(Worth(m), m) \in Seq(Told)
    BY WorthTyped, RestSplits DEF Worth
  <2> QED
    BY <2>1, WorthIsAll
<1> QED
  BY <1>1, <1>2

(***************************************************************************)
(* The lookup starts with nothing seen.                                    *)
(***************************************************************************)
LEMMA FollowedInit ==
  ASSUME NEW registries \in SUBSET Registries, NEW findings, VEXInit(registries, findings)
  PROVE  Followed
<1> USE DEF VEXInit
<1>1. ASSUME NEW m \in Manifests PROVE Got(m) \o Unread(m) = <<>>
  <2>1. Unread(m) = <<>>
    BY DEF Unread, Reading
  <2>2. Got(m) = <<>>
    <3> DEFINE kept == Of(m)
    <3> HIDE DEF kept
    <3>1. Only(<<>>, kept) = <<>>
      BY OnlyGrows
    <3> QED
      BY <3>1 DEF Got, kept
  <2> QED
    BY <2>1, <2>2
<1> QED
  BY <1>1 DEF Followed, ReadOrLeft, Visited, Reading

(***************************************************************************)
(* A step that reads nothing and sees nothing keeps what is covered.       *)
(***************************************************************************)
LEMMA StillLeft ==
  ASSUME ReadOrLeft, UNCHANGED <<statements, seen>>, \A m \in Manifests : Unread(m)' = Unread(m)
  PROVE  ReadOrLeft'
BY DEF ReadOrLeft, Got

(***************************************************************************)
(* Every step of the lookup keeps the manifests accounted for.             *)
(***************************************************************************)
LEMMA FollowedNext == VEXTyped /\ Followed /\ [VEXNext]_vexVars => Followed'
<1> SUFFICES ASSUME VEXTyped, Followed, [VEXNext]_vexVars PROVE Followed'
  OBVIOUS
<1> USE DEF Ask, scanned, session, reading, result
<1> HIDE DEF Outcomes
<1>0. /\ \A m \in Manifests : Got(m) \in Seq(Told) /\ StatementsOf(m) \in Seq(Told)
      /\ \A s \in Seq(Told) : s \o <<>> = s /\ <<>> \o s = s
      /\ \A s, t \in Seq(Told) : s \o t = <<>> => s = <<>>
  <2>1. \A s \in Seq(Told) : s \o <<>> = s /\ <<>> \o s = s
    OBVIOUS
  <2>2. \A s, t \in Seq(Told) : s \o t = <<>> => s = <<>>
    OBVIOUS
  <2> QED
    BY <2>1, <2>2, GotTyped
<1>1. CASE ParseReference \/ ResolveByHead \/ ResolveByGet
  <2>1. /\ request \in {"parse", "head", "tag"}
        /\ request' \in {"head", "tag", "referrers", "error"}
        /\ UNCHANGED <<registry, seen, via, warned, manifest, layers, statements, queue>>
    <3>1. registry.pinned \in {"tag", "sha256", "sha512"}
      BY RegistriesAssumption DEF VEXTyped
    <3> QED
      BY <1>1, <3>1 DEF ParseReference, ResolveByHead, ResolveByGet
  <2>2. \A m \in Manifests : Unread(m)' = Unread(m)
    BY <2>1 DEF Unread, Reading
  <2> QED
    BY <2>1, <2>2, StillLeft DEF Followed, Visited, Reading
<1>2. CASE Authorize \/ TokenExpires \/ DeadlinePasses \/ UNCHANGED vexVars
  <2>1. UNCHANGED <<registry, request, seen, via, warned, manifest, layers, statements, queue>>
    BY <1>2 DEF Authorize, TokenExpires, DeadlinePasses, vexVars
  <2>2. \A m \in Manifests : Unread(m)' = Unread(m)
    BY <2>1 DEF Unread, Reading
  <2> QED
    BY <2>1, <2>2, StillLeft DEF Followed, Visited, Reading, Referrers, Fetchable, Listed, Attestations
<1>3. CASE ListReferrers
  <2>1. /\ request = "referrers" /\ request' = "next"
        /\ UNCHANGED <<registry, seen, via, manifest, layers, statements>>
    BY <1>3 DEF ListReferrers
  <2>2. warned => warned'
    BY <1>3 DEF ListReferrers
  <2>3. \A m \in Manifests : Unread(m)' = Unread(m)
    BY <2>1 DEF Unread, Reading
  <2>4. ~warned' => Range(queue') = Referrers
    <3> SUFFICES ASSUME ~warned' PROVE Range(queue') = Referrers
      OBVIOUS
    <3>1. PICK o \in Outcomes : /\ queue' = IF o = "ok" THEN Listed ELSE <<>>
                                /\ warned' = (warned \/ o \notin {"ok", "absent", "refused"})
      BY <1>3 DEF ListReferrers
    <3>2. o \in {"ok", "absent", "refused"}
      BY <3>1
    <3>3. (o = "ok" => registry.referrersAPI) /\ (o # "ok" => ~registry.referrersAPI)
      BY <2>1, <3>2 DEF Outcomes, Held
    <3>4. Range(<<>>) = {}
      BY DEF Range
    <3> HIDE DEF Listed
    <3> QED
      BY <3>1, <3>3, <3>4 DEF Referrers
  <2>5. Referrers' = Referrers
    BY <2>1 DEF Referrers, Listed, Attestations
  <2> QED
    BY <2>1, <2>2, <2>3, <2>4, <2>5, StillLeft DEF Followed, Visited, Reading
<1>4. CASE TakeReferrer
  <2> DEFINE first == Head(queue)
  <2>1. /\ request = "next" /\ queue # <<>> /\ queue' = Tail(queue)
        /\ UNCHANGED <<registry, via, layers, statements, warned>>
    BY <1>4 DEF TakeReferrer
  <2>2. /\ first \in Manifests /\ Range(queue) = {first} \cup Range(Tail(queue))
    <3>1. first \in Manifests
      BY <2>1 DEF VEXTyped
    <3>2. IsList(queue)
      BY DEF VEXTyped, IsList, Range
    <3> QED
      BY <2>1, <3>1, <3>2, HeadAndTail
  <2> HIDE DEF first
  <2>3. Referrers' = Referrers
    BY <2>1 DEF Referrers, Listed, Attestations
  <2>4. CASE first \in seen
    <3>1. UNCHANGED <<request, seen, manifest>>
      BY <1>4, <2>4 DEF TakeReferrer, first
    <3>2. \A m \in Manifests : Unread(m)' = Unread(m)
      BY <2>1, <3>1 DEF Unread, Reading
    <3> QED
      BY <2>1, <2>2, <2>3, <2>4, <3>1, <3>2, StillLeft DEF Followed, Visited, Reading
  <2>5. CASE first \notin seen
    <3>1. seen' = seen \cup {first} /\ manifest' = first /\ request' = "manifest"
      BY <1>4, <2>5 DEF TakeReferrer, first
    <3>2. ASSUME ReadOrLeft PROVE ReadOrLeft'
      <4> SUFFICES ASSUME NEW m \in Manifests
                   PROVE  Got(m) \o Unread(m)' = IF m \in seen' THEN StatementsOf(m) ELSE <<>>
        BY <2>1 DEF ReadOrLeft, Got
      <4>1. Unread(m) = <<>>
        BY <2>1 DEF Unread, Reading
      <4>2. Unread(m)' = IF m = first THEN StatementsOf(m) ELSE <<>>
        BY <3>1 DEF Unread, Reading
      <4>3. Got(m) = IF m \in seen THEN StatementsOf(m) ELSE <<>>
        BY <1>0, <3>2, <4>1 DEF ReadOrLeft
      <4> HIDE DEF Unread
      <4> QED
        BY <1>0, <2>5, <3>1, <4>2, <4>3
    <3> QED
      BY <2>1, <2>2, <2>3, <3>1, <3>2 DEF Followed, Visited, Reading
  <2> QED
    BY <2>4, <2>5
<1>5. CASE FetchReferrer
  <2>1. /\ request = "manifest" /\ manifest \in Manifests
        /\ UNCHANGED <<registry, queue, seen, manifest, statements>>
    BY <1>5 DEF FetchReferrer, VEXTyped
  <2>2. \/ layers' = Worth(manifest) /\ via' = "referrer" /\ request' = "layer" /\ warned' = warned
        \/ warned' /\ request' = "next" /\ via' = via
    BY <1>5 DEF FetchReferrer, Collect, Worth
  <2>3. Referrers' = Referrers
    BY <2>1 DEF Referrers, Listed, Attestations
  <2>4. ASSUME ~warned' PROVE \A m \in Manifests : Unread(m)' = Unread(m)
    <3> SUFFICES ASSUME NEW m \in Manifests PROVE Unread(m)' = Unread(m)
      OBVIOUS
    <3>1. Rest(Worth(m), m) = StatementsOf(m)
      BY WorthIsAll
    <3> QED
      BY <2>1, <2>2, <2>4, <3>1 DEF Unread, Reading
  <2> QED
    BY <2>1, <2>2, <2>3, <2>4, StillLeft DEF Followed, Visited, Reading
<1>6. CASE TurnToTag
  <2>1. /\ request = "next" /\ request' = "att" /\ queue = <<>>
        /\ UNCHANGED <<registry, seen, via, warned, manifest, layers, statements, queue>>
    BY <1>6 DEF TurnToTag
  <2>2. \A m \in Manifests : Unread(m)' = Unread(m)
    BY <2>1 DEF Unread, Reading
  <2>3. Range(queue) = {} /\ Referrers' = Referrers
    BY <2>1 DEF Range, Referrers, Listed, Attestations
  <2> QED
    BY <2>1, <2>2, <2>3, StillLeft DEF Followed, Visited, Reading
<1>7. CASE FetchTagged
  <2>1. request = "att" /\ UNCHANGED <<registry, queue, statements>>
    BY <1>7 DEF FetchTagged
  <2>2. PICK o \in Outcomes :
          IF o = "ok" /\ registry.att \notin seen
          THEN /\ seen' = seen \cup {registry.att} /\ manifest' = registry.att /\ via' = "tag"
               /\ layers' = Worth(registry.att) /\ request' = "layer" /\ warned' = warned
          ELSE /\ warned' = (warned \/ o \notin {"ok", "absent"}) /\ request' = "finish"
               /\ UNCHANGED <<seen, manifest, via, layers>>
    BY <1>7 DEF FetchTagged, Collect, Worth
  <2>3. (o = "ok" => registry.att # "none") /\ (o = "absent" => registry.att = "none")
    BY <2>1 DEF Outcomes, Held
  <2>4. Fetchable = Referrers \cup ({registry.att} \ {"none"}) /\ Fetchable' = Fetchable
    BY <2>1 DEF Fetchable, Referrers, Listed, Attestations
  <2>5. registry.att \in Manifests \cup {"none"}
    BY RegistriesAssumption DEF VEXTyped
  <2>6. CASE o = "ok" /\ registry.att \notin seen
    <3> DEFINE att == registry.att
    <3>1. att \in Manifests
      BY <2>3, <2>5, <2>6
    <3>2. /\ seen' = seen \cup {att} /\ manifest' = att /\ via' = "tag"
          /\ layers' = Worth(att) /\ request' = "layer" /\ warned' = warned
      BY <2>2, <2>6
    <3>3. ASSUME ReadOrLeft PROVE ReadOrLeft'
      <4> SUFFICES ASSUME NEW m \in Manifests
                   PROVE  Got(m) \o Unread(m)' = IF m \in seen' THEN StatementsOf(m) ELSE <<>>
        BY <2>1 DEF ReadOrLeft, Got
      <4>1. Unread(m) = <<>>
        BY <2>1 DEF Unread, Reading
      <4>2. Unread(m)' = IF m = att THEN StatementsOf(m) ELSE <<>>
        <5>1. Rest(Worth(m), m) = StatementsOf(m)
          BY WorthIsAll
        <5> QED
          BY <3>2, <5>1 DEF Unread, Reading
      <4>3. Got(m) = IF m \in seen THEN StatementsOf(m) ELSE <<>>
        BY <1>0, <3>3, <4>1 DEF ReadOrLeft
      <4> HIDE DEF Unread
      <4> QED
        BY <1>0, <2>6, <3>2, <4>2, <4>3
    <3>4. att # "none"
      BY <2>3, <2>6
    <3> HIDE DEF att
    <3>5. ~warned => seen' = Fetchable
      BY <2>1, <2>4, <3>2, <3>4 DEF Followed, Visited, att
    <3> QED
      BY <2>4, <3>1, <3>2, <3>3, <3>5 DEF Followed, Visited, Reading
  <2>7. CASE ~(o = "ok" /\ registry.att \notin seen)
    <3>1. /\ warned' = (warned \/ o \notin {"ok", "absent"}) /\ request' = "finish"
          /\ UNCHANGED <<seen, manifest, via, layers>>
      BY <2>2, <2>7
    <3>2. \A m \in Manifests : Unread(m)' = Unread(m)
      BY <2>1, <3>1 DEF Unread, Reading
    <3>3. ~warned' => seen = Fetchable
      <4> SUFFICES ASSUME ~warned' PROVE seen = Fetchable
        OBVIOUS
      <4>1. o \in {"ok", "absent"} /\ ~warned
        BY <3>1
      <4>2. seen = Referrers
        BY <2>1, <4>1 DEF Followed, Visited
      <4>3. CASE o = "ok"
        BY <2>4, <2>7, <4>2, <4>3
      <4>4. CASE o = "absent"
        BY <2>3, <2>4, <4>2, <4>4
      <4> QED
        BY <4>1, <4>3, <4>4
    <3> QED
      BY <2>1, <2>4, <3>1, <3>2, <3>3, StillLeft DEF Followed, Visited, Reading
  <2> QED
    BY <2>6, <2>7
<1>8. CASE NextLayer
  <2>1. /\ request = "layer"
        /\ request' = IF layers # <<>> THEN "blob" ELSE IF via = "referrer" THEN "next" ELSE "finish"
        /\ UNCHANGED <<registry, seen, via, warned, manifest, layers, statements, queue>>
    BY <1>8 DEF NextLayer
  <2>2. \A m \in Manifests : Unread(m)' = Unread(m)
    <3> SUFFICES ASSUME NEW m \in Manifests PROVE Unread(m)' = Unread(m)
      OBVIOUS
    <3>1. Rest(<<>>, m) = <<>>
      BY RestSplits DEF VEXTyped
    <3> QED
      BY <2>1, <3>1 DEF Unread, Reading
  <2>3. Referrers' = Referrers /\ Fetchable' = Fetchable
    BY <2>1 DEF Referrers, Fetchable, Listed, Attestations
  <2> QED
    BY <2>1, <2>2, <2>3, StillLeft DEF Followed, Visited, Reading
<1>9. CASE ReadLayer
  <2> DEFINE layer == Head(layers)
             says == Tells(manifest)[layer]
  <2>1. /\ request = "blob" /\ request' = "layer" /\ layers' = Tail(layers)
        /\ UNCHANGED <<registry, seen, via, manifest, queue>>
        /\ layers # <<>> /\ manifest \in Manifests /\ layer \in AllLayers
    BY <1>9 DEF ReadLayer, VEXTyped
  <2>2. warned => warned'
    BY <1>9 DEF ReadLayer
  <2>3. ~warned' => statements' = statements \o says
    <3>1. Tells(manifest)[layer]
            = IF IsVEX(layer.blob) THEN StatementsIn(layer.blob, manifest) ELSE <<>>
      BY <2>1 DEF Tells
    <3>2. IsForeign(layer.blob) => ~IsVEX(layer.blob)
      BY DEF IsForeign, IsVEX
    <3>3. statements \o <<>> = statements
      BY <1>0 DEF VEXTyped
    <3>4. PICK o \in Outcomes :
            IF o = "ok" /\ EnvelopeOpens(layer.blob) /\ IsVEX(layer.blob)
            THEN statements' = statements \o StatementsIn(layer.blob, manifest) /\ warned' = warned
            ELSE statements' = statements /\ warned' = (warned \/ o # "ok" \/ ~IsForeign(layer.blob))
      BY <1>9 DEF ReadLayer
    <3> HIDE DEF layer
    <3> QED
      BY <3>1, <3>2, <3>3, <3>4
  <2>4. says \in Seq(Of(manifest))
    BY <2>1, SaysTyped
  <2>5. Rest(layers, manifest) = says \o Rest(layers', manifest)
    BY <2>1, RestSplits DEF VEXTyped
  <2>6. Rest(layers', manifest) \in Seq(Told)
    <3> DEFINE t == Tail(layers)
    <3>1. t \in Seq(AllLayers)
      BY <2>1 DEF VEXTyped
    <3> HIDE DEF t
    <3>2. Rest(t, manifest) \in Seq(Told)
      BY <2>1, <3>1, RestSplits
    <3> QED
      BY <2>1, <3>2 DEF t
  <2> HIDE DEF says, layer
  <2>7. ASSUME ReadOrLeft, ~warned' PROVE ReadOrLeft'
    <3> SUFFICES ASSUME NEW m \in Manifests
                 PROVE  (Got(m) \o Unread(m))' = IF m \in seen THEN StatementsOf(m) ELSE <<>>
      BY <2>1 DEF ReadOrLeft
    <3>1. Got(m)' = Got(m) \o (IF m = manifest THEN says ELSE <<>>)
      <4>1. Only(statements \o says, Of(m)) = Only(statements, Of(m)) \o (IF m = manifest THEN says ELSE <<>>)
        BY <2>1, <2>4, GotGrows DEF VEXTyped
      <4>2. Got(m)' = Only(statements', Of(m))
        BY DEF Got
      <4> QED
        BY <2>3, <2>7, <4>1, <4>2 DEF Got
    <3>2. Got(m) \o Unread(m) = IF m \in seen THEN StatementsOf(m) ELSE <<>>
      BY <2>7 DEF ReadOrLeft
    <3>3. CASE m # manifest
      <4>1. Unread(m) = <<>> /\ Unread(m)' = <<>>
        BY <2>1, <3>3 DEF Unread
      <4>2. Got(m)' = Got(m)
        BY <1>0, <3>1, <3>3
      <4> QED
        BY <3>2, <4>1, <4>2
    <3>4. CASE m = manifest
      <4>1. Unread(m) = says \o Rest(layers', m) /\ Unread(m)' = Rest(layers', m)
        BY <2>1, <2>5, <3>4 DEF Unread, Reading
      <4>2. \A a, b, c \in Seq(Told) : (a \o b) \o c = a \o (b \o c)
        OBVIOUS
      <4>3. says \in Seq(Told)
        <5>1. Of(manifest) \subseteq Told
          BY DEF Of
        <5> QED
          BY <2>4, <5>1
      <4>4. Got(m)' = Got(m) \o says
        BY <3>1, <3>4
      <4>5. (Got(m) \o says) \o Rest(layers', m) = Got(m) \o (says \o Rest(layers', m))
        BY <1>0, <2>6, <3>4, <4>2, <4>3
      <4> QED
        BY <3>2, <4>1, <4>4, <4>5
    <3> QED
      BY <3>3, <3>4
  <2>8. Referrers' = Referrers /\ Fetchable' = Fetchable
    BY <2>1 DEF Referrers, Fetchable, Listed, Attestations
  <2> QED
    BY <2>1, <2>2, <2>7, <2>8 DEF Followed, Visited, Reading
<1>10. CASE EndLookup \/ Annotate
  <2>1. /\ \/ request = "finish" /\ request' \in {"annotate", "none"}
           \/ request = "annotate" /\ request' = "done"
        /\ UNCHANGED <<registry, seen, via, warned, manifest, layers, statements, queue>>
        /\ request' = "none" => ~warned
    BY <1>10 DEF EndLookup, Annotate
  <2>2. \A m \in Manifests : Unread(m)' = Unread(m)
    BY <2>1 DEF Unread, Reading
  <2>3. Referrers' = Referrers /\ Fetchable' = Fetchable
    BY <2>1 DEF Referrers, Fetchable, Listed, Attestations
  <2> QED
    BY <2>1, <2>2, <2>3, StillLeft DEF Followed, Visited, Reading
<1> QED
  BY <1>1, <1>2, <1>3, <1>4, <1>5, <1>6, <1>7, <1>8, <1>9, <1>10 DEF VEXNext, Lookup

(***************************************************************************)
(* The list is complete if it has one page and is not longer than the      *)
(* limit.                                                                  *)
(***************************************************************************)
LEMMA BeyondTheList ==
  ASSUME registry \in Registries, Beyond # {}
  PROVE  \/ Len(registry.referrers) > registry.page
         \/ Len(Attestations(registry.referrers)) > MaxReferrers
<1> DEFINE referrers == registry.referrers
           all == Attestations(referrers)
<1>1. referrers \in Seq(Manifests) /\ registry.page \in Nat /\ MaxReferrers \in Nat
  BY RegistriesAssumption, ContentAssumption
<1>2. all \in Seq(Manifests)
  BY <1>1, OnlyKept DEF Attestations
<1>3. \A s \in Seq(Manifests) : SubSeq(s, 1, Len(s)) = s
  OBVIOUS
<1>4. \A s \in Seq(Manifests), n \in Nat : ~(Len(s) > n) => UpTo(n, s) = s
  BY <1>3 DEF UpTo
<1>5. SUFFICES ASSUME ~(Len(referrers) > registry.page), ~(Len(all) > MaxReferrers) PROVE FALSE
  OBVIOUS
<1>6. Listed = Attestations(referrers)
  <2>1. UpTo(registry.page, referrers) = referrers
    BY <1>1, <1>4, <1>5
  <2>2. Listed = UpTo(MaxReferrers, Attestations(UpTo(registry.page, referrers)))
    BY DEF Listed
  <2> HIDE DEF referrers
  <2>3. Listed = UpTo(MaxReferrers, all)
    BY <2>1, <2>2
  <2> HIDE DEF all
  <2>4. Listed = all
    BY <1>1, <1>2, <1>4, <1>5, <2>3
  <2> QED
    BY <2>4 DEF all
<1> QED
  BY <1>6 DEF Beyond, Reachable

(***************************************************************************)
(* What the lookup is told of is what is reachable and not left out of the *)
(* list.                                                                   *)
(***************************************************************************)
LEMMA FetchableOnly == ASSUME registry \in Registries PROVE Fetchable = Reachable \ Beyond
<1> DEFINE all == Attestations(registry.referrers)
           page == Attestations(UpTo(registry.page, registry.referrers))
           artifacts == Manifests \ registry.artifacts
<1>1. /\ registry.referrers \in Seq(Manifests) /\ registry.page \in Nat /\ MaxReferrers \in Nat
      /\ UpTo(registry.page, registry.referrers) \in Seq(Manifests)
  BY RegistriesAssumption, ContentAssumption DEF UpTo
<1>2. \A s \in Seq(Manifests) : Range(Attestations(s)) = Range(s) \cap artifacts
  <2> SUFFICES ASSUME NEW s \in Seq(Manifests)
               PROVE  Range(Attestations(s)) = Range(s) \cap artifacts
    OBVIOUS
  <2>1. IsList(s)
    BY DEF IsList, Range
  <2> QED
    BY <2>1, OnlyElements DEF Attestations
<1>3. \A s \in Seq(Manifests), n \in Nat : Range(UpTo(n, s)) \subseteq Range(s)
  BY DEF UpTo, Range
<1>4. page \in Seq(Manifests)
  BY <1>1, OnlyKept DEF Attestations
<1>5. Range(Listed) \subseteq Range(all)
  <2>1. Range(Listed) \subseteq Range(page)
    BY <1>1, <1>3, <1>4 DEF Listed
  <2>2. Range(page) \subseteq Range(all)
    BY <1>1, <1>2, <1>3
  <2> QED
    BY <2>1, <2>2
<1>6. CASE registry.referrersAPI
  <2>1. Range(all) \subseteq Manifests /\ "none" \notin Manifests
    BY <1>1, <1>2, ContentAssumption
  <2>2. Reachable = Range(all) \cup ({registry.att} \ {"none"})
    BY <1>6 DEF Reachable
  <2> HIDE DEF all, page
  <2> QED
    BY <1>5, <1>6, <2>1, <2>2 DEF Fetchable, Referrers, Beyond
<1>7. CASE ~registry.referrersAPI
  BY <1>7 DEF Fetchable, Referrers, Beyond, Reachable
<1> QED
  BY <1>6, <1>7

(***************************************************************************)
(* A lookup that ends without a warning has what every manifest says.      *)
(***************************************************************************)
LEMMA CompleteThen == VEXTyped /\ Followed => LookupIsComplete
<1> SUFFICES ASSUME VEXTyped, Followed,
                    request = "none" \/ (request \in {"annotate", "done"} /\ ~warned),
                    NEW m \in Manifests
             PROVE  Only(statements, {s \in Range(statements) : s.from = m})
                      = IF m \in Reachable \ Beyond THEN StatementsOf(m) ELSE <<>>
  BY BeyondTheList DEF LookupIsComplete, VEXTyped
<1>0. seen = Fetchable => seen = Reachable \ Beyond
  BY FetchableOnly DEF VEXTyped
<1>1. ~warned /\ seen = Reachable \ Beyond /\ Unread(m) = <<>>
  BY <1>0 DEF Followed, Visited, Unread, Reading
<1>2. Got(m) \o Unread(m) = IF m \in seen THEN StatementsOf(m) ELSE <<>>
  BY <1>1 DEF Followed, ReadOrLeft
<1>3. Got(m) \o <<>> = Got(m)
  <2>1. Got(m) \in Seq(Told) /\ \A s \in Seq(Told) : s \o <<>> = s
    BY GotTyped
  <2> QED
    BY <2>1
<1>4. Only(statements, {s \in Range(statements) : s.from = m}) = Got(m)
  <2> DEFINE kept == {s \in Range(statements) : s.from = m}
             other == Of(m)
             S == Range(statements)
  <2>1. statements \in Seq(S) /\ S \subseteq Told
    BY DEF VEXTyped, Range
  <2>2. \A x \in S : x \in kept <=> x \in other
    BY <2>1 DEF Of
  <2> HIDE DEF kept, other, S
  <2>3. Only(statements, kept) = Only(statements, other)
    BY <2>1, <2>2, OnlyAlike
  <2> QED
    BY <2>3 DEF kept, other, Got
<1> QED
  BY <1>1, <1>2, <1>3, <1>4

\* What holds throughout a lookup.
VEXInv == VEXTyped /\ AnnotationIsBest /\ Followed

(***************************************************************************)
(* All of it holds at the start of a lookup.                               *)
(***************************************************************************)
LEMMA VEXInitInv ==
  ASSUME NEW registries \in SUBSET Registries, NEW findings, VEXInit(registries, findings)
  PROVE  VEXInv
BY TypedInit, FollowedInit DEF VEXInv

(***************************************************************************)
(* All of it holds after every step of the lookup if it held before.       *)
(***************************************************************************)
LEMMA VEXNextInv == VEXInv /\ [VEXNext]_vexVars => VEXInv'
BY TypedNext, FollowedNext DEF VEXInv

-----------------------------------------------------------------------------
(* The rating of a finding                                                 *)

(***************************************************************************)
(* What an impact leaves unharmed is less the more the asset requires, and *)
(* the worse the impact is (impactWeight, weight of scoring.go).           *)
(***************************************************************************)
LEMMA LeftValues ==
  ASSUME NEW level
  PROVE  /\ Weight(level) \in 1..3 /\ RequirementRank(level) \in 1..3
         /\ Left("N", level) = 100
         /\ Left("L", level) = 100 - 11 * Weight(level)
         /\ Left("H", level) = 100 - 28 * Weight(level)
         /\ \A impact \in {"N", "L", "H"} : Left(impact, level) \in 16..100
<1>1. Weight(level) \in 1..3 /\ RequirementRank(level) \in 1..3
  BY DEF Weight, RequirementRank
<1>2. /\ Left("N", level) = 100
      /\ Left("L", level) = 100 - 11 * Weight(level)
      /\ Left("H", level) = 100 - 28 * Weight(level)
  BY DEF Left
<1> QED
  BY <1>1, <1>2

(***************************************************************************)
(* Of the same impact, the more an asset requires the less is left.        *)
(***************************************************************************)
LEMMA LeftFalls ==
  ASSUME NEW impact \in {"N", "L", "H"}, NEW low, NEW high, Weight(low) <= Weight(high)
  PROVE  Left(impact, high) <= Left(impact, low)
BY LeftValues

(***************************************************************************)
(* Of three factors that fall, the product does.                           *)
(***************************************************************************)
LEMMA ProductFalls ==
  ASSUME NEW a \in Nat, NEW b \in Nat, NEW c \in Nat,
         NEW x \in 0..a, NEW y \in 0..b, NEW z \in 0..c
  PROVE  x * y * z \in Nat /\ x * y * z <= a * b * c
<1>1. /\ x * y \in Nat /\ a * b \in Nat /\ x * y <= a * b
  <2>1. x * y <= x * b
    OBVIOUS
  <2>2. x * b <= a * b
    OBVIOUS
  <2> QED
    BY <2>1, <2>2
<1> DEFINE u == x * y
           v == a * b
<1>2. u \in 0..v /\ v \in Nat
  BY <1>1
<1> HIDE DEF u, v
<1>3. u * z <= u * c
  BY <1>2
<1>4. u * c <= v * c
  BY <1>2
<1> QED
  BY <1>2, <1>3, <1>4 DEF u, v

(***************************************************************************)
(* The impacts of a finding, of its vector or of its severity.             *)
(***************************************************************************)
ImpactValues == {"N", "L", "H"}

(***************************************************************************)
(* The impact on each objective is none, low or high, whether a vector or  *)
(* a severity says so (baseImpact, impactFromSeverity).                    *)
(***************************************************************************)
LEMMA ImpactTyped ==
  ASSUME NEW f, f.impacts \in {<<>>} \cup [1..3 -> ImpactValues], NEW n \in 1..3
  PROVE  Shape(f)[n] \in ImpactValues /\ Impact(f)[n] \in ImpactValues
<1>1. Shape(f)[n] \in ImpactValues
  <2>1. CASE f.impacts = <<>>
    BY <2>1 DEF Shape, ImpactValues
  <2>2. CASE f.impacts # <<>>
    BY <2>2 DEF Shape
  <2> QED
    BY <2>1, <2>2
<1> QED
  BY <1>1 DEF Impact, ImpactValues

\* The thresholds of a rubric are numbers; nothing more is asked of them.
Thresholds(r) ==
  r.thresholds.narrow \in Int /\ r.thresholds.disruptive \in Int /\ r.thresholds.debilitating \in Int

(***************************************************************************)
(* Less that is left unharmed never lowers the rating, and neither does    *)
(* the use by several agencies (wordFromScalar, tierFromWord), whatever    *)
(* thresholds the rubric sets.                                             *)
(***************************************************************************)
LEMMA TierRises ==
  ASSUME NEW r, Thresholds(r), NEW a, NEW b, NEW f, NEW g,
         Unharmed(f, Capped(r, a)) \in Nat,
         Unharmed(g, Capped(r, b)) \in 0..Unharmed(f, Capped(r, a)),
         MultiAgency(r, a) => MultiAgency(r, b)
  PROVE  Tier(r, a, f) \in 1..5 /\ Tier(r, b, g) \in Tier(r, a, f)..5
BY DEF Tier, Thresholds

(***************************************************************************)
(* If less is left on each objective, less is left of the whole.           *)
(***************************************************************************)
LEMMA UnharmedFalls ==
  ASSUME NEW f, NEW g, NEW q, NEW r,
         \A n \in 1..3 : Impact(f)[n] \in ImpactValues /\ Impact(g)[n] \in ImpactValues,
         \A o \in Objectives, n \in 1..3 : Left(Impact(g)[n], r[o]) <= Left(Impact(f)[n], q[o])
  PROVE  Unharmed(f, q) \in Nat /\ Unharmed(g, r) \in 0..Unharmed(f, q)
<1>1. \A i \in ImpactValues : \A level : Left(i, level) \in 16..100
  BY LeftValues DEF ImpactValues
<1> DEFINE a == Left(Impact(f)[1], q.CR)
           b == Left(Impact(f)[2], q.IR)
           c == Left(Impact(f)[3], q.AR)
           x == Left(Impact(g)[1], r.CR)
           y == Left(Impact(g)[2], r.IR)
           z == Left(Impact(g)[3], r.AR)
<1>2. /\ a \in Nat /\ b \in Nat /\ c \in Nat
      /\ x \in 0..a /\ y \in 0..b /\ z \in 0..c
  <2>1. /\ "CR" \in Objectives /\ "IR" \in Objectives /\ "AR" \in Objectives
        /\ 1 \in 1..3 /\ 2 \in 1..3 /\ 3 \in 1..3
    BY DEF Objectives
  <2>2. x <= a /\ y <= b /\ z <= c
    BY <2>1
  <2> QED
    BY <1>1, <2>2
<1>3. Unharmed(f, q) = a * b * c /\ Unharmed(g, r) = x * y * z
  BY DEF Unharmed
<1> HIDE DEF a, b, c, x, y, z
<1>4. x * y * z \in Nat /\ x * y * z <= a * b * c
  BY <1>2, ProductFalls
<1>5. a * b * c \in Nat
  <2>1. a \in 0..a /\ b \in 0..b /\ c \in 0..c
    BY <1>2
  <2> QED
    BY <1>2, <2>1, ProductFalls
<1> QED
  BY <1>3, <1>4, <1>5

(***************************************************************************)
(* The class is one of the four, whatever labels and defaults say.         *)
(***************************************************************************)
LEMMA ClassTyped == ASSUME NEW r, NEW a PROVE ClassOf(r, a) \in Classes
<1> DEFINE values == <<a.classLabel, a.nsClassLabel, r.class>>
           stated == {n \in 1..3 : values[n] \in Classes}
<1>1. stated = {n \in DOMAIN values : values[n] \in Classes}
  OBVIOUS
<1>2. ClassOf(r, a) = IF stated = {} THEN "B" ELSE values[Min(stated)]
  BY <1>1 DEF ClassOf, First
<1>3. ASSUME stated # {} PROVE Min(stated) \in stated
  <2>1. \E n \in stated : \A m \in stated : n <= m
    <3>1. CASE 1 \in stated
      BY <3>1
    <3>2. CASE 1 \notin stated /\ 2 \in stated
      BY <3>2
    <3>3. CASE 1 \notin stated /\ 2 \notin stated
      <4>1. stated = {3}
        BY <1>3, <3>3
      <4> QED
        BY <4>1
    <3> QED
      BY <3>1, <3>2, <3>3
  <2> QED
    BY <2>1 DEF Min
<1>4. stated # {} => values[Min(stated)] \in Classes
  BY <1>3
<1> QED
  BY <1>2, <1>4 DEF Classes

(***************************************************************************)
(* The facts of a finding, and what is worse.                              *)
(***************************************************************************)
FindingFacts(f) ==
  /\ {"active", "total", "epss", "av", "impacts"} \subseteq DOMAIN f
  /\ f.active \in BOOLEAN /\ f.total \in BOOLEAN /\ f.epss \in Int /\ f.epss <= 100
  /\ f.impacts \in {<<>>} \cup [1..3 -> ImpactValues]

(***************************************************************************)
(* What is worse in one fact is as bad in all the others, and leaves no    *)
(* more unharmed, whatever is required.                                    *)
(***************************************************************************)
LEMMA WorseFacts ==
  ASSUME NEW f, FindingFacts(f), NEW w \in {f} \cup Worse(f)
  PROVE  /\ f.active => w.active
         /\ w.epss \in f.epss..100
         /\ f.av = "N" => w.av = "N"
         /\ \A n \in 1..3 : /\ Impact(f)[n] \in ImpactValues /\ Impact(w)[n] \in ImpactValues
                            /\ \A level : Left(Impact(w)[n], level) <= Left(Impact(f)[n], level)
<1>1. \A n \in 1..3 : Shape(f)[n] \in ImpactValues /\ Impact(f)[n] \in ImpactValues
  BY ImpactTyped DEF FindingFacts
<1>2. \A i \in ImpactValues : \A level : Left("H", level) <= Left(i, level) /\ Left(i, level) \in Int
  BY LeftValues DEF ImpactValues
<1>3. f.epss \in Int /\ f.epss <= 100
  BY DEF FindingFacts
<1> DEFINE Facts == (f.active => w.active) /\ w.epss \in f.epss..100 /\ (f.av = "N" => w.av = "N")
           Raised == \A n \in 1..3 : Impact(w)[n] = Impact(f)[n] \/ Impact(w)[n] = "H"
<1>4. ASSUME \/ w = f \/ w = [f EXCEPT !.active = TRUE]
             \/ w = [f EXCEPT !.epss = 100] \/ w = [f EXCEPT !.av = "N"]
      PROVE  Facts /\ Raised
  <2>1. /\ f.active => w.active
        /\ f.av = "N" => w.av = "N"
        /\ w.epss \in {f.epss, 100}
        /\ w.impacts = f.impacts /\ w.severity = f.severity /\ w.total = f.total
    <3>1. CASE w = f
      BY <3>1
    <3>2. CASE w = [f EXCEPT !.active = TRUE]
      BY <3>2 DEF FindingFacts
    <3>3. CASE w = [f EXCEPT !.epss = 100]
      BY <3>3 DEF FindingFacts
    <3>4. CASE w = [f EXCEPT !.av = "N"]
      BY <3>4 DEF FindingFacts
    <3> QED
      BY <1>4, <3>1, <3>2, <3>3, <3>4
  <2>2. Raised
    BY <2>1 DEF Impact, Shape
  <2> QED
    BY <1>3, <2>1, <2>2
<1>5. ASSUME w = [f EXCEPT !.total = TRUE] PROVE Facts /\ Raised
  <2>1. /\ w.active = f.active /\ w.epss = f.epss /\ w.av = f.av /\ w.total
        /\ w.impacts = f.impacts /\ w.severity = f.severity
    BY <1>5 DEF FindingFacts
  <2>2. Shape(w) = Shape(f)
    BY <2>1 DEF Shape
  <2>3. \A n \in 1..3 : Impact(w)[n] = IF Shape(f)[n] = "L" THEN "H" ELSE Shape(f)[n]
    BY <2>1, <2>2 DEF Impact
  <2>4. Raised
    BY <2>3 DEF Impact
  <2> QED
    BY <1>3, <2>1, <2>4
<1>6. ASSUME f.impacts # <<>>, \E m \in DOMAIN f.impacts : w = [f EXCEPT !.impacts[m] = "H"]
      PROVE  Facts /\ Raised
  <2>1. PICK m \in DOMAIN f.impacts : w = [f EXCEPT !.impacts[m] = "H"]
    BY <1>6
  <2>2. /\ w.active = f.active /\ w.epss = f.epss /\ w.av = f.av /\ w.total = f.total
        /\ w.impacts = [f.impacts EXCEPT ![m] = "H"]
    BY <2>1 DEF FindingFacts
  <2>3. f.impacts \in [1..3 -> ImpactValues] /\ w.impacts \in [1..3 -> ImpactValues]
    BY <1>6, <2>2 DEF FindingFacts, ImpactValues
  <2>4. w.impacts # <<>>
    BY <2>3
  <2>5. Shape(w) = w.impacts /\ Shape(f) = f.impacts
    BY <1>6, <2>4 DEF Shape
  <2>6. \A n \in 1..3 : Shape(w)[n] \in {Shape(f)[n], "H"}
    BY <2>2, <2>3, <2>5
  <2>7. Raised
    BY <2>2, <2>6 DEF Impact
  <2> QED
    BY <1>3, <2>2, <2>7
<1>7. Facts /\ Raised
  BY <1>4, <1>5, <1>6 DEF Worse
<1>8. \A n \in 1..3 : /\ Impact(w)[n] \in ImpactValues
                     /\ \A level : Left(Impact(w)[n], level) <= Left(Impact(f)[n], level)
  <2> SUFFICES ASSUME NEW n \in 1..3
               PROVE  /\ Impact(w)[n] \in ImpactValues
                      /\ \A level : Left(Impact(w)[n], level) <= Left(Impact(f)[n], level)
    OBVIOUS
  <2>1. CASE Impact(w)[n] = Impact(f)[n]
    BY <1>1, <1>2, <2>1
  <2>2. CASE Impact(w)[n] = "H"
    BY <1>1, <1>2, <2>2 DEF ImpactValues
  <2> QED
    BY <1>7, <2>1, <2>2
<1> QED
  BY <1>1, <1>7, <1>8

(***************************************************************************)
(* The remediation matrix: a higher rating, a likely exploit and a route   *)
(* from the internet each bring the deadline forward (remediationMatrix).  *)
(***************************************************************************)
LEMMA MatrixFalls ==
  ASSUME NEW class \in Classes, NEW tier \in 1..5, NEW higher \in tier..5,
         NEW lev \in BOOLEAN, NEW irv \in BOOLEAN, NEW likelier \in BOOLEAN, NEW nearer \in BOOLEAN,
         lev => likelier, irv => nearer
  PROVE  ~MoreUrgent([tier |-> tier, days |-> Deadline(class, tier, lev, irv)],
                     [tier |-> higher, days |-> Deadline(class, higher, likelier, nearer)])
<1>1. \A c \in Classes : Row(c, 1) = <<0, 0, 0>>
  BY DEF Row
<1>2. /\ Row("C", 2) = <<96, 256, 384>> /\ Row("C", 3) = <<32, 64, 256>>
      /\ Row("C", 4) = <<8, 16, 128>> /\ Row("C", 5) = <<4, 8, 32>>
  BY DEF Row
<1>3. /\ Row("D", 2) = <<48, 192, 384>> /\ Row("D", 3) = <<16, 32, 128>>
      /\ Row("D", 4) = <<4, 16, 64>> /\ Row("D", 5) = <<1, 2, 16>>
  BY DEF Row
<1>4. \A c \in {"A", "B"} :
        /\ Row(c, 2) = <<192, 320, 384>> /\ Row(c, 3) = <<64, 128, 384>>
        /\ Row(c, 4) = <<16, 64, 128>> /\ Row(c, 5) = <<8, 16, 64>>
  BY DEF Row
<1> DEFINE column(l, i) == IF ~l THEN 3 ELSE IF i THEN 1 ELSE 2
           days(t, k) == IF Row(class, t)[k] = 0 THEN 1000 ELSE Row(class, t)[k]
<1>5. column(lev, irv) \in 1..3 /\ column(likelier, nearer) \in 1..3
      /\ column(likelier, nearer) <= column(lev, irv)
  OBVIOUS
<1>6. \A t \in 1..5, k \in 1..3 : days(t, k) \in Nat
  BY <1>1, <1>2, <1>3, <1>4 DEF Classes
<1>7. \A t \in 1..5 : days(t, 1) <= days(t, 2) /\ days(t, 2) <= days(t, 3)
  BY <1>1, <1>2, <1>3, <1>4 DEF Classes
<1>8. \A t \in 1..4, k \in 1..3 : days(t + 1, k) <= days(t, k)
  BY <1>1, <1>2, <1>3, <1>4 DEF Classes
<1> HIDE DEF days, column
<1>9. \A t \in 1..5, u \in 1..5, k \in 1..3 : t <= u => days(u, k) <= days(t, k)
  BY <1>6, <1>8
<1>10. \A t \in 1..5, j \in 1..3, k \in 1..3 : j <= k => days(t, j) <= days(t, k)
  BY <1>6, <1>7
<1>11. days(higher, column(likelier, nearer)) <= days(tier, column(lev, irv))
  BY <1>5, <1>6, <1>9, <1>10
<1>12. /\ Days([tier |-> tier, days |-> Deadline(class, tier, lev, irv)]) = days(tier, column(lev, irv))
       /\ Days([tier |-> higher, days |-> Deadline(class, higher, likelier, nearer)])
            = days(higher, column(likelier, nearer))
  BY DEF Days, Deadline, days, column
<1> QED
  BY <1>5, <1>6, <1>11, <1>12 DEF MoreUrgent

(***************************************************************************)
(* Whatever the rubric, worse facts of a finding, and a route from the     *)
(* internet, never make it less urgent on the same asset (Score).          *)
(***************************************************************************)
LEMMA WorseIsNoLater ==
  ASSUME NEW r, Thresholds(r), r.levIRV \in Int, r.levNIRV \in Int, r.levIRV <= r.levNIRV,
         NEW f, FindingFacts(f), NEW w \in {f} \cup Worse(f), NEW a, ~a.function,
         NEW reachable \in BOOLEAN, NEW now \in {reachable, TRUE}
  PROVE  ~MoreUrgent(Score(r, a, f, reachable), Score(r, a, w, now))
<1>1. /\ Unharmed(f, Capped(r, a)) \in Nat
      /\ Unharmed(w, Capped(r, a)) \in 0..Unharmed(f, Capped(r, a))
  <2> DEFINE q == Capped(r, a)
  <2> HIDE DEF q
  <2>1. \A n \in 1..3 : /\ Impact(f)[n] \in ImpactValues /\ Impact(w)[n] \in ImpactValues
                       /\ \A level : Left(Impact(w)[n], level) <= Left(Impact(f)[n], level)
    BY WorseFacts
  <2>2. \A o \in Objectives, n \in 1..3 : Left(Impact(w)[n], q[o]) <= Left(Impact(f)[n], q[o])
    BY <2>1
  <2>3. Unharmed(f, q) \in Nat /\ Unharmed(w, q) \in 0..Unharmed(f, q)
    BY <2>1, <2>2, UnharmedFalls
  <2> QED
    BY <2>3 DEF q
<1>2. Tier(r, a, f) \in 1..5 /\ Tier(r, a, w) \in Tier(r, a, f)..5
  BY <1>1, TierRises
<1>3. IRV(f, reachable) \in BOOLEAN /\ IRV(w, now) \in BOOLEAN /\ (IRV(f, reachable) => IRV(w, now))
  BY WorseFacts DEF IRV
<1>4. LEV(r, f, reachable) \in BOOLEAN /\ LEV(r, w, now) \in BOOLEAN
  BY DEF LEV
<1>5. LEV(r, f, reachable) => LEV(r, w, now)
  BY <1>3, WorseFacts DEF LEV, FindingFacts
<1>6. ClassOf(r, a) \in Classes
  BY ClassTyped
<1> QED
  BY <1>2, <1>3, <1>4, <1>5, <1>6, MatrixFalls DEF Score

Lower(x, y) == IF RequirementRank(x) <= RequirementRank(y) THEN x ELSE y

(***************************************************************************)
(* Under any ceiling, what requires the highest level keeps at least the   *)
(* weight of what requires another (capRequirements): also where a catalog *)
(* or a ceiling has a level that is none of the three.                     *)
(***************************************************************************)
LEMMA CapRises ==
  ASSUME NEW required, NEW ceiling
  PROVE  Weight(Lower(required, ceiling)) <= Weight(Lower("H", ceiling))
<1>1. /\ RequirementRank("L") = 1 /\ RequirementRank("M") = 2 /\ RequirementRank("H") = 3
      /\ Weight("L") = 1 /\ Weight("M") = 2 /\ Weight("H") = 3
  BY DEF RequirementRank, Weight
<1>2. \A x : x \notin {"L", "M"} => RequirementRank(x) = 3
  BY DEF RequirementRank
<1>3. \A x : Weight(x) \in 1..3
  BY DEF Weight
<1>4. CASE ceiling = "L"
  <2>1. Lower("H", ceiling) = "L"
    BY <1>1, <1>4 DEF Lower
  <2>2. Lower(required, ceiling) = "L"
    BY <1>1, <1>2, <1>4 DEF Lower
  <2> QED
    BY <1>1, <2>1, <2>2
<1>5. CASE ceiling = "M"
  <2>1. Lower("H", ceiling) = "M"
    BY <1>1, <1>5 DEF Lower
  <2>2. Lower(required, ceiling) \in {"L", "M"}
    BY <1>1, <1>2, <1>5 DEF Lower
  <2> QED
    BY <1>1, <2>1, <2>2
<1>6. CASE ceiling \notin {"L", "M"}
  <2>1. Lower("H", ceiling) = "H"
    BY <1>1, <1>2, <1>6 DEF Lower
  <2> QED
    BY <1>1, <1>3, <2>1
<1> QED
  BY <1>4, <1>5, <1>6

(***************************************************************************)
(* Whatever the rubric, an asset with a label that names no profile is     *)
(* rated as least as urgent as with any other label, or none (Score,       *)
(* resolveClassification): it requires the most that the ceiling allows.   *)
(***************************************************************************)
LEMMA UnknownIsNoLater ==
  ASSUME NEW r, Thresholds(r), "no such profile" \notin DOMAIN r.catalog,
         NEW f, FindingFacts(f), NEW a, ~a.function,
         {"profileLabel", "classLabel", "nsClassLabel", "function"} \subseteq DOMAIN a,
         NEW reachable \in BOOLEAN
  PROVE  ~MoreUrgent(Score(r, a, f, reachable),
                     Score(r, [a EXCEPT !.profileLabel = "no such profile"], f, reachable))
<1> DEFINE b == [a EXCEPT !.profileLabel = "no such profile"]
<1>1. /\ b.profileLabel = "no such profile" /\ b.function = a.function
      /\ b.classLabel = a.classLabel /\ b.nsClassLabel = a.nsClassLabel
  OBVIOUS
<1> HIDE DEF b
<1>2. ~Known(r, ProfileOf(r, b))
  BY <1>1 DEF ProfileOf, Known
<1>3. MultiAgency(r, b)
  BY <1>2 DEF MultiAgency
<1>4. ASSUME NEW o \in Objectives
      PROVE  Weight(Capped(r, a)[o]) <= Weight(Capped(r, b)[o])
  <2>1. Requirements(r, b)[o] = "H"
    BY <1>2, <1>4 DEF Requirements
  <2>2. /\ Capped(r, b)[o] = Lower("H", r.ceiling[o])
        /\ Capped(r, a)[o] = Lower(Requirements(r, a)[o], r.ceiling[o])
    BY <1>4, <2>1 DEF Capped, Lower
  <2> QED
    BY <2>2, CapRises
<1>5. ASSUME NEW o \in Objectives, NEW n \in 1..3
      PROVE  Left(Impact(f)[n], Capped(r, b)[o]) <= Left(Impact(f)[n], Capped(r, a)[o])
  BY <1>4, ImpactTyped, LeftFalls DEF FindingFacts, ImpactValues
<1>6. /\ Unharmed(f, Capped(r, a)) \in Nat
      /\ Unharmed(f, Capped(r, b)) \in 0..Unharmed(f, Capped(r, a))
  <2>1. \A n \in 1..3 : Impact(f)[n] \in ImpactValues
    BY ImpactTyped DEF FindingFacts
  <2> DEFINE q == Capped(r, a)
             h == Capped(r, b)
  <2> HIDE DEF q, h
  <2>2. \A o \in Objectives, n \in 1..3 : Left(Impact(f)[n], h[o]) <= Left(Impact(f)[n], q[o])
    BY <1>5 DEF q, h
  <2>3. Unharmed(f, q) \in Nat /\ Unharmed(f, h) \in 0..Unharmed(f, q)
    BY <2>1, <2>2, UnharmedFalls
  <2> QED
    BY <2>3 DEF q, h
<1>7. Tier(r, a, f) \in 1..5 /\ Tier(r, b, f) \in Tier(r, a, f)..5
  BY <1>3, <1>6, TierRises
<1>8. ClassOf(r, b) = ClassOf(r, a) /\ ClassOf(r, a) \in Classes
  BY <1>1, ClassTyped DEF ClassOf
<1>9. LEV(r, f, reachable) \in BOOLEAN /\ IRV(f, reachable) \in BOOLEAN
  BY DEF LEV, IRV
<1> QED
  BY <1>1, <1>7, <1>8, <1>9, MatrixFalls DEF Score, b

(***************************************************************************)
(* The rubric of a run: numbers are numbers, and the name of no profile is *)
(* none, through the file, the ConfigMap and the flag.                     *)
(***************************************************************************)
RubricSound(r) ==
  /\ {"thresholds", "levIRV", "levNIRV", "catalog"} \subseteq DOMAIN r
  /\ Thresholds(r) /\ r.levIRV \in Int /\ r.levNIRV \in Int
  /\ "no such profile" \notin DOMAIN r.catalog

AssessmentInv == input \in Inputs /\ RubricSound(rubric)

(***************************************************************************)
(* A document that the decoder took, merged into a sound rubric, leaves it *)
(* sound (the layers of Load and ApplyClusterDefaults).                    *)
(***************************************************************************)
LEMMA MergeSound ==
  ASSUME NEW d, Decoded(d), NEW r, RubricSound(r)
  PROVE  RubricSound(Merge(d, r))
<1> DEFINE m == Merge(d, r)
<1>1. DOMAIN m = DOMAIN r
  BY DEF Merge
<1>2. m.thresholds \in {r.thresholds} \cup (IF "thresholds" \in DOMAIN d THEN {d.thresholds} ELSE {})
  BY DEF Merge, RubricSound
<1>3. Thresholds(m)
  BY <1>2 DEF Decoded, RubricSound, Thresholds
<1>4. m.levIRV \in Int /\ m.levNIRV \in Int
  BY DEF Merge, Decoded, RubricSound
<1>5. "no such profile" \notin DOMAIN m.catalog
  <2>1. CASE "catalog" \in DOMAIN d
    <3>1. DOMAIN m.catalog = DOMAIN r.catalog \cup DOMAIN d.catalog
      BY <2>1 DEF Merge, RubricSound
    <3> QED
      BY <2>1, <3>1 DEF Decoded, RubricSound
  <2>2. CASE "catalog" \notin DOMAIN d
    BY <2>2 DEF Merge, RubricSound
  <2> QED
    BY <2>1, <2>2
<1> QED
  BY <1>1, <1>3, <1>4, <1>5 DEF RubricSound

(***************************************************************************)
(* The defaults are sound.                                                 *)
(***************************************************************************)
LEMMA AssessmentInitInv == AssessmentInit(Inputs) => AssessmentInv
BY InputsAssumption DEF AssessmentInit, AssessmentInv, RubricSound, Thresholds, Decoded

\* Other settings of a rubric do not bear on it.
SameNumbers(q, r) ==
  /\ DOMAIN q = DOMAIN r /\ q.thresholds = r.thresholds /\ q.catalog = r.catalog
  /\ q.levIRV = r.levIRV /\ q.levNIRV = r.levNIRV

(***************************************************************************)
(* A change of other settings leaves a rubric sound.                       *)
(***************************************************************************)
LEMMA SameSound ==
  ASSUME NEW q, NEW r, SameNumbers(q, r), RubricSound(r) PROVE RubricSound(q)
BY DEF SameNumbers, RubricSound, Thresholds

(***************************************************************************)
(* Every layer keeps the rubric sound, also a ConfigMap that is rejected   *)
(* half way.                                                               *)
(***************************************************************************)
LEMMA AssessmentNextInv == AssessmentInv /\ [AssessmentNext]_assessmentVars => AssessmentInv'
<1> SUFFICES ASSUME AssessmentInv, [AssessmentNext]_assessmentVars PROVE AssessmentInv'
  OBVIOUS
<1> USE DEF AssessmentInv
<1>1. CASE LoadRubric
  <2> DEFINE merged == Merge(input.file, Builtin)
             loaded == Load(input.file, Builtin)
  <2>1. RubricSound(Builtin) /\ Decoded(input.file)
    BY InputsAssumption DEF RubricSound, Thresholds, Decoded
  <2>2. RubricSound(merged)
    BY <2>1, MergeSound
  <2>3. SameNumbers(loaded, merged)
    BY DEF Load, SameNumbers
  <2>4. RubricSound(loaded)
    BY <2>2, <2>3, SameSound
  <2> HIDE DEF loaded
  <2>5. rubric' \in {rubric, loaded} /\ input' = input
    BY <1>1 DEF LoadRubric, loaded
  <2> QED
    BY <2>4, <2>5
<1>2. CASE ApplyConfigMap
  <2> DEFINE map == input.configMap
             saved == [rubric EXCEPT !.previous = [ceiling |-> rubric.ceiling, origin |-> rubric.origin]]
             merged == Merge(map.document, saved)
             layered == Layered(saved, merged, map)
  <2>1. RubricSound(saved)
    <3>1. SameNumbers(saved, rubric)
      BY DEF SameNumbers
    <3> QED
      BY <3>1, SameSound
  <2>2. RubricSound(merged)
    BY <2>1, MergeSound, InputsAssumption
  <2>3. RubricSound(layered)
    <3>1. /\ DOMAIN layered = DOMAIN merged /\ layered.catalog = merged.catalog
          /\ layered.levIRV = merged.levIRV /\ layered.levNIRV = merged.levNIRV
          /\ "thresholds" \in DOMAIN merged => layered.thresholds = saved.thresholds
      BY DEF Layered
    <3> QED
      BY <2>1, <2>2, <3>1 DEF RubricSound, Thresholds
  <2>4. input' = input /\ rubric' = ApplyClusterDefaults(rubric, map).rubric
    BY <1>2 DEF ApplyConfigMap
  <2>5. rubric' \in {rubric, saved, merged, layered}
    <3>1. map.state \in {"none", "governed", "mistyped", "retired", "decoded"}
      BY InputsAssumption
    <3> QED
      BY <2>4, <3>1 DEF ApplyClusterDefaults, Outcome
  <2> HIDE DEF saved, merged, layered
  <2> QED
    BY <2>1, <2>2, <2>3, <2>4, <2>5
<1>3. CASE SettleCeiling
  <2>1. input' = input /\ rubric' = ApplyCeiling(rubric, input.flag)
    BY <1>3 DEF SettleCeiling
  <2>2. SameNumbers(rubric', rubric)
    <3>1. input.flag.given \in {"vector", "configmap", ""}
      BY InputsAssumption
    <3>2. CASE input.flag.given = "vector"
      <4>1. rubric' = [rubric EXCEPT !.ceiling = input.flag.ceiling, !.origin = "runtime"]
        BY <2>1, <3>2 DEF ApplyCeiling
      <4> QED
        BY <4>1 DEF SameNumbers
    <3>3. CASE input.flag.given = "configmap"
      BY <2>1, <3>3 DEF ApplyCeiling, SameNumbers
    <3>4. CASE input.flag.given = ""
      <4>1. rubric' = Discard(rubric)
        BY <2>1, <3>4 DEF ApplyCeiling
      <4>2. CASE rubric.origin # "configMap"
        BY <4>1, <4>2 DEF Discard, SameNumbers
      <4>3. CASE rubric.origin = "configMap"
        <5>1. rubric' = [rubric EXCEPT !.ceiling = rubric.previous.ceiling,
                                       !.origin = rubric.previous.origin]
          BY <4>1, <4>3 DEF Discard
        <5> QED
          BY <5>1 DEF SameNumbers
      <4> QED
        BY <4>2, <4>3
    <3> QED
      BY <3>1, <3>2, <3>3, <3>4
  <2> QED
    BY <2>1, <2>2, SameSound
<1>4. CASE WriteReport \/ WriteHTML \/ WriteFails \/ UNCHANGED assessmentVars
  BY <1>4 DEF WriteReport, WriteHTML, WriteFails, assessmentVars
<1> QED
  BY <1>1, <1>2, <1>3, <1>4 DEF AssessmentNext

-----------------------------------------------------------------------------
(* The report                                                              *)

(***************************************************************************)
(* A finding that is inserted joins those that are there.                  *)
(***************************************************************************)
LEMMA InsertedElements ==
  ASSUME NEW s, IsList(s), NEW x
  PROVE  IsList(Inserted(s, x)) /\ Range(Inserted(s, x)) = Range(s) \cup {x}
<1> DEFINE behind == {g \in Range(s) : Before(x, g)}
           front == Only(s, Range(s) \ behind)
           back == Only(s, behind)
           one == <<x>>
<1>1. Inserted(s, x) = (front \o one) \o back
  BY DEF Inserted
<1>2. behind \subseteq Range(s)
  OBVIOUS
<1> HIDE DEF behind
<1>3. IsList(front) /\ Range(front) = Range(s) \ behind
  <2>1. front \in Seq(Range(s)) /\ Range(front) = (Range(s) \ behind) \cap Range(s)
    BY OnlyElements
  <2> HIDE DEF front
  <2> QED
    BY <2>1 DEF IsList, Range
<1>4. IsList(back) /\ Range(back) = behind
  <2>1. back \in Seq(Range(s)) /\ Range(back) = behind \cap Range(s)
    BY OnlyElements
  <2> HIDE DEF back
  <2> QED
    BY <1>2, <2>1 DEF IsList, Range
<1>5. IsList(one) /\ Range(one) = {x}
  <2>1. one \in Seq({x}) /\ DOMAIN one = 1..1 /\ 1..1 = {1} /\ one[1] = x
    OBVIOUS
  <2> HIDE DEF one
  <2>2. Range(one) = {x}
    BY <2>1 DEF Range
  <2> QED
    BY <2>1, <2>2 DEF IsList
<1> HIDE DEF front, back, one
<1>6. IsList(front \o one) /\ Range(front \o one) = Range(front) \cup Range(one)
  BY <1>3, <1>5, JoinElements
<1>7. /\ IsList((front \o one) \o back)
      /\ Range((front \o one) \o back) = Range(front \o one) \cup Range(back)
  BY <1>4, <1>6, JoinElements
<1> QED
  BY <1>1, <1>2, <1>3, <1>4, <1>5, <1>6, <1>7

(***************************************************************************)
(* The loop that sorts has a result, step by step.                         *)
(***************************************************************************)
LEMMA SortedRuns ==
  ASSUME NEW S, NEW s \in Seq(S)
  PROVE  \E upTo : /\ upTo[0] = <<>>
                   /\ \A n \in 1..Len(s) : upTo[n] = Inserted(upTo[n - 1], s[n])
                   /\ Sorted(s) = upTo[Len(s)]
<1> DEFINE N == Len(s)
           A == Seq(S)
           grow(n, before) == Inserted(before, s[n])
           loop(g) == [n \in 0..N |-> IF n = 0 THEN <<>> ELSE grow(n, g[n - 1])]
           upTo == CHOOSE g : g = loop(g)
           h == [p \in (1..N) \X A |-> grow(p[1], p[2])]
<1>1. N \in Nat /\ <<>> \in A /\ DOMAIN s = 1..N /\ \A n \in 1..N : s[n] \in S
  OBVIOUS
<1>2. \A n \in 1..N, q \in A : grow(n, q) \in A
  <2> SUFFICES ASSUME NEW n \in 1..N, NEW q \in A PROVE Inserted(q, s[n]) \in A
    OBVIOUS
  <2> DEFINE longer == Inserted(q, s[n])
  <2>1. IsList(q) /\ Range(q) \subseteq S
    BY DEF IsList, Range
  <2>2. IsList(longer) /\ Range(longer) = Range(q) \cup {s[n]}
    BY <2>1, InsertedElements
  <2> HIDE DEF longer
  <2>3. longer \in Seq(Range(longer)) /\ Range(longer) \subseteq S
    BY <1>1, <2>1, <2>2 DEF IsList
  <2>4. longer \in Seq(S)
    BY <2>3
  <2> QED
    BY <2>4 DEF longer
<1>3. h \in [(1..N) \X A -> A]
  <2> HIDE DEF grow, A
  <2> QED
    BY <1>2
<1>4. PICK g \in [0..N -> A] : Loop(g, N, <<>>, h)
  <2> HIDE DEF h, A, N
  <2>1. <<>> \in A /\ N \in Nat
    BY <1>1
  <2> QED
    BY <1>3, <2>1, LoopRuns
<1>5. g = loop(g)
  <2>1. \A n \in 1..N : g[n] = grow(n, g[n - 1])
    <3>1. ASSUME NEW n \in 1..N PROVE g[n] = grow(n, g[n - 1])
      <4>1. g[n - 1] \in A
        <5>1. n - 1 \in 0..N
          BY <1>1
        <5> HIDE DEF A, grow, loop, upTo, h
        <5> QED
          BY <1>4, <5>1
      <4>2. <<n, g[n - 1]>> \in (1..N) \X A
        BY <4>1, Zenon
      <4>3. h[<<n, g[n - 1]>>] = grow(n, g[n - 1])
        <5> HIDE DEF grow
        <5> QED
          BY <4>2
      <4> QED
        BY <1>4, <4>3 DEF Loop
    <3> QED
      BY <3>1
  <2> HIDE DEF grow
  <2> QED
    BY <1>4, <2>1 DEF Loop
<1>6. upTo = loop(upTo)
  <2> HIDE DEF loop
  <2> QED
    BY <1>5, Zenon
<1>7. Sorted(s) = upTo[N]
  BY DEF Sorted
<1> HIDE DEF upTo
<1>8. upTo[0] = <<>> /\ \A n \in 1..N : upTo[n] = grow(n, upTo[n - 1])
  <2> HIDE DEF grow
  <2>1. upTo[0] = <<>>
    BY <1>1, <1>6
  <2>2. ASSUME NEW n \in 1..N PROVE upTo[n] = grow(n, upTo[n - 1])
    <3>1. n \in 0..N /\ n # 0
      BY <1>1
    <3>2. \A q : q = loop(upTo) => q[n] = IF n = 0 THEN <<>> ELSE grow(n, upTo[n - 1])
      BY <3>1
    <3> QED
      BY <1>6, <3>1, <3>2
  <2> QED
    BY <2>1, <2>2
<1> QED
  BY <1>7, <1>8

(***************************************************************************)
(* Sorting loses no finding and makes none.                                *)
(***************************************************************************)
LEMMA SortedElements ==
  ASSUME NEW s, IsList(s)
  PROVE  IsList(Sorted(s)) /\ Range(Sorted(s)) = Range(s)
<1> DEFINE S == Range(s)
           N == Len(s)
<1>1. s \in Seq(S) /\ N \in Nat /\ DOMAIN s = 1..N
  BY DEF IsList
<1>2. PICK upTo : /\ upTo[0] = <<>>
                  /\ \A n \in 1..N : upTo[n] = Inserted(upTo[n - 1], s[n])
                  /\ Sorted(s) = upTo[N]
  BY <1>1, SortedRuns
<1>3. S = {s[i] : i \in 1..N}
  BY <1>1 DEF Range
<1> HIDE DEF N, S
<1> DEFINE Done(n) == IsList(upTo[n]) /\ Range(upTo[n]) = {s[i] : i \in 1..n}
           Holds == {n \in Nat : n <= N => Done(n)}
<1>4. 0 \in Holds
  <2>1. upTo[0] = <<>> /\ 1..0 = {}
    BY <1>2
  <2>2. IsList(<<>>) /\ Range(<<>>) = {}
    BY DEF IsList, Range
  <2>3. Done(0)
    BY <2>1, <2>2
  <2> HIDE DEF Done
  <2> QED
    BY <2>3
<1>5. ASSUME NEW n \in Nat, n \in Holds PROVE n + 1 \in Holds
  <2> SUFFICES ASSUME n + 1 <= N PROVE Done(n + 1)
    OBVIOUS
  <2>1. Done(n)
    <3>1. n <= N
      BY <1>1
    <3> HIDE DEF Done
    <3> QED
      BY <1>5, <3>1
  <2>2. upTo[n + 1] = Inserted(upTo[n], s[n + 1])
    <3>1. n + 1 \in 1..N /\ (n + 1) - 1 = n
      BY <1>1
    <3> QED
      BY <1>2, <3>1
  <2>3. IsList(upTo[n + 1]) /\ Range(upTo[n + 1]) = Range(upTo[n]) \cup {s[n + 1]}
    BY <2>1, <2>2, InsertedElements
  <2>4. 1..(n + 1) = 1..n \cup {n + 1}
    OBVIOUS
  <2>5. {s[i] : i \in 1..(n + 1)} = {s[i] : i \in 1..n} \cup {s[n + 1]}
    BY <2>4
  <2> QED
    BY <2>1, <2>3, <2>5
<1> HIDE DEF Holds
<1>6. Nat \subseteq Holds
  BY <1>4, <1>5, SetInduction
<1>7. Done(N)
  <2> HIDE DEF Done
  <2> QED
    BY <1>1, <1>6 DEF Holds
<1> QED
  BY <1>2, <1>3, <1>7 DEF S

-----------------------------------------------------------------------------

\* Findings as the scans make them.
FindingList(s) ==
  /\ IsList(s)
  /\ \A f \in Range(s) :
       /\ {"id", "package", "version", "vex", "resources", "images", "suppressed",
           "active", "total", "epss"} \subseteq DOMAIN f
       /\ f.suppressed \in BOOLEAN

\* The list says that such a finding affects an asset, and with what status.
Affected(s, identity, asset) ==
  \E f \in Range(s) : Identity(f) = identity /\ asset \in f.resources
AffectedAs(s, identity, asset, status) ==
  \E f \in Range(s) : Identity(f) = identity /\ asset \in f.resources /\ f.suppressed = status

\* So it does of a finding that passes the filters.
PassedAs(s, o, identity, asset, status) ==
  \E f \in Range(s) :
    /\ Identity(f) = identity /\ asset \in f.resources /\ f.suppressed = status
    /\ Passes(f, o)

\* The entries of a report that are about such a finding.
Reported(entries, identity) == \E e \in Range(entries) : Identity(e.finding) = identity
ReportedOn(entries, identity, asset) ==
  \E e \in Range(entries) : Identity(e.finding) = identity /\ asset \in e.finding.resources

(***************************************************************************)
(* Findings of which some are kept are findings.                           *)
(***************************************************************************)
LEMMA KeptFindings ==
  ASSUME NEW s, FindingList(s), NEW kept
  PROVE  FindingList(Only(s, kept)) /\ Range(Only(s, kept)) = kept \cap Range(s)
<1> DEFINE t == Only(s, kept)
<1>1. t \in Seq(Range(s)) /\ Range(t) = kept \cap Range(s)
  BY OnlyElements DEF FindingList
<1> HIDE DEF t
<1>2. IsList(t)
  BY <1>1 DEF IsList, Range
<1> QED
  BY <1>1, <1>2 DEF FindingList, t

(***************************************************************************)
(* The filters let through what passes them, and say no other thing of it  *)
(* that matters to the report.                                             *)
(***************************************************************************)
LEMMA FilteredTells ==
  ASSUME NEW s, FindingList(s), NEW o
  PROVE  /\ FindingList(Filtered(s, o))
         /\ \A identity, asset, status :
              AffectedAs(Filtered(s, o), identity, asset, status) <=> PassedAs(s, o, identity, asset, status)
<1> DEFINE passing == Only(s, {f \in Range(s) : Passes(f, o)})
           kept == Sorted(passing)
           bare == [n \in DOMAIN kept |-> Stripped(kept[n])]
           Like(f, g) == Identity(f) = Identity(g) /\ f.resources = g.resources /\ f.suppressed = g.suppressed
<1>1. FindingList(passing) /\ Range(passing) = {f \in Range(s) : Passes(f, o)}
  BY KeptFindings
<1> HIDE DEF passing
<1>2. FindingList(kept) /\ Range(kept) = {f \in Range(s) : Passes(f, o)}
  BY <1>1, SortedElements DEF FindingList
<1> HIDE DEF kept
<1>3. ASSUME NEW f \in Range(kept)
      PROVE  Like(Stripped(f), f) /\ DOMAIN Stripped(f) = DOMAIN f
  BY <1>2 DEF Stripped, Identity, FindingList
<1>4. FindingList(bare) /\ Range(bare) = {Stripped(f) : f \in Range(kept)}
  <2>1. DOMAIN kept = 1..Len(kept) /\ Len(kept) \in Nat
    BY <1>2 DEF FindingList, IsList
  <2>2. bare = [n \in 1..Len(kept) |-> bare[n]] /\ \A n \in 1..Len(kept) : bare[n] = Stripped(kept[n])
    BY <2>1
  <2> HIDE DEF bare
  <2>3. IsList(bare) /\ Range(bare) = {bare[n] : n \in 1..Len(kept)}
    BY <2>1, <2>2, ListOf
  <2>4. Range(bare) = {Stripped(f) : f \in Range(kept)}
    BY <2>1, <2>2, <2>3 DEF Range
  <2> HIDE DEF Like
  <2>5. \A f \in Range(kept) : DOMAIN Stripped(f) = DOMAIN f /\ Stripped(f).suppressed = f.suppressed
    BY <1>3 DEF Like
  <2>6. \A g \in Range(bare) : \E f \in Range(kept) :
          DOMAIN g = DOMAIN f /\ g.suppressed = f.suppressed
    BY <2>4, <2>5
  <2>7. FindingList(bare)
    BY <1>2, <2>3, <2>6 DEF FindingList
  <2> QED
    BY <2>4, <2>7
<1>5. Filtered(s, o) = IF o.reachabilityOnly THEN bare ELSE kept
  BY DEF Filtered, bare, kept, passing
<1>6. CASE o.reachabilityOnly
  <2>1. Filtered(s, o) = bare
    BY <1>5, <1>6
  <2> HIDE DEF bare
  <2>2. Range(Filtered(s, o)) = {Stripped(f) : f \in {g \in Range(s) : Passes(g, o)}}
    BY <1>2, <1>4, <2>1
  <2>3. \A f \in Range(s) : Passes(f, o) => Like(Stripped(f), f)
    BY <1>2, <1>3
  <2> QED
    BY <1>4, <2>1, <2>2, <2>3 DEF AffectedAs, PassedAs
<1>7. CASE ~o.reachabilityOnly
  <2>1. Filtered(s, o) = kept
    BY <1>5, <1>7
  <2> QED
    BY <1>2, <2>1 DEF AffectedAs, PassedAs
<1> QED
  BY <1>6, <1>7

(***************************************************************************)
(* Of the findings that are alike one is kept.                             *)
(***************************************************************************)
LEMMA FirstsTell ==
  ASSUME NEW s, IsList(s)
  PROVE  /\ IsList(Firsts(s)) /\ Range(Firsts(s)) \subseteq Range(s)
         /\ \A f \in Range(s) : \E g \in Range(Firsts(s)) : Identity(g) = Identity(f)
<1> DEFINE key == [f \in Range(s) |-> DedupeKey(f)]
<1>1. \A f \in Range(s) : key[f] = Identity(f)
  BY DEF DedupeKey, Identity
<1>2. Firsts(s) = FirstOfEach(s, key)
  BY DEF Firsts
<1> HIDE DEF key
<1>3. /\ IsList(FirstOfEach(s, key)) /\ Range(FirstOfEach(s, key)) \subseteq Range(s)
      /\ \A f \in Range(s) : \E g \in Range(FirstOfEach(s, key)) : key[g] = key[f]
  BY FirstElements
<1> QED
  BY <1>1, <1>2, <1>3

(***************************************************************************)
(* Findings that are merged affect what they affected.                     *)
(***************************************************************************)
LEMMA DedupedTells ==
  ASSUME NEW s, FindingList(s)
  PROVE  \A identity, asset : Affected(Deduped(s), identity, asset) <=> Affected(s, identity, asset)
<1> DEFINE first == Firsts(s)
           alike(f) == {g \in Range(s) : DedupeKey(g) = DedupeKey(f)}
           whole(f) == [f EXCEPT !.resources = UNION {g.resources : g \in alike(f)},
                                 !.images = UNION {g.images : g \in alike(f)}]
<1>1. /\ Range(first) \subseteq Range(s)
      /\ \A f \in Range(s) : \E g \in Range(first) : Identity(g) = Identity(f)
  BY FirstsTell DEF FindingList
<1>2. Deduped(s) = [n \in DOMAIN first |-> whole(first[n])]
  BY DEF Deduped
<1> HIDE DEF first
<1>3. Range(Deduped(s)) = {whole(f) : f \in Range(first)}
  <2> HIDE DEF whole
  <2> QED
    BY <1>2 DEF Range
<1>4. ASSUME NEW f \in Range(s)
      PROVE  /\ Identity(whole(f)) = Identity(f)
             /\ whole(f).resources = UNION {g.resources : g \in alike(f)}
  <2>1. {"id", "package", "version", "vex", "resources", "images"} \subseteq DOMAIN f
    BY DEF FindingList
  <2> HIDE DEF alike
  <2> QED
    BY <2>1 DEF Identity
<1>5. \A f, g \in Range(s) : g \in alike(f) <=> Identity(g) = Identity(f)
  BY DEF DedupeKey, Identity
<1> HIDE DEF whole, alike
<1>6. ASSUME NEW identity, NEW asset, Affected(Deduped(s), identity, asset)
      PROVE  Affected(s, identity, asset)
  <2>1. PICK f \in Range(first) : Identity(whole(f)) = identity /\ asset \in whole(f).resources
    BY <1>3, <1>6 DEF Affected
  <2>2. PICK g \in alike(f) : asset \in g.resources
    BY <1>1, <1>4, <2>1
  <2>3. g \in Range(s)
    BY <2>2 DEF alike
  <2> QED
    BY <1>1, <1>4, <1>5, <2>1, <2>2, <2>3 DEF Affected
<1>7. ASSUME NEW identity, NEW asset, Affected(s, identity, asset)
      PROVE  Affected(Deduped(s), identity, asset)
  <2>1. PICK g \in Range(s) : Identity(g) = identity /\ asset \in g.resources
    BY <1>7 DEF Affected
  <2>2. PICK f \in Range(first) : Identity(f) = Identity(g)
    BY <1>1, <2>1
  <2>3. f \in Range(s) /\ g \in alike(f)
    BY <1>1, <1>5, <2>2
  <2>4. Identity(whole(f)) = identity /\ asset \in whole(f).resources
    BY <1>4, <2>1, <2>2, <2>3
  <2> QED
    BY <1>3, <2>4 DEF Affected
<1> QED
  BY <1>6, <1>7

(***************************************************************************)
(* What is said of each finding leaves the finding as it is.               *)
(***************************************************************************)
LEMMA EachTells ==
  ASSUME NEW s, NEW in, NEW r, NEW identity, NEW asset
  PROVE  ReportedOn(Each(s, in, r), identity, asset) <=> Affected(s, identity, asset)
<1> DEFINE all == Each(s, in, r)
<1>1. \A f : Entered(f, in, r).finding = f
  BY DEF Entered
<1>2. DOMAIN all = DOMAIN s /\ \A n \in DOMAIN s : all[n].finding = s[n]
  BY <1>1 DEF Each
<1> HIDE DEF all
<1>3. ReportedOn(all, identity, asset)
        <=> \E n \in DOMAIN all :
              Identity(all[n].finding) = identity /\ asset \in all[n].finding.resources
  BY DEF ReportedOn, Range
<1>4. Affected(s, identity, asset)
        <=> \E n \in DOMAIN s : Identity(s[n]) = identity /\ asset \in s[n].resources
  BY DEF Affected, Range
<1> QED
  BY <1>2, <1>3, <1>4 DEF all

(***************************************************************************)
(* The findings of an asset, of which one of each kind is enough, are      *)
(* those that affect it.                                                   *)
(***************************************************************************)
LEMMA ResourcesTell ==
  ASSUME NEW s, FindingList(s), NEW in, NEW r, NEW asset \in DOMAIN in.assets, NEW identity
  PROVE  Reported(ResourceReports(s, in, r)[asset], identity) <=> Affected(s, identity, asset)
<1> DEFINE own == Only(s, {f \in Range(s) : asset \in f.resources})
           told == IF in.options.dedupe THEN Firsts(own) ELSE own
           all == ResourceReports(s, in, r)[asset]
<1>1. FindingList(own) /\ Range(own) = {f \in Range(s) : asset \in f.resources}
  BY KeptFindings
<1>2. all = [n \in DOMAIN told |-> [finding |-> told[n], score |-> ScoreOn(told[n], asset, in, r)]]
  BY DEF ResourceReports
<1> HIDE DEF own
<1>3. /\ Range(told) \subseteq Range(own)
      /\ \A f \in Range(own) : \E g \in Range(told) : Identity(g) = Identity(f)
  BY <1>1, FirstsTell DEF FindingList
<1> HIDE DEF told, all
<1>4. DOMAIN all = DOMAIN told /\ \A n \in DOMAIN told : all[n].finding = told[n]
  BY <1>2
<1>5. Reported(all, identity) <=> \E n \in DOMAIN all : Identity(all[n].finding) = identity
  BY DEF Reported, Range
<1>6. (\E f \in Range(told) : Identity(f) = identity) <=> \E n \in DOMAIN told : Identity(told[n]) = identity
  BY DEF Range
<1>7. (\E f \in Range(told) : Identity(f) = identity) <=> \E f \in Range(own) : Identity(f) = identity
  BY <1>3
<1>8. (\E f \in Range(own) : Identity(f) = identity) <=> Affected(s, identity, asset)
  BY <1>1 DEF Affected
<1> QED
  BY <1>4, <1>5, <1>6, <1>7, <1>8 DEF all

\* What ReportIsFaithful asks of a report.
Faithful(report) ==
  \A f \in Range(input.findings), asset \in DOMAIN input.assets, suppressed \in BOOLEAN :
    Says(report, Identity(f), asset, suppressed) <=> Scanned(Identity(f), asset, suppressed)

(***************************************************************************)
(* A report in either view says of an asset what was scanned on it.        *)
(***************************************************************************)
LEMMA BuildTells ==
  ASSUME FindingList(input.findings), NEW r, NEW view \in {"findings", "resources"}
  PROVE  Faithful(Build(input, r, view))
<1> DEFINE report == Build(input, r, view)
           parts == Parts(input)
           all == Filtered(input.findings, input.options)
           of(status) == Only(all, {f \in Range(all) : f.suppressed = status})
           together(status) == IF input.options.dedupe THEN Deduped(of(status)) ELSE of(status)
<1>1. /\ FindingList(all)
      /\ \A identity, asset, status :
           AffectedAs(all, identity, asset, status) <=> Scanned(identity, asset, status)
  <2>1. \A identity, asset, status :
          PassedAs(input.findings, input.options, identity, asset, status)
            <=> Scanned(identity, asset, status)
    BY DEF PassedAs, Scanned
  <2> HIDE DEF of, together, parts, report
  <2> QED
    BY <2>1, FilteredTells
<1>2. /\ parts.active = of(FALSE) /\ parts.merged = together(FALSE)
      /\ parts.suppressed = together(TRUE)
  <2> DEFINE active == Only(all, {f \in Range(all) : ~f.suppressed})
             suppressed == Only(all, {f \in Range(all) : f.suppressed})
             merge(s) == IF input.options.dedupe THEN Deduped(s) ELSE s
  <2>1. parts = [active |-> active, merged |-> merge(active), suppressed |-> merge(suppressed)]
    BY DEF Parts
  <2>2. /\ {f \in Range(all) : ~f.suppressed} = {f \in Range(all) : f.suppressed = FALSE}
        /\ {f \in Range(all) : f.suppressed} = {f \in Range(all) : f.suppressed = TRUE}
    BY <1>1 DEF FindingList
  <2>3. active = of(FALSE) /\ suppressed = of(TRUE)
    BY <2>2
  <2> HIDE DEF parts, active, suppressed, of
  <2> QED
    BY <2>1, <2>3
<1> HIDE DEF all, parts
<1>3. ASSUME NEW status \in BOOLEAN, NEW identity, NEW asset
      PROVE  /\ FindingList(of(status))
             /\ Affected(of(status), identity, asset) <=> Scanned(identity, asset, status)
             /\ Affected(together(status), identity, asset) <=> Scanned(identity, asset, status)
  <2>1. FindingList(of(status)) /\ Range(of(status)) = {f \in Range(all) : f.suppressed = status}
    BY <1>1, KeptFindings
  <2> HIDE DEF of
  <2>2. Affected(of(status), identity, asset) <=> Scanned(identity, asset, status)
    BY <1>1, <2>1 DEF Affected, AffectedAs
  <2>3. Affected(together(status), identity, asset) <=> Affected(of(status), identity, asset)
    BY <2>1, DedupedTells
  <2> QED
    BY <2>1, <2>2, <2>3
<1> HIDE DEF of, together
<1>4. /\ report.view = view
      /\ report.findings = IF view = "findings" THEN Each(parts.merged, input, r) ELSE <<>>
      /\ report.resources = IF view = "resources" THEN ResourceReports(parts.active, input, r) ELSE <<>>
      /\ report.suppressed = Each(parts.suppressed, input, r)
  BY DEF Build, parts
<1> HIDE DEF report
<1>5. ASSUME NEW identity, NEW asset \in DOMAIN input.assets
      PROVE  Says(report, identity, asset, TRUE) <=> Scanned(identity, asset, TRUE)
  <2>1. Says(report, identity, asset, TRUE) <=> Affected(together(TRUE), identity, asset)
    <3>1. Says(report, identity, asset, TRUE)
            <=> ReportedOn(Each(together(TRUE), input, r), identity, asset)
      BY <1>2, <1>4 DEF Says, ReportedOn
    <3> QED
      BY <3>1, EachTells
  <2> QED
    BY <1>3, <2>1
<1>6. ASSUME NEW identity, NEW asset \in DOMAIN input.assets
      PROVE  Says(report, identity, asset, FALSE) <=> Scanned(identity, asset, FALSE)
  <2>1. CASE view = "findings"
    <3>1. Says(report, identity, asset, FALSE) <=> Affected(together(FALSE), identity, asset)
      <4>1. Says(report, identity, asset, FALSE)
              <=> ReportedOn(Each(together(FALSE), input, r), identity, asset)
        BY <1>2, <1>4, <2>1 DEF Says, ReportedOn
      <4> QED
        BY <4>1, EachTells
    <3> QED
      BY <1>3, <3>1
  <2>2. CASE view = "resources"
    <3>1. Says(report, identity, asset, FALSE)
            <=> Reported(ResourceReports(of(FALSE), input, r)[asset], identity)
      BY <1>2, <1>4, <2>2 DEF Says, Reported
    <3>2. FindingList(of(FALSE)) /\ (Affected(of(FALSE), identity, asset) <=> Scanned(identity, asset, FALSE))
      BY <1>3
    <3> QED
      BY <3>1, <3>2, ResourcesTell
  <2> QED
    BY <2>1, <2>2
<1>7. Faithful(report)
  BY <1>5, <1>6 DEF Faithful
<1> QED
  BY <1>7 DEF report

ReportsInv ==
  /\ input \in Inputs
  /\ IsList(reports) /\ \A report \in Range(reports) : Faithful(report)

(***************************************************************************)
(* No report is written before the first.                                  *)
(***************************************************************************)
LEMMA ReportsInitInv == AssessmentInit(Inputs) => ReportsInv
<1>1. IsList(<<>>) /\ Range(<<>>) = {}
  BY DEF IsList, Range
<1> QED
  BY <1>1 DEF AssessmentInit, ReportsInv

(***************************************************************************)
(* Every report that is written is faithful.                               *)
(***************************************************************************)
LEMMA ReportsNextInv == ReportsInv /\ [AssessmentNext]_assessmentVars => ReportsInv'
<1> SUFFICES ASSUME ReportsInv, [AssessmentNext]_assessmentVars PROVE ReportsInv'
  OBVIOUS
<1>1. input' = input /\ input \in Inputs
  BY DEF AssessmentNext, LoadRubric, ApplyConfigMap, SettleCeiling, WriteReport, WriteHTML, WriteFails,
       assessmentVars, ReportsInv
<1>2. \A report : Faithful(report)' <=> Faithful(report)
  BY <1>1 DEF Faithful, Says, Scanned
<1>3. FindingList(input.findings) /\ input.options.view \in {"findings", "resources"}
  BY <1>1, InputsAssumption DEF FindingList
<1>4. ASSUME NEW view \in {"findings", "resources"}, reports' = Append(reports, Build(input, rubric, view))
      PROVE  ReportsInv'
  <2> DEFINE new == Build(input, rubric, view)
             S == Range(reports) \cup {new}
  <2>1. Faithful(new)
    BY <1>3, BuildTells
  <2> HIDE DEF new
  <2>2. reports \in Seq(S)
    BY DEF ReportsInv, IsList
  <2>3. reports' \in Seq(S) /\ Range(reports') = Range(reports) \cup {new}
    BY <1>4, <2>2, AppendElements DEF new
  <2>4. IsList(reports')
    BY <2>3 DEF IsList
  <2>5. \A report \in Range(reports') : Faithful(report)
    BY <2>1, <2>3 DEF ReportsInv
  <2> QED
    BY <1>1, <1>2, <2>4, <2>5 DEF ReportsInv
<1>5. CASE WriteReport
  <2>1. View \in {"findings", "resources"}
    BY <1>3 DEF View
  <2> QED
    BY <1>4, <1>5, <2>1 DEF WriteReport
<1>6. CASE WriteHTML
  BY <1>4, <1>6 DEF WriteHTML
<1>7. CASE LoadRubric \/ ApplyConfigMap \/ SettleCeiling \/ WriteFails \/ UNCHANGED assessmentVars
  <2>1. reports' = reports
    BY <1>7 DEF LoadRubric, ApplyConfigMap, SettleCeiling, WriteFails, assessmentVars
  <2> QED
    BY <1>1, <1>2, <2>1 DEF ReportsInv
<1> QED
  BY <1>5, <1>6, <1>7 DEF AssessmentNext

-----------------------------------------------------------------------------
(* A run                                                                   *)

\* A part that is not begun stays as it is.
CloudRunPart ==
  IF part = "cloudrun" THEN RunInv ELSE runStage = "labels" /\ DOMAIN runExposureOf = {}

ECSPart ==
  IF part = "ecs" THEN ECSInv ELSE ecsStage = "definitions" /\ DOMAIN ecsExposureOf = {}

ImagePart ==
  IF part = "image" THEN VEXInv ELSE request = "parse"

ReportPart ==
  IF part = "report" THEN AssessmentInv /\ ReportsInv ELSE stage = "rubric" /\ reports = <<>>

ClusterPart ==
  IF part = "k8s" THEN K8sInv /\ PodsInv ELSE NotJudged /\ phase = "start"

SurveyInv ==
  ClusterPart /\ SSMInv /\ CollectionInv /\ ECSPart /\ CloudRunPart /\ ImagePart /\ ReportPart

(***************************************************************************)
(* Whichever part of a run is begun, with any inputs, it and the parts     *)
(* that are not keep the invariant.                                        *)
(***************************************************************************)
THEOREM SurveyInvariance == SurveySpec => []SurveyInv
<1>1. SurveyInit => SurveyInv
  <2> SUFFICES ASSUME SurveyInit PROVE SurveyInv
    OBVIOUS
  <2>1. SSMInv /\ CollectionInv
    BY CollectionInitInv DEF SurveyInit
  <2>2. CloudRunPart
    <3>1. CASE part = "cloudrun"
      BY <3>1, RunInitInv DEF SurveyInit, CloudRunPart
    <3>2. CASE part # "cloudrun"
      <4>1. runStage = "labels" /\ runExposureOf = <<>>
        BY <3>2 DEF SurveyInit, RunInit
      <4>2. DOMAIN runExposureOf = {}
        BY <4>1
      <4> QED
        BY <3>2, <4>1, <4>2 DEF CloudRunPart
    <3> QED
      BY <3>1, <3>2
  <2>3. ReportPart
    <3>1. CASE part = "report"
      BY <3>1, AssessmentInitInv, ReportsInitInv DEF SurveyInit, ReportPart
    <3>2. CASE part # "report"
      BY <3>2 DEF SurveyInit, AssessmentInit, ReportPart
    <3> QED
      BY <3>1, <3>2
  <2>4. ImagePart
    <3>1. CASE part = "image"
      BY <3>1, VEXInitInv DEF SurveyInit, ImagePart
    <3>2. CASE part # "image"
      BY <3>2 DEF SurveyInit, VEXInit, ImagePart
    <3> QED
      BY <3>1, <3>2
  <2>5. ClusterPart
    <3>1. CASE part = "k8s"
      BY <3>1, K8sInitInv, PodsInitInv DEF SurveyInit, ClusterPart
    <3>2. CASE part # "k8s"
      <4>1. verdicts = <<>> /\ phase = "start"
        BY <3>2 DEF SurveyInit, K8sInit
      <4>2. DOMAIN verdicts = {}
        BY <4>1
      <4> QED
        BY <3>2, <4>1, <4>2 DEF ClusterPart, NotJudged
    <3> QED
      BY <3>1, <3>2
  <2>6. ECSPart
    <3>1. CASE part = "ecs"
      BY <3>1, ECSInitInv DEF SurveyInit, ECSPart
    <3>2. CASE part # "ecs"
      <4>1. ecsStage = "definitions" /\ ecsExposureOf = <<>>
        BY <3>2 DEF SurveyInit, ECSInit
      <4>2. DOMAIN ecsExposureOf = {}
        BY <4>1
      <4> QED
        BY <3>2, <4>1, <4>2 DEF ECSPart
    <3> QED
      BY <3>1, <3>2
  <2> QED
    BY <2>1, <2>2, <2>3, <2>4, <2>5, <2>6 DEF SurveyInv
<1>2. SurveyInv /\ [SurveyNext]_surveyVars => SurveyInv'
  <2> SUFFICES ASSUME SurveyInv, [SurveyNext]_surveyVars PROVE SurveyInv'
    OBVIOUS
  <2>1. [SwarmNext]_swarmVars
    BY DEF SurveyNext, surveyVars, clusterVars
  <2>2. SSMInv' /\ CollectionInv'
    BY <2>1, SwarmNextInv DEF SurveyInv
  <2>3. /\ part' = part /\ [RunNext]_runVars
        /\ part # "cloudrun" => UNCHANGED runVars
    BY DEF SurveyNext, surveyVars, cloudVars
  <2>4. CloudRunPart'
    <3>1. CASE part = "cloudrun"
      BY <2>3, <3>1, RunNextInv DEF SurveyInv, CloudRunPart
    <3>2. CASE part # "cloudrun"
      BY <2>3, <3>2 DEF SurveyInv, CloudRunPart, runVars
    <3> QED
      BY <3>1, <3>2
  <2>5. /\ [AssessmentNext]_assessmentVars
        /\ part # "report" => UNCHANGED assessmentVars
    BY DEF SurveyNext, surveyVars, imageVars
  <2>6. ReportPart'
    <3>1. CASE part = "report"
      BY <2>3, <2>5, <3>1, AssessmentNextInv, ReportsNextInv DEF SurveyInv, ReportPart
    <3>2. CASE part # "report"
      BY <2>3, <2>5, <3>2 DEF SurveyInv, ReportPart, assessmentVars
    <3> QED
      BY <3>1, <3>2
  <2>7. /\ [VEXNext]_vexVars
        /\ part # "image" => UNCHANGED vexVars
    BY DEF SurveyNext, surveyVars, imageVars
  <2>8. ImagePart'
    <3>1. CASE part = "image"
      BY <2>3, <2>7, <3>1, VEXNextInv DEF SurveyInv, ImagePart
    <3>2. CASE part # "image"
      BY <2>3, <2>7, <3>2 DEF SurveyInv, ImagePart, vexVars
    <3> QED
      BY <3>1, <3>2
  <2>9. /\ [K8sNext]_k8sVars
        /\ part # "k8s" => UNCHANGED k8sVars
    BY DEF SurveyNext, surveyVars, clusterVars
  <2>10. ClusterPart'
    <3>1. CASE part = "k8s"
      BY <2>3, <2>9, <3>1, K8sNextInv, PodsNextInv DEF SurveyInv, ClusterPart
    <3>2. CASE part # "k8s"
      BY <2>3, <2>9, <3>2 DEF SurveyInv, ClusterPart, NotJudged, k8sVars
    <3> QED
      BY <3>1, <3>2
  <2>11. /\ [ECSNext]_ecsVars
         /\ part # "ecs" => UNCHANGED ecsVars
    BY DEF SurveyNext, surveyVars, cloudVars
  <2>12. ECSPart'
    <3>1. CASE part = "ecs"
      BY <2>3, <2>11, <3>1, ECSNextInv DEF SurveyInv, ECSPart
    <3>2. CASE part # "ecs"
      BY <2>3, <2>11, <3>2 DEF SurveyInv, ECSPart, ecsVars, ecsResults
    <3> QED
      BY <3>1, <3>2
  <2> QED
    BY <2>2, <2>4, <2>6, <2>8, <2>10, <2>12 DEF SurveyInv
<1> QED
  BY <1>1, <1>2, PTL DEF SurveySpec

(***************************************************************************)
(* A workload of a cluster is said not to be reachable by what was found   *)
(* only if all namespaces were asked for all that could lead to it and     *)
(* nothing of the cluster does (CollectExposureObjectsWithWarnings of      *)
(* internal/k8s, AnalyzeWithOptions of internal/exposure): for any cluster *)
(* whose resources are served at a version that is tried, and whatever was *)
(* refused or failed.                                                      *)
(***************************************************************************)
THEOREM NegativesProved == SurveySpec => []NegativeIsProved
<1>1. SurveyInv => NegativeIsProved
  <2>1. NotJudged => NegativeIsProved
    BY DEF NotJudged, NegativeIsProved
  <2> QED
    BY <2>1 DEF SurveyInv, ClusterPart, K8sInv
<1> QED
  BY <1>1, SurveyInvariance, PTL

(***************************************************************************)
(* A container is said to be reachable only over a way that the operator   *)
(* did not declare internal by a label, a class or the ConfigMap           *)
(* (analyzeIngresses, analyzeGatewayRoutes and analyzeServiceExposure of   *)
(* internal/exposure/exposure.go).                                         *)
(***************************************************************************)
THEOREM OperatorDecides == SurveySpec => []OperatorHasTheLastWord
<1>1. SurveyInv => OperatorHasTheLastWord
  <2>1. NotJudged => OperatorHasTheLastWord
    BY DEF NotJudged, OperatorHasTheLastWord
  <2> QED
    BY <2>1 DEF SurveyInv, ClusterPart, K8sInv
<1> QED
  BY <1>1, SurveyInvariance, PTL

(***************************************************************************)
(* The verdicts of a cluster do not depend on the order in which its       *)
(* Services, Ingresses and routes were listed (mergeExposure of            *)
(* internal/exposure/exposure.go), whatever they say.                      *)
(***************************************************************************)
THEOREM OrderIsIgnored == SurveySpec => []VerdictIgnoresOrder
<1>1. SurveyInv => VerdictIgnoresOrder
  <2>1. NotJudged => VerdictIgnoresOrder
    BY DEF NotJudged, VerdictIgnoresOrder
  <2> QED
    BY <2>1 DEF SurveyInv, ClusterPart, K8sInv
<1> QED
  BY <1>1, SurveyInvariance, PTL

(***************************************************************************)
(* The images of every pod in the scope of a run are in the inventory it   *)
(* goes on with, from the pod itself or from the template of what made it  *)
(* (collectPods and collectWorkloads of internal/k8s/inventory.go): for    *)
(* any cluster and any choice of namespaces.                               *)
(***************************************************************************)
THEOREM PodsAreCovered == SurveySpec => []PodsCovered
<1>1. SurveyInv => PodsCovered
  BY DEF SurveyInv, ClusterPart, PodsInv, PodsCovered
<1> QED
  BY <1>1, SurveyInvariance, PTL

(***************************************************************************)
(* Reading a Swarm over SSM leaves a staged file on the manager node only  *)
(* when its removal was lost or broke (run and cleanup of swarm/ssm.go):   *)
(* for any number of documents and of chunks, and whenever the agent runs  *)
(* what it was sent.                                                       *)
(***************************************************************************)
THEOREM ManagerLeftClean == SurveySpec => []StagedFileRemoved
<1>1. SurveyInv => StagedFileRemoved
  BY SSMInvRemoves DEF SurveyInv
<1> QED
  BY <1>1, SurveyInvariance, PTL

(***************************************************************************)
(* A service of a Swarm is said not to be reachable only with what proves  *)
(* it, or with the reason the operator gives (AnalyzeExposure of           *)
(* swarm/exposure.go).                                                     *)
(***************************************************************************)
THEOREM SwarmNegativesProved == SurveySpec => []SwarmNegativeIsProved
<1>1. SurveyInv => SwarmNegativeIsProved
  BY CollectionInvProves DEF SurveyInv
<1> QED
  BY <1>1, SurveyInvariance, PTL

(***************************************************************************)
(* Of a region that was not read nothing is silently taken for absent: a   *)
(* container of ECS that the internet can reach is said not to be only     *)
(* with a warning for its region, one that is said to be runs and has such *)
(* a path, and the secret of every registry is in use or named             *)
(* (AnalyzeExposureFromGraph of internal/ecs and runECS of                 *)
(* cmd/vdr/main.go, for any estate and however its regions answer).        *)
(***************************************************************************)
THEOREM ECSGapsWarned == SurveySpec => []ECSGapIsWarned
<1>1. SurveyInv => ECSGapIsWarned
  <2>1. DOMAIN ecsExposureOf = {} /\ ecsStage = "definitions" => ECSGapIsWarned
    BY DEF ECSGapIsWarned
  <2> QED
    BY <2>1, ECSInvWarns DEF SurveyInv, ECSPart
<1> QED
  BY <1>1, SurveyInvariance, PTL

(***************************************************************************)
(* What Cloud Run lets the internet reach is found, or a warning says what *)
(* was not read; every service and job of the inventory has its verdict    *)
(* (internal/cloudrun/exposure.go, for any project).                       *)
(***************************************************************************)
THEOREM CloudRunGapsWarned == SurveySpec => []CloudRunGapIsWarned
<1>1. SurveyInv => CloudRunGapIsWarned
  <2>1. DOMAIN runExposureOf = {} /\ runStage = "labels" => CloudRunGapIsWarned
    BY GapParts
  <2> QED
    BY <2>1 DEF SurveyInv, CloudRunPart, RunInv
<1> QED
  BY <1>1, SurveyInvariance, PTL

(***************************************************************************)
(* A finding carries a best statement of those read that apply to it       *)
(* (annotateOCIVEX), in whatever order manifests and layers gave them.     *)
(***************************************************************************)
THEOREM BestIsSelected == SurveySpec => []AnnotationIsBest
<1>1. SurveyInv => AnnotationIsBest
  <2>1. request = "parse" => AnnotationIsBest
    BY DEF AnnotationIsBest
  <2> QED
    BY <2>1 DEF SurveyInv, ImagePart, VEXInv
<1> QED
  BY <1>1, SurveyInvariance, PTL

(***************************************************************************)
(* A lookup that warns of nothing has read every attestation that can be   *)
(* found, as a referrer or by its tag, each of them once and in order      *)
(* (FetchVEX), whatever the registry answers, whenever tokens expire and   *)
(* the deadline passes.                                                    *)
(***************************************************************************)
THEOREM NothingIsMissed == SurveySpec => []LookupIsComplete
<1>1. SurveyInv => LookupIsComplete
  <2>1. request = "parse" => LookupIsComplete
    BY DEF LookupIsComplete
  <2>2. VEXInv => LookupIsComplete
    BY CompleteThen DEF VEXInv
  <2> QED
    BY <2>1, <2>2 DEF SurveyInv, ImagePart
<1> QED
  BY <1>1, SurveyInvariance, PTL

(***************************************************************************)
(* Worse facts never buy time (Score): for any file, ConfigMap and flag,   *)
(* hence any thresholds, catalog, rules and defaults of the rubric that a  *)
(* run comes to rate with, any asset, and any finding.  An EPSS score is   *)
(* at most one.                                                            *)
(***************************************************************************)
THEOREM RatingsMonotone == SurveySpec => []DeadlineMonotone
<1>1. SurveyInv => DeadlineMonotone
  <2> SUFFICES ASSUME SurveyInv, stage = "report", rubric.levIRV <= rubric.levNIRV,
                      NEW f \in Range(input.findings), NEW a \in Rated, NEW reachable \in BOOLEAN,
                      NEW w \in {f} \cup Worse(f), NEW now \in {reachable, TRUE}
               PROVE  ~MoreUrgent(Score(rubric, a, f, reachable), Score(rubric, a, w, now))
    BY DEF DeadlineMonotone
  <2>1. AssessmentInv
    BY DEF SurveyInv, ReportPart
  <2>2. FindingFacts(f)
    BY <2>1, InputsAssumption DEF AssessmentInv, FindingFacts, ImpactValues
  <2>3. Thresholds(rubric) /\ rubric.levIRV \in Int /\ rubric.levNIRV \in Int
    BY <2>1 DEF AssessmentInv, RubricSound
  <2>4. ~a.function
    BY DEF Rated
  <2> QED
    BY <2>2, <2>3, <2>4, WorseIsNoLater
<1> QED
  BY <1>1, SurveyInvariance, PTL

(***************************************************************************)
(* "Missing metadata never lowers PAIN" (resolveClassification): under any *)
(* rubric that a run comes to rate with, no asset is rated as more urgent  *)
(* than with a label that names no profile.                                *)
(***************************************************************************)
THEOREM UnknownLabelsWorst == SurveySpec => []UnknownLabelIsWorst
<1>1. SurveyInv => UnknownLabelIsWorst
  <2> SUFFICES ASSUME SurveyInv, stage = "report",
                      NEW f \in Range(input.findings), NEW a \in Rated, NEW reachable \in BOOLEAN
               PROVE  ~MoreUrgent(Score(rubric, a, f, reachable),
                                  Score(rubric, [a EXCEPT !.profileLabel = "no such profile"],
                                        f, reachable))
    BY DEF UnknownLabelIsWorst
  <2>1. AssessmentInv
    BY DEF SurveyInv, ReportPart
  <2>2. FindingFacts(f)
    BY <2>1, InputsAssumption DEF AssessmentInv, FindingFacts, ImpactValues
  <2>3. Thresholds(rubric) /\ "no such profile" \notin DOMAIN rubric.catalog
    BY <2>1 DEF AssessmentInv, RubricSound
  <2>4. ~a.function /\ {"profileLabel", "classLabel", "nsClassLabel", "function"} \subseteq DOMAIN a
    BY <2>1, InputsAssumption DEF AssessmentInv, Rated
  <2> QED
    BY <2>2, <2>3, <2>4, UnknownIsNoLater
<1> QED
  BY <1>1, SurveyInvariance, PTL

(***************************************************************************)
(* A report, in either view, says of an asset exactly what a scan found on *)
(* it and the filters let through, with its status and under its VEX       *)
(* statement (Build of internal/report/report.go, dedupeFindings): for any *)
(* findings, and whatever is merged, sorted or set apart.                  *)
(***************************************************************************)
THEOREM ReportsFaithful == SurveySpec => []ReportIsFaithful
<1>1. SurveyInv => ReportIsFaithful
  <2> SUFFICES ASSUME SurveyInv PROVE ReportIsFaithful
    OBVIOUS
  <2>1. CASE part = "report"
    <3>1. \A n \in DOMAIN reports : Faithful(reports[n])
      BY <2>1 DEF SurveyInv, ReportPart, ReportsInv, Range
    <3> QED
      BY <3>1 DEF Faithful, ReportIsFaithful
  <2>2. CASE part # "report"
    <3>1. DOMAIN reports = {}
      BY <2>2 DEF SurveyInv, ReportPart
    <3> QED
      BY <3>1 DEF ReportIsFaithful
  <2> QED
    BY <2>1, <2>2
<1> QED
  BY <1>1, SurveyInvariance, PTL
=============================================================================
