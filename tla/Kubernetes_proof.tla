--------------------------- MODULE Kubernetes_proof ---------------------------
(***************************************************************************)
(* Safety of reading a Kubernetes cluster and of the analysis of its       *)
(* exposure, for any cluster and any options: what was found, what is      *)
(* still to be asked for, and where an entry of the analysis comes from.   *)
(* Survey_proof states the theorems of a run.                              *)
(***************************************************************************)
EXTENDS KubernetesCollection, Collections_proof

-----------------------------------------------------------------------------
(* The entries of the analysis                                             *)

ListsSound(o) ==
  /\ IsList(o.services) /\ IsList(o.ingresses) /\ IsList(o.routes)
  /\ \A s, other \in Range(o.services) : KeyOf(s) = KeyOf(other) => s = other
  /\ \A i \in Range(o.ingresses) : IsList(i.refs)
  /\ \A r \in Range(o.routes) : IsList(r.parents) /\ IsList(r.backends)

\* An entry is reachable unless authentication or the lack of a way forbids it.
WellTold(e) ==
  /\ e.reachable \in BOOLEAN
  /\ e.reachable => "auth" \notin e.protection
  /\ ~e.reachable => e.protection = {} \/ "auth" \in e.protection

(***************************************************************************)
(* An entry that is made of a protection, or of none, is well told.        *)
(***************************************************************************)
LEMMA EntryTold ==
  /\ \A key, protection : /\ WellTold(EntryBehind(key, protection))
                          /\ EntryBehind(key, protection).service = key
  /\ \A key : \A reachable \in BOOLEAN : WellTold(Entry(key, reachable, {}))
<1>1. ASSUME NEW key, NEW protection
      PROVE  /\ WellTold(EntryBehind(key, protection))
             /\ EntryBehind(key, protection).service = key
  <2> DEFINE e == Entry(key, "auth" \notin protection, protection)
  <2>1. e.service = key /\ e.reachable = ("auth" \notin protection) /\ e.protection = protection
    BY DEF Entry
  <2> HIDE DEF e
  <2>2. WellTold(e)
    BY <2>1 DEF WellTold
  <2> QED
    BY <2>1, <2>2 DEF e, EntryBehind
<1>2. ASSUME NEW key, NEW reachable \in BOOLEAN PROVE WellTold(Entry(key, reachable, {}))
  <2> DEFINE e == Entry(key, reachable, {})
  <2>1. e.reachable = reachable /\ e.protection = {}
    BY DEF Entry
  <2> HIDE DEF e
  <2>2. WellTold(e)
    BY <2>1 DEF WellTold
  <2> QED
    BY <2>2 DEF e
<1> QED
  BY <1>1, <1>2

(***************************************************************************)
(* An Ingress makes entries only for services that it names, and only if   *)
(* nothing says that it is internal (analyzeIngresses, classifyIngress).   *)
(***************************************************************************)
LEMMA IngressGives ==
  ASSUME NEW i, IsList(i.refs), NEW o, NEW declared
  PROVE  /\ IsList(IngressEntries(i, o, declared))
         /\ \A e \in Range(IngressEntries(i, o, declared)) :
              /\ WellTold(e)
              /\ OpenIngress(i, o)
              /\ \E ref \in Range(i.refs) : e.service = Key(i.ns, ref.service)
<1> DEFINE there == Only(i.refs, {ref \in Range(i.refs) : ServiceAt(Key(i.ns, ref.service), o) # {}})
           provider == IngressProvider(i, o)
           serving(n) == CHOOSE x \in ServiceAt(Key(i.ns, there[n].service), o) : TRUE
           protection(n) == IngressProtection(i, provider, serving(n), there[n], o)
           one(n) == EntryBehind(KeyOf(serving(n)), protection(n))
           list == [n \in DOMAIN there |-> one(n)]
<1>1. /\ DOMAIN there = 1..Len(there) /\ Len(there) \in Nat
      /\ \A n \in DOMAIN there :
           there[n] \in Range(i.refs) /\ ServiceAt(Key(i.ns, there[n].service), o) # {}
  <2>1. /\ DOMAIN there = 1..Len(there) /\ Len(there) \in Nat
        /\ Range(there) \subseteq {ref \in Range(i.refs) : ServiceAt(Key(i.ns, ref.service), o) # {}}
    BY OnlyElements
  <2> HIDE DEF there
  <2> QED
    BY <2>1 DEF Range
<1>2. IngressEntries(i, o, declared) \in {list, <<>>}
  BY DEF IngressEntries
<1>3. IngressEntries(i, o, declared) = list \/ IngressEntries(i, o, declared) = <<>>
  BY <1>2
<1>4. provider = "none" => IngressEntries(i, o, declared) = <<>>
  BY DEF IngressEntries
<1>5. provider # "none" => OpenIngress(i, o)
  BY DEF IngressProvider, OpenIngress, EffectiveNegative
<1>6. \A n \in DOMAIN there : one(n).service = Key(i.ns, there[n].service)
  <2> SUFFICES ASSUME NEW n \in DOMAIN there PROVE one(n).service = Key(i.ns, there[n].service)
    OBVIOUS
  <2>1. serving(n) \in ServiceAt(Key(i.ns, there[n].service), o)
    BY <1>1
  <2>2. KeyOf(serving(n)) = Key(i.ns, there[n].service)
    BY <2>1 DEF ServiceAt
  <2> HIDE DEF serving, protection
  <2> QED
    BY <2>2, EntryTold
<1>9. \A n \in DOMAIN there : WellTold(one(n))
  BY EntryTold
<1> HIDE DEF there, one, provider
<1>7. IsList(list) /\ \A e \in Range(list) : \E n \in DOMAIN there : e = one(n)
  BY <1>1 DEF IsList, Range
<1>8. IsList(<<>>) /\ Range(<<>>) = {}
  BY DEF IsList, Range
<1> HIDE DEF list
<1> QED
  <2>1. CASE IngressEntries(i, o, declared) = <<>>
    BY <1>8, <2>1
  <2>2. CASE IngressEntries(i, o, declared) = list /\ provider # "none"
    BY <1>1, <1>5, <1>6, <1>7, <1>9, <2>2
  <2> QED
    BY <1>3, <1>4, <2>1, <2>2

\* What a way through a Gateway needs.
Routed(key, r, o) ==
  \E g \in o.gateways, b \in Range(r.backends) :
    /\ OpenGateway(g, o)
    /\ key = BackendKey(r, b)
    /\ key[1] = r.ns \/ \E x \in o.grants : x.ns = key[1] /\ x.to \in {"", b.service}

(***************************************************************************)
(* A Route makes entries under a parent only for backends in its namespace *)
(* or granted to it, and only if a Gateway is open (analyzeGatewayRoutes). *)
(***************************************************************************)
LEMMA ParentGives ==
  ASSUME NEW r, IsList(r.backends), NEW o, NEW parent
  PROVE  /\ IsList(ParentEntries(r, parent, o))
         /\ \A e \in Range(ParentEntries(r, parent, o)) : WellTold(e) /\ Routed(e.service, r, o)
<1> DEFINE key == Key(IF parent.ns = "" THEN r.ns ELSE parent.ns, parent.name)
           gateways == {g \in o.gateways : KeyOf(g) = key}
           provider == IF gateways = {} THEN "none"
                       ELSE GatewayProvider(CHOOSE g \in gateways : TRUE, o)
           may == {b \in Range(r.backends) : BackendKey(r, b)[1] = r.ns \/ Granted(r, b, o)}
           allowed == Only(r.backends, may)
           protection(to) == IF provider = "gke" THEN PolicyProtection(to, o) ELSE {}
           entry(to) == EntryBehind(to, protection(to))
           one(n) == entry(BackendKey(r, allowed[n]))
           list == [n \in DOMAIN allowed |-> one(n)]
<1>1. /\ DOMAIN allowed = 1..Len(allowed) /\ Len(allowed) \in Nat
      /\ \A n \in DOMAIN allowed : allowed[n] \in may
  <2> HIDE DEF may
  <2>1. /\ DOMAIN allowed = 1..Len(allowed) /\ Len(allowed) \in Nat
        /\ Range(allowed) \subseteq may
    BY OnlyElements
  <2> HIDE DEF allowed
  <2> QED
    BY <2>1 DEF Range
<1>2. ParentEntries(r, parent, o) = IF provider = "none" THEN <<>> ELSE list
  BY DEF ParentEntries
<1>3. provider # "none" => \E g \in o.gateways : OpenGateway(g, o)
  BY DEF GatewayProvider, ForcedOff, EffectiveNegative, OpenGateway
<1>4. \A b \in may : /\ b \in Range(r.backends)
                     /\ \/ BackendKey(r, b)[1] = r.ns
                        \/ \E x \in o.grants : x.ns = BackendKey(r, b)[1] /\ x.to \in {"", b.service}
  BY DEF Granted
<1>5. \A n \in DOMAIN allowed : one(n).service = BackendKey(r, allowed[n])
  <2> HIDE DEF protection, allowed
  <2> QED
    BY EntryTold
<1>8. \A n \in DOMAIN allowed : WellTold(one(n))
  <2> HIDE DEF protection, allowed
  <2> QED
    BY EntryTold
<1> HIDE DEF allowed, one, provider, may
<1>6. IsList(list) /\ \A e \in Range(list) : \E n \in DOMAIN allowed : e = one(n)
  BY <1>1 DEF IsList, Range
<1>7. IsList(<<>>) /\ Range(<<>>) = {}
  BY DEF IsList, Range
<1> HIDE DEF list
<1> QED
  <2>1. CASE provider = "none"
    BY <1>2, <1>7, <2>1
  <2>2. CASE provider # "none"
    <3>1. ASSUME NEW e \in Range(list) PROVE WellTold(e) /\ Routed(e.service, r, o)
      <4>1. PICK n \in DOMAIN allowed : e = one(n)
        BY <1>6, <3>1
      <4>2. allowed[n] \in may /\ e.service = BackendKey(r, allowed[n])
        BY <1>1, <1>5, <4>1
      <4> QED
        BY <1>3, <1>4, <1>8, <2>2, <4>1, <4>2 DEF Routed
    <3> QED
      BY <1>2, <1>6, <2>2, <3>1
  <2> QED
    BY <2>1, <2>2

(***************************************************************************)
(* A Route makes entries under its parents only.                           *)
(***************************************************************************)
LEMMA RouteGives ==
  ASSUME NEW r, IsList(r.parents), IsList(r.backends), NEW o
  PROVE  /\ IsList(RouteEntries(r, o))
         /\ \A e \in Range(RouteEntries(r, o)) : WellTold(e) /\ Routed(e.service, r, o)
<1> DEFINE parts == [n \in DOMAIN r.parents |-> ParentEntries(r, r.parents[n], o)]
<1>1. IsList(parts) /\ DOMAIN parts = DOMAIN r.parents
  <2>1. DOMAIN r.parents = 1..Len(r.parents) /\ Len(r.parents) \in Nat
    BY DEF IsList
  <2> QED
    BY <2>1 DEF IsList, Range
<1>2. \A n \in DOMAIN parts : /\ IsList(parts[n])
                             /\ \A e \in Range(parts[n]) : WellTold(e) /\ Routed(e.service, r, o)
  BY ParentGives
<1>3. RouteEntries(r, o) = IF r.kind \notin RouteKinds THEN <<>> ELSE FlattenSeq(parts)
  BY DEF RouteEntries
<1> HIDE DEF parts
<1>4. IsList(FlattenSeq(parts)) /\ \A e \in Range(FlattenSeq(parts)) : WellTold(e) /\ Routed(e.service, r, o)
  BY <1>1, <1>2, FlattenElements
<1>5. IsList(<<>>) /\ Range(<<>>) = {}
  BY DEF IsList, Range
<1> QED
  BY <1>3, <1>4, <1>5

OpenByItself(s, o) ==
  OpenService(s, o) /\ (s.type \in {"LoadBalancer", "NodePort"} \/ s.label = "true")

(***************************************************************************)
(* A Service makes at most one entry, for itself, that says that it is     *)
(* reachable only if it is open by itself (analyzeServiceExposure).        *)
(***************************************************************************)
LEMMA ServiceGives ==
  ASSUME NEW s, NEW o, NEW declared
  PROVE  /\ IsList(ServiceEntries(s, o, declared))
         /\ \A e \in Range(ServiceEntries(s, o, declared)) :
              WellTold(e) /\ e.service = KeyOf(s) /\ (e.reachable => OpenByItself(s, o))
<1> DEFINE all == ServiceEntries(s, o, declared)
           Good(e) == WellTold(e) /\ e.service = KeyOf(s) /\ (e.reachable => OpenByItself(s, o))
<1>1. \A e : IsList(<<e>>) /\ Range(<<e>>) = {e}
  BY DEF IsList, Range
<1>2. IsList(<<>>) /\ Range(<<>>) = {}
  BY DEF IsList, Range
<1>3. ASSUME NEW reachable \in BOOLEAN, reachable => OpenByItself(s, o)
      PROVE  Good(Entry(KeyOf(s), reachable, {}))
  <2> DEFINE only == Entry(KeyOf(s), reachable, {})
  <2>1. only.service = KeyOf(s) /\ only.reachable = reachable
    BY DEF Entry
  <2>3. WellTold(only)
    BY EntryTold
  <2> HIDE DEF only
  <2>2. Good(only)
    BY <1>3, <2>1, <2>3, Zenon
  <2> QED
    BY <2>2 DEF only
<1>4. all = <<>> \/ \E reachable \in BOOLEAN :
          /\ all = <<Entry(KeyOf(s), reachable, {})>>
          /\ reachable => OpenByItself(s, o)
  <2>1. CASE s.label # ""
    <3>1. all = <<Entry(KeyOf(s), s.label = "true", {})>>
      BY <2>1 DEF ServiceEntries
    <3>2. s.label = "true" => OpenByItself(s, o)
      BY DEF OpenByItself, OpenService
    <3> HIDE DEF all
    <3> QED
      BY <3>1, <3>2
  <2>2. CASE s.label = "" /\ KeyOf(s) \in o.negativeServices
    <3>1. all = <<Entry(KeyOf(s), FALSE, {})>>
      BY <2>2 DEF ServiceEntries
    <3> HIDE DEF all
    <3> QED
      BY <3>1
  <2>3. CASE s.label = "" /\ KeyOf(s) \notin o.negativeServices
    <3>1. \/ s.type = "LoadBalancer" /\ all = <<Entry(KeyOf(s), TRUE, {})>>
          \/ s.type = "NodePort" /\ all = <<Entry(KeyOf(s), s.nodePortLabel = "true", {})>>
          \/ all = <<>>
      BY <2>3 DEF ServiceEntries
    <3>2. s.type \in {"LoadBalancer", "NodePort"} => OpenByItself(s, o)
      BY <2>3 DEF OpenByItself, OpenService
    <3> HIDE DEF all
    <3> QED
      BY <3>1, <3>2
  <2> QED
    BY <2>1, <2>2, <2>3
<1> HIDE DEF all, Good
<1>5. IsList(all) /\ \A e \in Range(all) : Good(e)
  <2>1. CASE all = <<>>
    BY <1>2, <2>1
  <2>2. ASSUME NEW reachable \in BOOLEAN, all = <<Entry(KeyOf(s), reachable, {})>>,
               reachable => OpenByItself(s, o)
        PROVE  IsList(all) /\ \A e \in Range(all) : Good(e)
    <3> DEFINE only == Entry(KeyOf(s), reachable, {})
    <3>1. Good(only)
      BY <1>3, <2>2
    <3> HIDE DEF only
    <3>2. all = <<only>>
      BY <2>2 DEF only
    <3> QED
      BY <1>1, <3>1, <3>2
  <2> QED
    BY <1>4, <2>1, <2>2
<1> QED
  BY <1>5 DEF all, Good

Opened(e, o) ==
  \/ \E i \in Range(o.ingresses) :
       OpenIngress(i, o) /\ \E ref \in Range(i.refs) : e.service = Key(i.ns, ref.service)
  \/ \E r \in Range(o.routes) : Routed(e.service, r, o)
  \/ \E s \in Range(o.services) : e.service = KeyOf(s) /\ (e.reachable => OpenByItself(s, o))

(***************************************************************************)
(* Whatever the objects, every entry of the analysis has a source that     *)
(* opens the way to its service (the three passes of AnalyzeWithOptions).  *)
(***************************************************************************)
LEMMA EntriesGive ==
  ASSUME NEW o, ListsSound(o), NEW declared
  PROVE  IsList(Entries(o, declared)) /\ \A e \in Range(Entries(o, declared)) : WellTold(e) /\ Opened(e, o)
<1> DEFINE ofIngresses == [n \in DOMAIN o.ingresses |-> IngressEntries(o.ingresses[n], o, declared)]
           ofRoutes == [n \in DOMAIN o.routes |-> RouteEntries(o.routes[n], o)]
           ofServices == [n \in DOMAIN o.services |-> ServiceEntries(o.services[n], o, declared)]
           Sound(parts) == /\ IsList(FlattenSeq(parts))
                           /\ \A e \in Range(FlattenSeq(parts)) : WellTold(e) /\ Opened(e, o)
<1>1. \A s : IsList(s) => /\ DOMAIN s = 1..Len(s) /\ Len(s) \in Nat
                          /\ \A n \in DOMAIN s : s[n] \in Range(s)
  BY DEF IsList, Range
<1>2. ASSUME NEW s, IsList(s), NEW parts, parts = [n \in DOMAIN s |-> parts[n]],
             \A n \in DOMAIN s : IsList(parts[n]) /\ \A e \in Range(parts[n]) : WellTold(e) /\ Opened(e, o)
      PROVE  Sound(parts)
  <2>1. IsList(parts) /\ DOMAIN parts = DOMAIN s
    <3>1. DOMAIN s = 1..Len(s) /\ Len(s) \in Nat
      BY <1>1, <1>2
    <3>2. parts = [n \in 1..Len(s) |-> parts[n]]
      BY <1>2, <3>1
    <3> QED
      BY <3>1, <3>2 DEF IsList, Range
  <2> QED
    BY <1>2, <2>1, FlattenElements
<1>3. Sound(ofIngresses)
  <2>1. ASSUME NEW n \in DOMAIN o.ingresses
        PROVE  /\ IsList(IngressEntries(o.ingresses[n], o, declared))
               /\ \A e \in Range(IngressEntries(o.ingresses[n], o, declared)) : WellTold(e) /\ Opened(e, o)
    <3>1. o.ingresses[n] \in Range(o.ingresses) /\ IsList(o.ingresses[n].refs)
      BY <1>1, <2>1 DEF ListsSound
    <3> QED
      BY <3>1, IngressGives DEF Opened
  <2>2. IsList(o.ingresses)
    BY DEF ListsSound
  <2> HIDE DEF Sound
  <2> QED
    BY <1>2, <2>1, <2>2
<1>4. Sound(ofRoutes)
  <2>1. ASSUME NEW n \in DOMAIN o.routes
        PROVE  /\ IsList(RouteEntries(o.routes[n], o))
               /\ \A e \in Range(RouteEntries(o.routes[n], o)) : WellTold(e) /\ Opened(e, o)
    <3>1. /\ o.routes[n] \in Range(o.routes)
          /\ IsList(o.routes[n].parents) /\ IsList(o.routes[n].backends)
      BY <1>1, <2>1 DEF ListsSound
    <3> QED
      BY <3>1, RouteGives DEF Opened
  <2>2. IsList(o.routes)
    BY DEF ListsSound
  <2> HIDE DEF Sound
  <2> QED
    BY <1>2, <2>1, <2>2
<1>5. Sound(ofServices)
  <2>1. ASSUME NEW n \in DOMAIN o.services
        PROVE  /\ IsList(ServiceEntries(o.services[n], o, declared))
               /\ \A e \in Range(ServiceEntries(o.services[n], o, declared)) : WellTold(e) /\ Opened(e, o)
    <3>1. o.services[n] \in Range(o.services)
      BY <1>1, <2>1 DEF ListsSound
    <3> QED
      BY <3>1, ServiceGives DEF Opened
  <2>2. IsList(o.services)
    BY DEF ListsSound
  <2> HIDE DEF Sound
  <2> QED
    BY <1>2, <2>1, <2>2
<1>6. Entries(o, declared)
        = FlattenSeq(ofIngresses) \o FlattenSeq(ofRoutes) \o FlattenSeq(ofServices)
  BY DEF Entries, Flat
<1> HIDE DEF ofIngresses, ofRoutes, ofServices
<1>7. /\ IsList(FlattenSeq(ofIngresses) \o FlattenSeq(ofRoutes))
      /\ \A e \in Range(FlattenSeq(ofIngresses) \o FlattenSeq(ofRoutes)) : WellTold(e) /\ Opened(e, o)
  BY <1>3, <1>4, JoinElements
<1> QED
  BY <1>5, <1>6, <1>7, JoinElements

\* What the entries up to each one make of a container.
MergedUpTo(merged, w, container, o, declared) ==
  /\ merged[0] = Unassessed
  /\ \A n \in 1..Len(Entries(o, declared)) :
       merged[n] = LET e == Entries(o, declared)[n]
                   IN  IF IsAbout(e, w, o)
                       THEN MergeExposure(merged[n - 1], EntryFor(container, e)) ELSE merged[n - 1]

(***************************************************************************)
(* The entries are merged one after the other (applyWorkloadExposure).     *)
(***************************************************************************)
LEMMA MergedRuns ==
  ASSUME NEW o, NEW declared, IsList(Entries(o, declared)), NEW w, NEW container
  PROVE  \E merged : /\ MergedUpTo(merged, w, container, o, declared)
                     /\ Merged(w, container, o, declared) = merged[Len(Entries(o, declared))]
<1> DEFINE all == Entries(o, declared)
           N == Len(all)
           A == {Unassessed} \cup {EntryFor(container, e) : e \in {x \in Range(all) : IsAbout(x, w, o)}}
           grow(n, before) == IF IsAbout(all[n], w, o)
                              THEN MergeExposure(before, EntryFor(container, all[n])) ELSE before
           loop(g) == [n \in 0..N |-> IF n = 0 THEN Unassessed ELSE grow(n, g[n - 1])]
           merged == CHOOSE g : g = loop(g)
           h == [p \in (1..N) \X A |-> grow(p[1], p[2])]
<1>1. N \in Nat /\ Unassessed \in A /\ \A n \in 1..N : all[n] \in Range(all)
  <2> HIDE DEF all
  <2>1. IsList(all)
    BY DEF all
  <2> QED
    BY <2>1 DEF IsList, Range
<1>2. \A n \in 1..N, q \in A : grow(n, q) \in A
  <2> HIDE DEF all
  <2> QED
    BY <1>1 DEF MergeExposure
<1>3. h \in [(1..N) \X A -> A]
  <2> HIDE DEF A, grow, N
  <2> QED
    BY <1>2
<1>4. PICK g \in [0..N -> A] : Loop(g, N, Unassessed, h)
  <2> HIDE DEF h, A, N
  <2> QED
    BY <1>1, <1>3, LoopRuns
<1>5. g = loop(g)
  <2>1. \A n \in 1..N : g[n] = grow(n, g[n - 1])
    <3>1. ASSUME NEW n \in 1..N PROVE g[n] = grow(n, g[n - 1])
      <4>1. g[n - 1] \in A
        <5>1. n - 1 \in 0..N
          BY <1>1
        <5> HIDE DEF A, N, h
        <5> QED
          BY <1>4, <5>1
      <4> HIDE DEF A, grow, N
      <4>2. <<n, g[n - 1]>> \in (1..N) \X A
        BY <4>1, Zenon
      <4>3. h[<<n, g[n - 1]>>] = grow(n, g[n - 1])
        BY <4>2
      <4> QED
        BY <1>4, <4>3 DEF Loop
    <3> QED
      BY <3>1
  <2> HIDE DEF grow, N
  <2> QED
    BY <1>1, <1>4, <2>1 DEF Loop
<1>6. merged = loop(merged)
  <2> HIDE DEF loop
  <2> QED
    BY <1>5, Zenon
<1>7. Merged(w, container, o, declared) = merged[N]
  BY DEF Merged
<1> HIDE DEF merged, A, N, all
<1>8. merged[0] = Unassessed /\ \A n \in 1..N : merged[n] = grow(n, merged[n - 1])
  <2> HIDE DEF grow
  <2>1. merged[0] = Unassessed
    BY <1>1, <1>6
  <2>2. ASSUME NEW n \in 1..N PROVE merged[n] = grow(n, merged[n - 1])
    <3>1. n \in 0..N /\ n # 0
      BY <1>1
    <3>2. \A q : q = loop(merged) => q[n] = IF n = 0 THEN Unassessed ELSE grow(n, merged[n - 1])
      BY <3>1
    <3> QED
      BY <1>6, <3>1, <3>2
  <2> QED
    BY <2>1, <2>2
<1>9. MergedUpTo(merged, w, container, o, declared)
  BY <1>8 DEF MergedUpTo, all, N, grow
<1> QED
  BY <1>7, <1>9 DEF N, all

(***************************************************************************)
(* What is said of a container comes from one of the entries about its     *)
(* workload, in whatever order they are merged (mergeExposure).            *)
(***************************************************************************)
LEMMA MergedComes ==
  ASSUME NEW o, NEW declared, IsList(Entries(o, declared)), NEW w, NEW container
  PROVE  \/ Merged(w, container, o, declared) = Unassessed
         \/ \E e \in Range(Entries(o, declared)) :
              IsAbout(e, w, o) /\ Merged(w, container, o, declared) = EntryFor(container, e)
<1> DEFINE all == Entries(o, declared)
           N == Len(all)
           Comes(v) == \/ v = Unassessed
                       \/ \E e \in Range(all) : IsAbout(e, w, o) /\ v = EntryFor(container, e)
<1>1. N \in Nat /\ \A n \in 1..N : all[n] \in Range(all)
  BY DEF IsList, Range
<1>2. PICK merged : MergedUpTo(merged, w, container, o, declared)
                      /\ Merged(w, container, o, declared) = merged[N]
  BY MergedRuns
<1>3. /\ merged[0] = Unassessed
      /\ \A n \in 1..N : \/ merged[n] = merged[n - 1]
                         \/ IsAbout(all[n], w, o) /\ merged[n] = EntryFor(container, all[n])
  BY <1>2 DEF MergedUpTo, MergeExposure
<1> HIDE DEF all, N
<1> DEFINE Holds == {n \in Nat : n <= N => Comes(merged[n])}
<1>4. 0 \in Holds
  BY <1>3
<1>5. ASSUME NEW n \in Nat, n \in Holds PROVE n + 1 \in Holds
  <2> SUFFICES ASSUME n + 1 <= N PROVE Comes(merged[n + 1])
    OBVIOUS
  <2>1. n + 1 \in 1..N /\ (n + 1) - 1 = n /\ Comes(merged[n])
    BY <1>1, <1>5
  <2>2. \/ merged[n + 1] = merged[n]
        \/ IsAbout(all[n + 1], w, o) /\ merged[n + 1] = EntryFor(container, all[n + 1])
    BY <1>3, <2>1
  <2>3. all[n + 1] \in Range(all)
    BY <1>1, <2>1
  <2> QED
    BY <2>1, <2>2, <2>3
<1> HIDE DEF Comes
<1>6. Comes(merged[N])
  <2> HIDE DEF Holds
  <2>1. Nat \subseteq Holds
    BY <1>4, <1>5, SetInduction
  <2> QED
    BY <1>1, <2>1 DEF Holds
<1> QED
  BY <1>2, <1>6 DEF Comes, all, N

\* What is said of a container by some way to it.
BySomeWay(v) == v.basis = "route" /\ v.reachable \in BOOLEAN

(***************************************************************************)
(* Merging keeps what was said first, unless the next says more            *)
(* (mergeExposure).                                                        *)
(***************************************************************************)
LEMMA MergingRaises ==
  ASSUME NEW before, before = Unassessed \/ BySomeWay(before), NEW x, BySomeWay(x)
  PROVE  /\ MergeExposure(before, x) = IF Standing(x) > Standing(before) THEN x ELSE before
         /\ Standing(x) \in 1..3 /\ Standing(before) \in 0..3
         /\ Standing(before) = 0 => before = Unassessed
<1>1. Unassessed.basis = "none" /\ Standing(Unassessed) = 0
  BY DEF Unassessed, Verdict, Standing
<1>2. \A v : BySomeWay(v) =>
        Standing(v) = IF v.reachable THEN 3 ELSE IF v.protection # {} THEN 2 ELSE 1
  BY DEF BySomeWay, Standing
<1> QED
  BY <1>1, <1>2 DEF MergeExposure, BySomeWay

\* What the entries say of a container.
Said(w, container, o, declared) ==
  {EntryFor(container, e) : e \in {x \in Range(Entries(o, declared)) : IsAbout(x, w, o)}}

(***************************************************************************)
(* An entry says something of a container; of one that is no init          *)
(* container, that what keeps it from the internet is authentication or    *)
(* the lack of a way (applyWorkloadExposure).                              *)
(***************************************************************************)
LEMMA EntrySays ==
  ASSUME NEW e, WellTold(e), NEW container
  PROVE  LET v == EntryFor(container, e)
         IN  /\ BySomeWay(v)
             /\ container # "init" /\ ~v.reachable => (v.protection = {} \/ "auth" \in v.protection)
<1> DEFINE v == EntryFor(container, e)
<1>1. /\ v.basis = "route" /\ v.reachable = (e.reachable /\ container # "init")
      /\ v.protection = e.protection
  BY DEF EntryFor, Verdict
<1> HIDE DEF v
<1>2. BySomeWay(v) /\ (container # "init" /\ ~v.reachable => (v.protection = {} \/ "auth" \in v.protection))
  BY <1>1 DEF BySomeWay, WellTold
<1> QED
  BY <1>2 DEF v

\* One of what was said, of which nothing says more; nothing if nothing was said.
IsHighest(v, said) ==
  /\ \A x \in said : Standing(x) <= Standing(v)
  /\ v \in said \/ (said = {} /\ v = Unassessed)

(***************************************************************************)
(* What is said of a container in the end is the most that the entries     *)
(* say, whatever their order (mergeExposure).                              *)
(***************************************************************************)
LEMMA MergedIsHighest ==
  ASSUME NEW o, ListsSound(o), NEW declared, NEW w, NEW container
  PROVE  IsHighest(Merged(w, container, o, declared), Said(w, container, o, declared))
<1> DEFINE all == Entries(o, declared)
           N == Len(all)
           about(n) == IsAbout(all[n], w, o)
           said(n) == {EntryFor(container, all[i]) : i \in {k \in 1..n : about(k)}}
<1>1. IsList(all) /\ \A e \in Range(all) : WellTold(e)
  BY EntriesGive
<1>2. /\ N \in Nat /\ DOMAIN all = 1..N
      /\ Range(all) = {all[n] : n \in 1..N}
      /\ \A n \in 1..N : all[n] \in Range(all)
  <2> HIDE DEF all
  <2> QED
    BY <1>1 DEF IsList, Range
<1>3. PICK merged : MergedUpTo(merged, w, container, o, declared)
                      /\ Merged(w, container, o, declared) = merged[N]
  BY <1>1, MergedRuns
<1>4. /\ merged[0] = Unassessed
      /\ \A n \in 1..N :
           merged[n] = IF about(n) THEN MergeExposure(merged[n - 1], EntryFor(container, all[n]))
                       ELSE merged[n - 1]
  BY <1>3 DEF MergedUpTo
<1>5. Said(w, container, o, declared) = said(N)
  <2>1. Said(w, container, o, declared)
          = {EntryFor(container, e) : e \in {x \in Range(all) : IsAbout(x, w, o)}}
    BY DEF Said
  <2> HIDE DEF all, N
  <2>2. {x \in Range(all) : IsAbout(x, w, o)} = {all[i] : i \in {k \in 1..N : about(k)}}
    BY <1>2
  <2> QED
    BY <2>1, <2>2
<1> HIDE DEF all, N, about
<1> DEFINE Holds == {n \in Nat : n <= N => IsHighest(merged[n], said(n))}
<1>6. 0 \in Holds
  <2>1. said(0) = {}
    OBVIOUS
  <2> HIDE DEF said
  <2> QED
    BY <1>4, <2>1 DEF IsHighest
<1>7. ASSUME NEW n \in Nat, n \in Holds PROVE n + 1 \in Holds
  <2> SUFFICES ASSUME n + 1 <= N PROVE IsHighest(merged[n + 1], said(n + 1))
    OBVIOUS
  <2> DEFINE x == EntryFor(container, all[n + 1])
  <2>1. n + 1 \in 1..N /\ (n + 1) - 1 = n /\ n <= N
    BY <1>2
  <2>2. IsHighest(merged[n], said(n))
    BY <1>7, <2>1
  <2>3. merged[n + 1] = IF about(n + 1) THEN MergeExposure(merged[n], x) ELSE merged[n]
    BY <1>4, <2>1
  <2>4. 1..(n + 1) = (1..n) \cup {n + 1}
    OBVIOUS
  <2>5. {k \in 1..(n + 1) : about(k)}
          = {k \in 1..n : about(k)} \cup (IF about(n + 1) THEN {n + 1} ELSE {})
    BY <2>4
  <2>6. said(n + 1) = IF about(n + 1) THEN said(n) \cup {x} ELSE said(n)
    <3>1. CASE about(n + 1)
      <4> DEFINE K == {k \in 1..n : about(k)}
      <4>1. {k \in 1..(n + 1) : about(k)} = K \cup {n + 1}
        BY <2>5, <3>1
      <4> HIDE DEF K
      <4>2. {EntryFor(container, all[i]) : i \in K \cup {n + 1}}
              = {EntryFor(container, all[i]) : i \in K} \cup {x}
        OBVIOUS
      <4> QED
        BY <3>1, <4>1, <4>2 DEF K
    <3>2. CASE ~about(n + 1)
      <4>1. {k \in 1..(n + 1) : about(k)} = {k \in 1..n : about(k)}
        BY <2>5, <3>2
      <4> QED
        BY <3>2, <4>1
    <3> QED
      BY <3>1, <3>2
  <2>7. BySomeWay(x) /\ \A y \in said(n) : BySomeWay(y)
    <3>1. \A k \in 1..N : BySomeWay(EntryFor(container, all[k]))
      BY <1>1, <1>2, EntrySays
    <3>2. \A k \in 1..n : k \in 1..N
      BY <1>2, <2>1
    <3>3. BySomeWay(x)
      BY <2>1, <3>1
    <3> HIDE DEF x
    <3>4. \A y \in said(n) : BySomeWay(y)
      BY <3>1, <3>2
    <3> QED
      BY <3>3, <3>4
  <2> DEFINE before == merged[n]
             till == said(n)
  <2> HIDE DEF x, said
  <2>8. CASE about(n + 1)
    <3>1. merged[n + 1] = MergeExposure(before, x) /\ said(n + 1) = till \cup {x}
      BY <2>3, <2>6, <2>8
    <3>2. IsHighest(before, till) /\ BySomeWay(x) /\ \A y \in till : BySomeWay(y)
      BY <2>2, <2>7
    <3> HIDE DEF before, till
    <3>3. before = Unassessed \/ BySomeWay(before)
      BY <3>2 DEF IsHighest
    <3>4. /\ MergeExposure(before, x) = IF Standing(x) > Standing(before) THEN x ELSE before
          /\ Standing(x) \in 1..3 /\ Standing(before) \in 0..3
          /\ Standing(before) = 0 => before = Unassessed
      BY <3>2, <3>3, MergingRaises
    <3>5. \A y \in till : Standing(y) \in 1..3
      BY <3>2, MergingRaises
    <3>6. CASE Standing(x) > Standing(before)
      BY <3>1, <3>2, <3>4, <3>5, <3>6 DEF IsHighest
    <3>7. CASE ~(Standing(x) > Standing(before))
      <4>1. before \in till
        BY <3>2, <3>4, <3>7 DEF IsHighest, Standing, Unassessed, Verdict
      <4> QED
        BY <3>1, <3>2, <3>4, <3>7, <4>1 DEF IsHighest
    <3> QED
      BY <3>6, <3>7
  <2>9. CASE ~about(n + 1)
    BY <2>2, <2>3, <2>6, <2>9
  <2> QED
    BY <2>8, <2>9
<1> HIDE DEF said
<1>8. IsHighest(merged[N], said(N))
  <2> HIDE DEF Holds
  <2>1. Nat \subseteq Holds
    BY <1>6, <1>7, SetInduction
  <2> QED
    BY <1>2, <2>1 DEF Holds
<1> QED
  BY <1>3, <1>5, <1>8

\* The same objects, of which the lists have another order.
Reordered(p, o) ==
  /\ ListsSound(p) /\ ListsSound(o)
  /\ Range(p.services) = Range(o.services)
  /\ Range(p.ingresses) = Range(o.ingresses)
  /\ Range(p.routes) = Range(o.routes)
  /\ p.gateways = o.gateways /\ p.lbConfigs = o.lbConfigs /\ p.grants = o.grants
  /\ p.classes = o.classes /\ p.internetFacingParams = o.internetFacingParams
  /\ p.iapConfigs = o.iapConfigs /\ p.backendPolicies = o.backendPolicies
  /\ p.positive = o.positive /\ p.negative = o.negative
  /\ p.positiveGateway = o.positiveGateway /\ p.negativeGateway = o.negativeGateway
  /\ p.negativeServices = o.negativeServices /\ p.complete = o.complete

(***************************************************************************)
(* An object makes the same entries, whatever the order of the lists.      *)
(***************************************************************************)
LEMMA EachReordered ==
  ASSUME NEW p, NEW o, Reordered(p, o), NEW declared
  PROVE  /\ \A i : IngressEntries(i, p, declared) = IngressEntries(i, o, declared)
         /\ \A r : RouteEntries(r, p) = RouteEntries(r, o)
         /\ \A s : ServiceEntries(s, p, declared) = ServiceEntries(s, o, declared)
<1>1. \A key : ServiceAt(key, p) = ServiceAt(key, o)
  BY DEF Reordered, ServiceAt
<1>2. ASSUME NEW i PROVE IngressEntries(i, p, declared) = IngressEntries(i, o, declared)
  <2>1. IngressProvider(i, p) = IngressProvider(i, o)
    BY DEF Reordered, IngressProvider
  <2>2. \A provider, s, ref :
          IngressProtection(i, provider, s, ref, p) = IngressProtection(i, provider, s, ref, o)
    BY DEF Reordered, IngressProtection
  <2>3. {ref \in Range(i.refs) : ServiceAt(Key(i.ns, ref.service), p) # {}}
          = {ref \in Range(i.refs) : ServiceAt(Key(i.ns, ref.service), o) # {}}
    BY <1>1
  <2> QED
    <3> DEFINE first(S) == CHOOSE x \in S : TRUE
               there(x) == Only(i.refs, {ref \in Range(i.refs) : ServiceAt(Key(i.ns, ref.service), x) # {}})
               serving(x, n) == first(ServiceAt(Key(i.ns, there(x)[n].service), x))
               protection(x, n) ==
                 IngressProtection(i, IngressProvider(i, x), serving(x, n), there(x)[n], x)
               list(x) == [n \in DOMAIN there(x) |->
                             EntryBehind(KeyOf(serving(x, n)), protection(x, n))]
    <3>1. \A x : IngressEntries(i, x, declared)
                   = IF (declared \/ i.provisioned) /\ IngressProvider(i, x) # "none"
                     THEN list(x) ELSE <<>>
      BY DEF IngressEntries
    <3>2. there(p) = there(o)
      BY <2>3, Zenon
    <3> HIDE DEF first, there
    <3>3. \A n : serving(p, n) = serving(o, n)
      BY <1>1, <3>2
    <3> HIDE DEF serving
    <3>4. \A n : protection(p, n) = protection(o, n)
      BY <2>1, <2>2, <3>2, <3>3
    <3> HIDE DEF protection
    <3>5. list(p) = list(o)
      BY <3>2, <3>3, <3>4
    <3> HIDE DEF list
    <3> QED
      BY <2>1, <3>1, <3>5
<1>3. ASSUME NEW r PROVE RouteEntries(r, p) = RouteEntries(r, o)
  <2>1. ASSUME NEW parent PROVE ParentEntries(r, parent, p) = ParentEntries(r, parent, o)
    <3>1. p.gateways = o.gateways /\ \A to : PolicyProtection(to, p) = PolicyProtection(to, o)
      BY DEF Reordered, PolicyProtection
    <3>2. \A g : GatewayProvider(g, p) = GatewayProvider(g, o)
      BY DEF Reordered, GatewayProvider, ForcedOff, AWSPublic
    <3>3. \A b : Granted(r, b, p) = Granted(r, b, o)
      BY DEF Reordered, Granted
    <3>4. {b \in Range(r.backends) : BackendKey(r, b)[1] = r.ns \/ Granted(r, b, p)}
            = {b \in Range(r.backends) : BackendKey(r, b)[1] = r.ns \/ Granted(r, b, o)}
      BY <3>3
    <3> QED
      BY <3>1, <3>2, <3>4, Zenon DEF ParentEntries
  <2> QED
    BY <2>1, Zenon DEF RouteEntries
<1>4. ASSUME NEW s PROVE ServiceEntries(s, p, declared) = ServiceEntries(s, o, declared)
  BY DEF Reordered, ServiceEntries
<1> QED
  BY <1>2, <1>3, <1>4

(***************************************************************************)
(* The entries of the analysis, as a set.                                  *)
(***************************************************************************)
LEMMA EntriesOf ==
  ASSUME NEW o, ListsSound(o), NEW declared
  PROVE  Range(Entries(o, declared))
           = (UNION {Range(IngressEntries(i, o, declared)) : i \in Range(o.ingresses)})
               \cup (UNION {Range(RouteEntries(r, o)) : r \in Range(o.routes)})
               \cup (UNION {Range(ServiceEntries(s, o, declared)) : s \in Range(o.services)})
<1> DEFINE ofIngresses == [n \in DOMAIN o.ingresses |-> IngressEntries(o.ingresses[n], o, declared)]
           ofRoutes == [n \in DOMAIN o.routes |-> RouteEntries(o.routes[n], o)]
           ofServices == [n \in DOMAIN o.services |-> ServiceEntries(o.services[n], o, declared)]
<1>1. IsList(o.ingresses) /\ IsList(o.routes) /\ IsList(o.services)
  BY DEF ListsSound
<1>9. \A s : /\ \A n \in DOMAIN s : s[n] \in Range(s)
             /\ \A x \in Range(s) : \E n \in DOMAIN s : s[n] = x
  BY DEF Range
<1>2. ASSUME NEW s, IsList(s), NEW parts, parts = [n \in DOMAIN s |-> parts[n]],
             \A n \in DOMAIN s : IsList(parts[n])
      PROVE  /\ IsList(FlattenSeq(parts))
             /\ Range(FlattenSeq(parts)) = UNION {Range(parts[n]) : n \in DOMAIN s}
  <2>1. IsList(parts) /\ DOMAIN parts = DOMAIN s
    <3>1. DOMAIN s = 1..Len(s) /\ Len(s) \in Nat
      BY <1>2 DEF IsList
    <3>2. parts = [n \in 1..Len(s) |-> parts[n]]
      BY <1>2, <3>1
    <3> QED
      BY <3>1, <3>2 DEF IsList, Range
  <2> QED
    BY <1>2, <2>1, FlattenElements
<1>3. /\ IsList(FlattenSeq(ofIngresses))
      /\ Range(FlattenSeq(ofIngresses))
           = (UNION {Range(IngressEntries(i, o, declared)) : i \in Range(o.ingresses)})
  <2>1. \A i \in Range(o.ingresses) : IsList(IngressEntries(i, o, declared))
    BY IngressGives DEF ListsSound
  <2>2. \A n \in DOMAIN o.ingresses : IsList(ofIngresses[n])
    BY <2>1 DEF Range
  <2>3. /\ IsList(FlattenSeq(ofIngresses))
        /\ Range(FlattenSeq(ofIngresses)) = UNION {Range(ofIngresses[n]) : n \in DOMAIN o.ingresses}
    BY <1>1, <1>2, <2>2
  <2> DEFINE G(x) == Range(IngressEntries(x, o, declared))
  <2>4. \A n \in DOMAIN o.ingresses : Range(ofIngresses[n]) = G(o.ingresses[n])
    OBVIOUS
  <2> HIDE DEF G, ofIngresses
  <2>5. {Range(ofIngresses[n]) : n \in DOMAIN o.ingresses} = {G(x) : x \in Range(o.ingresses)}
    <3>1. ASSUME NEW n \in DOMAIN o.ingresses
          PROVE  o.ingresses[n] \in Range(o.ingresses) /\ Range(ofIngresses[n]) = G(o.ingresses[n])
      BY <1>9, <2>4
    <3>2. ASSUME NEW x \in Range(o.ingresses)
          PROVE  \E n \in DOMAIN o.ingresses : Range(ofIngresses[n]) = G(x)
      <4>1. PICK n \in DOMAIN o.ingresses : o.ingresses[n] = x
        BY <3>2 DEF Range
      <4>2. Range(ofIngresses[n]) = G(x)
        BY <2>4, <4>1
      <4> QED
        BY <4>2
    <3> QED
      BY <3>1, <3>2
  <2> QED
    BY <2>3, <2>5, Zenon DEF G
<1>4. /\ IsList(FlattenSeq(ofRoutes))
      /\ Range(FlattenSeq(ofRoutes)) = UNION {Range(RouteEntries(r, o)) : r \in Range(o.routes)}
  <2>1. \A r \in Range(o.routes) : IsList(RouteEntries(r, o))
    BY RouteGives DEF ListsSound
  <2>2. \A n \in DOMAIN o.routes : IsList(ofRoutes[n])
    BY <2>1 DEF Range
  <2>3. /\ IsList(FlattenSeq(ofRoutes))
        /\ Range(FlattenSeq(ofRoutes)) = UNION {Range(ofRoutes[n]) : n \in DOMAIN o.routes}
    BY <1>1, <1>2, <2>2
  <2> DEFINE G(x) == Range(RouteEntries(x, o))
  <2>4. \A n \in DOMAIN o.routes : Range(ofRoutes[n]) = G(o.routes[n])
    OBVIOUS
  <2> HIDE DEF G, ofRoutes
  <2>5. {Range(ofRoutes[n]) : n \in DOMAIN o.routes} = {G(x) : x \in Range(o.routes)}
    <3>1. ASSUME NEW n \in DOMAIN o.routes
          PROVE  o.routes[n] \in Range(o.routes) /\ Range(ofRoutes[n]) = G(o.routes[n])
      BY <1>9, <2>4
    <3>2. ASSUME NEW x \in Range(o.routes)
          PROVE  \E n \in DOMAIN o.routes : Range(ofRoutes[n]) = G(x)
      <4>1. PICK n \in DOMAIN o.routes : o.routes[n] = x
        BY <3>2 DEF Range
      <4>2. Range(ofRoutes[n]) = G(x)
        BY <2>4, <4>1
      <4> QED
        BY <4>2
    <3> QED
      BY <3>1, <3>2
  <2> QED
    BY <2>3, <2>5, Zenon DEF G
<1>5. /\ IsList(FlattenSeq(ofServices))
      /\ Range(FlattenSeq(ofServices))
           = (UNION {Range(ServiceEntries(s, o, declared)) : s \in Range(o.services)})
  <2>1. \A s : IsList(ServiceEntries(s, o, declared))
    BY ServiceGives
  <2>2. \A n \in DOMAIN o.services : IsList(ofServices[n])
    BY <2>1
  <2>3. /\ IsList(FlattenSeq(ofServices))
        /\ Range(FlattenSeq(ofServices)) = UNION {Range(ofServices[n]) : n \in DOMAIN o.services}
    BY <1>1, <1>2, <2>2
  <2> DEFINE G(x) == Range(ServiceEntries(x, o, declared))
  <2>4. \A n \in DOMAIN o.services : Range(ofServices[n]) = G(o.services[n])
    OBVIOUS
  <2> HIDE DEF G, ofServices
  <2>5. {Range(ofServices[n]) : n \in DOMAIN o.services} = {G(x) : x \in Range(o.services)}
    <3>1. ASSUME NEW n \in DOMAIN o.services
          PROVE  o.services[n] \in Range(o.services) /\ Range(ofServices[n]) = G(o.services[n])
      BY <1>9, <2>4
    <3>2. ASSUME NEW x \in Range(o.services)
          PROVE  \E n \in DOMAIN o.services : Range(ofServices[n]) = G(x)
      <4>1. PICK n \in DOMAIN o.services : o.services[n] = x
        BY <3>2 DEF Range
      <4>2. Range(ofServices[n]) = G(x)
        BY <2>4, <4>1
      <4> QED
        BY <4>2
    <3> QED
      BY <3>1, <3>2
  <2> QED
    BY <2>3, <2>5, Zenon DEF G
<1>6. Entries(o, declared)
        = FlattenSeq(ofIngresses) \o FlattenSeq(ofRoutes) \o FlattenSeq(ofServices)
  BY DEF Entries, Flat
<1> HIDE DEF ofIngresses, ofRoutes, ofServices
<1>7. /\ IsList(FlattenSeq(ofIngresses) \o FlattenSeq(ofRoutes))
      /\ Range(FlattenSeq(ofIngresses) \o FlattenSeq(ofRoutes))
           = Range(FlattenSeq(ofIngresses)) \cup Range(FlattenSeq(ofRoutes))
  BY <1>3, <1>4, JoinElements
<1>8. Range(Entries(o, declared))
        = (Range(FlattenSeq(ofIngresses)) \cup Range(FlattenSeq(ofRoutes)))
             \cup Range(FlattenSeq(ofServices))
  BY <1>5, <1>6, <1>7, JoinElements
<1> DEFINE all == Range(Entries(o, declared))
           a == UNION {Range(IngressEntries(i, o, declared)) : i \in Range(o.ingresses)}
           b == UNION {Range(RouteEntries(r, o)) : r \in Range(o.routes)}
           c == UNION {Range(ServiceEntries(s, o, declared)) : s \in Range(o.services)}
<1>10. /\ Range(FlattenSeq(ofIngresses)) = a /\ Range(FlattenSeq(ofRoutes)) = b
       /\ Range(FlattenSeq(ofServices)) = c
  BY <1>3, <1>4, <1>5
<1> HIDE DEF a, b, c
<1>11. all = a \cup b \cup c
  BY <1>8, <1>10
<1> QED
  BY <1>11, Zenon DEF all, a, b, c

\* Two verdicts that differ in nothing but which of several protections is told.
TellAlike(v, other, container) ==
  /\ v.basis = other.basis
  /\ Standing(v) = Standing(other)
  /\ ~other.reachable /\ container # "init" =>
       ("auth" \in v.protection <=> "auth" \in other.protection)

(***************************************************************************)
(* The order of the lists decides at most which of several protections a   *)
(* verdict tells of (AnalyzeWithOptions).                                  *)
(***************************************************************************)
LEMMA VerdictReordered ==
  ASSUME NEW p, NEW o, Reordered(p, o), NEW w, NEW container
  PROVE  TellAlike(AnalyzeContainer(w, container, p, FALSE),
                   AnalyzeContainer(w, container, o, FALSE), container)
<1> DEFINE declared == FALSE
<1> HIDE DEF declared
<1>1. Range(Entries(p, declared)) = Range(Entries(o, declared))
  <2>1. /\ Range(p.services) = Range(o.services) /\ Range(p.ingresses) = Range(o.ingresses)
        /\ Range(p.routes) = Range(o.routes) /\ ListsSound(p) /\ ListsSound(o)
    BY DEF Reordered
  <2>2. {Range(IngressEntries(i, p, declared)) : i \in Range(p.ingresses)}
          = {Range(IngressEntries(i, o, declared)) : i \in Range(o.ingresses)}
    BY <2>1, EachReordered
  <2>3. {Range(RouteEntries(r, p)) : r \in Range(p.routes)}
          = {Range(RouteEntries(r, o)) : r \in Range(o.routes)}
    BY <2>1, EachReordered
  <2>4. {Range(ServiceEntries(s, p, declared)) : s \in Range(p.services)}
          = {Range(ServiceEntries(s, o, declared)) : s \in Range(o.services)}
    BY <2>1, EachReordered
  <2>5. /\ Range(Entries(p, declared))
             = (UNION {Range(IngressEntries(i, p, declared)) : i \in Range(p.ingresses)})
                 \cup (UNION {Range(RouteEntries(r, p)) : r \in Range(p.routes)})
                 \cup (UNION {Range(ServiceEntries(s, p, declared)) : s \in Range(p.services)})
        /\ Range(Entries(o, declared))
             = (UNION {Range(IngressEntries(i, o, declared)) : i \in Range(o.ingresses)})
                 \cup (UNION {Range(RouteEntries(r, o)) : r \in Range(o.routes)})
                 \cup (UNION {Range(ServiceEntries(s, o, declared)) : s \in Range(o.services)})
    BY <2>1, EntriesOf
  <2> QED
    BY <2>2, <2>3, <2>4, <2>5, Zenon
<1>2. \A key : ServiceAt(key, p) = ServiceAt(key, o)
  BY DEF Reordered, ServiceAt
<1>3. \A e : IsAbout(e, w, p) = IsAbout(e, w, o)
  BY <1>2 DEF IsAbout
<1>4. Said(w, container, p, declared) = Said(w, container, o, declared)
  <2>1. {x \in Range(Entries(p, declared)) : IsAbout(x, w, p)}
          = {x \in Range(Entries(o, declared)) : IsAbout(x, w, o)}
    BY <1>1, <1>3
  <2> QED
    BY <2>1, Zenon DEF Said
<1>5. IsHighest(Merged(w, container, p, declared), Said(w, container, o, declared))
      /\ IsHighest(Merged(w, container, o, declared), Said(w, container, o, declared))
  BY <1>4, MergedIsHighest DEF Reordered
<1>6. DeclaredServices(p) = DeclaredServices(o)
  BY Zenon DEF Reordered, DeclaredServices
<1>7. MayBeRouted(w, p) = MayBeRouted(w, o)
  BY <1>6 DEF Reordered, MayBeRouted
<1>8. p.complete = o.complete
  BY DEF Reordered
<1>9. \A v \in Said(w, container, o, declared) :
        /\ BySomeWay(v)
        /\ container # "init" /\ ~v.reachable => (v.protection = {} \/ "auth" \in v.protection)
  <2>1. \A e \in Range(Entries(o, declared)) : WellTold(e)
    BY EntriesGive DEF Reordered
  <2> SUFFICES ASSUME NEW v \in Said(w, container, o, declared)
               PROVE  /\ BySomeWay(v)
                      /\ container # "init" /\ ~v.reachable
                           => (v.protection = {} \/ "auth" \in v.protection)
    OBVIOUS
  <2>2. PICK e \in Range(Entries(o, declared)) : v = EntryFor(container, e)
    BY DEF Said
  <2> QED
    BY <2>1, <2>2, EntrySays
<1> DEFINE said == Said(w, container, o, declared)
           one == Merged(w, container, p, declared)
           two == Merged(w, container, o, declared)
           V(x) == AnalyzeContainer(w, container, x, declared)
<1>10. /\ one.basis # "none" => V(p) = one
       /\ two.basis # "none" => V(o) = two
       /\ one.basis = "none" /\ two.basis = "none" => V(p) = V(o)
  <2>1. \A x : V(x) = IF Merged(w, container, x, declared).basis # "none"
                     THEN Merged(w, container, x, declared)
                     ELSE IF /\ x.complete /\ ~w.direct /\ ~MayBeRouted(w, x)
                             /\ w.kind \in Serving \cup Batch
                          THEN Absent ELSE Unassessed
    BY DEF AnalyzeContainer, declared
  <2> HIDE DEF V
  <2> QED
    BY <1>7, <1>8, <2>1
<1> HIDE DEF said, one, two, V
<1>11. CASE said = {}
  <2>1. one = Unassessed /\ two = Unassessed
    BY <1>5, <1>11 DEF IsHighest, said, one, two
  <2>2. V(p) = V(o)
    BY <1>10, <2>1 DEF Unassessed, Verdict
  <2> QED
    BY <2>2 DEF TellAlike, V, declared
<1>12. CASE said # {}
  <2>1. one \in said /\ two \in said /\ Standing(one) <= Standing(two) /\ Standing(two) <= Standing(one)
    BY <1>5, <1>12 DEF IsHighest, said, one, two
  <2>2. BySomeWay(one) /\ BySomeWay(two)
    BY <1>9, <2>1 DEF said
  <2>3. V(p) = one /\ V(o) = two
    BY <1>10, <2>2 DEF BySomeWay
  <2>4. Standing(one) \in 1..3 /\ Standing(two) \in 1..3
    BY <2>2, MergingRaises
  <2>5. Standing(one) = Standing(two)
    BY <2>1, <2>4
  <2>6. ASSUME ~two.reachable, container # "init"
        PROVE  "auth" \in one.protection <=> "auth" \in two.protection
    <3>1. \A v : BySomeWay(v) =>
            Standing(v) = IF v.reachable THEN 3 ELSE IF v.protection # {} THEN 2 ELSE 1
      BY DEF BySomeWay, Standing
    <3>2. ~one.reachable /\ (one.protection # {} <=> two.protection # {})
      BY <2>2, <2>5, <2>6, <3>1 DEF BySomeWay
    <3> QED
      BY <1>9, <2>1, <2>6, <3>2 DEF said
  <2>7. TellAlike(one, two, container)
    BY <2>2, <2>5, <2>6 DEF TellAlike, BySomeWay
  <2> QED
    BY <2>3, <2>7 DEF V, declared
<1> QED
  BY <1>11, <1>12

(***************************************************************************)
(* A list that is read backwards has the same elements.                    *)
(***************************************************************************)
LEMMA ReverseElements ==
  ASSUME NEW s, IsList(s)
  PROVE  IsList(Reverse(s)) /\ Range(Reverse(s)) = Range(s)
<1> DEFINE N == Len(s)
           r == Reverse(s)
<1>1. N \in Nat /\ DOMAIN s = 1..N
  BY DEF IsList
<1>2. r = [n \in 1..N |-> s[(N - n) + 1]]
  BY DEF Reverse
<1> HIDE DEF N, r
<1>3. \A n \in 1..N : (N - n) + 1 \in 1..N /\ (N - ((N - n) + 1)) + 1 = n
  BY <1>1
<1>4. \A n \in 1..N : r[n] = s[(N - n) + 1]
  BY <1>2
<1>5. r = [n \in 1..N |-> r[n]]
  BY <1>2
<1>6. IsList(r) /\ Range(r) = {r[n] : n \in 1..N}
  BY <1>1, <1>5, ListOf
<1>7. Range(s) = {s[n] : n \in 1..N}
  BY <1>1 DEF Range
<1>8. {r[n] : n \in 1..N} = {s[n] : n \in 1..N}
  BY <1>3, <1>4
<1> QED
  BY <1>6, <1>7, <1>8 DEF r

(***************************************************************************)
(* A container that is said to be reachable has a service with an open     *)
(* way.                                                                    *)
(***************************************************************************)
LEMMA ReachableIsOpen ==
  ASSUME NEW o, ListsSound(o), NEW w, NEW container,
         AnalyzeContainer(w, container, o, FALSE).reachable
  PROVE  \E s \in Range(o.services) : SelectsWorkload(s, w) /\ OpenWayTo(s, o)
<1> DEFINE merged == Merged(w, container, o, FALSE)
<1>1. ~Unassessed.reachable /\ ~Absent.reachable
  BY DEF Unassessed, Absent, Verdict
<1>2. AnalyzeContainer(w, container, o, FALSE) \in {merged, Absent, Unassessed}
  <2> HIDE DEF merged
  <2>1. AnalyzeContainer(w, container, o, FALSE)
          = IF merged.basis # "none" THEN merged
            ELSE IF /\ o.complete /\ ~w.direct /\ ~MayBeRouted(w, o)
                    /\ w.kind \in Serving \cup Batch
                 THEN Absent ELSE Unassessed
    BY DEF AnalyzeContainer, merged
  <2> QED
    BY <2>1
<1>3. merged.reachable /\ merged # Unassessed
  <2> HIDE DEF merged
  <2> QED
    BY <1>1, <1>2
<1>4. PICK e \in Range(Entries(o, FALSE)) : IsAbout(e, w, o) /\ merged = EntryFor(container, e)
  <2>1. IsList(Entries(o, FALSE))
    BY EntriesGive
  <2>2. ASSUME NEW declared, IsList(Entries(o, declared))
        PROVE  \/ Merged(w, container, o, declared) = Unassessed
               \/ \E e \in Range(Entries(o, declared)) :
                    IsAbout(e, w, o) /\ Merged(w, container, o, declared) = EntryFor(container, e)
    BY <2>2, MergedComes
  <2> QED
    BY <1>3, <2>1, <2>2, Zenon
<1>5. e.reachable
  <2>1. EntryFor(container, e).reachable = (e.reachable /\ container # "init")
    BY DEF EntryFor, Verdict
  <2> HIDE DEF merged
  <2>2. EntryFor(container, e).reachable
    BY <1>3, <1>4
  <2> QED
    BY <2>1, <2>2, Zenon
<1>6. PICK s \in Range(o.services) : e.service = KeyOf(s) /\ SelectsWorkload(s, w)
  BY <1>4 DEF IsAbout, ServiceAt
<1>7. Opened(e, o)
  BY EntriesGive
<1>8. KeyOf(s) = <<s.ns, s.name>> /\ KeyOf(s)[1] = s.ns
  BY DEF KeyOf, Key
<1>9. OpenWayTo(s, o)
  <2>1. CASE \E i \in Range(o.ingresses) :
               OpenIngress(i, o) /\ \E ref \in Range(i.refs) : e.service = Key(i.ns, ref.service)
    <3>1. \A i, ref : KeyOf(s) = Key(i.ns, ref.service) => i.ns = s.ns /\ ref.service = s.name
      BY DEF KeyOf, Key
    <3> QED
      BY <1>6, <2>1, <3>1, Zenon DEF OpenWayTo
  <2>2. CASE \E r \in Range(o.routes) : Routed(e.service, r, o)
    <3>1. PICK r \in Range(o.routes) : Routed(KeyOf(s), r, o)
      BY <1>6, <2>2
    <3>2. PICK g \in o.gateways, b \in Range(r.backends) :
            /\ OpenGateway(g, o)
            /\ KeyOf(s) = BackendKey(r, b)
            /\ s.ns = r.ns \/ \E x \in o.grants : x.ns = s.ns /\ x.to \in {"", b.service}
      BY <1>8, <3>1 DEF Routed
    <3>3. b.service = s.name
      <4>1. BackendKey(r, b)[2] = b.service /\ KeyOf(s)[2] = s.name
        BY DEF BackendKey, KeyOf, Key
      <4> QED
        BY <3>2, <4>1, Zenon
    <3>4. /\ OpenGateway(g, o) /\ BackendKey(r, b) = KeyOf(s)
          /\ r.ns = s.ns \/ \E x \in o.grants : x.ns = s.ns /\ x.to \in {"", s.name}
      BY <3>2, <3>3
    <3> QED
      BY <3>4, Zenon DEF OpenWayTo
  <2>3. CASE \E x \in Range(o.services) : e.service = KeyOf(x) /\ (e.reachable => OpenByItself(x, o))
    <3>1. OpenByItself(s, o)
      BY <1>5, <1>6, <2>3 DEF ListsSound
    <3> QED
      BY <3>1 DEF OpenByItself, OpenWayTo
  <2> QED
    BY <1>7, <2>1, <2>2, <2>3 DEF Opened
<1> QED
  BY <1>6, <1>9

\* What was found is a part of the cluster.
FoundIn(o, t) ==
  /\ DOMAIN o = DOMAIN Nothing
  /\ IsList(o.services) /\ Range(o.services) \subseteq Range(t.services)
  /\ IsList(o.ingresses) /\ Range(o.ingresses) \subseteq Range(t.ingresses)
  /\ IsList(o.routes) /\ Range(o.routes) \subseteq Range(t.routes)

NotJudged == DOMAIN verdicts = {}

\* What there may be of the resources that lead to a workload, and what there is.
Leading == {"services", "ingresses", "gateways"} \cup RouteKinds
Present(o, op) ==
  IF op = "services" THEN Range(o.services)
  ELSE IF op = "ingresses" THEN Range(o.ingresses)
  ELSE IF op = "gateways" THEN o.gateways
  ELSE {r \in Range(o.routes) : r.kind = op}

\* Every one is still to be listed, has been, or is a kind that was held back.
Asked(op) ==
  \E c \in Range(calls) :
    c.op = op /\ (op \in Core \/ Range(c.versions) \cap cluster.versions[op] # {})
Accounted(op) ==
  Asked(op) \/ Present(cluster.objects, op) \subseteq Present(objects, op) \/ op \in held

OfAllNamespaces(c) ==
  /\ DOMAIN c = {"op", "ns", "versions"}
  /\ c.ns = "" /\ IsList(c.versions) /\ c.versions # <<>>
CallsForAll ==
  /\ IsList(calls)
  /\ \A c \in Range(calls) : OfAllNamespaces(c)
  /\ \A c, d \in Range(calls) : c.op = d.op => c.versions = d.versions

\* An exposure discovery that may yet count as complete.
AllSeen ==
  phase = "exposure" /\ options.all /\ options.excluded = {} /\ warnings = {} =>
    gatewaysComplete /\ CallsForAll /\ \A op \in Leading : Accounted(op)

K8sInv ==
  /\ cluster \in Clusters
  /\ FoundIn(objects, cluster.objects)
  /\ held \subseteq RouteKinds
  /\ phase \in {"start", "inventory", "runtime"} => gatewaysComplete
  /\ AllSeen
  /\ phase \in {"start", "inventory", "runtime", "exposure"} => NotJudged
  /\ OperatorHasTheLastWord /\ NegativeIsProved /\ VerdictIgnoresOrder

(***************************************************************************)
(* What is found in a cluster has the lists and unique names of the        *)
(* cluster.                                                                *)
(***************************************************************************)
LEMMA FoundInSound ==
  ASSUME NEW c \in Clusters, NEW o, FoundIn(o, c.objects)
  PROVE  ListsSound(o)
BY ClustersAssumption DEF FoundIn, ListsSound

\* The lists of the objects are as they were.
SameLists(o, before) ==
  /\ DOMAIN o = DOMAIN before
  /\ o.services = before.services /\ o.ingresses = before.ingresses /\ o.routes = before.routes

(***************************************************************************)
(* The settings of the operator, and whether the discovery is complete,    *)
(* leave the lists as they are.                                            *)
(***************************************************************************)
LEMMA OverridesWithin ==
  ASSUME NEW o, DOMAIN o = DOMAIN Nothing
  PROVE  SameLists([WithOverrides(o) EXCEPT !.complete = Complete(warnings')], o)
<1> DEFINE t == cluster.objects
           given == [o EXCEPT !.positive = t.positive, !.negative = t.negative,
                              !.positiveGateway = t.positiveGateway,
                              !.negativeGateway = t.negativeGateway,
                              !.negativeServices = t.negativeServices]
           with == WithOverrides(o)
<1>1. with = o \/ with = given
  BY DEF WithOverrides
<1>2. SameLists(given, o)
  BY DEF SameLists
<1>3. SameLists(with, o)
  <2> HIDE DEF with, given
  <2> QED
    BY <1>1, <1>2 DEF SameLists
<1> HIDE DEF with
<1>4. SameLists([with EXCEPT !.complete = Complete(warnings')], with)
  BY DEF SameLists
<1> QED
  BY <1>3, <1>4 DEF SameLists, with

\* What a list of some objects becomes when those of the cluster are added.
Longer(s, all, kept) == s \o Only(all, kept)
Added(all) == IF Listing = "routes" THEN {r \in Kept(Range(all)) : r.kind = Call.op} ELSE Kept(Range(all))

(***************************************************************************)
(* An answer adds to one of the lists, and only to that.                   *)
(***************************************************************************)
LEMMA TakeGives ==
  ASSUME NEW o, DOMAIN o = DOMAIN Nothing
  PROVE  LET t == cluster.objects
         IN  /\ DOMAIN Take(o) = DOMAIN o
             /\ Take(o).services = IF Listing = "services"
                                   THEN Longer(o.services, t.services, Added(t.services)) ELSE o.services
             /\ Take(o).ingresses = IF Listing = "ingresses"
                                    THEN Longer(o.ingresses, t.ingresses, Added(t.ingresses)) ELSE o.ingresses
             /\ Take(o).routes = IF Listing = "routes"
                                 THEN Longer(o.routes, t.routes, Added(t.routes)) ELSE o.routes
             /\ Take(o).gateways = IF Listing = "gateways"
                                   THEN o.gateways \cup Kept(t.gateways) ELSE o.gateways
<1> DEFINE t == cluster.objects
           after == Take(o)
           all == t[Listing]
           old == o[Listing]
           more == CASE Listing \in {"services", "ingresses", "backendPolicies"} -> old \o Only(all, Kept(Range(all)))
                     [] Listing = "routes" -> old \o Only(all, {r \in Kept(Range(all)) : r.kind = Call.op})
                     [] Listing \in {"gateways", "grants", "lbConfigs"} -> old \cup Kept(all)
                     [] Listing = "iapConfigs" -> old \cup KeptKeys(all)
                     [] OTHER -> all
<1>1. after = IF Listing \notin DOMAIN o THEN o ELSE [o EXCEPT ![Listing] = more]
  BY DEF Take
<1>2. {"services", "ingresses", "routes", "gateways"} \subseteq DOMAIN o
  BY DEF Nothing
<1>3. /\ Listing = "services" => more = Longer(o.services, t.services, Added(t.services))
      /\ Listing = "ingresses" => more = Longer(o.ingresses, t.ingresses, Added(t.ingresses))
      /\ Listing = "routes" => more = Longer(o.routes, t.routes, Added(t.routes))
      /\ Listing = "gateways" => more = o.gateways \cup Kept(t.gateways)
  BY DEF Longer, Added
<1> HIDE DEF more
<1>4. /\ DOMAIN after = DOMAIN o
      /\ after.services = IF Listing = "services" THEN more ELSE o.services
      /\ after.ingresses = IF Listing = "ingresses" THEN more ELSE o.ingresses
      /\ after.routes = IF Listing = "routes" THEN more ELSE o.routes
      /\ after.gateways = IF Listing = "gateways" THEN more ELSE o.gateways
  <2> HIDE DEF after
  <2> QED
    BY <1>1, <1>2
<1> HIDE DEF after
<1> QED
  BY <1>3, <1>4 DEF after

(***************************************************************************)
(* The elements of a list with others added, as a set.                     *)
(***************************************************************************)
LEMMA LongerElements ==
  ASSUME NEW s, IsList(s), NEW all, IsList(all), NEW kept
  PROVE  /\ IsList(Longer(s, all, kept))
         /\ Range(Longer(s, all, kept)) = Range(s) \cup (kept \cap Range(all))
<1> DEFINE v == Only(all, kept)
<1>1. v \in Seq(Range(all)) /\ Range(v) = kept \cap Range(all)
  BY OnlyElements
<1> HIDE DEF v
<1>2. IsList(v)
  BY <1>1 DEF IsList, Range
<1> QED
  BY <1>1, <1>2, JoinElements DEF Longer, v

(***************************************************************************)
(* An answer adds what the cluster has, and an answer for all namespaces   *)
(* that nothing is excluded from adds all that it has.                     *)
(***************************************************************************)
LEMMA TakeFoundIn ==
  ASSUME cluster \in Clusters, NEW o, FoundIn(o, cluster.objects)
  PROVE  /\ FoundIn(Take(o), cluster.objects)
         /\ \A op \in Leading : Present(o, op) \subseteq Present(Take(o), op)
         /\ options.excluded = {} /\ Call.ns = "" /\ Call.op \in Leading
              => Present(cluster.objects, Call.op) \subseteq Present(Take(o), Call.op)
<1> DEFINE t == cluster.objects
           q == Take(o)
<1>1. IsList(t.services) /\ IsList(t.ingresses) /\ IsList(t.routes)
  BY ClustersAssumption
<1>2. /\ IsList(o.services) /\ IsList(o.ingresses) /\ IsList(o.routes)
      /\ DOMAIN o = DOMAIN Nothing
  BY DEF FoundIn
<1>3. /\ DOMAIN q = DOMAIN o
      /\ q.services = IF Listing = "services"
                      THEN Longer(o.services, t.services, Added(t.services)) ELSE o.services
      /\ q.ingresses = IF Listing = "ingresses"
                       THEN Longer(o.ingresses, t.ingresses, Added(t.ingresses)) ELSE o.ingresses
      /\ q.routes = IF Listing = "routes"
                    THEN Longer(o.routes, t.routes, Added(t.routes)) ELSE o.routes
      /\ q.gateways = IF Listing = "gateways"
                      THEN o.gateways \cup Kept(t.gateways) ELSE o.gateways
  BY <1>2, TakeGives
<1> HIDE DEF q
<1>4. /\ IsList(q.services)
      /\ Range(q.services) = IF Listing = "services"
           THEN Range(o.services) \cup (Added(t.services) \cap Range(t.services)) ELSE Range(o.services)
  <2> DEFINE longer == Longer(o.services, t.services, Added(t.services))
  <2>1. IsList(longer) /\ Range(longer) = Range(o.services) \cup (Added(t.services) \cap Range(t.services))
    BY <1>1, <1>2, LongerElements
  <2> HIDE DEF longer
  <2> QED
    BY <1>2, <1>3, <2>1 DEF longer
<1>5. /\ IsList(q.ingresses)
      /\ Range(q.ingresses) = IF Listing = "ingresses"
           THEN Range(o.ingresses) \cup (Added(t.ingresses) \cap Range(t.ingresses)) ELSE Range(o.ingresses)
  <2> DEFINE longer == Longer(o.ingresses, t.ingresses, Added(t.ingresses))
  <2>1. IsList(longer) /\ Range(longer) = Range(o.ingresses) \cup (Added(t.ingresses) \cap Range(t.ingresses))
    BY <1>1, <1>2, LongerElements
  <2> HIDE DEF longer
  <2> QED
    BY <1>2, <1>3, <2>1 DEF longer
<1>6. /\ IsList(q.routes)
      /\ Range(q.routes) = IF Listing = "routes"
           THEN Range(o.routes) \cup (Added(t.routes) \cap Range(t.routes)) ELSE Range(o.routes)
  <2> DEFINE longer == Longer(o.routes, t.routes, Added(t.routes))
  <2>1. IsList(longer) /\ Range(longer) = Range(o.routes) \cup (Added(t.routes) \cap Range(t.routes))
    BY <1>1, <1>2, LongerElements
  <2> HIDE DEF longer
  <2> QED
    BY <1>2, <1>3, <2>1 DEF longer
<1>7. FoundIn(q, t)
  BY <1>3, <1>4, <1>5, <1>6 DEF FoundIn
<1>8. ASSUME NEW op \in Leading PROVE Present(o, op) \subseteq Present(q, op)
  BY <1>3, <1>4, <1>5, <1>6 DEF Present
<1>9. ASSUME options.excluded = {}, Call.ns = "", Call.op \in Leading
      PROVE  Present(t, Call.op) \subseteq Present(q, Call.op)
  <2>1. \A all : Kept(all) = all
    BY <1>9 DEF Kept, InScope
  <2>2. CASE Call.op = "services"
    <3>1. Listing = "services"
      BY <2>2 DEF Listing, RouteKinds
    <3> QED
      BY <1>4, <2>1, <2>2, <3>1 DEF Present, Added
  <2>3. CASE Call.op = "ingresses"
    <3>1. Listing = "ingresses"
      BY <2>3 DEF Listing, RouteKinds
    <3> QED
      BY <1>5, <2>1, <2>3, <3>1 DEF Present, Added
  <2>4. CASE Call.op = "gateways"
    <3>1. Listing = "gateways"
      BY <2>4 DEF Listing, RouteKinds
    <3> QED
      BY <1>3, <2>1, <2>4, <3>1 DEF Present
  <2>5. CASE Call.op \in RouteKinds
    <3>1. Listing = "routes" /\ Call.op \notin {"services", "ingresses", "gateways"}
      BY <2>5 DEF Listing, RouteKinds
    <3>2. Added(t.routes) = {r \in Range(t.routes) : r.kind = Call.op}
      BY <2>1, <3>1 DEF Added
    <3> QED
      BY <1>6, <3>1, <3>2 DEF Present
  <2> QED
    BY <1>9, <2>2, <2>3, <2>4, <2>5 DEF Leading
<1> QED
  BY <1>7, <1>8, <1>9 DEF q

(***************************************************************************)
(* Every resource has a version that is tried, and every one that is not a *)
(* Route only v1.                                                          *)
(***************************************************************************)
LEMMA VersionsKnown ==
  ASSUME NEW op
  PROVE  /\ IsList(RouteVersions(op)) /\ RouteVersions(op) # <<>>
         /\ op \notin RouteKinds => RouteVersions(op) = <<"v1">>
<1>1. RouteVersions(op) \in {<<"v1", "v1alpha3", "v1alpha2">>, <<"v1", "v1alpha2">>, <<"v1">>}
  BY DEF RouteVersions
<1>2. /\ IsList(<<"v1", "v1alpha3", "v1alpha2">>) /\ IsList(<<"v1", "v1alpha2">>) /\ IsList(<<"v1">>)
      /\ <<"v1", "v1alpha3", "v1alpha2">> # <<>> /\ <<"v1", "v1alpha2">> # <<>> /\ <<"v1">> # <<>>
  BY DEF IsList, Range
<1>3. op \notin RouteKinds => RouteVersions(op) = <<"v1">>
  BY DEF RouteVersions, RouteKinds
<1> QED
  BY <1>1, <1>2, <1>3

\* The names of the optional resources.
Optional == {"gateways", "grants", "backendPolicies", "iapConfigs", "params", "lbConfigs", "targetGroups"}
              \cup RouteKinds

(***************************************************************************)
(* With all namespaces in scope, every resource is asked for once.         *)
(***************************************************************************)
LEMMA AllIsAsked ==
  ASSUME options.all
  PROVE  /\ IsList(ExposureCalls)
         /\ Range(ExposureCalls) = {Request(op, "", RouteVersions(op)) : op \in Core \cup Optional}
<1> DEFINE ask(op) == Request(op, "", RouteVersions(op))
           ops == <<"services", "ingresses">>
           whole == [n \in DOMAIN Scopes |-> [m \in DOMAIN ops |-> Request(ops[m], Scopes[n], <<"v1">>)]]
           classes == <<Request("classes", "", <<"v1">>)>>
           scopes(m) == IF OptionalResources[m] = "params" THEN <<"">> ELSE Scopes
           each == [m \in DOMAIN OptionalResources |->
                      [n \in DOMAIN scopes(m) |->
                         Request(OptionalResources[m], scopes(m)[n], RouteVersions(OptionalResources[m]))]]
<1>1. Scopes = <<"">> /\ DOMAIN Scopes = {1} /\ DOMAIN Scopes = 1..1 /\ Scopes[1] = ""
  <2>1. Scopes = <<"">>
    BY DEF Scopes
  <2>2. DOMAIN <<"">> = {1} /\ <<"">>[1] = "" /\ {1} = 1..1
    OBVIOUS
  <2> QED
    BY <2>1, <2>2
<1>2. IsList(OptionalResources) /\ Range(OptionalResources) = Optional
  <2> DEFINE last == <<"grants", "backendPolicies", "iapConfigs", "params", "lbConfigs", "targetGroups">>
  <2>1. /\ IsList(<<"gateways">>) /\ Range(<<"gateways">>) = {"gateways"}
        /\ IsList(RouteOrder) /\ Range(RouteOrder) = RouteKinds
        /\ IsList(last)
        /\ Range(last) = {"grants", "backendPolicies", "iapConfigs", "params", "lbConfigs", "targetGroups"}
    BY DEF IsList, Range, RouteOrder, RouteKinds
  <2> HIDE DEF last
  <2>2. OptionalResources = <<"gateways">> \o RouteOrder \o last
    BY DEF OptionalResources, last
  <2> QED
    BY <2>1, <2>2, JoinElements DEF Optional
<1>3. IsList(FlattenSeq(whole)) /\ Range(FlattenSeq(whole)) = {ask("services"), ask("ingresses")}
  <2> DEFINE core == [m \in DOMAIN ops |-> Request(ops[m], "", <<"v1">>)]
  <2>1. DOMAIN ops = 1..2 /\ ops[1] = "services" /\ ops[2] = "ingresses"
    OBVIOUS
  <2>2. RouteVersions("services") = <<"v1">> /\ RouteVersions("ingresses") = <<"v1">>
    BY VersionsKnown DEF RouteKinds
  <2> HIDE DEF ops
  <2>3. core[1] = ask("services") /\ core[2] = ask("ingresses")
    <3> HIDE DEF ask
    <3>1. 1 \in DOMAIN ops /\ 2 \in DOMAIN ops
      BY <2>1
    <3>2. core[1] = Request(ops[1], "", <<"v1">>) /\ core[2] = Request(ops[2], "", <<"v1">>)
      BY <3>1, Zenon
    <3> QED
      BY <2>1, <2>2, <3>2, Zenon DEF ask
  <2>4. core = [n \in 1..2 |-> core[n]]
    BY <2>1
  <2>5. whole = [n \in 1..1 |-> whole[n]] /\ whole[1] = core
    BY <1>1
  <2> HIDE DEF core, ask, whole
  <2>6. IsList(core) /\ Range(core) = {core[n] : n \in 1..2}
    BY <2>4, ListOf
  <2>7. IsList(whole) /\ DOMAIN whole = 1..1
    BY <2>5, ListOf
  <2>8. Range(core) = {ask("services"), ask("ingresses")}
    BY <2>3, <2>6
  <2>9. 1..1 = {1}
    OBVIOUS
  <2> QED
    BY <2>5, <2>6, <2>7, <2>8, <2>9, FlattenElements
<1>4. IsList(classes) /\ Range(classes) = {ask("classes")}
  <2>1. RouteVersions("classes") = <<"v1">>
    BY VersionsKnown DEF RouteKinds
  <2>2. classes = <<ask("classes")>>
    BY <2>1
  <2> HIDE DEF classes, ask
  <2> QED
    BY <2>2 DEF IsList, Range
<1>5. IsList(FlattenSeq(each)) /\ Range(FlattenSeq(each)) = {ask(op) : op \in Optional}
  <2>1. DOMAIN OptionalResources = 1..Len(OptionalResources) /\ Len(OptionalResources) \in Nat
    BY <1>2 DEF IsList
  <2> DEFINE N == Len(OptionalResources)
             name(m) == OptionalResources[m]
  <2> HIDE DEF ask
  <2>2. each = [m \in 1..N |-> each[m]]
    BY <2>1
  <2>3. IsList(each) /\ DOMAIN each = 1..N
    <3> HIDE DEF each
    <3> QED
      BY <2>1, <2>2, ListOf
  <2>4. ASSUME NEW m \in 1..N PROVE IsList(each[m]) /\ Range(each[m]) = {ask(name(m))}
    <3> DEFINE one == each[m]
    <3>1. scopes(m) = Scopes
      BY <1>1
    <3>2. one = [n \in DOMAIN Scopes |-> Request(name(m), Scopes[n], RouteVersions(name(m)))]
      BY <2>1, <3>1
    <3> HIDE DEF one, name
    <3>3. one = [n \in 1..1 |-> one[n]]
      BY <1>1, <3>2
    <3>4. one[1] = ask(name(m))
      <4>1. one[1] = Request(name(m), Scopes[1], RouteVersions(name(m)))
        BY <1>1, <3>2
      <4> QED
        BY <1>1, <4>1, Zenon DEF ask
    <3>5. IsList(one) /\ Range(one) = {one[n] : n \in 1..1}
      BY <3>3, ListOf
    <3>6. Range(one) = {ask(name(m))}
      <4>1. 1..1 = {1}
        OBVIOUS
      <4>2. {one[n] : n \in {1}} = {one[1]}
        OBVIOUS
      <4> QED
        BY <3>4, <3>5, <4>1, <4>2
    <3> QED
      BY <3>5, <3>6 DEF one
  <2> HIDE DEF each, N
  <2>5. Range(FlattenSeq(each)) = UNION {Range(each[m]) : m \in 1..N} /\ IsList(FlattenSeq(each))
    BY <2>3, <2>4, FlattenElements
  <2>6. UNION {Range(each[m]) : m \in 1..N} = {ask(name(m)) : m \in 1..N}
    <3> HIDE DEF name
    <3> QED
      BY <2>4
  <2>7. {ask(name(m)) : m \in 1..N} = {ask(op) : op \in Range(OptionalResources)}
    BY <2>1 DEF Range, N
  <2> QED
    BY <1>2, <2>5, <2>6, <2>7
<1>6. ExposureCalls = FlattenSeq(whole) \o classes \o FlattenSeq(each)
  <2>1. PerNamespace(<<"services", "ingresses">>) = FlattenSeq(whole)
    BY DEF PerNamespace
  <2>2. OptionalCalls = FlattenSeq(each)
    BY DEF OptionalCalls
  <2> HIDE DEF whole, each, classes
  <2> QED
    BY <2>1, <2>2 DEF ExposureCalls, classes
<1> HIDE DEF whole, each, classes, ask
<1>7. /\ IsList(ExposureCalls)
      /\ Range(ExposureCalls) = {ask("services"), ask("ingresses")} \cup {ask("classes")}
                                  \cup {ask(op) : op \in Optional}
  BY <1>3, <1>4, <1>5, <1>6, JoinElements
<1> QED
  BY <1>7 DEF ask, Core

(***************************************************************************)
(* The discovery starts with every leading resource still to be asked for, *)
(* at a version that serves what there is of it.                           *)
(***************************************************************************)
LEMMA BeginsSeen ==
  ASSUME K8sInv, options.all, calls' = ExposureCalls, UNCHANGED <<cluster, objects, held>>
  PROVE  CallsForAll' /\ \A op \in Leading : Accounted(op)'
<1> DEFINE ask(op) == Request(op, "", RouteVersions(op))
           next == calls'
<1>1. IsList(next) /\ Range(next) = {ask(op) : op \in Core \cup Optional}
  BY AllIsAsked
<1>2. \A op : /\ DOMAIN ask(op) = {"op", "ns", "versions"}
              /\ ask(op).op = op /\ ask(op).ns = "" /\ ask(op).versions = RouteVersions(op)
  BY DEF Request
<1> HIDE DEF ask, next
<1>3. \A c \in Range(next) : c = ask(c.op)
  BY <1>1, <1>2
<1>4. \A c \in Range(next) : OfAllNamespaces(c)
  BY <1>2, <1>3, VersionsKnown DEF OfAllNamespaces
<1>5. \A c, d \in Range(next) : c.op = d.op => c.versions = d.versions
  BY <1>3
<1>6. CallsForAll'
  BY <1>1, <1>4, <1>5 DEF CallsForAll, next
<1>7. ASSUME NEW op \in Leading PROVE Accounted(op)'
  <2>1. ask(op) \in Range(next)
    BY <1>1 DEF Leading, Core, Optional
  <2>2. cluster \in Clusters /\ cluster' = cluster
    BY DEF K8sInv
  <2>3. CASE op \in Core \/ Range(RouteVersions(op)) \cap cluster.versions[op] # {}
    BY <1>2, <2>1, <2>2, <2>3 DEF Accounted, Asked, next
  <2>4. CASE op \notin Core /\ Range(RouteVersions(op)) \cap cluster.versions[op] = {}
    <3>1. Present(cluster.objects, op) = {}
      <4>1. CASE op = "gateways"
        <5>1. "v1" \in Range(RouteVersions(op))
          <6>1. RouteVersions(op) = <<"v1">>
            BY <4>1, VersionsKnown DEF RouteKinds
          <6> QED
            BY <6>1 DEF Range
        <5>2. cluster.objects.gateways = {}
          BY <2>2, <2>4, <4>1, <5>1, ClustersAssumption
        <5> QED
          BY <4>1, <5>2 DEF Present
      <4>2. CASE op \in RouteKinds
        <5>1. op \notin {"services", "ingresses", "gateways"}
          BY <4>2 DEF RouteKinds
        <5>2. \A r \in Range(cluster.objects.routes) : r.kind # op
          BY <2>2, <2>4, ClustersAssumption
        <5> QED
          BY <5>1, <5>2 DEF Present
      <4> QED
        BY <2>4, <4>1, <4>2 DEF Leading, Core
    <3> QED
      BY <2>2, <3>1 DEF Accounted
  <2> QED
    BY <2>3, <2>4
<1> QED
  BY <1>6, <1>7

(***************************************************************************)
(* The next request is one of those to be sent, and no other goes.         *)
(***************************************************************************)
LEMMA CallsGo ==
  ASSUME CallsForAll, calls # <<>>, calls' = Tail(calls)
  PROVE  /\ CallsForAll'
         /\ Call \in Range(calls) /\ OfAllNamespaces(Call)
         /\ \A c \in Range(calls) : c = Call \/ c \in Range(calls')
<1> DEFINE next == calls'
<1>1. IsList(next) /\ Head(calls) \in Range(calls) /\ Range(calls) = {Head(calls)} \cup Range(next)
  BY HeadAndTail DEF CallsForAll
<1> HIDE DEF next
<1>2. CallsForAll'
  <2>1. \A c \in Range(next) : c \in Range(calls)
    BY <1>1
  <2>2. /\ \A c \in Range(next) : OfAllNamespaces(c)
        /\ \A c, d \in Range(next) : c.op = d.op => c.versions = d.versions
    BY <2>1 DEF CallsForAll
  <2> QED
    BY <1>1, <2>2 DEF CallsForAll, next
<1> QED
  BY <1>1, <1>2 DEF CallsForAll, Call, next

(***************************************************************************)
(* What was listed is no longer to be asked for.                           *)
(***************************************************************************)
LEMMA ListingSeen ==
  ASSUME K8sInv, AllSeen, ListExposure PROVE AllSeen'
<1>1. /\ phase = "exposure" /\ calls # <<>> /\ calls' = Tail(calls) /\ objects' = Take(objects)
      /\ UNCHANGED <<cluster, options, phase, warnings, held, gatewaysComplete>>
  BY DEF ListExposure, Answered, Proceed
<1> SUFFICES ASSUME options.all, options.excluded = {}, warnings = {}
             PROVE  gatewaysComplete /\ CallsForAll' /\ \A op \in Leading : Accounted(op)'
  BY <1>1 DEF AllSeen
<1>2. gatewaysComplete /\ CallsForAll /\ \A op \in Leading : Accounted(op)
  BY <1>1 DEF AllSeen
<1>3. /\ CallsForAll' /\ OfAllNamespaces(Call)
      /\ \A c \in Range(calls) : c = Call \/ c \in Range(calls')
  BY <1>1, <1>2, CallsGo
<1>4. ASSUME NEW op \in Leading PROVE Accounted(op)'
  <2>1. /\ Present(objects, op) \subseteq Present(objects', op)
        /\ Call.op = op => Present(cluster.objects, op) \subseteq Present(objects', op)
    BY <1>1, <1>3, TakeFoundIn DEF K8sInv, OfAllNamespaces
  <2>2. CASE Asked(op)
    <3>1. PICK c \in Range(calls) :
            c.op = op /\ (op \in Core \/ Range(c.versions) \cap cluster.versions[op] # {})
      BY <2>2 DEF Asked
    <3>2. CASE c = Call
      BY <1>1, <2>1, <3>1, <3>2 DEF Accounted
    <3>3. CASE c \in Range(calls')
      BY <1>1, <3>1, <3>3 DEF Accounted, Asked
    <3> QED
      BY <1>3, <3>2, <3>3
  <2>3. CASE Present(cluster.objects, op) \subseteq Present(objects, op) \/ op \in held
    BY <1>1, <2>1, <2>3 DEF Accounted
  <2> QED
    BY <1>2, <2>2, <2>3 DEF Accounted
<1> QED
  BY <1>2, <1>3, <1>4

(***************************************************************************)
(* A refused or failed request leaves a warning, or is held back for a     *)
(* kind of Route (collectUnstructuredExposureObjects).                     *)
(***************************************************************************)
LEMMA RefusalSeen ==
  ASSUME K8sInv, AllSeen, NEW forbidden \in BOOLEAN, ListExposureFails(forbidden) PROVE AllSeen'
<1>1. /\ phase = "exposure" /\ calls # <<>> /\ calls' = Tail(calls)
      /\ UNCHANGED <<cluster, options, phase, objects>>
  BY DEF ListExposureFails, Answered, Proceed
<1> SUFFICES ASSUME options.all, options.excluded = {}, warnings' = {}
             PROVE  gatewaysComplete' /\ CallsForAll' /\ \A op \in Leading : Accounted(op)'
  BY <1>1 DEF AllSeen
<1>2. /\ Call.op \in RouteKinds /\ held' = held \cup {Call.op}
      /\ UNCHANGED <<warnings, gatewaysComplete>>
  BY DEF ListExposureFails
<1>3. gatewaysComplete /\ CallsForAll /\ \A op \in Leading : Accounted(op)
  BY <1>1, <1>2 DEF AllSeen
<1>4. CallsForAll' /\ \A c \in Range(calls) : c = Call \/ c \in Range(calls')
  BY <1>1, <1>3, CallsGo
<1>5. ASSUME NEW op \in Leading PROVE Accounted(op)'
  <2>1. CASE Asked(op)
    <3>1. PICK c \in Range(calls) :
            c.op = op /\ (op \in Core \/ Range(c.versions) \cap cluster.versions[op] # {})
      BY <2>1 DEF Asked
    <3>2. CASE c = Call
      BY <1>2, <3>1, <3>2 DEF Accounted
    <3>3. CASE c \in Range(calls')
      BY <1>1, <3>1, <3>3 DEF Accounted, Asked
    <3> QED
      BY <1>4, <3>2, <3>3
  <2>2. CASE Present(cluster.objects, op) \subseteq Present(objects, op) \/ op \in held
    BY <1>1, <1>2, <2>2 DEF Accounted
  <2> QED
    BY <1>3, <2>1, <2>2 DEF Accounted
<1> QED
  BY <1>2, <1>3, <1>4, <1>5

(***************************************************************************)
(* A version that is not served gives way to the next one; the last is     *)
(* only given up when the cluster has none of the resource at a version    *)
(* that was tried.                                                         *)
(***************************************************************************)
LEMMA VersionSeen ==
  ASSUME K8sInv, AllSeen, TryVersion PROVE AllSeen'
<1>1. /\ phase = "exposure" /\ calls # <<>> /\ ~Served /\ calls' = NextVersion
      /\ UNCHANGED <<cluster, options, phase, objects, warnings, held, gatewaysComplete>>
  BY DEF TryVersion, Proceed, discovery
<1> SUFFICES ASSUME options.all, options.excluded = {}, warnings = {}
             PROVE  gatewaysComplete /\ CallsForAll' /\ \A op \in Leading : Accounted(op)'
  BY <1>1 DEF AllSeen
<1>2. gatewaysComplete /\ CallsForAll /\ \A op \in Leading : Accounted(op)
  BY <1>1 DEF AllSeen
<1>3. Call \in Range(calls) /\ OfAllNamespaces(Call)
  BY <1>1, <1>2, HeadAndTail DEF CallsForAll, Call
<1>4. Call.op \notin Core /\ Head(Call.versions) \notin cluster.versions[Call.op]
  BY <1>1 DEF Served
<1>5. /\ IsList(Tail(Call.versions))
      /\ Range(Call.versions) = {Head(Call.versions)} \cup Range(Tail(Call.versions))
      /\ Len(Call.versions) = 1 => Range(Call.versions) = {Head(Call.versions)}
      /\ Len(Call.versions) # 1 => Tail(Call.versions) # <<>>
  BY <1>3, HeadAndTail DEF OfAllNamespaces
<1> DEFINE next == calls'
           older(c) == IF c.op = Call.op THEN [c EXCEPT !.versions = Tail(@)] ELSE c
<1>6. CASE Len(Call.versions) = 1
  <2>1. IsList(next) /\ Range(next) = {c \in Range(calls) : c.op # Call.op}
    <3>1. next = Only(calls, {c \in Range(calls) : c.op # Call.op})
      BY <1>1, <1>6 DEF NextVersion
    <3>2. /\ next \in Seq(Range(calls))
          /\ Range(next) = {c \in Range(calls) : c.op # Call.op} \cap Range(calls)
      BY <1>2, <3>1, OnlyElements DEF CallsForAll
    <3> HIDE DEF next
    <3>3. next \in Seq(Range(next))
      BY <3>2 DEF Range
    <3> QED
      BY <3>2, <3>3 DEF IsList
  <2> HIDE DEF next
  <2>2. CallsForAll'
    <3>1. /\ \A c \in Range(next) : OfAllNamespaces(c)
          /\ \A c, d \in Range(next) : c.op = d.op => c.versions = d.versions
      BY <1>2, <2>1 DEF CallsForAll
    <3> QED
      BY <2>1, <3>1 DEF CallsForAll, next
  <2>3. ASSUME NEW op \in Leading PROVE Accounted(op)'
    <3>1. CASE Asked(op)
      <4>1. PICK c \in Range(calls) :
              c.op = op /\ (op \in Core \/ Range(c.versions) \cap cluster.versions[op] # {})
        BY <3>1 DEF Asked
      <4>2. c.op # Call.op
        <5> SUFFICES ASSUME c.op = Call.op PROVE FALSE
          OBVIOUS
        <5>1. c.versions = Call.versions
          BY <1>2, <1>3 DEF CallsForAll
        <5> QED
          BY <1>4, <1>5, <1>6, <4>1, <5>1
      <4> QED
        BY <1>1, <2>1, <4>1, <4>2 DEF Accounted, Asked, next
    <3>2. CASE Present(cluster.objects, op) \subseteq Present(objects, op) \/ op \in held
      BY <1>1, <3>2 DEF Accounted
    <3> QED
      BY <1>2, <3>1, <3>2 DEF Accounted
  <2> QED
    BY <1>2, <2>2, <2>3
<1>7. CASE Len(Call.versions) # 1
  <2>1. IsList(next) /\ Range(next) = {older(c) : c \in Range(calls)}
    <3>1. DOMAIN calls = 1..Len(calls) /\ Len(calls) \in Nat
      BY <1>2 DEF CallsForAll, IsList
    <3>2. next = [n \in DOMAIN calls |-> older(calls[n])]
      BY <1>1, <1>7 DEF NextVersion
    <3> DEFINE N == Len(calls)
    <3> HIDE DEF next, older
    <3>3. next = [n \in 1..N |-> next[n]] /\ \A n \in 1..N : next[n] = older(calls[n])
      BY <3>1, <3>2
    <3> HIDE DEF N
    <3>4. IsList(next) /\ Range(next) = {next[n] : n \in 1..N}
      BY <3>1, <3>3, ListOf DEF N
    <3>5. Range(calls) = {calls[n] : n \in 1..N}
      BY <3>1 DEF Range, N
    <3> QED
      BY <3>3, <3>4, <3>5
  <2> HIDE DEF next
  <2>2. \A c \in Range(calls) :
          /\ older(c).op = c.op /\ OfAllNamespaces(older(c))
          /\ older(c).versions = IF c.op = Call.op THEN Tail(Call.versions) ELSE c.versions
    <3> SUFFICES ASSUME NEW c \in Range(calls)
                 PROVE  /\ older(c).op = c.op /\ OfAllNamespaces(older(c))
                        /\ older(c).versions
                             = IF c.op = Call.op THEN Tail(Call.versions) ELSE c.versions
      OBVIOUS
    <3>1. OfAllNamespaces(c) /\ (c.op = Call.op => c.versions = Call.versions)
      BY <1>2, <1>3 DEF CallsForAll
    <3>2. CASE c.op = Call.op
      BY <1>5, <1>7, <3>1, <3>2 DEF OfAllNamespaces
    <3>3. CASE c.op # Call.op
      BY <3>1, <3>3
    <3> QED
      BY <3>2, <3>3
  <2> HIDE DEF older
  <2>3. CallsForAll'
    <3>1. \A c \in Range(next) : OfAllNamespaces(c)
      BY <2>1, <2>2
    <3>2. \A c, d \in Range(calls) : older(c).op = older(d).op => older(c).versions = older(d).versions
      BY <1>2, <2>2 DEF CallsForAll
    <3>3. \A c, d \in Range(next) : c.op = d.op => c.versions = d.versions
      BY <2>1, <3>2
    <3> QED
      BY <2>1, <3>1, <3>3 DEF CallsForAll, next
  <2>4. ASSUME NEW op \in Leading PROVE Accounted(op)'
    <3>1. CASE Asked(op)
      <4>1. PICK c \in Range(calls) :
              c.op = op /\ (op \in Core \/ Range(c.versions) \cap cluster.versions[op] # {})
        BY <3>1 DEF Asked
      <4>2. older(c) \in Range(next) /\ older(c).op = op
        BY <2>1, <2>2, <4>1
      <4>3. op \in Core \/ Range(older(c).versions) \cap cluster.versions[op] # {}
        <5>1. CASE c.op = Call.op
          <6>1. c.versions = Call.versions
            BY <1>2, <1>3, <5>1 DEF CallsForAll
          <6> QED
            BY <1>4, <1>5, <2>2, <4>1, <5>1, <6>1
        <5>2. CASE c.op # Call.op
          BY <2>2, <4>1, <5>2
        <5> QED
          BY <5>1, <5>2
      <4> QED
        BY <1>1, <4>2, <4>3 DEF Accounted, Asked, next
    <3>2. CASE Present(cluster.objects, op) \subseteq Present(objects, op) \/ op \in held
      BY <1>1, <3>2 DEF Accounted
    <3> QED
      BY <1>2, <3>1, <3>2 DEF Accounted
  <2> QED
    BY <1>2, <2>3, <2>4
<1> QED
  BY <1>6, <1>7

(***************************************************************************)
(* Not reachable is said without an entry only of a complete discovery in  *)
(* which nothing could lead to the workload (AnalyzeWithOptions).          *)
(***************************************************************************)
LEMMA AbsentShows ==
  ASSUME NEW o, ListsSound(o), NEW w, NEW container,
         AnalyzeContainer(w, container, o, FALSE).basis = "observed"
  PROVE  o.complete /\ ~w.direct /\ ~MayBeRouted(w, o)
<1> DEFINE merged == Merged(w, container, o, FALSE)
           shown == o.complete /\ ~w.direct /\ ~MayBeRouted(w, o) /\ w.kind \in Serving \cup Batch
<1>1. /\ Unassessed.basis = "none"
      /\ \A e : EntryFor(container, e).basis = "route"
  BY DEF Unassessed, EntryFor, Verdict
<1>2. merged.basis \in {"none", "route"}
  <2>1. IsList(Entries(o, FALSE))
    BY EntriesGive
  <2>2. ASSUME NEW declared, IsList(Entries(o, declared))
        PROVE  Merged(w, container, o, declared).basis \in {"none", "route"}
    <3> DEFINE m == Merged(w, container, o, declared)
    <3>1. m = Unassessed \/ \E e : m = EntryFor(container, e)
      BY <2>2, MergedComes
    <3> HIDE DEF m
    <3>2. m.basis = "none" \/ m.basis = "route"
      BY <1>1, <3>1, Zenon
    <3> QED
      BY <3>2 DEF m
  <2> QED
    BY <2>1, <2>2, Zenon
<1>3. AnalyzeContainer(w, container, o, FALSE)
        = IF merged.basis # "none" THEN merged ELSE IF shown THEN Absent ELSE Unassessed
  BY DEF AnalyzeContainer
<1> HIDE DEF merged, shown
<1>4. shown
  BY <1>1, <1>2, <1>3
<1> QED
  BY <1>4 DEF shown

(***************************************************************************)
(* A service that a Route names is declared.                               *)
(***************************************************************************)
LEMMA RoutesDeclare ==
  ASSUME NEW o, NEW r \in Range(o.routes), r.kind \in RouteKinds, NEW b \in Range(r.backends)
  PROVE  BackendKey(r, b) \in DeclaredServices(o)
<1> DEFINE named(x) == {BackendKey(x, y) : y \in Range(x.backends)}
           counted == {x \in Range(o.routes) : x.kind \in RouteKinds}
<1>1. BackendKey(r, b) \in UNION {named(x) : x \in counted}
  <2>1. BackendKey(r, b) \in named(r) /\ r \in counted
    OBVIOUS
  <2> HIDE DEF named, counted
  <2> QED
    BY <2>1
<1>2. UNION {named(x) : x \in counted} \subseteq DeclaredServices(o)
  BY DEF DeclaredServices
<1> QED
  BY <1>1, <1>2

(***************************************************************************)
(* A workload that nothing found could lead to has no service that         *)
(* something of the cluster leads to.                                      *)
(***************************************************************************)
LEMMA NotFronted ==
  ASSUME cluster \in Clusters, NEW o, NEW w, ~MayBeRouted(w, o),
         Present(cluster.objects, "services") \subseteq Range(o.services),
         Present(cluster.objects, "ingresses") \subseteq Range(o.ingresses),
         cluster.objects.gateways \subseteq o.gateways,
         \A r \in Range(cluster.objects.routes) :
           r \in Range(o.routes) \/ r.kind \notin AcceptedKinds(o.gateways),
         NEW s \in Range(cluster.objects.services), SelectsWorkload(s, w)
  PROVE  ~Fronted(s)
<1> DEFINE t == cluster.objects
<1>1. s \in Range(o.services) /\ KeyOf(s) \notin DeclaredServices(o)
  BY DEF MayBeRouted, Present
<1>2. ~(s.type \in {"LoadBalancer", "NodePort"} \/ s.externalIPs)
  BY <1>1 DEF DeclaredServices
<1>3. ASSUME NEW i \in Range(t.ingresses), i.ns = s.ns,
             NEW ref \in Range(i.refs), ref.service = s.name
      PROVE  FALSE
  <2>1. i \in Range(o.ingresses) /\ KeyOf(s) = Key(i.ns, ref.service)
    BY <1>3 DEF Present, KeyOf
  <2> DEFINE named(x) == {Key(x.ns, y.service) : y \in Range(x.refs)}
  <2>2. KeyOf(s) \in named(i)
    BY <1>3, <2>1
  <2>3. UNION {named(x) : x \in Range(o.ingresses)} \subseteq DeclaredServices(o)
    BY DEF DeclaredServices
  <2> HIDE DEF named
  <2> QED
    BY <1>1, <2>1, <2>2, <2>3
<1>4. ASSUME NEW r \in Range(t.routes), NEW g \in t.gateways, NEW l \in g.listeners,
             r.kind \in KindsOf(l.protocol) \cup l.kinds,
             NEW b \in Range(r.backends), BackendKey(r, b) = KeyOf(s)
      PROVE  FALSE
  <2>1. r.kind \in RouteKinds
    BY ClustersAssumption
  <2>2. r.kind \in KindsOf(l.protocol) \cup (IF l.protocol \in Standard THEN l.kinds ELSE {})
    <3>1. CASE l.protocol \in Standard
      BY <1>4, <3>1
    <3>2. CASE l.protocol \notin Standard
      <4>1. KindsOf(l.protocol) = RouteKinds
        BY <3>2 DEF KindsOf, Standard
      <4> QED
        BY <2>1, <4>1
    <3> QED
      BY <3>1, <3>2
  <2>3. r.kind \in AcceptedKinds(o.gateways)
    <3>1. g \in o.gateways
      BY <1>4
    <3> DEFINE all == UNION {x.listeners : x \in o.gateways}
               accepted(x) == KindsOf(x.protocol) \cup (IF x.protocol \in Standard THEN x.kinds ELSE {})
    <3>2. l \in all
      BY <1>4, <3>1
    <3>3. AcceptedKinds(o.gateways) = UNION {accepted(x) : x \in all}
      BY DEF AcceptedKinds
    <3> HIDE DEF all, accepted
    <3>4. r.kind \in accepted(l)
      BY <2>2 DEF accepted
    <3> QED
      BY <3>2, <3>3, <3>4
  <2>4. r \in Range(o.routes)
    BY <2>3
  <2> QED
    BY <1>1, <1>4, <2>1, <2>4, RoutesDeclare
<1> QED
  BY <1>2, <1>3, <1>4, Zenon DEF Fronted

(***************************************************************************)
(* The verdicts of an analysis with every leading resource accounted for   *)
(* are proved.                                                             *)
(***************************************************************************)
LEMMA AnalyzedSeen ==
  ASSUME K8sInv, AllSeen, Analyze PROVE NegativeIsProved'
<1> DEFINE after == [WithOverrides(objects) EXCEPT !.complete = Complete(warnings')]
           judged == UNION {{r} \X r.containers : r \in inventory}
<1>1. /\ phase = "exposure" /\ calls = <<>>
      /\ cluster \in Clusters /\ cluster' = cluster /\ objects' = after
      /\ warnings' = warnings \cup {<<kind, "">> : kind \in StillForbidden}
      /\ verdicts' = [a \in judged |-> AnalyzeContainer(a[1], a[2].type, objects', FALSE)]
  BY DEF Analyze, K8sInv
<1>2. /\ SameLists(after, objects)
      /\ after.complete = Complete(warnings') /\ after.gateways = objects.gateways
  <2> DEFINE t == cluster.objects
             given == [objects EXCEPT !.positive = t.positive, !.negative = t.negative,
                              !.positiveGateway = t.positiveGateway,
                              !.negativeGateway = t.negativeGateway,
                              !.negativeServices = t.negativeServices]
             with == WithOverrides(objects)
  <2>1. DOMAIN objects = DOMAIN Nothing
    BY DEF K8sInv, FoundIn
  <2>2. with = objects \/ with = given
    BY DEF WithOverrides
  <2>3. {"complete", "gateways"} \subseteq DOMAIN objects
    BY <2>1 DEF Nothing
  <2>4. given.gateways = objects.gateways /\ DOMAIN given = DOMAIN objects
    BY <2>3
  <2> HIDE DEF with, given
  <2>5. with.gateways = objects.gateways /\ DOMAIN with = DOMAIN objects
    BY <2>2, <2>4
  <2>6. after.complete = Complete(warnings') /\ after.gateways = with.gateways
    BY <2>3, <2>5 DEF with
  <2> QED
    BY <2>1, <2>5, <2>6, OverridesWithin
<1> HIDE DEF after, judged
<1> DEFINE o == objects'
           all == verdicts'
           t == cluster.objects
<1>3. /\ ListsSound(o) /\ o.complete = Complete(warnings') /\ o.gateways = objects.gateways
      /\ o.services = objects.services /\ o.ingresses = objects.ingresses
      /\ o.routes = objects.routes
  <2>1. FoundIn(o, t)
    BY <1>1, <1>2 DEF K8sInv, FoundIn, SameLists
  <2> QED
    BY <1>1, <1>2, <2>1, FoundInSound DEF SameLists
<1>4. all = [a \in judged |-> AnalyzeContainer(a[1], a[2].type, o, FALSE)]
  BY <1>1
<1> HIDE DEF o, all
<1>5. ASSUME NEW a \in DOMAIN all, all[a].basis = "observed"
      PROVE  /\ ~a[1].direct
             /\ \A s \in Range(t.services) : SelectsWorkload(s, a[1]) => ~Fronted(s)
  <2>1. all[a] = AnalyzeContainer(a[1], a[2].type, o, FALSE)
    BY <1>4
  <2>2. o.complete /\ ~a[1].direct /\ ~MayBeRouted(a[1], o)
    BY <1>3, <1>5, <2>1, AbsentShows
  <2>3. warnings' = {} /\ options.all /\ options.excluded = {}
    BY <1>3, <2>2 DEF Complete
  <2>4. warnings = {} /\ StillForbidden = {}
    BY <1>1, <2>3
  <2>5. gatewaysComplete /\ \A op \in Leading : Accounted(op)
    BY <1>1, <2>3, <2>4 DEF AllSeen
  <2>6. ASSUME NEW op \in Leading PROVE Present(t, op) \subseteq Present(objects, op) \/ op \in held
    <3>1. Range(calls) = {}
      <4>1. Range(<<>>) = {}
        BY DEF Range
      <4> QED
        BY <1>1, <4>1, Zenon
    <3> QED
      BY <2>5, <3>1 DEF Accounted, Asked
  <2>7. held \subseteq RouteKinds /\ held \cap AcceptedKinds(objects.gateways) = {}
    BY <2>4, <2>5 DEF StillForbidden, K8sInv
  <2>8. /\ Present(t, "services") \subseteq Range(objects.services)
        /\ Present(t, "ingresses") \subseteq Range(objects.ingresses)
        /\ t.gateways \subseteq objects.gateways
    <3>1. "services" \notin held /\ "ingresses" \notin held /\ "gateways" \notin held
      BY <2>7 DEF RouteKinds
    <3> QED
      BY <2>6, <3>1 DEF Leading, Present
  <2>9. ASSUME NEW r \in Range(t.routes)
        PROVE  r \in Range(objects.routes) \/ r.kind \notin AcceptedKinds(objects.gateways)
    <3>1. r.kind \in RouteKinds /\ r.kind \notin {"services", "ingresses", "gateways"}
      BY <1>1, ClustersAssumption DEF RouteKinds
    <3> QED
      BY <2>6, <2>7, <3>1 DEF Leading, Present
  <2> HIDE DEF t
  <2>10. ASSUME NEW s \in Range(t.services), SelectsWorkload(s, a[1]) PROVE ~Fronted(s)
    BY <1>1, <1>3, <2>2, <2>8, <2>9, <2>10, NotFronted DEF t
  <2> QED
    BY <2>2, <2>10
<1>6. \A s : Fronted(s)' = Fronted(s)
  BY <1>1 DEF Fronted
<1> QED
  BY <1>1, <1>5, <1>6 DEF NegativeIsProved, all

(***************************************************************************)
(* Lists that are read backwards have another order, and nothing else.     *)
(***************************************************************************)
LEMMA ReversedReorders ==
  ASSUME NEW o, ListsSound(o), DOMAIN o = DOMAIN Nothing
  PROVE  Reordered([o EXCEPT !.services = Reverse(@), !.ingresses = Reverse(@),
                             !.routes = Reverse(@)], o)
<1> DEFINE back == [o EXCEPT !.services = Reverse(@), !.ingresses = Reverse(@), !.routes = Reverse(@)]
<1>1. DOMAIN o = {"services", "ingresses", "routes", "gateways", "lbConfigs", "grants", "classes",
                  "internetFacingParams", "iapConfigs", "backendPolicies", "positive", "negative",
                  "positiveGateway", "negativeGateway", "negativeServices", "complete"}
  BY DEF Nothing
<1>2. /\ back.services = Reverse(o.services) /\ back.ingresses = Reverse(o.ingresses)
      /\ back.routes = Reverse(o.routes)
  BY <1>1
<1>3. /\ back.gateways = o.gateways /\ back.lbConfigs = o.lbConfigs /\ back.grants = o.grants
      /\ back.classes = o.classes /\ back.internetFacingParams = o.internetFacingParams
      /\ back.iapConfigs = o.iapConfigs /\ back.backendPolicies = o.backendPolicies
      /\ back.positive = o.positive /\ back.negative = o.negative
      /\ back.positiveGateway = o.positiveGateway /\ back.negativeGateway = o.negativeGateway
      /\ back.negativeServices = o.negativeServices /\ back.complete = o.complete
  BY <1>1
<1> HIDE DEF back
<1>4. /\ IsList(back.services) /\ IsList(back.ingresses) /\ IsList(back.routes)
      /\ Range(back.services) = Range(o.services)
      /\ Range(back.ingresses) = Range(o.ingresses)
      /\ Range(back.routes) = Range(o.routes)
  BY <1>2, ReverseElements DEF ListsSound
<1>5. ListsSound(back)
  BY <1>4 DEF ListsSound
<1>6. Reordered(back, o)
  BY <1>3, <1>4, <1>5 DEF Reordered
<1> QED
  BY <1>6 DEF back

(***************************************************************************)
(* A collection starts with nothing found, asked for or judged.            *)
(***************************************************************************)
LEMMA K8sInitInv == K8sInit(Clusters, OptionSets) => K8sInv
<1> SUFFICES ASSUME K8sInit(Clusters, OptionSets) PROVE K8sInv
  OBVIOUS
<1>1. /\ cluster \in Clusters /\ objects = Nothing /\ verdicts = <<>>
      /\ phase = "start" /\ held = {} /\ gatewaysComplete
  BY DEF K8sInit
<1>2. /\ Nothing.services = <<>> /\ Nothing.ingresses = <<>> /\ Nothing.routes = <<>>
  BY DEF Nothing
<1>3. IsList(<<>>) /\ Range(<<>>) = {}
  BY DEF IsList, Range
<1>4. FoundIn(objects, cluster.objects)
  BY <1>1, <1>2, <1>3 DEF FoundIn
<1>5. DOMAIN verdicts = {}
  BY <1>1
<1> QED
  BY <1>1, <1>4, <1>5 DEF K8sInv, AllSeen, NotJudged, OperatorHasTheLastWord, NegativeIsProved,
       VerdictIgnoresOrder

(***************************************************************************)
(* Every step of the collection keeps what was found a part of the         *)
(* cluster, and every leading resource accounted for until it may no       *)
(* longer count as complete.                                               *)
(***************************************************************************)
LEMMA K8sNextInv == K8sInv /\ [K8sNext]_k8sVars => K8sInv'
<1> SUFFICES ASSUME K8sInv, [K8sNext]_k8sVars PROVE K8sInv'
  OBVIOUS
<1> DEFINE Early == {"start", "inventory", "runtime"}
<1>1. AllSeen /\ cluster \in Clusters /\ FoundIn(objects, cluster.objects)
  BY DEF K8sInv
<1>2. ASSUME UNCHANGED cluster, NotJudged'
      PROVE  OperatorHasTheLastWord' /\ NegativeIsProved' /\ VerdictIgnoresOrder'
  BY <1>2 DEF NotJudged, OperatorHasTheLastWord, NegativeIsProved, VerdictIgnoresOrder
<1>3. CASE ListExposure
  <2>1. /\ phase = "exposure" /\ objects' = Take(objects)
        /\ UNCHANGED <<cluster, phase, verdicts, held>>
    BY <1>3 DEF ListExposure, Answered, Proceed
  <2>2. FoundIn(objects', cluster'.objects)
    BY <1>1, <2>1, TakeFoundIn
  <2>3. NotJudged' /\ held \subseteq RouteKinds
    BY <2>1 DEF K8sInv, NotJudged
  <2>4. AllSeen'
    BY <1>1, <1>3, ListingSeen
  <2> QED
    BY <1>1, <1>2, <2>1, <2>2, <2>3, <2>4 DEF K8sInv
<1>4. ASSUME NEW forbidden \in BOOLEAN, ListExposureFails(forbidden) PROVE K8sInv'
  <2>1. /\ phase = "exposure" /\ UNCHANGED <<cluster, phase, objects, verdicts>>
        /\ held' = held \/ (Call.op \in RouteKinds /\ held' = held \cup {Call.op})
    BY <1>4 DEF ListExposureFails, Answered, Proceed
  <2>2. NotJudged' /\ held' \subseteq RouteKinds
    BY <2>1 DEF K8sInv, NotJudged
  <2>3. AllSeen'
    BY <1>1, <1>4, RefusalSeen
  <2> QED
    BY <1>1, <1>2, <2>1, <2>2, <2>3 DEF K8sInv
<1>5. CASE TryVersion
  <2>1. phase = "exposure" /\ UNCHANGED <<cluster, phase, objects, verdicts, held>>
    BY <1>5 DEF TryVersion, Proceed, discovery
  <2>2. NotJudged' /\ held' \subseteq RouteKinds
    BY <2>1 DEF K8sInv, NotJudged
  <2>3. AllSeen'
    BY <1>1, <1>5, VersionSeen
  <2> QED
    BY <1>1, <1>2, <2>1, <2>2, <2>3 DEF K8sInv
<1>6. CASE EndRuntime
  <2>1. /\ phase = "runtime" /\ UNCHANGED <<cluster, options, objects, verdicts, held, warnings, gatewaysComplete>>
        /\ phase' = "exposure" => calls' = ExposureCalls
        /\ phase' \notin Early
    BY <1>6 DEF EndRuntime, AfterExposure, discovery
  <2>2. gatewaysComplete /\ NotJudged' /\ held' \subseteq RouteKinds
    BY <2>1 DEF K8sInv, NotJudged
  <2>3. AllSeen'
    <3> SUFFICES ASSUME phase' = "exposure", options'.all
                 PROVE  gatewaysComplete' /\ CallsForAll' /\ \A op \in Leading : Accounted(op)'
      BY DEF AllSeen
    <3> QED
      BY <2>1, <2>2, BeginsSeen
  <2> QED
    BY <1>1, <1>2, <2>1, <2>2, <2>3 DEF K8sInv
<1>7. CASE Analyze
  <2> DEFINE after == [WithOverrides(objects) EXCEPT !.complete = Complete(warnings')]
             judged == UNION {{r} \X r.containers : r \in inventory}
  <2>1. /\ UNCHANGED <<cluster, held>> /\ objects' = after
        /\ verdicts' = [a \in judged |-> AnalyzeContainer(a[1], a[2].type, objects', FALSE)]
        /\ phase' \in {"collected", "pullSecrets"}
    BY <1>7 DEF Analyze, AfterExposure
  <2>2. SameLists(after, objects)
    BY OverridesWithin DEF K8sInv, FoundIn
  <2> HIDE DEF after, judged
  <2>3. FoundIn(objects', cluster'.objects)
    BY <2>1, <2>2 DEF K8sInv, FoundIn, SameLists
  <2>4. ListsSound(objects')
    BY <1>1, <2>1, <2>3, FoundInSound
  <2>5. OperatorHasTheLastWord'
    <3> DEFINE o == objects'
               all == verdicts'
    <3> SUFFICES ASSUME NEW a \in DOMAIN all, all[a].reachable
                 PROVE  \E s \in Range(o.services) : SelectsWorkload(s, a[1]) /\ OpenWayTo(s, o)
      BY DEF OperatorHasTheLastWord
    <3>1. all = [x \in judged |-> AnalyzeContainer(x[1], x[2].type, o, FALSE)]
      BY <2>1
    <3>2. ListsSound(o)
      BY <2>4
    <3> HIDE DEF o, all
    <3>3. all[a] = AnalyzeContainer(a[1], a[2].type, o, FALSE)
      BY <3>1
    <3> QED
      BY <3>2, <3>3, ReachableIsOpen
  <2>6. NegativeIsProved'
    BY <1>1, <1>7, AnalyzedSeen
  <2>7. VerdictIgnoresOrder'
    <3> DEFINE o == objects'
               all == verdicts'
               back == [o EXCEPT !.services = Reverse(@), !.ingresses = Reverse(@),
                                 !.routes = Reverse(@)]
    <3> SUFFICES ASSUME NEW a \in DOMAIN all
                 PROVE  TellAlike(all[a], AnalyzeContainer(a[1], a[2].type, back, FALSE), a[2].type)
      BY DEF VerdictIgnoresOrder, TellAlike
    <3>1. all = [x \in judged |-> AnalyzeContainer(x[1], x[2].type, o, FALSE)]
      BY <2>1
    <3>2. ListsSound(o) /\ DOMAIN o = DOMAIN Nothing
      BY <2>3, <2>4 DEF FoundIn
    <3>3. Reordered(back, o)
      <4> HIDE DEF o
      <4> QED
        BY <3>2, ReversedReorders
    <3> HIDE DEF o, all, back
    <3>4. all[a] = AnalyzeContainer(a[1], a[2].type, o, FALSE)
      BY <3>1
    <3>6. Reordered(o, back)
      BY <3>3 DEF Reordered
    <3>5. TellAlike(AnalyzeContainer(a[1], a[2].type, o, FALSE),
                    AnalyzeContainer(a[1], a[2].type, back, FALSE), a[2].type)
      BY <3>6, VerdictReordered
    <3> QED
      BY <3>4, <3>5, Zenon
  <2> QED
    BY <2>1, <2>3, <2>5, <2>6, <2>7 DEF K8sInv, AllSeen
<1>8. CASE \/ Start \/ ListWorkloads \/ ListWorkloadsFails \/ ListPosture \/ ReadConfigMap
           \/ ListNodes \/ DoWithout \/ EndInventory \/ ListRuntime \/ ListRuntimeFails
  <2>1. /\ UNCHANGED <<cluster, objects, verdicts, held, gatewaysComplete>>
        /\ phase \in Early /\ phase' \in Early \cup {"error"}
    BY <1>8 DEF Start, ListWorkloads, ListWorkloadsFails, ListPosture, ReadConfigMap, ListNodes,
         DoWithout, EndInventory, ListRuntime, ListRuntimeFails, Answered, Proceed, discovery
  <2>2. NotJudged' /\ gatewaysComplete' /\ held' \subseteq RouteKinds
    BY <2>1 DEF K8sInv, NotJudged
  <2> QED
    BY <1>1, <1>2, <2>1, <2>2 DEF K8sInv, AllSeen
<1>9. CASE \/ ListPullSecrets \/ ListPullSecretsFails \/ EndPullSecrets
           \/ (\E key \in secretRefs : FetchSecret(key)) \/ EndSecrets
  <2>1. /\ UNCHANGED <<cluster, objects, verdicts, held>>
        /\ phase' \in {"pullSecrets", "secrets", "collected"}
    BY <1>9 DEF ListPullSecrets, ListPullSecretsFails, EndPullSecrets, FetchSecret, EndSecrets,
         Answered, Proceed, discovery
  <2> QED
    BY <2>1 DEF K8sInv, AllSeen, OperatorHasTheLastWord, NegativeIsProved, VerdictIgnoresOrder,
         Fronted
<1>10. CASE UNCHANGED k8sVars
  BY <1>10 DEF K8sInv, AllSeen, CallsForAll, Accounted, Asked, NotJudged, OperatorHasTheLastWord,
       NegativeIsProved, VerdictIgnoresOrder, Fronted, k8sVars
<1> QED
  BY <1>3, <1>4, <1>5, <1>6, <1>7, <1>8, <1>9, <1>10 DEF K8sNext

-----------------------------------------------------------------------------
(* The inventory                                                           *)

\* What the lists of workloads collect is in the inventory, or still to be listed.
ToList(op, ns) == \E c \in Range(calls) : c.op = op /\ c.ns \in {"", ns}
StandsIn(w, q) == q = w \/ SameManifest(w, q)
HasStandIn(op, w) == \E q \in Collected(op) : StandsIn(w, q) /\ Images(q) \subseteq InventoryImages
WorkloadsFound ==
  /\ IsList(calls)
  /\ \A op \in Range(WorkloadOps) : \A w \in Collected(op) :
       Selected(w) => HasStandIn(op, w) \/ ToList(op, w.ns)

PodsInv ==
  /\ options \in OptionSets
  /\ \A r \in inventory : "containers" \in DOMAIN r
  /\ phase = "inventory" => WorkloadsFound
  /\ PodsCovered

(***************************************************************************)
(* Every namespace that is selected is in the scopes of the requests, or   *)
(* all of them are (namespacesForCollection).                              *)
(***************************************************************************)
LEMMA ScopesTell ==
  ASSUME options \in OptionSets
  PROVE  /\ IsList(Scopes)
         /\ \A ns : ns \notin options.excluded /\ (options.all \/ ns \in Range(options.namespaces)) =>
              \E scope \in Range(Scopes) : scope \in {"", ns}
<1>1. CASE options.all
  <2>1. Scopes = <<"">>
    BY <1>1 DEF Scopes
  <2>2. /\ <<"">> \in Seq({""}) /\ DOMAIN <<"">> = 1..1 /\ 1..1 = {1} /\ <<"">>[1] = ""
    OBVIOUS
  <2>3. Range(<<"">>) = {""}
    BY <2>2 DEF Range
  <2>4. IsList(<<"">>)
    BY <2>2, <2>3 DEF IsList
  <2> QED
    BY <2>1, <2>3, <2>4
<1>2. CASE ~options.all
  <2> DEFINE names == options.namespaces
             kept == Only(names, Range(names) \ options.excluded)
             same == [n \in Range(kept) |-> n]
  <2>1. IsList(names)
    BY OptionSetsAssumption
  <2> HIDE DEF names
  <2>2. kept \in Seq(Range(names)) /\ Range(kept) = (Range(names) \ options.excluded) \cap Range(names)
    BY <2>1, OnlyElements
  <2> HIDE DEF kept
  <2>3. IsList(kept)
    BY <2>2 DEF IsList, Range
  <2>4. \A x, y \in Range(kept) : same[x] = same[y] => x = y
    OBVIOUS
  <2> HIDE DEF same
  <2>5. /\ IsList(FirstOfEach(kept, same)) /\ Range(FirstOfEach(kept, same)) \subseteq Range(kept)
        /\ \A x \in Range(kept) : \E y \in Range(FirstOfEach(kept, same)) : same[y] = same[x]
    BY <2>3, FirstElements
  <2>6. Scopes = FirstOfEach(kept, same)
    BY <1>2 DEF Scopes, kept, same, names
  <2>7. \A x \in Range(kept) : x \in Range(FirstOfEach(kept, same))
    BY <2>4, <2>5
  <2> QED
    BY <1>2, <2>2, <2>5, <2>6, <2>7 DEF names
<1> QED
  BY <1>1, <1>2

(***************************************************************************)
(* Each kind is asked for in each scope.                                   *)
(***************************************************************************)
LEMMA AskedEverywhere ==
  ASSUME IsList(Scopes), NEW ops, IsList(ops)
  PROVE  /\ IsList(PerNamespace(ops))
         /\ \A op \in Range(ops), scope \in Range(Scopes) :
              Request(op, scope, <<"v1">>) \in Range(PerNamespace(ops))
<1> DEFINE ask(n) == [m \in DOMAIN ops |-> Request(ops[m], Scopes[n], <<"v1">>)]
           all == [n \in DOMAIN Scopes |-> ask(n)]
<1>1. /\ DOMAIN Scopes = 1..Len(Scopes) /\ Len(Scopes) \in Nat
      /\ DOMAIN ops = 1..Len(ops) /\ Len(ops) \in Nat
  BY DEF IsList
<1>2. ASSUME NEW n \in DOMAIN Scopes
      PROVE  IsList(all[n]) /\ \A op \in Range(ops) : Request(op, Scopes[n], <<"v1">>) \in Range(all[n])
  <2> DEFINE one == ask(n)
  <2>1. all[n] = one /\ one = [m \in 1..Len(ops) |-> one[m]]
    BY <1>1
  <2>2. \A m \in 1..Len(ops) : one[m] = Request(ops[m], Scopes[n], <<"v1">>)
    BY <1>1
  <2> HIDE DEF one, all
  <2>3. IsList(one) /\ Range(one) = {one[m] : m \in 1..Len(ops)}
    BY <1>1, <2>1, ListOf
  <2>4. \A op \in Range(ops) : \E m \in 1..Len(ops) : op = ops[m]
    BY <1>1 DEF Range
  <2>5. ASSUME NEW op \in Range(ops) PROVE Request(op, Scopes[n], <<"v1">>) \in Range(one)
    <3>1. PICK m \in 1..Len(ops) : op = ops[m]
      BY <2>4
    <3> QED
      BY <2>2, <2>3, <3>1
  <2> QED
    BY <2>1, <2>3, <2>5
<1>3. IsList(all) /\ DOMAIN all = DOMAIN Scopes
  <2>1. all = [n \in 1..Len(Scopes) |-> all[n]]
    BY <1>1
  <2> HIDE DEF all
  <2> QED
    BY <1>1, <2>1, ListOf
<1>4. PerNamespace(ops) = FlattenSeq(all)
  BY DEF PerNamespace
<1> HIDE DEF all
<1>5. IsList(FlattenSeq(all)) /\ Range(FlattenSeq(all)) = UNION {Range(all[n]) : n \in DOMAIN all}
  BY <1>2, <1>3, FlattenElements
<1>6. ASSUME NEW op \in Range(ops), NEW scope \in Range(Scopes)
      PROVE  Request(op, scope, <<"v1">>) \in Range(FlattenSeq(all))
  <2>1. PICK n \in DOMAIN Scopes : scope = Scopes[n]
    BY DEF Range
  <2> QED
    BY <1>2, <1>3, <1>5, <2>1
<1> QED
  BY <1>4, <1>5, <1>6

(***************************************************************************)
(* The inventory begins with all workloads still to be listed.             *)
(***************************************************************************)
LEMMA AllToList ==
  ASSUME options \in OptionSets
  PROVE  /\ IsList(InventoryCalls)
         /\ \A op \in Range(WorkloadOps), scope \in Range(Scopes) :
              Request(op, scope, <<"v1">>) \in Range(InventoryCalls)
<1> DEFINE more == <<"networkpolicies", "budgets">>
           each == PerNamespace(WorkloadOps \o more)
           map == IF options.override THEN <<>> ELSE <<Request("configmap", "", <<"v1">>)>>
           nodes == <<Request("nodes", "", <<"v1">>)>>
<1>1. IsList(WorkloadOps) /\ IsList(more)
  <2>1. WorkloadOps \in Seq(Range(WorkloadOps))
    BY DEF WorkloadOps, Range
  <2>2. more \in Seq(Range(more))
    BY DEF Range
  <2> HIDE DEF more
  <2> QED
    BY <2>1, <2>2 DEF IsList
<1>2. IsList(map) /\ IsList(nodes)
  <2>1. \A x : IsList(<<x>>)
    BY DEF IsList, Range
  <2>2. IsList(<<>>)
    BY DEF IsList
  <2> QED
    BY <2>1, <2>2
<1> HIDE DEF more, map, nodes
<1>3. IsList(WorkloadOps \o more) /\ Range(WorkloadOps) \subseteq Range(WorkloadOps \o more)
  BY <1>1, JoinElements
<1>4. /\ IsList(each)
      /\ \A op \in Range(WorkloadOps), scope \in Range(Scopes) : Request(op, scope, <<"v1">>) \in Range(each)
  BY <1>3, ScopesTell, AskedEverywhere
<1>5. InventoryCalls = each \o map \o nodes
  BY DEF InventoryCalls, each, map, nodes, more
<1> HIDE DEF each
<1>6. IsList(each \o map) /\ Range(each) \subseteq Range(each \o map)
  BY <1>2, <1>4, JoinElements
<1>7. IsList((each \o map) \o nodes) /\ Range(each \o map) \subseteq Range((each \o map) \o nodes)
  BY <1>2, <1>6, JoinElements
<1> QED
  BY <1>4, <1>5, <1>6, <1>7

(***************************************************************************)
(* A collection begins with nothing found.                                 *)
(***************************************************************************)
LEMMA PodsInitInv == K8sInit(Clusters, OptionSets) => PodsInv
BY DEF K8sInit, PodsInv, PodsCovered

(***************************************************************************)
(* The start sets out to list all workloads.                               *)
(***************************************************************************)
LEMMA StartInv == ASSUME PodsInv, Start PROVE PodsInv'
<1>1. /\ phase' = "error" \/ (phase' = "inventory" /\ calls' = InventoryCalls)
      /\ UNCHANGED <<cluster, options, inventory>>
  BY DEF Start, found
<1>2. options \in OptionSets /\ \A r \in inventory : "containers" \in DOMAIN r
  BY DEF PodsInv
<1>3. ASSUME phase' = "inventory" PROVE WorkloadsFound'
  <2>1. calls' = InventoryCalls
    BY <1>1, <1>3
  <2>2. ASSUME NEW op \in Range(WorkloadOps), NEW w, Selected(w) PROVE ToList(op, w.ns)'
    <3>1. PICK scope \in Range(Scopes) : scope \in {"", w.ns}
      BY <1>2, <2>2, ScopesTell DEF Selected
    <3> DEFINE c == Request(op, scope, <<"v1">>)
    <3>2. c \in Range(calls')
      BY <1>2, <2>1, AllToList
    <3>3. c.op = op /\ c.ns = scope
      BY DEF Request
    <3> QED
      BY <3>1, <3>2, <3>3 DEF ToList
  <2>3. IsList(calls')
    BY <1>2, <2>1, AllToList
  <2>4. \A op, w : w \in Collected(op)' <=> w \in Collected(op)
    BY <1>1 DEF Collected
  <2>5. \A w : Selected(w)' <=> Selected(w)
    BY <1>1 DEF Selected
  <2> QED
    BY <2>2, <2>3, <2>4, <2>5 DEF WorkloadsFound
<1> QED
  BY <1>1, <1>2, <1>3 DEF PodsInv, PodsCovered

(***************************************************************************)
(* A list adds what it lists, or what stands for it.                       *)
(***************************************************************************)
LEMMA ListedIsFound ==
  ASSUME NEW listed, NEW kept \in OnePerManifest(listed), NEW w \in listed
  PROVE  \E q \in listed :
           StandsIn(w, q) /\ Images(q) \subseteq UNION {{c.image : c \in r.containers} : r \in Resources(kept)}
<1>1. PICK q \in kept : StandsIn(w, q)
  BY DEF OnePerManifest, StandsIn
<1>2. q \in listed
  BY DEF OnePerManifest
<1>3. ASSUME NEW image \in Images(q)
      PROVE  \E r \in Resources(kept) : \E c \in r.containers : c.image = image
  <2> DEFINE r == Resource(q)
             c == CHOOSE x \in q.containers : x.image = image
             told == [name |-> c.name, type |-> c.type, image |-> c.image]
  <2>1. c \in q.containers /\ c.image = image /\ image # ""
    BY <1>3 DEF Images
  <2> HIDE DEF c
  <2>2. told \in r.containers
    BY <2>1 DEF Resource
  <2>3. told.image = image
    BY <2>1
  <2> HIDE DEF told
  <2>4. r \in Resources(kept)
    BY <2>2 DEF Resources
  <2> QED
    BY <2>2, <2>3, <2>4
<1> QED
  BY <1>1, <1>2, <1>3

(***************************************************************************)
(* A list of workloads does what it was to do.                             *)
(***************************************************************************)
LEMMA ListWorkloadsInv == ASSUME PodsInv, ListWorkloads PROVE PodsInv'
<1> DEFINE listed == {w \in Collected(Call.op) : InScope(w)}
<1>0. PICK kept \in OnePerManifest(listed) : inventory' = inventory \cup Resources(kept)
  BY DEF ListWorkloads
<1>1. /\ phase = "inventory" /\ phase' = "inventory" /\ calls # <<>> /\ calls' = Tail(calls)
      /\ Call.op \in Range(WorkloadOps)
      /\ UNCHANGED <<cluster, options>>
  BY DEF ListWorkloads, Answered, Proceed
<1>2. WorkloadsFound /\ options \in OptionSets
  BY <1>1 DEF PodsInv
<1>3. IsList(calls') /\ Call \in Range(calls) /\ Range(calls) = {Call} \cup Range(calls')
  BY <1>1, <1>2, HeadAndTail DEF WorkloadsFound, Call
<1>4. \A r \in inventory' : "containers" \in DOMAIN r
  <2>1. \A w : "containers" \in DOMAIN Resource(w)
    BY DEF Resource
  <2>2. \A r \in Resources(kept) : \E w : r = Resource(w)
    BY DEF Resources
  <2>3. \A r \in Resources(kept) : "containers" \in DOMAIN r
    BY <2>1, <2>2
  <2> QED
    BY <1>0, <1>1, <2>3 DEF PodsInv
<1>5. InventoryImages' = InventoryImages \cup UNION {{c.image : c \in r.containers} : r \in Resources(kept)}
  BY <1>0 DEF InventoryImages
<1>6. \A op, w : (w \in Collected(op)' <=> w \in Collected(op)) /\ (Selected(w)' <=> Selected(w))
  BY <1>1 DEF Collected, Selected
<1>7. ASSUME NEW op \in Range(WorkloadOps), NEW w \in Collected(op), Selected(w)
      PROVE  HasStandIn(op, w)' \/ ToList(op, w.ns)'
  <2>1. CASE HasStandIn(op, w)
    <3>1. PICK q \in Collected(op) : StandsIn(w, q) /\ Images(q) \subseteq InventoryImages
      BY <2>1 DEF HasStandIn
    <3>2. Images(q) \subseteq InventoryImages' /\ q \in Collected(op)'
      BY <1>5, <1>6, <3>1
    <3> QED
      BY <3>1, <3>2 DEF HasStandIn
  <2>2. CASE ToList(op, w.ns)
    <3>1. PICK c \in Range(calls) : c.op = op /\ c.ns \in {"", w.ns}
      BY <2>2 DEF ToList
    <3>2. CASE c \in Range(calls')
      BY <3>1, <3>2 DEF ToList
    <3>3. CASE c = Call
      <4>1. w \in listed
        BY <1>7, <3>1, <3>3 DEF InScope, Selected
      <4>2. listed \subseteq Collected(op)
        BY <3>1, <3>3
      <4> HIDE DEF listed
      <4>3. PICK q \in listed :
              StandsIn(w, q) /\ Images(q) \subseteq UNION {{x.image : x \in r.containers} : r \in Resources(kept)}
        BY <4>1, ListedIsFound
      <4>4. Images(q) \subseteq InventoryImages' /\ q \in Collected(op)'
        BY <1>5, <1>6, <4>2, <4>3
      <4> QED
        BY <4>3, <4>4 DEF HasStandIn
    <3> QED
      BY <1>3, <3>2, <3>3
  <2> QED
    BY <1>2, <1>7, <2>1, <2>2 DEF WorkloadsFound
<1>8. WorkloadsFound'
  BY <1>3, <1>6, <1>7 DEF WorkloadsFound
<1> QED
  BY <1>1, <1>2, <1>4, <1>8 DEF PodsInv, PodsCovered

(***************************************************************************)
(* A request that is not for workloads takes none away.                    *)
(***************************************************************************)
LEMMA OthersInv ==
  ASSUME PodsInv, phase = "inventory", Answered, Call.op \notin Range(WorkloadOps),
         \A r \in inventory' : "containers" \in DOMAIN r, InventoryImages' = InventoryImages
  PROVE  PodsInv'
<1>1. /\ phase' = "inventory" /\ calls # <<>> /\ calls' = Tail(calls)
      /\ UNCHANGED <<cluster, options>>
  BY DEF Answered, Proceed
<1>2. WorkloadsFound /\ options \in OptionSets
  BY DEF PodsInv
<1>3. IsList(calls') /\ Range(calls) = {Call} \cup Range(calls')
  BY <1>1, <1>2, HeadAndTail DEF WorkloadsFound, Call
<1>4. \A op, w : (w \in Collected(op)' <=> w \in Collected(op)) /\ (Selected(w)' <=> Selected(w))
  BY <1>1 DEF Collected, Selected
<1>5. \A ns : \A op \in Range(WorkloadOps) : ToList(op, ns) => ToList(op, ns)'
  BY <1>3 DEF ToList
<1>6. WorkloadsFound'
  <2>1. \A op, w : HasStandIn(op, w) => HasStandIn(op, w)'
    BY <1>4 DEF HasStandIn
  <2> QED
    BY <1>2, <1>3, <1>4, <1>5, <2>1 DEF WorkloadsFound
<1> QED
  BY <1>1, <1>2, <1>6 DEF PodsInv, PodsCovered

(***************************************************************************)
(* What policies and budgets say of a workload leaves its images as found. *)
(***************************************************************************)
LEMMA ListPostureInv == ASSUME PodsInv, ListPosture PROVE PodsInv'
<1> DEFINE With(r) == [r EXCEPT !.posture = @ \cup PostureOf(r, Call.op)]
<1>1. /\ phase = "inventory" /\ Answered /\ Call.op \in {"networkpolicies", "budgets"}
      /\ inventory' = {With(r) : r \in inventory}
  BY DEF ListPosture
<1>2. Call.op \notin Range(WorkloadOps)
  BY <1>1 DEF WorkloadOps, Range
<1>3. \A r \in inventory : "containers" \in DOMAIN r
  BY DEF PodsInv
<1>4. \A r \in inventory : DOMAIN With(r) = DOMAIN r /\ With(r).containers = r.containers
  BY <1>3
<1> HIDE DEF With
<1>5. \A r \in inventory' : "containers" \in DOMAIN r
  BY <1>1, <1>3, <1>4
<1>6. InventoryImages' = InventoryImages
  <2> DEFINE told(r) == {c.image : c \in r.containers}
  <2>1. \A r \in inventory : told(With(r)) = told(r)
    BY <1>4
  <2>2. InventoryImages = UNION {told(r) : r \in inventory}
    BY DEF InventoryImages
  <2>3. InventoryImages' = UNION {told(r) : r \in inventory'}
    BY DEF InventoryImages
  <2> HIDE DEF told
  <2> QED
    BY <1>1, <2>1, <2>2, <2>3
<1> QED
  BY <1>1, <1>2, <1>5, <1>6, OthersInv

(***************************************************************************)
(* When no request is left all workloads that are collected were found,    *)
(* and with them every pod that has none of them behind it.                *)
(***************************************************************************)
LEMMA EndInventoryInv == ASSUME PodsInv, EndInventory PROVE PodsInv'
<1>1. /\ phase = "inventory" /\ calls = <<>> /\ phase' = "runtime"
      /\ UNCHANGED <<cluster, options, inventory>>
  BY DEF EndInventory, found
<1>2. \A op \in Range(WorkloadOps) : \A w \in Collected(op) :
        Selected(w) => HasStandIn(op, w)
  <2>1. Range(calls) = {}
    BY <1>1 DEF Range
  <2> QED
    BY <1>1, <2>1 DEF PodsInv, WorkloadsFound, ToList
<1>3. \A kind \in {"Pod", "Deployment", "StatefulSet", "DaemonSet", "Job", "CronJob"} :
        kind \in Range(WorkloadOps)
  BY DEF WorkloadOps, Range
<1>4. ASSUME NEW p \in cluster.pods, Selected(p),
             p.owner \in {"ReplicaSet", "StatefulSet", "DaemonSet", "Job"} => HasTemplate(p)
      PROVE  \E q \in cluster.pods : StandsIn(p, q) /\ Images(q) \subseteq InventoryImages
  <2>1. CASE p.owner \in {"ReplicaSet", "StatefulSet", "DaemonSet", "Job"}
    <3>1. PICK w \in cluster.workloads :
            /\ w.ns = p.ns /\ Images(p) \subseteq Images(w)
            /\ w.kind \in {"Deployment", "StatefulSet", "DaemonSet", "Job", "CronJob"}
            /\ w.kind = "DaemonSet" => w.desired > 0
            /\ w.kind = "Job" => w.owner # "CronJob"
      BY <1>4, <2>1 DEF HasTemplate
    <3>2. w \in Collected(w.kind)
      BY <3>1 DEF Collected
    <3>3. Selected(w)
      BY <1>4, <3>1 DEF Selected
    <3>4. PICK q \in Collected(w.kind) : StandsIn(w, q) /\ Images(q) \subseteq InventoryImages
      BY <1>2, <1>3, <3>1, <3>2, <3>3 DEF HasStandIn
    <3>5. q = w
      BY <3>1, <3>4 DEF StandsIn, SameManifest, IsMirror
    <3> QED
      BY <3>1, <3>4, <3>5 DEF StandsIn
  <2>2. CASE p.owner \notin {"ReplicaSet", "StatefulSet", "DaemonSet", "Job"}
    <3>1. p \in Collected("Pod")
      BY <2>2 DEF Collected, Covered
    <3>2. HasStandIn("Pod", p)
      BY <1>2, <1>3, <1>4, <3>1
    <3> QED
      BY <3>2 DEF HasStandIn, Collected
  <2> QED
    BY <2>1, <2>2
<1>5. PodsCovered'
  <2>1. InventoryImages' = InventoryImages /\ \A p : (Selected(p)' <=> Selected(p)) /\ (HasTemplate(p)' <=> HasTemplate(p))
    BY <1>1 DEF InventoryImages, Selected, HasTemplate
  <2> QED
    BY <1>1, <1>4, <2>1 DEF PodsCovered, StandsIn
<1> QED
  BY <1>1, <1>5 DEF PodsInv

(***************************************************************************)
(* Every step of the collection keeps it.                                  *)
(***************************************************************************)
LEMMA PodsNextInv == PodsInv /\ [K8sNext]_k8sVars => PodsInv'
<1> SUFFICES ASSUME PodsInv, [K8sNext]_k8sVars PROVE PodsInv'
  OBVIOUS
<1>1. ASSUME UNCHANGED <<cluster, options, inventory>>,
             (phase' = phase /\ calls' = calls) \/ phase' = "error"
               \/ (phase \notin {"start", "inventory", "error"} /\ phase' \notin {"start", "inventory"})
      PROVE  PodsInv'
  <2>1. InventoryImages' = InventoryImages /\ \A p : (Selected(p)' <=> Selected(p)) /\ (HasTemplate(p)' <=> HasTemplate(p))
    BY <1>1 DEF InventoryImages, Selected, HasTemplate
  <2>2. PodsCovered'
    BY <1>1, <2>1 DEF PodsInv, PodsCovered
  <2>3. phase' = "inventory" => WorkloadsFound'
    <3>1. \A op, w : w \in Collected(op)' <=> w \in Collected(op)
      BY <1>1 DEF Collected
    <3>2. \A op, w : HasStandIn(op, w)' <=> HasStandIn(op, w)
      BY <2>1, <3>1 DEF HasStandIn
    <3> QED
      BY <1>1, <2>1, <3>1, <3>2 DEF PodsInv, WorkloadsFound, ToList
  <2> QED
    BY <1>1, <2>2, <2>3 DEF PodsInv
<1>2. CASE ReadConfigMap \/ ListNodes \/ DoWithout
  <2>1. /\ phase = "inventory" /\ Answered /\ Call.op \notin Range(WorkloadOps) /\ inventory' = inventory
    BY <1>2 DEF ReadConfigMap, ListNodes, DoWithout, WorkloadOps, Range
  <2>2. InventoryImages' = InventoryImages /\ \A r \in inventory' : "containers" \in DOMAIN r
    BY <2>1 DEF PodsInv, InventoryImages
  <2> QED
    BY <2>1, <2>2, OthersInv
<1>3. CASE ListWorkloadsFails
  BY <1>1, <1>3 DEF ListWorkloadsFails, found
<1>4. CASE ListRuntime \/ ListRuntimeFails \/ EndRuntime
  BY <1>1, <1>4 DEF ListRuntime, ListRuntimeFails, EndRuntime, AfterExposure, Answered, Proceed, found
<1>5. CASE ListExposure \/ TryVersion \/ (\E forbidden \in BOOLEAN : ListExposureFails(forbidden)) \/ Analyze
  BY <1>1, <1>5 DEF ListExposure, TryVersion, ListExposureFails, Analyze, AfterExposure, Answered, Proceed, found
<1>6. CASE ListPullSecrets \/ ListPullSecretsFails \/ EndPullSecrets \/ (\E key \in secretRefs : FetchSecret(key)) \/ EndSecrets
  BY <1>1, <1>6 DEF ListPullSecrets, ListPullSecretsFails, EndPullSecrets, FetchSecret, EndSecrets, Answered, Proceed, found
<1>7. CASE UNCHANGED k8sVars
  BY <1>1, <1>7 DEF k8sVars
<1> QED
  BY <1>2, <1>3, <1>4, <1>5, <1>6, <1>7, StartInv, ListWorkloadsInv, ListPostureInv, EndInventoryInv DEF K8sNext
=============================================================================
