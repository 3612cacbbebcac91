----------------------------- MODULE DeployProofs -----------------------------
(***************************************************************************)
(* Proofs about the deployment bundle, for any rules, references, native   *)
(* rule files and number of edits.                                         *)
(***************************************************************************)
EXTENDS Deploy, TLAPS

(* Nobody touched the rule or what it references since the run started.    *)
Untouched(r) == (Refs[r] \cup {r}) \cap edited = {}

(* The build has dealt with the rule for the i-th target.                  *)
Passed(i, r) ==
  \/ pc \in {"native", "write", "check"}
  \/ i < target
  \/ i = target /\ pc = "convert" /\ r \notin todo

Entry(t, r) == [source |-> r, revision |-> source[r], artifact |-> <<t, r>>]
NativeEntry(n) == [source |-> n, revision |-> source[n], artifact |-> Ruleset]

-----------------------------------------------------------------------------
(* The parts of the inductive invariant.                                   *)

OnPaths(f) == f = [p \in Paths |-> f[p]]
Typed == TypeOK /\ OnPaths(bundle) /\ OnPaths(tree)

(* A process that is not running remembers nothing of the last run.        *)
Reset ==
  /\ pc = "idle" => /\ target = 1 /\ todo = {} /\ bundle = Empty
                    /\ manifest = {} /\ unsupported = {}
  /\ outcome \in {"up to date", "written"} => pc = "idle"

(* The collection a target is converted from is its own copy of the rules, *)
(* without conversion results of another target, and closed under          *)
(* references.                                                             *)
Loading ==
  /\ pc = "read" =>
       /\ widened = {} /\ cache = [r \in Rules |-> "none"]
       /\ \A r \in Rules \ (edited \cup todo) : loaded[r] = source[r]
  /\ pc = "convert" =>
       /\ todo \subseteq Files(loaded, Rules)
       /\ widened \cap todo = {}
       /\ \A r \in Files(loaded, Rules) : Refs[r] \subseteq Files(loaded, Rules)
       /\ \A r \in Rules \ edited : loaded[r] = source[r]
       /\ Target # "loki" =>
            \A q \in Files(loaded, Rules) \ todo : ~IsCorrelation(q) => cache[q] = Format[Target]

(* What the build has of an untouched rule is what the sources call for,   *)
(* for the targets it has dealt with, and nothing for the others.          *)
Entries(r) ==
  {Entry(TargetOrder[i], r) :
     i \in {j \in 1..4 : Passed(j, r) /\ <<TargetOrder[j], r>> \in Emitted(source)}}
ProgressOf(r) ==
  Untouched(r) =>
    /\ \A i \in 1..4 : bundle[<<TargetOrder[i], r>>] =
         IF Passed(i, r) THEN Wanted(source)[<<TargetOrder[i], r>>] ELSE Absent
    /\ \A i \in 1..4 : <<TargetOrder[i], r>> \in unsupported <=>
         Passed(i, r) /\ source[r] # Gone /\ <<TargetOrder[i], r>> \notin Emitted(source)
    /\ {e \in manifest : e.source = r} = Entries(r)
Progress == \A r \in Rules : ProgressOf(r)

(* The native rules and the manifest complete the bundle.                  *)
Completed ==
  /\ \A e \in manifest : e.source \in Rules \/ (Built /\ e.source \in NativeRules)
  /\ Built =>
       /\ bundle[Manifest] = [artifacts |-> manifest, unsupported |-> unsupported]
       /\ edited = {} =>
            /\ bundle[Ruleset] = [n \in Files(source, NativeRules) |-> source[n]]
            /\ {e \in manifest : e.source \in NativeRules} =
                 {NativeEntry(n) : n \in Files(source, NativeRules)}

(* What write_bundle is through with is in place.                          *)
Writing ==
  /\ unwritten # {} => pc = "write"
  /\ pc = "write" => \A p \in Paths \ unwritten : bundle[p] # Absent => tree[p] = bundle[p]

IInv ==
  Typed /\ Reset /\ Loading /\ Progress /\ Completed /\ Writing
  /\ UpToDateMeansCurrent /\ RerunRepairs

-----------------------------------------------------------------------------
(* The targets and the paths of the bundle.                                *)
LEMMA TargetFacts ==
  /\ Targets = {"loki", "splunk", "sentinel", "opensearch"}
  /\ \A i \in 1..4 : TargetOrder[i] \in Targets
  /\ \A i, j \in 1..4 : TargetOrder[i] = TargetOrder[j] => i = j
  /\ \A t \in Targets : \E i \in 1..4 : t = TargetOrder[i]
<1>1. /\ TargetOrder[1] = "loki" /\ TargetOrder[2] = "splunk"
      /\ TargetOrder[3] = "sentinel" /\ TargetOrder[4] = "opensearch"
  BY DEF TargetOrder
<1>2. 1..4 = {1, 2, 3, 4}
  OBVIOUS
<1> QED
  BY <1>1, <1>2 DEF Targets

LEMMA PathFacts ==
  /\ Ruleset \in Paths /\ Manifest \in Paths /\ Ruleset # Manifest
  /\ \A t \in Targets, r \in Rules : <<t, r>> \in Paths \ {Ruleset, Manifest}
  /\ \A p \in Paths : p = Ruleset \/ p = Manifest \/ \E t \in Targets, r \in Rules : p = <<t, r>>
BY TargetFacts DEF Paths, Ruleset, Manifest

(* What the sources call for, path by path.                                *)
LEMMA EmittedFacts ==
  ASSUME NEW s, NEW t \in Targets, NEW r \in Rules
  PROVE  <<t, r>> \in Emitted(s) <=> s[r] # Gone /\ (~IsCorrelation(r) \/ t \in Correlating)
BY DEF Emitted, Files

LEMMA WantedArtifactFacts ==
  ASSUME NEW s, NEW t \in Targets, NEW r \in Rules
  PROVE  Wanted(s)[<<t, r>>] = IF <<t, r>> \in Emitted(s) THEN WantedArtifact(s, t, r) ELSE Absent
BY PathFacts DEF Wanted

(* The manifest's entries, in the revision the sources have.               *)
ManifestOf(s) ==
  {[source |-> p2[2], revision |-> s[p2[2]], artifact |-> p2] : p2 \in Emitted(s)}
    \cup {[source |-> n, revision |-> s[n], artifact |-> Ruleset] : n \in Files(s, NativeRules)}

LEMMA WantedFacts ==
  ASSUME NEW s
  PROVE  /\ OnPaths(Wanted(s))
         /\ Wanted(s)[Ruleset] = [n \in Files(s, NativeRules) |-> s[n]]
         /\ Wanted(s)[Manifest] =
              [artifacts |-> ManifestOf(s),
               unsupported |-> (Targets \X Files(s, Rules)) \ Emitted(s)]
BY PathFacts DEF Wanted, OnPaths, ManifestOf

(* Functions on the paths.                                                 *)
LEMMA OnPathsFacts ==
  /\ OnPaths(Empty)
  /\ \A f, v : \A p \in Paths : OnPaths(f) =>
       /\ OnPaths([f EXCEPT ![p] = v])
       /\ [f EXCEPT ![p] = v][p] = v
       /\ \A q \in Paths \ {p} : [f EXCEPT ![p] = v][q] = f[q]
  /\ \A f : OnPaths(f) => DOMAIN f = Paths
  /\ \A f, g : OnPaths(f) /\ OnPaths(g) /\ (\A p \in Paths : f[p] = g[p]) => f = g
<1>1. OnPaths(Empty)
  BY DEF OnPaths, Empty
<1>2. ASSUME NEW f, NEW v, NEW p \in Paths, OnPaths(f)
      PROVE  /\ OnPaths([f EXCEPT ![p] = v])
             /\ [f EXCEPT ![p] = v][p] = v
             /\ \A q \in Paths \ {p} : [f EXCEPT ![p] = v][q] = f[q]
  BY <1>2 DEF OnPaths
<1>3. ASSUME NEW f, OnPaths(f) PROVE DOMAIN f = Paths
  BY <1>3 DEF OnPaths
<1>4. ASSUME NEW f, NEW g, OnPaths(f), OnPaths(g), \A p \in Paths : f[p] = g[p] PROVE f = g
  BY <1>4 DEF OnPaths
<1> QED
  BY <1>1, <1>2, <1>3, <1>4

(* What the sources call for of a rule depends on it and its references.   *)
LEMMA WantedLocal ==
  ASSUME NEW s, NEW z, NEW t \in Targets, NEW r \in Rules,
         \A q \in Refs[r] \cup {r} : s[q] = z[q]
  PROVE  /\ <<t, r>> \in Emitted(s) <=> <<t, r>> \in Emitted(z)
         /\ Wanted(s)[<<t, r>>] = Wanted(z)[<<t, r>>]
<1>1. <<t, r>> \in Emitted(s) <=> <<t, r>> \in Emitted(z)
  BY EmittedFacts
<1>2. WantedArtifact(s, t, r) = WantedArtifact(z, t, r)
  BY DEF WantedArtifact
<1> QED
  BY <1>1, <1>2, WantedArtifactFacts

-----------------------------------------------------------------------------
(* Each part of the invariant is kept by every step.                       *)
LEMMA TypedNext ==
  ASSUME Typed, Loading, Writing, Next
  PROVE  Typed'
<1>0. TypeOK /\ OnPaths(bundle) /\ OnPaths(tree) /\ target \in 1..4 /\ edits \in Nat
  <2>1. TypeOK /\ OnPaths(bundle) /\ OnPaths(tree)
    BY DEF Typed
  <2>2. target \in 1..4 /\ edits \in 0..MaxEdits
    BY <2>1 DEF TypeOK
  <2> QED
    BY <2>1, <2>2, MaxEditsAssumption
<1>1. ASSUME NEW r \in Rules \cup NativeRules, Edit(r) PROVE Typed'
  <2>1. PICK revision \in {Gone, edits + 2} : source' = [source EXCEPT ![r] = revision]
    BY <1>1 DEF Edit
  <2>2. revision \in Nat
    BY <1>0, <2>1 DEF Gone
  <2>3. source' \in [Rules \cup NativeRules -> Nat]
    BY <1>0, <2>1, <2>2 DEF TypeOK
  <2>4. edits < MaxEdits /\ edits' = edits + 1
    BY <1>1 DEF Edit
  <2>5. edits' \in 0..MaxEdits
    BY <1>0, <2>4, MaxEditsAssumption
  <2>6. edited' \subseteq Rules \cup NativeRules
    BY <1>0, <1>1 DEF Edit, TypeOK
  <2>7. UNCHANGED <<pc, mode, memory, tree, outcome>>
    BY <1>1 DEF Edit
  <2> QED
    BY <1>0, <2>3, <2>5, <2>6, <2>7 DEF Typed, TypeOK, memory
<1>2. ASSUME NEW m \in {"write", "check"}, Start(m) PROVE Typed'
  BY <1>0, <1>2 DEF Start, Typed, TypeOK, memory
<1>3. CASE List
  BY <1>0, <1>3 DEF List, Files, Gone, Typed, TypeOK
<1>4. CASE Resolve
  BY <1>0, <1>4 DEF Resolve, Files, Typed, TypeOK
<1>5. CASE EndTarget
  <2>1. target' \in 1..4
    BY <1>0, <1>5 DEF EndTarget
  <2>2. pc' \in {"list", "native"} /\ pc = "convert"
    BY <1>5 DEF EndTarget
  <2>3. UNCHANGED <<source, edits, edited, mode, todo, loaded, cache, widened, bundle, manifest,
                    unsupported, unwritten, tree, outcome>>
    BY <1>5 DEF EndTarget
  <2> QED
    BY <1>0, <2>1, <2>2, <2>3 DEF Typed, TypeOK
<1>6. CASE Native
  <2>1. OnPaths(bundle') /\ DOMAIN bundle' = Paths
    BY <1>0, <1>6, OnPathsFacts, PathFacts DEF Native
  <2>2. \A p \in unwritten' : p \in Paths /\ bundle'[p] # Absent
    BY <1>6 DEF Native
  <2>3. pc' = mode
    BY <1>6 DEF Native
  <2>4. UNCHANGED <<source, edits, edited, mode, target, todo, loaded, cache, widened, unsupported,
                    tree, outcome>>
    BY <1>6 DEF Native
  <2>5. \A r \in Rules : cache[r] # "none" => loaded[r] # Gone
    BY <1>0, <1>6 DEF Native, TypeOK
  <2> QED
    BY <1>0, <2>1, <2>2, <2>3, <2>4, <2>5 DEF Typed, TypeOK
<1>7. ASSUME Exit(outcome'), outcome' \in {"written", "up to date", "out of date", "failed", "crashed"},
             UNCHANGED <<source, edits, edited, mode>>, OnPaths(tree')
      PROVE  Typed'
  <2>1. /\ loaded' = [r \in Rules |-> 0] /\ cache' = [r \in Rules |-> "none"]
        /\ todo' = {} /\ widened' = {} /\ unsupported' = {} /\ unwritten' = {}
        /\ target' = 1 /\ pc' = "idle" /\ bundle' = Empty
    BY <1>7 DEF Exit, Gone
  <2>2. OnPaths(bundle') /\ DOMAIN bundle' = Paths /\ DOMAIN tree' = Paths
    BY <1>7, <2>1, OnPathsFacts
  <2>3. target' \in 1..4
    BY <2>1
  <2> QED
    BY <1>0, <1>7, <2>1, <2>2, <2>3 DEF Typed, TypeOK
<1>8. CASE Fail \/ Check
  <2>1. tree' = tree /\ UNCHANGED <<source, edits, edited, mode>>
    BY <1>8 DEF Fail, Check
  <2>2. Exit(outcome') /\ outcome' \in {"written", "up to date", "out of date", "failed", "crashed"}
    BY <1>8 DEF Fail, Check, Exit
  <2> QED
    BY <1>0, <1>7, <2>1, <2>2
<1>9. CASE Crash
  <2>1. Exit(outcome') /\ outcome' = "crashed" /\ UNCHANGED <<source, edits, edited, mode>>
    BY <1>9 DEF Crash, Exit
  <2>2. OnPaths(tree')
    BY <1>0, <1>9, OnPathsFacts DEF Crash
  <2> QED
    BY <1>7, <2>1, <2>2
<1>10. ASSUME NEW r \in Rules, Read(r) PROVE Typed'
  BY <1>0, <1>10 DEF Read, Gone, Typed, TypeOK
<1>11. ASSUME NEW r \in Rules, Convert(r) PROVE Typed'
  <2>1. /\ todo' \subseteq Rules /\ pc = "convert" /\ unwritten = {}
        /\ UNCHANGED <<source, edits, edited, pc, mode, target, loaded, unwritten, tree, outcome>>
        /\ loaded[r] # Gone /\ \A q \in Refs[r] : loaded[q] # Gone
    BY <1>0, <1>11 DEF Convert, Loading, Writing, Files, TypeOK
  <2>2. Target \in Targets /\ <<Target, r>> \in Paths
    BY <1>0, TargetFacts, PathFacts DEF Target
  <2>3. CASE Record(r)
    <3>1. unsupported' \subseteq Targets \X Rules /\ UNCHANGED <<bundle, manifest, cache, widened>>
      <4>1. <<Target, r>> \in Targets \X Rules /\ unsupported \subseteq Targets \X Rules
        BY <1>0, <2>2 DEF TypeOK
      <4> QED
        BY <2>3, <4>1 DEF Record
    <3> QED
      BY <1>0, <2>1, <3>1 DEF Typed, TypeOK
  <2>4. CASE Emit(r)
    <3>1. Format[Target] \in {"ruler", "savedsearches", "query"}
      <4>1. Target \in {"loki", "splunk", "sentinel", "opensearch"}
        BY <2>2, TargetFacts
      <4> HIDE DEF Target
      <4> QED
        BY <4>1 DEF Format
    <3>2. Requeried(r) \in [Rules -> {"none", "ruler", "savedsearches", "query"}]
      BY <1>0 DEF Requeried, TypeOK
    <3>3. \A q \in Rules : Requeried(r)[q] # "none" => loaded[q] # Gone
      BY <1>0, <2>1 DEF Requeried, TypeOK
    <3>4. /\ cache' \in [Rules -> {"none", "ruler", "savedsearches", "query"}]
          /\ \A q \in Rules : cache'[q] # "none" => loaded[q] # Gone
      BY <2>1, <2>4, <3>1, <3>2, <3>3 DEF Emit
    <3>5. widened' \subseteq Rules /\ unsupported' = unsupported
      BY <1>0, <2>4 DEF Emit, TypeOK
    <3>6. OnPaths(bundle') /\ DOMAIN bundle' = Paths
      BY <1>0, <2>2, <2>4, OnPathsFacts DEF Emit
    <3> QED
      BY <1>0, <2>1, <3>4, <3>5, <3>6 DEF Typed, TypeOK
  <2> QED
    BY <1>11, <2>3, <2>4 DEF Convert
<1>12. ASSUME NEW p \in Paths, WriteFile(p) PROVE Typed'
  <2>1. OnPaths(tree') /\ DOMAIN tree' = Paths /\ UNCHANGED <<source, edits, edited, mode>>
    BY <1>0, <1>12, OnPathsFacts DEF WriteFile
  <2>2. CASE Exit("written")
    BY <1>7, <2>1, <2>2 DEF Exit
  <2>3. CASE /\ unwritten' = unwritten \ {p}
             /\ UNCHANGED <<pc, outcome, target, todo, loaded, cache, widened, bundle, manifest,
                            unsupported>>
    BY <1>0, <2>1, <2>3 DEF Typed, TypeOK
  <2> QED
    BY <1>12, <2>2, <2>3 DEF WriteFile
<1> QED
  BY <1>1, <1>2, <1>3, <1>4, <1>5, <1>6, <1>8, <1>9, <1>10, <1>11, <1>12 DEF Next

LEMMA ResetNext ==
  ASSUME Typed, Reset, Next
  PROVE  Reset'
<1> USE DEF Typed, TypeOK, Reset, memory
<1>1. ASSUME NEW r \in Rules \cup NativeRules, Edit(r) PROVE Reset'
  BY <1>1 DEF Edit, Empty
<1>2. ASSUME NEW m \in {"write", "check"}, Start(m) PROVE Reset'
  BY <1>2 DEF Start
<1>3. CASE List \/ Resolve \/ EndTarget \/ Native
  BY <1>3 DEF List, Resolve, EndTarget, Native
<1>4. ASSUME NEW r \in Rules, Read(r) \/ Convert(r) PROVE Reset'
  BY <1>4 DEF Read, Convert
<1>5. CASE Fail \/ Crash \/ Check
  BY <1>5 DEF Fail, Crash, Check, Exit, Empty
<1>6. ASSUME NEW p \in Paths, WriteFile(p) PROVE Reset'
  BY <1>6 DEF WriteFile, Exit, Empty
<1> QED
  BY <1>1, <1>2, <1>3, <1>4, <1>5, <1>6 DEF Next

LEMMA LoadingNext ==
  ASSUME Typed, Loading, Next
  PROVE  Loading'
<1>0. TypeOK /\ target \in 1..4
  BY DEF Typed, TypeOK
<1>1. ASSUME NEW r \in Rules \cup NativeRules, Edit(r) PROVE Loading'
  <2>1. UNCHANGED <<pc, loaded, todo, cache, widened, target>> /\ edited' = edited \cup {r}
    BY <1>1 DEF Edit, memory
  <2>2. \A q \in Rules \ edited' : source'[q] = source[q]
    BY <1>0, <1>1 DEF Edit, TypeOK
  <2> QED
    BY <2>1, <2>2 DEF Loading, Files, Target
<1>2. ASSUME NEW m \in {"write", "check"}, Start(m) PROVE Loading'
  BY <1>2 DEF Start, Loading
<1>3. CASE List
  <2>1. pc' = "read" /\ widened' = {} /\ cache' = [r \in Rules |-> "none"]
    BY <1>3 DEF List
  <2>2. \A r \in Rules \ (edited' \cup todo') : loaded'[r] = source'[r]
    BY <1>3 DEF List, Files
  <2> QED
    BY <2>1, <2>2 DEF Loading
<1>4. ASSUME NEW r \in Rules, Read(r) PROVE Loading'
  BY <1>0, <1>4 DEF Read, Loading, TypeOK
<1>5. CASE Resolve
  <2>1. \A r \in Rules \ edited : loaded[r] = source[r]
    BY <1>5 DEF Resolve, Loading
  <2>2. widened = {} /\ todo' = Files(loaded, Rules) /\ pc' = "convert"
    BY <1>5 DEF Resolve, Loading
  <2>3. UNCHANGED <<source, edited, loaded, cache, widened>>
    BY <1>5 DEF Resolve
  <2>4. \A r \in Files(loaded, Rules) : Refs[r] \subseteq Files(loaded, Rules)
    BY <1>5 DEF Resolve
  <2> QED
    BY <2>1, <2>2, <2>3, <2>4 DEF Loading, Files
<1>6. ASSUME NEW r \in Rules, Convert(r) PROVE Loading'
  <2>1. /\ pc = "convert" /\ r \in todo /\ todo' = todo \ {r}
        /\ UNCHANGED <<source, edited, pc, target, loaded>> /\ Target' = Target
    BY <1>6 DEF Convert, Target
  <2>2. widened' \cap todo' = {}
    BY <1>6, <2>1 DEF Convert, Record, Emit, Loading
  <2>3. ASSUME Target # "loki", NEW q \in Files(loaded, Rules) \ todo', ~IsCorrelation(q)
        PROVE  cache'[q] = Format[Target]
    <3>1. CASE q = r
      <4>1. cache' = [cache EXCEPT ![r] = Format[Target]]
        BY <1>6, <2>3, <3>1 DEF Convert, Emit, Requeried
      <4> QED
        BY <1>0, <3>1, <4>1 DEF TypeOK
    <3>2. CASE q # r
      <4>1. cache[q] = Format[Target]
        BY <2>1, <2>3, <3>2 DEF Loading
      <4>2. cache'[q] = cache[q]
        <5>1. CASE Record(r)
          BY <5>1 DEF Record
        <5>2. CASE Emit(r)
          <6>1. Requeried(r) = cache /\ q \in DOMAIN cache
            BY <1>0, <2>3 DEF Requeried, Files, TypeOK
          <6> QED
            BY <3>2, <5>2, <6>1 DEF Emit
        <5> QED
          BY <1>6, <5>1, <5>2 DEF Convert
      <4> QED
        BY <4>1, <4>2
    <3> QED
      BY <3>1, <3>2
  <2> QED
    BY <2>1, <2>2, <2>3 DEF Loading, Files
<1>7. ASSUME NEW p \in Paths, EndTarget \/ Native \/ Fail \/ WriteFile(p) \/ Crash \/ Check
      PROVE  pc' \notin {"read", "convert"}
  BY <1>0, <1>7 DEF EndTarget, Native, Fail, WriteFile, Crash, Check, Exit, TypeOK
<1>8. ASSUME pc' \notin {"read", "convert"} PROVE Loading'
  BY <1>8 DEF Loading
<1> QED
  BY <1>1, <1>2, <1>3, <1>4, <1>5, <1>6, <1>7, <1>8, PathFacts DEF Next

LEMMA CompletedNext ==
  ASSUME Typed, Reset, Completed, Next
  PROVE  Completed'
<1>0. TypeOK /\ OnPaths(bundle)
  BY DEF Typed
<1>1. ASSUME NEW r \in Rules \cup NativeRules, Edit(r) PROVE Completed'
  <2>1. UNCHANGED <<pc, manifest, bundle, unsupported>> /\ edited' # {}
    BY <1>1 DEF Edit, memory
  <2> QED
    BY <2>1 DEF Completed, Built
<1>2. ASSUME NEW m \in {"write", "check"}, Start(m) PROVE Completed'
  BY <1>2 DEF Start, Completed, Built, memory
<1>3. ASSUME List \/ Resolve \/ EndTarget \/ \E r \in Rules : Read(r)
      PROVE  Completed'
  <2>1. manifest' = manifest /\ pc \notin {"write", "check"} /\ pc' \notin {"write", "check"}
    BY <1>3 DEF List, Resolve, EndTarget, Read
  <2> QED
    BY <2>1 DEF Completed, Built
<1>4. ASSUME NEW r \in Rules, Convert(r) PROVE Completed'
  <2>1. pc = "convert" /\ pc' = "convert"
    BY <1>4 DEF Convert
  <2>2. \A e \in manifest' : e \in manifest \/ e.source = r
    BY <1>4 DEF Convert, Emit, Record
  <2> QED
    BY <2>1, <2>2 DEF Completed, Built
<1>5. CASE Native
  <2> DEFINE entries == {NativeEntry(n) : n \in Files(source, NativeRules)}
  <2>1. /\ pc = "native" /\ pc' = mode /\ pc' \in {"write", "check"}
        /\ UNCHANGED <<source, edited, unsupported>>
    BY <1>0, <1>5 DEF Native, TypeOK
  <2>2. manifest' = manifest \cup entries
    BY <1>5 DEF Native, NativeEntry
  <2>3. bundle' = [bundle EXCEPT ![Ruleset] = [n \in Files(source, NativeRules) |-> source[n]],
                                 ![Manifest] = [artifacts |-> manifest', unsupported |-> unsupported]]
    BY <1>5 DEF Native
  <2>4. /\ bundle'[Ruleset] = [n \in Files(source, NativeRules) |-> source[n]]
        /\ bundle'[Manifest] = [artifacts |-> manifest', unsupported |-> unsupported]
    BY <1>0, <2>3, PathFacts DEF TypeOK
  <2>5. /\ \A e \in manifest : e.source \in Rules
        /\ \A e \in entries : e.source \in NativeRules
    BY <2>1 DEF Completed, Built, NativeEntry, Files
  <2>6. {e \in manifest' : e.source \in NativeRules} = entries
    BY <2>2, <2>5, NativeAssumption
  <2>7. {NativeEntry(n) : n \in Files(source, NativeRules)}' = entries
    BY <2>1 DEF NativeEntry
  <2> QED
    BY <2>1, <2>2, <2>4, <2>5, <2>6, <2>7 DEF Completed, Built
<1>6. ASSUME Exit(outcome') PROVE Completed'
  BY <1>6 DEF Exit, Completed, Built
<1>7. CASE Fail \/ Crash \/ Check
  BY <1>6, <1>7 DEF Fail, Crash, Check, Exit
<1>8. ASSUME NEW p \in Paths, WriteFile(p) PROVE Completed'
  <2>1. CASE Exit("written")
    BY <1>6, <2>1 DEF Exit
  <2>2. CASE UNCHANGED <<pc, manifest, bundle, unsupported>>
    BY <1>8, <2>2 DEF WriteFile, Completed, Built, NativeEntry
  <2> QED
    BY <1>8, <2>1, <2>2 DEF WriteFile
<1> QED
  BY <1>1, <1>2, <1>3, <1>4, <1>5, <1>6, <1>7, <1>8 DEF Next

LEMMA WritingNext ==
  ASSUME Typed, Writing, Next
  PROVE  Writing'
<1>0. TypeOK /\ OnPaths(tree) /\ DOMAIN tree = Paths
  BY DEF Typed, TypeOK
<1>1. ASSUME \/ \E r \in Rules \cup NativeRules : Edit(r)
             \/ \E m \in {"write", "check"} : Start(m)
             \/ \E r \in Rules : Read(r) \/ Convert(r)
             \/ List \/ Resolve \/ EndTarget
      PROVE  Writing'
  BY <1>1 DEF Edit, Start, List, Resolve, EndTarget, Read, Convert, Writing, memory
<1>2. CASE Native
  BY <1>0, <1>2 DEF Native, Writing, TypeOK
<1>3. CASE Fail \/ Crash \/ Check
  BY <1>3 DEF Fail, Crash, Check, Exit, Writing
<1>4. ASSUME NEW p \in Paths, WriteFile(p) PROVE Writing'
  BY <1>0, <1>4 DEF WriteFile, Exit, Writing
<1> QED
  BY <1>1, <1>2, <1>3, <1>4 DEF Next

-----------------------------------------------------------------------------
(* A step that leaves a rule, and what the build has of it, alone.         *)
LEMMA ProgressKept ==
  ASSUME NEW r \in Rules, ProgressOf(r), edited \subseteq edited',
         \A q \in Rules \ edited' : source'[q] = source[q],
         \A i \in 1..4 : Passed(i, r)' <=> Passed(i, r),
         \A t \in Targets : /\ bundle'[<<t, r>>] = bundle[<<t, r>>]
                            /\ <<t, r>> \in unsupported' <=> <<t, r>> \in unsupported,
         \A e : e.source = r => (e \in manifest' <=> e \in manifest)
  PROVE  ProgressOf(r)'
<1> SUFFICES ASSUME Untouched(r)'
             PROVE  /\ \A i \in 1..4 : bundle'[<<TargetOrder[i], r>>] =
                         IF Passed(i, r)' THEN Wanted(source')[<<TargetOrder[i], r>>] ELSE Absent
                    /\ \A i \in 1..4 : <<TargetOrder[i], r>> \in unsupported' <=>
                         /\ Passed(i, r)' /\ source'[r] # Gone
                         /\ <<TargetOrder[i], r>> \notin Emitted(source')
                    /\ {e \in manifest' : e.source = r} = Entries(r)'
  BY DEF ProgressOf
<1>1. Untouched(r) /\ \A q \in Refs[r] \cup {r} : q \in Rules /\ source'[q] = source[q]
  BY RefsAssumption DEF Untouched
<1>2. \A i \in 1..4 :
        /\ <<TargetOrder[i], r>> \in Emitted(source') <=> <<TargetOrder[i], r>> \in Emitted(source)
        /\ Wanted(source')[<<TargetOrder[i], r>>] = Wanted(source)[<<TargetOrder[i], r>>]
  BY <1>1, TargetFacts, WantedLocal
<1>3. source'[r] = source[r]
  BY <1>1
<1>4. Entries(r)' = Entries(r)
  BY <1>2, <1>3 DEF Entries, Entry
<1>5. {e \in manifest' : e.source = r} = {e \in manifest : e.source = r}
  OBVIOUS
<1>6. \A i \in 1..4 : TargetOrder[i] \in Targets
  BY TargetFacts
<1> QED
  BY <1>1, <1>2, <1>3, <1>4, <1>5, <1>6 DEF ProgressOf

(* The rule whose turn it is.                                              *)
LEMMA ProgressConverted ==
  ASSUME Typed, Loading, NEW r \in Rules, ProgressOf(r), Convert(r)
  PROVE  ProgressOf(r)'
<1>0. TypeOK /\ OnPaths(bundle) /\ target \in 1..4 /\ DOMAIN bundle = Paths
  BY DEF Typed, TypeOK
<1>1. /\ pc = "convert" /\ r \in todo /\ todo' = todo \ {r} /\ Refs[r] \cap todo = {}
      /\ UNCHANGED <<source, edited, pc, target, loaded>>
  BY <1>0 DEF Convert
<1> SUFFICES ASSUME Untouched(r)
             PROVE  /\ \A i \in 1..4 : bundle'[<<TargetOrder[i], r>>] =
                         IF Passed(i, r)' THEN Wanted(source)[<<TargetOrder[i], r>>] ELSE Absent
                    /\ \A i \in 1..4 : <<TargetOrder[i], r>> \in unsupported' <=>
                         /\ Passed(i, r)' /\ source[r] # Gone
                         /\ <<TargetOrder[i], r>> \notin Emitted(source)
                    /\ {e \in manifest' : e.source = r} = Entries(r)'
  BY <1>1 DEF ProgressOf, Untouched
<1>2. /\ \A i \in 1..4 : i = target => ~Passed(i, r) /\ Passed(i, r)'
      /\ \A i \in 1..4 \ {target} : Passed(i, r)' <=> Passed(i, r)
  BY <1>0, <1>1 DEF Passed
<1>3. \A q \in Refs[r] \cup {r} : q \in Rules /\ loaded[q] = source[q] /\ loaded[q] # Gone
  BY <1>1, RefsAssumption DEF Loading, Files, Untouched
<1>4. /\ Target \in Targets /\ Target = TargetOrder[target]
      /\ \A i \in 1..4 \ {target} : TargetOrder[i] # Target
  BY <1>0, TargetFacts DEF Target
<1>5. <<Target, r>> \in Emitted(source) <=> ~(IsCorrelation(r) /\ Target \notin Correlating)
  BY <1>3, <1>4, EmittedFacts
<1>6. /\ bundle[<<Target, r>>] = Absent /\ <<Target, r>> \notin unsupported
      /\ {e \in manifest : e.source = r} = Entries(r)
  BY <1>0, <1>2, <1>4 DEF ProgressOf
<1>7. Wanted(source)[<<Target, r>>] =
        IF <<Target, r>> \in Emitted(source) THEN WantedArtifact(source, Target, r) ELSE Absent
  BY <1>4, WantedArtifactFacts
<1>8. CASE Record(r) /\ IsCorrelation(r) /\ Target \notin Correlating
  <2>1. unsupported' = unsupported \cup {<<Target, r>>} /\ bundle' = bundle /\ manifest' = manifest
    BY <1>8 DEF Record
  <2>2. Wanted(source)[<<Target, r>>] = Absent /\ <<Target, r>> \notin Emitted(source)
    BY <1>5, <1>7, <1>8
  <2>3. Entries(r)' = Entries(r)
    BY <1>1, <1>2, <1>4, <2>2 DEF Entries, Entry
  <2>4. ASSUME NEW i \in 1..4
        PROVE  /\ bundle'[<<TargetOrder[i], r>>] =
                    IF Passed(i, r)' THEN Wanted(source)[<<TargetOrder[i], r>>] ELSE Absent
               /\ <<TargetOrder[i], r>> \in unsupported' <=>
                    /\ Passed(i, r)' /\ source[r] # Gone
                    /\ <<TargetOrder[i], r>> \notin Emitted(source)
    <3>1. CASE i = target
      BY <1>2, <1>3, <1>4, <1>6, <2>1, <2>2, <3>1
    <3>2. CASE i # target
      BY <1>2, <1>4, <2>1, <3>2 DEF ProgressOf
    <3> QED
      BY <3>1, <3>2
  <2> QED
    BY <1>6, <2>1, <2>3, <2>4
<1>9. CASE Emit(r) /\ ~(IsCorrelation(r) /\ Target \notin Correlating)
  <2>1. /\ bundle' = [bundle EXCEPT ![<<Target, r>>] = Artifact(r)]
        /\ manifest' = manifest \cup {Entry(Target, r)}
        /\ unsupported' = unsupported
    BY <1>9 DEF Emit, Entry
  <2>2. /\ <<Target, r>> \in Emitted(source)
        /\ Wanted(source)[<<Target, r>>] = WantedArtifact(source, Target, r)
    BY <1>5, <1>7, <1>9
  <2>3. Artifact(r) = WantedArtifact(source, Target, r)
    <3>1. (r \in widened) = FALSE
      BY <1>1 DEF Loading
    <3>2. ASSUME NEW q \in Refs[r]
          PROVE  Requeried(r)[q] = IF Target = "loki" THEN "query" ELSE Format[Target]
      <4>1. CASE Target = "loki"
        BY <1>3, <4>1 DEF Requeried
      <4>2. CASE Target # "loki"
        <5>1. q \in Files(loaded, Rules) \ todo /\ ~IsCorrelation(q)
          BY <1>1, <1>3, RefsAssumption DEF Files, IsCorrelation
        <5>2. cache[q] = Format[Target]
          BY <1>1, <4>2, <5>1 DEF Loading
        <5> QED
          BY <4>2, <5>2 DEF Requeried
      <4> QED
        BY <4>1, <4>2
    <3>3. [q \in Refs[r] |-> [revision |-> loaded[q], format |-> Requeried(r)[q]]] =
          [q \in Refs[r] |-> [revision |-> source[q],
                              format |-> IF Target = "loki" THEN "query" ELSE Format[Target]]]
      BY <1>3, <3>2
    <3>4. loaded[r] = source[r]
      BY <1>3
    <3> QED
      BY <3>1, <3>3, <3>4 DEF Artifact, WantedArtifact
  <2>4. /\ bundle'[<<Target, r>>] = Artifact(r)
        /\ \A i \in 1..4 \ {target} : bundle'[<<TargetOrder[i], r>>] = bundle[<<TargetOrder[i], r>>]
    <3>1. <<Target, r>> \in Paths /\ \A i \in 1..4 \ {target} :
            <<TargetOrder[i], r>> \in Paths /\ <<TargetOrder[i], r>> # <<Target, r>>
      BY <1>4, TargetFacts, PathFacts
    <3> QED
      BY <1>0, <2>1, <3>1
  <2>5. Entries(r)' = Entries(r) \cup {Entry(Target, r)}
    BY <1>0, <1>1, <1>2, <1>4, <2>2 DEF Entries, Entry
  <2>6. {e \in manifest' : e.source = r} = Entries(r)'
    BY <1>6, <2>1, <2>5 DEF Entry
  <2>7. ASSUME NEW i \in 1..4
        PROVE  /\ bundle'[<<TargetOrder[i], r>>] =
                    IF Passed(i, r)' THEN Wanted(source)[<<TargetOrder[i], r>>] ELSE Absent
               /\ <<TargetOrder[i], r>> \in unsupported' <=>
                    /\ Passed(i, r)' /\ source[r] # Gone
                    /\ <<TargetOrder[i], r>> \notin Emitted(source)
    <3>1. CASE i = target
      BY <1>2, <1>4, <1>6, <2>1, <2>2, <2>3, <2>4, <3>1
    <3>2. CASE i # target
      BY <1>2, <1>4, <2>1, <2>4, <3>2 DEF ProgressOf
    <3> QED
      BY <3>1, <3>2
  <2> QED
    BY <2>6, <2>7
<1> QED
  BY <1>8, <1>9 DEF Convert

LEMMA ProgressNext ==
  ASSUME Typed, Reset, Loading, Progress, Next
  PROVE  Progress'
<1>0. TypeOK /\ OnPaths(bundle) /\ target \in 1..4 /\ DOMAIN bundle = Paths
  BY DEF Typed, TypeOK
<1>1. ASSUME NEW f \in Rules \cup NativeRules, Edit(f) PROVE Progress'
  <2>1. UNCHANGED <<pc, target, todo, manifest, bundle, unsupported>> /\ edited' = edited \cup {f}
    BY <1>1 DEF Edit, memory
  <2>2. \A q \in Rules \ edited' : source'[q] = source[q]
    BY <1>0, <1>1 DEF Edit, TypeOK
  <2>3. \A i \in 1..4, r \in Rules : Passed(i, r)' <=> Passed(i, r)
    BY <2>1 DEF Passed
  <2> QED
    BY <2>1, <2>2, <2>3, ProgressKept DEF Progress
<1>2. ASSUME bundle' = Empty, manifest' = {}, unsupported' = {},
             target' = 1, pc' \in {"idle", "list"}
      PROVE  Progress'
  <2>1. \A i \in 1..4, r \in Rules : ~Passed(i, r)'
    BY <1>2 DEF Passed
  <2>2. \A i \in 1..4, r \in Rules : bundle'[<<TargetOrder[i], r>>] = Absent
    BY <1>2, TargetFacts, PathFacts DEF Empty
  <2>3. \A r \in Rules : Entries(r)' = {}
    BY <2>1 DEF Entries
  <2> QED
    BY <1>2, <2>1, <2>2, <2>3 DEF Progress, ProgressOf
<1>3. ASSUME NEW m \in {"write", "check"}, Start(m) PROVE Progress'
  <2>1. pc = "idle" /\ pc' = "list" /\ UNCHANGED memory
    BY <1>3 DEF Start
  <2> QED
    BY <1>2, <2>1 DEF Reset, memory
<1>4. ASSUME Exit(outcome') PROVE Progress'
  BY <1>2, <1>4 DEF Exit
<1>5. ASSUME UNCHANGED <<source, edited, bundle, manifest, unsupported>>,
             \A i \in 1..4, r \in Rules : Passed(i, r)' <=> Passed(i, r)
      PROVE  Progress'
  BY <1>5, ProgressKept DEF Progress
<1>6. CASE List \/ \E r \in Rules : Read(r)
  <2>1. \A i \in 1..4, r \in Rules : Passed(i, r)' <=> Passed(i, r)
    BY <1>6 DEF List, Read, Passed
  <2> QED
    BY <1>5, <1>6, <2>1 DEF List, Read
<1>7. CASE Resolve
  <2>1. /\ UNCHANGED <<source, edited, bundle, manifest, unsupported, target, loaded>>
        /\ pc = "read" /\ pc' = "convert" /\ todo' = Files(loaded, Rules)
        /\ \A r \in Rules \ edited : loaded[r] = source[r]
    BY <1>7 DEF Resolve, Loading
  <2> SUFFICES ASSUME NEW r \in Rules PROVE ProgressOf(r)'
    BY DEF Progress
  <2>2. CASE r \in todo'
    <3>1. \A i \in 1..4 : Passed(i, r)' <=> Passed(i, r)
      BY <2>1, <2>2 DEF Passed
    <3> QED
      BY <2>1, <3>1, ProgressKept DEF Progress
  <2>3. CASE r \notin todo' /\ Untouched(r)
    <3>1. source[r] = Gone
      BY <2>1, <2>3 DEF Files, Untouched
    <3>2. \A i \in 1..4 : /\ <<TargetOrder[i], r>> \notin Emitted(source)
                          /\ Wanted(source)[<<TargetOrder[i], r>>] = Absent
      BY <3>1, TargetFacts, EmittedFacts, WantedArtifactFacts
    <3>3. Entries(r) = {} /\ Entries(r)' = {}
      BY <2>1, <3>2 DEF Entries
    <3> QED
      BY <2>1, <2>3, <3>1, <3>2, <3>3 DEF Progress, ProgressOf
  <2>4. CASE ~Untouched(r)
    BY <2>1, <2>4 DEF ProgressOf, Untouched
  <2> QED
    BY <2>2, <2>3, <2>4
<1>8. ASSUME NEW x \in Rules, Convert(x) PROVE Progress'
  <2> SUFFICES ASSUME NEW r \in Rules PROVE ProgressOf(r)'
    BY DEF Progress
  <2>1. CASE r = x
    BY <1>8, <2>1, ProgressConverted DEF Progress
  <2>2. CASE r # x
    <3>1. /\ UNCHANGED <<source, edited, pc, target>> /\ todo' = todo \ {x}
      BY <1>8 DEF Convert
    <3>2. \A i \in 1..4 : Passed(i, r)' <=> Passed(i, r)
      BY <2>2, <3>1 DEF Passed
    <3>3. ASSUME NEW t \in Targets
          PROVE  /\ bundle'[<<t, r>>] = bundle[<<t, r>>]
                 /\ <<t, r>> \in unsupported' <=> <<t, r>> \in unsupported
      <4>1. <<t, r>> \in Paths /\ <<t, r>> # <<Target, x>>
        BY <2>2, PathFacts
      <4> QED
        BY <1>0, <1>8, <4>1 DEF Convert, Emit, Record
    <3>4. \A e : e.source = r => (e \in manifest' <=> e \in manifest)
      BY <1>8, <2>2 DEF Convert, Emit, Record
    <3> QED
      BY <3>1, <3>2, <3>3, <3>4, ProgressKept DEF Progress
  <2> QED
    BY <2>1, <2>2
<1>9. CASE EndTarget
  <2>1. \A i \in 1..4, r \in Rules : Passed(i, r)' <=> Passed(i, r)
    BY <1>0, <1>9 DEF EndTarget, Passed
  <2> QED
    BY <1>5, <1>9, <2>1 DEF EndTarget
<1>10. CASE Native
  <2>1. /\ pc = "native" /\ pc' \in {"write", "check"} /\ UNCHANGED <<source, edited, unsupported>>
    BY <1>0, <1>10 DEF Native, TypeOK
  <2>2. \A i \in 1..4, r \in Rules : Passed(i, r)' <=> Passed(i, r)
    BY <2>1 DEF Passed
  <2>3. ASSUME NEW r \in Rules, NEW t \in Targets
        PROVE  bundle'[<<t, r>>] = bundle[<<t, r>>]
    BY <1>0, <1>10, PathFacts DEF Native
  <2>4. ASSUME NEW r \in Rules
        PROVE  \A e : e.source = r => (e \in manifest' <=> e \in manifest)
    BY <1>10, NativeAssumption DEF Native, Files
  <2> QED
    BY <2>1, <2>2, <2>3, <2>4, ProgressKept DEF Progress
<1>11. CASE Fail \/ Crash \/ Check
  BY <1>4, <1>11 DEF Fail, Crash, Check, Exit
<1>12. ASSUME NEW p \in Paths, WriteFile(p) PROVE Progress'
  <2>1. CASE Exit("written")
    BY <1>4, <2>1 DEF Exit
  <2>2. CASE UNCHANGED <<pc, target, todo, bundle, manifest, unsupported>>
    <3>1. UNCHANGED <<source, edited>>
      BY <1>12 DEF WriteFile
    <3>2. \A i \in 1..4, r \in Rules : Passed(i, r)' <=> Passed(i, r)
      BY <2>2 DEF Passed
    <3> QED
      BY <1>5, <2>2, <3>1, <3>2
  <2> QED
    BY <1>12, <2>1, <2>2 DEF WriteFile
<1> QED
  BY <1>1, <1>3, <1>6, <1>7, <1>8, <1>9, <1>10, <1>11, <1>12 DEF Next

-----------------------------------------------------------------------------
(* The finished bundle.                                                    *)
LEMMA BuiltEntries ==
  ASSUME Progress, Built, NEW r \in Rules, Untouched(r)
  PROVE  {e \in manifest : e.source = r} = {e \in ManifestOf(source) : e.source = r}
<1>1. {e \in manifest : e.source = r} = Entries(r)
  BY DEF Progress, ProgressOf
<1>2. ASSUME NEW e \in Entries(r) PROVE e \in ManifestOf(source) /\ e.source = r
  <2>1. PICK i \in 1..4 : e = Entry(TargetOrder[i], r) /\ <<TargetOrder[i], r>> \in Emitted(source)
    BY DEF Entries
  <2>2. PICK p \in Emitted(source) : p = <<TargetOrder[i], r>>
    BY <2>1
  <2>3. p[2] = r
    BY <2>2
  <2>4. e = [source |-> p[2], revision |-> source[p[2]], artifact |-> p]
    BY <2>1, <2>2, <2>3 DEF Entry
  <2>5. e \in ManifestOf(source)
    BY <2>4 DEF ManifestOf
  <2> QED
    BY <2>1, <2>5 DEF Entry
<1>3. ASSUME NEW e \in ManifestOf(source), e.source = r PROVE e \in Entries(r)
  <2>1. CASE \E n \in Files(source, NativeRules) : e.source = n
    BY <1>3, <2>1, NativeAssumption DEF Files
  <2>2. CASE \E p \in Emitted(source) : e = [source |-> p[2], revision |-> source[p[2]], artifact |-> p]
    <3>1. PICK p \in Emitted(source) :
            e = [source |-> p[2], revision |-> source[p[2]], artifact |-> p]
      BY <2>2
    <3>2. PICK t \in Targets : p = <<t, r>>
      BY <1>3, <3>1 DEF Emitted
    <3>3. PICK i \in 1..4 : t = TargetOrder[i]
      BY TargetFacts
    <3>4. e = Entry(TargetOrder[i], r) /\ <<TargetOrder[i], r>> \in Emitted(source) /\ Passed(i, r)
      BY <3>1, <3>2, <3>3 DEF Entry, Passed, Built
    <3> QED
      BY <3>4 DEF Entries
  <2> QED
    BY <1>3, <2>1, <2>2 DEF ManifestOf
<1> QED
  BY <1>1, <1>2, <1>3

LEMMA BuiltExact ==
  ASSUME Progress
  PROVE  UntouchedRulesExact
<1> SUFFICES ASSUME Built, NEW r \in Rules, (Refs[r] \cup {r}) \cap edited = {}
             PROVE  /\ \A t \in Targets :
                         /\ bundle[<<t, r>>] = Wanted(source)[<<t, r>>]
                         /\ (<<t, r>> \in unsupported) =
                              (<<t, r>> \in Wanted(source)[Manifest].unsupported)
                    /\ {e \in manifest : e.source = r} =
                         {e \in Wanted(source)[Manifest].artifacts : e.source = r}
  BY DEF UntouchedRulesExact
<1>1. Untouched(r) /\ \A i \in 1..4 : Passed(i, r)
  BY DEF Untouched, Passed, Built
<1>2. /\ Wanted(source)[Manifest].artifacts = ManifestOf(source)
      /\ Wanted(source)[Manifest].unsupported = (Targets \X Files(source, Rules)) \ Emitted(source)
  <2>1. Wanted(source)[Manifest] =
          [artifacts |-> ManifestOf(source),
           unsupported |-> (Targets \X Files(source, Rules)) \ Emitted(source)]
    BY WantedFacts, Zenon
  <2> QED
    BY <2>1
<1>3. ASSUME NEW t \in Targets
      PROVE  /\ bundle[<<t, r>>] = Wanted(source)[<<t, r>>]
             /\ <<t, r>> \in unsupported <=> <<t, r>> \in Wanted(source)[Manifest].unsupported
  <2>1. PICK i \in 1..4 : t = TargetOrder[i]
    BY TargetFacts
  <2>2. /\ bundle[<<t, r>>] = Wanted(source)[<<t, r>>]
        /\ <<t, r>> \in unsupported <=> source[r] # Gone /\ <<t, r>> \notin Emitted(source)
    BY <1>1, <2>1 DEF Progress, ProgressOf
  <2> QED
    BY <1>2, <2>2 DEF Files
<1>4. {e \in manifest : e.source = r} = {e \in ManifestOf(source) : e.source = r}
  BY <1>1, BuiltEntries
<1> QED
  BY <1>2, <1>3, <1>4

LEMMA BuiltCurrent ==
  ASSUME Typed, Progress, Completed, Built, edited = {}
  PROVE  bundle = Wanted(source)
<1>1. OnPaths(bundle) /\ OnPaths(Wanted(source)) /\ unsupported \subseteq Targets \X Rules
  BY WantedFacts DEF Typed, TypeOK
<1>2. \A r \in Rules : Untouched(r)
  BY DEF Untouched
<1>3. manifest = ManifestOf(source)
  <2>1. \A e \in manifest : e.source \in Rules \/ e.source \in NativeRules
    BY DEF Completed
  <2>2. \A e \in ManifestOf(source) :
          e.source \in Rules \/ (e.source \in NativeRules /\ e \in {NativeEntry(n) : n \in Files(source, NativeRules)})
    BY DEF ManifestOf, Emitted, Files, NativeEntry
  <2>3. ASSUME NEW e, e.source \in Rules
        PROVE  e \in manifest <=> e \in ManifestOf(source)
    BY <1>2, <2>3, BuiltEntries
  <2>4. {e \in manifest : e.source \in NativeRules} = {NativeEntry(n) : n \in Files(source, NativeRules)}
    BY DEF Completed
  <2>5. \A n \in Files(source, NativeRules) : NativeEntry(n) \in ManifestOf(source)
    BY DEF ManifestOf, NativeEntry
  <2>6. ASSUME NEW e \in manifest PROVE e \in ManifestOf(source)
    BY <2>1, <2>3, <2>4, <2>5
  <2>7. ASSUME NEW e \in ManifestOf(source) PROVE e \in manifest
    BY <2>2, <2>3, <2>4
  <2> QED
    BY <2>6, <2>7
<1>4. unsupported = (Targets \X Files(source, Rules)) \ Emitted(source)
  <2>1. ASSUME NEW t \in Targets, NEW r \in Rules
        PROVE  <<t, r>> \in unsupported <=> source[r] # Gone /\ <<t, r>> \notin Emitted(source)
    <3>1. PICK i \in 1..4 : t = TargetOrder[i]
      BY TargetFacts
    <3> QED
      BY <1>2, <3>1 DEF Progress, ProgressOf, Passed, Built
  <2> QED
    BY <1>1, <2>1 DEF Files
<1>5. bundle[Ruleset] = Wanted(source)[Ruleset] /\ bundle[Manifest] = Wanted(source)[Manifest]
  BY <1>3, <1>4, WantedFacts DEF Completed
<1>6. ASSUME NEW t \in Targets, NEW r \in Rules
      PROVE  bundle[<<t, r>>] = Wanted(source)[<<t, r>>]
  BY <1>2, BuiltExact DEF UntouchedRulesExact, Untouched
<1>7. \A p \in Paths : bundle[p] = Wanted(source)[p]
  BY <1>5, <1>6, PathFacts
<1> QED
  BY <1>1, <1>7, OnPathsFacts

LEMMA UpToDateNext ==
  ASSUME IInv, Next
  PROVE  UpToDateMeansCurrent'
<1>1. ASSUME NEW f \in Rules \cup NativeRules, Edit(f) PROVE UpToDateMeansCurrent'
  BY <1>1 DEF Edit, UpToDateMeansCurrent
<1>2. CASE Check
  <2>1. UNCHANGED <<source, edited, tree>> /\ Built
        /\ (outcome' = "up to date" => tree = bundle)
    BY <1>2 DEF Check, Exit, Built
  <2>2. edited = {} => bundle = Wanted(source)
    BY <2>1, BuiltCurrent DEF IInv
  <2> QED
    BY <2>1, <2>2 DEF UpToDateMeansCurrent
<1>3. CASE Fail \/ Crash
  BY <1>3 DEF Fail, Crash, Exit, UpToDateMeansCurrent
<1>4. ASSUME NEW m \in {"write", "check"}, Start(m) PROVE UpToDateMeansCurrent'
  BY <1>4 DEF Start, UpToDateMeansCurrent
<1>5. CASE List \/ Resolve \/ EndTarget \/ Native \/ \E r \in Rules : Read(r) \/ Convert(r)
  BY <1>5 DEF List, Resolve, EndTarget, Native, Read, Convert, IInv, Reset, UpToDateMeansCurrent
<1>6. ASSUME NEW p \in Paths, WriteFile(p) PROVE UpToDateMeansCurrent'
  BY <1>6 DEF WriteFile, Exit, IInv, Reset, UpToDateMeansCurrent
<1> QED
  BY <1>1, <1>2, <1>3, <1>4, <1>5, <1>6 DEF Next

LEMMA RerunNext ==
  ASSUME IInv, Next
  PROVE  RerunRepairs'
<1>1. ASSUME NEW f \in Rules \cup NativeRules, Edit(f) PROVE RerunRepairs'
  BY <1>1 DEF Edit, RerunRepairs
<1>2. ASSUME NEW p \in Paths, WriteFile(p) PROVE RerunRepairs'
  <2>1. CASE Exit("written") /\ unwritten = {p}
    <3>1. pc = "write" /\ UNCHANGED <<source, edited>> /\ tree' = [tree EXCEPT ![p] = bundle[p]]
      BY <1>2 DEF WriteFile
    <3>2. \A q \in Paths : bundle[q] # Absent => tree'[q] = bundle[q]
      <4>1. \A q \in Paths \ {p} : bundle[q] # Absent => tree[q] = bundle[q]
        BY <2>1, <3>1 DEF IInv, Writing
      <4>2. DOMAIN tree = Paths
        BY DEF IInv, Typed, TypeOK
      <4> QED
        BY <3>1, <4>1, <4>2
    <3>3. edited = {} => bundle = Wanted(source)
      BY <3>1, BuiltCurrent DEF IInv, Built
    <3> QED
      BY <3>1, <3>2, <3>3 DEF RerunRepairs
  <2>2. CASE UNCHANGED <<pc, outcome>>
    BY <1>2, <2>2 DEF WriteFile, IInv, Reset, RerunRepairs
  <2> QED
    BY <1>2, <2>1, <2>2 DEF WriteFile
<1>3. CASE Fail \/ Crash \/ Check
  BY <1>3 DEF Fail, Crash, Check, Exit, RerunRepairs
<1>4. ASSUME NEW m \in {"write", "check"}, Start(m) PROVE RerunRepairs'
  BY <1>4 DEF Start, RerunRepairs
<1>5. CASE List \/ Resolve \/ EndTarget \/ Native \/ \E r \in Rules : Read(r) \/ Convert(r)
  BY <1>5 DEF List, Resolve, EndTarget, Native, Read, Convert, IInv, Reset, RerunRepairs
<1> QED
  BY <1>1, <1>2, <1>3, <1>4, <1>5 DEF Next

-----------------------------------------------------------------------------
LEMMA InitIInv == Init => IInv
<1> SUFFICES ASSUME Init PROVE IInv
  OBVIOUS
<1>1. OnPaths(bundle) /\ OnPaths(tree) /\ DOMAIN bundle = Paths /\ DOMAIN tree = Paths
  <2>1. OnPaths(Empty) /\ OnPaths(Wanted(source)) /\ \A f : OnPaths(f) => DOMAIN f = Paths
    BY OnPathsFacts, WantedFacts
  <2>2. bundle = Empty /\ (tree = Empty \/ tree = Wanted(source))
    BY DEF Init
  <2> QED
    BY <2>1, <2>2
<1>2. TypeOK
  BY <1>1, MaxEditsAssumption DEF Init, TypeOK, Gone
<1>3. \A i \in 1..4, r \in Rules : ~Passed(i, r)
  BY DEF Init, Passed
<1>4. \A i \in 1..4, r \in Rules : bundle[<<TargetOrder[i], r>>] = Absent
  BY TargetFacts, PathFacts DEF Init, Empty
<1>5. \A r \in Rules : Entries(r) = {}
  BY <1>3 DEF Entries
<1>6. Progress
  BY <1>3, <1>4, <1>5 DEF Init, Progress, ProgressOf
<1> QED
  BY <1>1, <1>2, <1>6
     DEF Init, IInv, Typed, Reset, Loading, Completed, Built, Writing, UpToDateMeansCurrent, RerunRepairs

LEMMA NextIInv == IInv /\ [Next]_vars => IInv'
<1>1. ASSUME IInv, Next PROVE IInv'
  BY <1>1, TypedNext, ResetNext, LoadingNext, ProgressNext, CompletedNext, WritingNext,
     UpToDateNext, RerunNext DEF IInv
<1>2. ASSUME IInv, UNCHANGED vars PROVE IInv'
  <2> USE <1>2 DEF IInv, vars, memory
  <2>1. Typed' /\ Reset'
    BY DEF Typed, TypeOK, OnPaths, Reset
  <2>2. Loading'
    BY DEF Loading, Target, Files
  <2>3. Completed' /\ Writing'
    BY DEF Completed, Built, NativeEntry, Writing
  <2>4. Progress'
    <3>1. \A i \in 1..4, r \in Rules : Passed(i, r)' <=> Passed(i, r)
      BY DEF Passed
    <3> QED
      BY <3>1, ProgressKept DEF Progress
  <2>5. UpToDateMeansCurrent' /\ RerunRepairs'
    BY DEF UpToDateMeansCurrent, RerunRepairs
  <2> QED
    BY <2>1, <2>2, <2>3, <2>4, <2>5
<1> QED
  BY <1>1, <1>2

(* The inductive invariant holds throughout.                               *)
THEOREM Invariance == Spec => []IInv
<1> QED
  BY InitIInv, NextIInv, PTL DEF Spec

(* The process and its files are well typed: no conversion is cached for a *)
(* rule that is not loaded, and no path waits to be written without a      *)
(* content.                                                                *)
THEOREM TypeCorrect == Spec => []TypeOK
<1>1. IInv => TypeOK
  BY DEF IInv, Typed
<1> QED
  BY <1>1, Invariance, PTL

(* Whatever is edited while the build runs, and whatever the conversions   *)
(* of one target leave behind in the ruleset, the bundle has every rule    *)
(* that was left alone exactly as the sources call for.                    *)
THEOREM UntouchedCorrect == Spec => []UntouchedRulesExact
<1>1. IInv => UntouchedRulesExact
  BY BuiltExact DEF IInv
<1> QED
  BY <1>1, Invariance, PTL

(* "--check" finds nothing only if deploy/ is what the sources call for.   *)
THEOREM UpToDateCorrect == Spec => []UpToDateMeansCurrent
<1>1. IInv => UpToDateMeansCurrent
  BY DEF IInv
<1> QED
  BY <1>1, Invariance, PTL

(* A completed run repairs every file the sources call for.                *)
THEOREM RerunCorrect == Spec => []RerunRepairs
<1>1. IInv => RerunRepairs
  BY DEF IInv
<1> QED
  BY <1>1, Invariance, PTL
=============================================================================
