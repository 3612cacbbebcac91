-------------------------------- MODULE Deploy --------------------------------
(***************************************************************************)
(* pipelines/deploy.py: the deployment bundle built from the rule files,   *)
(* written under deploy/ or compared with what is there.  One process      *)
(* runs at a time; an author edits, adds and removes rule files at any     *)
(* moment, also while it runs.  Files have revisions in place of texts,    *)
(* and an artifact has the facts it was converted from in place of a query.*)
(***************************************************************************)
EXTENDS Integers, Sequences, FiniteSets

CONSTANTS Rules,        \* rules/sigma: the rule files, at most one per stem
          Refs,         \* per rule, the rules a correlation references; {} for the others
          NativeRules,  \* rules/native: Suricata rule files
          Absent, Torn, \* no file; a file cut off while it was written
          MaxEdits      \* bound on the edits

ASSUME RefsAssumption ==
  /\ Refs \in [Rules -> SUBSET Rules]
  /\ \A r \in Rules : \A q \in Refs[r] : Refs[q] = {}
ASSUME NativeAssumption == Rules \cap NativeRules = {}
ASSUME MaxEditsAssumption == MaxEdits \in Nat

\* SIGMA_DEPLOY, in its order, with the output format of each target.
TargetOrder == <<"loki", "splunk", "sentinel", "opensearch">>
Targets == {TargetOrder[i] : i \in 1..4}
Format == [loki |-> "ruler", splunk |-> "savedsearches", sentinel |-> "query", opensearch |-> "query"]
\* backend_supports_correlation.
Correlating == {"loki", "splunk", "opensearch"}
IsCorrelation(r) == Refs[r] # {}

Ruleset == <<"suricata", "ot-detection.rules">>
Manifest == <<"manifest.json", "manifest.json">>
Paths == (Targets \X Rules) \cup {Ruleset, Manifest}
\* sorted(bundle.items()) goes directory by directory.
DirectoryOrder == <<"loki", "manifest.json", "opensearch", "sentinel", "splunk", "suricata">>
Rank(p) == CHOOSE i \in 1..6 : DirectoryOrder[i] = p[1]

Gone == 0
Empty == [p \in Paths |-> Absent]

VARIABLES source,       \* per rule file its revision, Gone when there is none
          edits,        \* number of edits so far; it dates the revisions
          edited,       \* files edited since the current or last run started
          pc, mode,     \* the process: where it is, and "write" or "check"
          target,       \* index of the target being built
          todo,         \* rules still to read or to convert for the target
          loaded,       \* the target's collection: revision of each rule read
          cache,        \* format of each rule's cached conversion result
          widened,      \* correlations whose group-by list has been appended to
          bundle, manifest, unsupported,
          unwritten,    \* paths write_bundle has still to write
          tree,         \* the files under deploy/
          outcome       \* how the last run ended

memory == <<target, todo, loaded, cache, widened, bundle, manifest, unsupported, unwritten>>
vars == <<source, edits, edited, pc, mode, memory, tree, outcome>>

-----------------------------------------------------------------------------
(* What the sources call for.                                              *)

Files(s, S) == {r \in S : s[r] # Gone}

WantedArtifact(s, t, r) ==
  [revision |-> s[r],
   subquery |-> [q \in Refs[r] |-> [revision |-> s[q],
                                    format |-> IF t = "loki" THEN "query" ELSE Format[t]]],
   widened |-> FALSE]
Emitted(s) == {p \in Targets \X Files(s, Rules) : ~IsCorrelation(p[2]) \/ p[1] \in Correlating}

Wanted(s) ==
  [p \in Paths |->
     IF p = Ruleset THEN [n \in Files(s, NativeRules) |-> s[n]]
     ELSE IF p = Manifest THEN
       [artifacts |-> {[source |-> p2[2], revision |-> s[p2[2]], artifact |-> p2] : p2 \in Emitted(s)}
          \cup {[source |-> n, revision |-> s[n], artifact |-> Ruleset] : n \in Files(s, NativeRules)},
        unsupported |-> (Targets \X Files(s, Rules)) \ Emitted(s)]
     ELSE IF p \in Emitted(s) THEN WantedArtifact(s, p[1], p[2])
     ELSE Absent]

-----------------------------------------------------------------------------
\* A checkout whose bundle is current, or an empty --out directory.
Init ==
  /\ source = [r \in Rules \cup NativeRules |-> 1]
  /\ edits = 0 /\ edited = {}
  /\ pc = "idle" /\ mode = "check" /\ outcome = "none"
  /\ target = 1 /\ todo = {} /\ widened = {}
  /\ loaded = [r \in Rules |-> Gone]
  /\ cache = [r \in Rules |-> "none"]
  /\ bundle = Empty /\ manifest = {} /\ unsupported = {} /\ unwritten = {}
  /\ tree \in {Empty, Wanted(source)}

\* The process exits with this outcome, and its memory with it.
Exit(o) ==
  /\ pc' = "idle" /\ outcome' = o
  /\ target' = 1 /\ todo' = {} /\ widened' = {}
  /\ loaded' = [r \in Rules |-> Gone]
  /\ cache' = [r \in Rules |-> "none"]
  /\ bundle' = Empty /\ manifest' = {} /\ unsupported' = {} /\ unwritten' = {}

\* The author changes, adds or removes one rule file.
Edit(r) ==
  /\ edits < MaxEdits
  /\ \E revision \in {Gone, edits + 2} :
       /\ revision # source[r]
       /\ source' = [source EXCEPT ![r] = revision]
  /\ edits' = edits + 1
  /\ edited' = edited \cup {r}
  /\ UNCHANGED <<pc, mode, memory, tree, outcome>>

Start(m) ==
  /\ pc = "idle"
  /\ pc' = "list" /\ mode' = m /\ outcome' = "running"
  /\ edited' = {}
  /\ UNCHANGED <<source, edits, memory, tree>>

\* "Each target loads its own copy of the ruleset."  A slip: it does not.
ListKeeps ==
  /\ pc = "list"
  /\ todo' = Files(source, Rules)
  /\ loaded' = [r \in Rules |-> Gone]
  /\ pc' = "read"
  /\ UNCHANGED <<source, edits, edited, mode, target, cache, widened, bundle, manifest,
                 unsupported, unwritten, tree, outcome>>

List ==
  /\ pc = "list"
  /\ todo' = Files(source, Rules)
  /\ loaded' = [r \in Rules |-> Gone]
  /\ cache' = [r \in Rules |-> "none"]
  /\ widened' = {}
  /\ pc' = "read"
  /\ UNCHANGED <<source, edits, edited, mode, target, bundle, manifest, unsupported, unwritten,
                 tree, outcome>>

Read(r) ==
  /\ pc = "read" /\ r \in todo
  /\ source[r] # Gone
  /\ loaded' = [loaded EXCEPT ![r] = source[r]]
  /\ todo' = todo \ {r}
  /\ UNCHANGED <<source, edits, edited, pc, mode, target, cache, widened, bundle, manifest,
                 unsupported, unwritten, tree, outcome>>

\* References are resolved inside the collection; conversion starts.
Resolve ==
  /\ pc = "read" /\ todo = {}
  /\ \A r \in Files(loaded, Rules) : Refs[r] \subseteq Files(loaded, Rules)
  /\ todo' = Files(loaded, Rules)
  /\ pc' = "convert"
  /\ UNCHANGED <<source, edits, edited, mode, target, loaded, cache, widened, bundle, manifest,
                 unsupported, unwritten, tree, outcome>>

-----------------------------------------------------------------------------
(* Converting one rule, in the order of conversion_order: its references   *)
(* first.                                                                  *)

Target == TargetOrder[target]

\* _correlation_loki_document converts the references anew, as queries.
Requeried(r) ==
  IF Target = "loki"
  THEN [q \in Rules |-> IF q \in Refs[r] THEN "query" ELSE cache[q]]
  ELSE cache

Artifact(r) ==
  [revision |-> loaded[r],
   subquery |-> [q \in Refs[r] |-> [revision |-> loaded[q], format |-> Requeried(r)[q]]],
   widened |-> r \in widened]

\* The manifest has the revision read_text finds now, the artifact the one loaded.
Emit(r) ==
  /\ source[r] # Gone
  /\ bundle' = [bundle EXCEPT ![<<Target, r>>] = Artifact(r)]
  /\ manifest' = manifest \cup {[source |-> r, revision |-> source[r], artifact |-> <<Target, r>>]}
  /\ cache' = [Requeried(r) EXCEPT ![r] = IF IsCorrelation(r) /\ Target = "loki"
                                          THEN "query" ELSE Format[Target]]
  /\ widened' = IF IsCorrelation(r) /\ Target = "loki" THEN widened \cup {r} ELSE widened
  /\ UNCHANGED unsupported

Record(r) ==
  /\ unsupported' = unsupported \cup {<<Target, r>>}
  /\ UNCHANGED <<bundle, manifest, cache, widened>>

Convert(r) ==
  /\ pc = "convert" /\ r \in todo
  /\ Refs[r] \cap todo = {}
  /\ IF IsCorrelation(r) /\ Target \notin Correlating THEN Record(r) ELSE Emit(r)
  /\ todo' = todo \ {r}
  /\ UNCHANGED <<source, edits, edited, pc, mode, target, loaded, unwritten, tree, outcome>>

EndTarget ==
  /\ pc = "convert" /\ todo = {}
  /\ IF target < 4 THEN target' = target + 1 /\ pc' = "list"
                   ELSE pc' = "native" /\ UNCHANGED target
  /\ UNCHANGED <<source, edits, edited, mode, todo, loaded, cache, widened, bundle, manifest,
                 unsupported, unwritten, tree, outcome>>

\* _native_bundle, then manifest.json; the bundle is complete.
Native ==
  /\ pc = "native"
  /\ LET present == Files(source, NativeRules)
         entries == manifest \cup
           {[source |-> n, revision |-> source[n], artifact |-> Ruleset] : n \in present}
     IN /\ manifest' = entries
        /\ bundle' = [bundle EXCEPT
             ![Ruleset] = [n \in present |-> source[n]],
             ![Manifest] = [artifacts |-> entries, unsupported |-> unsupported]]
  /\ unwritten' = IF mode = "write" THEN {p \in Paths : bundle'[p] # Absent} ELSE {}
  /\ pc' = mode
  /\ UNCHANGED <<source, edits, edited, mode, target, todo, loaded, cache, widened, unsupported,
                 tree, outcome>>

\* A rule file that is no rule, a missing reference or file, a conversion to
\* nothing, a stopped process: the build ends before anything is written.
Fail ==
  /\ pc \in {"list", "read", "convert", "native"}
  /\ Exit("failed")
  /\ UNCHANGED <<source, edits, edited, mode, tree>>

-----------------------------------------------------------------------------
NextPath(p) == p \in unwritten /\ \A q \in unwritten : Rank(p) <= Rank(q)

WriteMissingOnly(p) ==
  /\ pc = "write" /\ NextPath(p)
  /\ tree' = IF tree[p] = Absent THEN [tree EXCEPT ![p] = bundle[p]] ELSE tree
  /\ IF unwritten = {p}
     THEN Exit("written")
     ELSE unwritten' = unwritten \ {p} /\ UNCHANGED <<pc, outcome, target, todo, loaded, cache,
                                                     widened, bundle, manifest, unsupported>>
  /\ UNCHANGED <<source, edits, edited, mode>>

WriteFile(p) ==
  /\ pc = "write" /\ NextPath(p)
  /\ tree' = [tree EXCEPT ![p] = bundle[p]]
  /\ IF unwritten = {p}
     THEN Exit("written")
     ELSE unwritten' = unwritten \ {p} /\ UNCHANGED <<pc, outcome, target, todo, loaded, cache,
                                                     widened, bundle, manifest, unsupported>>
  /\ UNCHANGED <<source, edits, edited, mode>>

\* The process dies in write_bundle, between two files or inside one.
Crash ==
  /\ pc = "write"
  /\ \/ UNCHANGED tree
     \/ \E p \in Paths : NextPath(p) /\ tree' = [tree EXCEPT ![p] = Torn]
  /\ Exit("crashed")
  /\ UNCHANGED <<source, edits, edited, mode>>

\* check_bundle: no file missing, none drifted, none unexpected.  A torn file
\* is a drifted one, or, cut inside a character, one whose reading raises:
\* the exit status is not zero either way.
CheckNotUnexpected ==
  /\ pc = "check"
  /\ Exit(IF \A p \in Paths : bundle[p] # Absent => tree[p] = bundle[p]
          THEN "up to date" ELSE "out of date")
  /\ UNCHANGED <<source, edits, edited, mode, tree>>

Check ==
  /\ pc = "check"
  /\ Exit(IF tree = bundle THEN "up to date" ELSE "out of date")
  /\ UNCHANGED <<source, edits, edited, mode, tree>>

Next ==
  \/ \E r \in Rules \cup NativeRules : Edit(r)
  \/ \E m \in {"write", "check"} : Start(m)
  \/ List \/ Resolve \/ EndTarget \/ Native \/ Fail
  \/ \E r \in Rules : Read(r) \/ Convert(r)
  \/ \E p \in Paths : WriteFile(p)
  \/ Crash \/ Check

Spec == Init /\ [][Next]_vars

-----------------------------------------------------------------------------
(* Type correctness: a cached conversion belongs to the loaded copy, and a *)
(* path awaiting its write has a content.                                  *)
TypeOK ==
  /\ source \in [Rules \cup NativeRules -> Nat]
  /\ edits \in 0..MaxEdits
  /\ edited \subseteq Rules \cup NativeRules
  /\ pc \in {"idle", "list", "read", "convert", "native", "write", "check"}
  /\ mode \in {"write", "check"}
  /\ target \in 1..4
  /\ todo \subseteq Rules
  /\ loaded \in [Rules -> Nat]
  /\ cache \in [Rules -> {"none", "ruler", "savedsearches", "query"}]
  /\ \A r \in Rules : cache[r] # "none" => pc = "list" \/ loaded[r] # Gone
  /\ widened \subseteq Rules
  /\ DOMAIN bundle = Paths /\ DOMAIN tree = Paths
  /\ \A p \in unwritten : p \in Paths /\ bundle[p] # Absent
  /\ unsupported \subseteq Targets \X Rules
  /\ outcome \in {"none", "running", "written", "up to date", "out of date", "failed", "crashed"}

Built == pc \in {"write", "check"}

(* A rule that nobody touched during the build, nor its references, is in  *)
(* the bundle exactly as the sources call for, for every target: converted *)
(* from clean inputs and with its revision in the manifest, or recorded as *)
(* unsupported; whatever became of the other rules meanwhile, and whatever *)
(* the conversion of one target did to the objects of the ruleset.         *)
UntouchedRulesExact ==
  Built => \A r \in Rules : (Refs[r] \cup {r}) \cap edited = {} =>
    /\ \A t \in Targets :
         /\ bundle[<<t, r>>] = Wanted(source)[<<t, r>>]
         /\ (<<t, r>> \in unsupported) = (<<t, r>> \in Wanted(source)[Manifest].unsupported)
    /\ {e \in manifest : e.source = r} = {e \in Wanted(source)[Manifest].artifacts : e.source = r}

(* "--check regenerates the bundle in memory and fails when the committed  *)
(* copy has drifted": after a run that found nothing, with no edit since   *)
(* it started, deploy/ is what the sources call for; also after crashes,   *)
(* failed builds and builds that ran into edits.                           *)
UpToDateMeansCurrent ==
  outcome = "up to date" /\ edited = {} => tree = Wanted(source)

(* A completed run repairs every file the sources call for, whatever was   *)
(* in its place.                                                           *)
RerunRepairs ==
  outcome = "written" /\ edited = {} =>
    \A p \in Paths : Wanted(source)[p] # Absent => tree[p] = Wanted(source)[p]

(* pipelines/loki_correlation.py: a document in place of the subquery is a *)
(* defect of the backend; deploy/DEPLOY.md: the correlation rule "converts *)
(* for Loki, Splunk and OpenSearch".                                       *)
SubqueriesAreQueries ==
  Built => \A p \in Targets \X Rules : bundle[p] # Absent =>
    \A q \in Refs[p[2]] : bundle[p].subquery[q].format = "query"
=============================================================================
