------------------------------- MODULE Matcher -------------------------------
(***************************************************************************)
(* tools/otde/matcher.py: one rule against one event.  A condition is a    *)
(* tree of and, or, not and leaves; evaluation is lazy from left to right, *)
(* and a feature that is not implemented raises where it is reached.  The  *)
(* trees of a rule are one sequence of nodes, each behind its arguments.   *)
(***************************************************************************)
EXTENDS Integers, Sequences, Functions

CONSTANTS
    Rules,      \* [product, service, category, nodes, conditions]; None is not
                \* stated, a node is [op, args, field, value], and arguments and
                \* conditions are positions of nodes
    Events,     \* functions from fields to scalars; None is a missing field
    None

VARIABLES rule, event, verdict
vars == <<rule, event, verdict>>

Kinds == {"null", "exists", "bool", "number", "compare", "cidr", "re", "string", "reference", "other"}
Inner == {"and", "or", "not"}

(* What pySigma makes of a rule: every node stands behind its arguments    *)
(* and in some condition, and a value has what its kind asks for.          *)
WellFormed(r) ==
    /\ r.nodes \in Seq(Range(r.nodes)) /\ r.conditions \in Seq(DOMAIN r.nodes)
    /\ \A n \in DOMAIN r.nodes:
        LET node == r.nodes[n]
        IN  /\ node.args \in Seq(1..(n - 1))
            /\ node.op \in Inner => node.args # <<>>
            /\ node.op \in {"field", "keyword"} =>
                /\ node.value.kind \in Kinds
                /\ node.value.kind = "bool" => node.value.bool # None
                /\ node.value.kind = "number" => node.value.num # None
            /\ \/ n \in Range(r.conditions)
               \/ \E m \in DOMAIN r.nodes: n \in Range(r.nodes[m].args)

MatcherAssumption == \A r \in Rules: WellFormed(r)

-----------------------------------------------------------------------------
(* A scalar is [kind, text, num, bool]: its type, its text, and the number *)
(* and truth value that the text can be read as.                           *)
CoerceNumber(a) == IF a = None \/ a.kind = "bool" THEN None ELSE a.num
CoerceBool(a) == IF a = None \/ a.kind = "number" THEN None ELSE a.bool

Ordered(op, l, r) ==
    CASE op = "lt" -> l < r
      [] op = "lte" -> l <= r
      [] op = "gt" -> l > r
      [] op = "gte" -> l >= r
      [] op = "neq" -> l # r

Compare(v, a) == CoerceNumber(a) # None /\ Ordered(v.op, CoerceNumber(a), v.num)

(* _value_matches; patterns, networks and regular expressions are the      *)
(* texts they match.                                                       *)
Supported(v) == v.kind \notin {"reference", "other"}
ValueMatches(v, a) ==
    CASE v.kind = "null" -> a = None
      [] v.kind = "exists" -> (a # None) = v.exists
      [] v.kind = "bool" -> CoerceBool(a) = v.bool
      [] v.kind = "number" -> CoerceNumber(a) = v.num
      [] v.kind = "compare" -> Compare(v, a)
      [] v.kind = "cidr" -> a # None /\ a.kind = "text" /\ a.text \in v.texts
      [] v.kind \in {"re", "string"} -> a # None /\ a.text \in v.texts

Truth(b) == IF b THEN "true" ELSE "false"

(* A keyword looks at every scalar of the event, and a string may stand    *)
(* anywhere in it.                                                         *)
Keyword(v, e) ==
    LET scalars == {e[f]: f \in DOMAIN e} \ {None}
    IN  IF scalars # {} /\ ~Supported(v) THEN "raises"
        ELSE Truth(\E a \in scalars: IF v.kind = "string" THEN a.text \in v.inside ELSE ValueMatches(v, a))

Field(n, e) ==
    LET a == IF n.field \in DOMAIN e THEN e[n.field] ELSE None
    IN  IF Supported(n.value) THEN Truth(ValueMatches(n.value, a)) ELSE "raises"

(* The first result that is not the neutral one decides, errors included.  *)
Lazily(results, neutral) ==
    LET deciding == {i \in DOMAIN results: results[i] # neutral}
    IN  IF deciding = {} THEN neutral ELSE results[CHOOSE i \in deciding: \A j \in deciding: i <= j]

(* A slip: a feature that is not implemented does not match.               *)
NegateRaised(r) == IF r = "true" THEN "false" ELSE "true"
Negate(r) == CASE r = "true" -> "false" [] r = "false" -> "true" [] OTHER -> "raises"

(* What a node is worth, by the outcomes of the nodes before it.           *)
Outcome(node, outcomes, e) ==
    LET results == [i \in DOMAIN node.args |-> outcomes[node.args[i]]]
    IN  CASE node.op = "and" -> Lazily(results, "true")
          [] node.op = "or" -> Lazily(results, "false")
          [] node.op = "not" -> Negate(results[1])
          [] node.op = "field" -> Field(node, e)
          [] node.op = "keyword" -> Keyword(node.value, e)
          [] node.op = "nothing" -> "false"
          [] OTHER -> "raises"

Eval(r, e) == LET outcomes[n \in DOMAIN r.nodes] == Outcome(r.nodes[n], outcomes, e) IN outcomes

(* Routing: a field the event declares, be it as null, has to be the one   *)
(* the rule names.                                                         *)
Routed(r, e) ==
    \A f \in {"product", "service", "category"}:
        r[f] # None /\ f \in DOMAIN e => e[f] # None /\ e[f].text = r[f]

Verdict(r, e) ==
    CASE ~Routed(r, e) -> "false"
      [] Routed(r, e) /\ r.conditions = <<>> -> "raises"
      [] OTHER -> Lazily([i \in DOMAIN r.conditions |-> Eval(r, e)[r.conditions[i]]], "false")

-----------------------------------------------------------------------------
Init == rule \in Rules /\ event \in Events /\ verdict = "none"
Match == verdict = "none" /\ verdict' = Verdict(rule, event) /\ UNCHANGED <<rule, event>>
Next == Match
Spec == Init /\ [][Next]_vars
-----------------------------------------------------------------------------
TypeOK == WellFormed(rule) /\ event \in Events /\ verdict \in {"none", "true", "false", "raises"}

(* What a node can be worth when each leaf that is not implemented may be  *)
(* worth anything.                                                         *)
Conj(ws) == {b \in BOOLEAN: IF b THEN \A w \in ws: TRUE \in w ELSE \E w \in ws: FALSE \in w}
Disj(ws) == {b \in BOOLEAN: IF b THEN \E w \in ws: TRUE \in w ELSE \A w \in ws: FALSE \in w}
Meaning(node, meanings, e) ==
    LET args == {meanings[m]: m \in Range(node.args)}
    IN  CASE node.op = "and" -> Conj(args)
          [] node.op = "or" -> Disj(args)
          [] node.op = "not" -> {~b: b \in meanings[node.args[1]]}
          [] node.op = "field" /\ Supported(node.value) -> {Field(node, e) = "true"}
          [] node.op = "keyword" /\ Keyword(node.value, e) # "raises" -> {Keyword(node.value, e) = "true"}
          [] node.op = "nothing" -> {FALSE}
          [] OTHER -> BOOLEAN

Worth(r, e) == LET meanings[n \in DOMAIN r.nodes] == Meaning(r.nodes[n], meanings, e) IN meanings

(* A verdict never rests on a feature the matcher does not implement: what *)
(* laziness skips could not have changed it, and an error is raised only   *)
(* for a rule that has such a feature or no condition.                     *)
SoundVerdict ==
    LET worths == {Worth(rule, event)[n]: n \in Range(rule.conditions)}
    IN  CASE verdict = "true" -> Routed(rule, event) /\ \E w \in worths: w = {TRUE}
          [] verdict = "false" -> ~Routed(rule, event) \/ (worths # {} /\ \A w \in worths: w = {FALSE})
          [] verdict = "raises" ->
                worths = {} \/ \E n \in DOMAIN rule.nodes:
                    rule.nodes[n].op \notin Inner /\ Eval(rule, event)[n] = "raises"
          [] OTHER -> TRUE

(* A rule fires on an event that shows none of its fields only if it asks  *)
(* for absence: by a negation, null, or exists: false.  Rules with a       *)
(* keyword are exempt: a keyword has no field, it looks at every scalar.   *)
Shown(node, e) == node.op = "field" /\ node.field \in DOMAIN e /\ e[node.field] # None
AsksForAbsence(node) ==
    \/ node.op = "not"
    \/ node.op = "field" /\ (node.value.kind = "null" \/ (node.value.kind = "exists" /\ ~node.value.exists))
MissingFieldIsQuiet ==
    verdict = "true" =>
        \E node \in Range(rule.nodes): Shown(node, event) \/ AsksForAbsence(node) \/ node.op = "keyword"
=============================================================================
