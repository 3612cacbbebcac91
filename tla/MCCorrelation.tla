---------------------------- MODULE MCCorrelation ----------------------------
(* The correlation evaluator over every short event sequence.  Rules have  *)
(* at most one defect; unmatched and timeless events carry no payload.     *)
EXTENDS Correlation

CONSTANTS g1, v1

Plain(e) == e.group = g1 /\ e.value = v1

MCInit ==
  /\ rule \in [type : Types, op : Ops, threshold : Thresholds,
               defects : {{}} \cup {{d} : d \in Defects}]
  /\ rule.type = "temporal" \/ rule.defects # {} => rule.op = "gte" /\ rule.threshold = 2
  /\ rule.type = "temporal" => rule.defects = {}
  /\ LET E == {e \in Event : (~e.matches \/ e.time = NoTime => Plain(e))
                             /\ (~e.matches => e.time \in {0, NoTime})}
     IN events \in UNION {[1..n -> E] : n \in 0..MaxEvents}
  /\ pc = "check" /\ next = 1 /\ matched = {} /\ starts = {} /\ verdict = "none"

MCSpec == MCInit /\ [][Next]_vars
=============================================================================
