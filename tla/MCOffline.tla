------------------------------ MODULE MCOffline ------------------------------
(***************************************************************************)
(* The programs that work on files on small instances.                     *)
(***************************************************************************)
EXTENDS Offline, Integers, Sequences, FiniteSets

-----------------------------------------------------------------------------
(* Suricata records of every kind, a log of rows with and without their    *)
(* functions, connections of a capture named after a protocol, one file    *)
(* that is being written and one row that is cut short.                    *)
Record(id, type, sides, known) ==
    [id |-> id, file |-> {}, type |-> type, sides |-> sides, known |-> known, timestamp |-> TRUE, valid |-> TRUE]
Both == {"request", "response"}
M1 == Record(1, "modbus", Both, Both)
M2 == Record(2, "modbus", {"response"}, {})
D3 == Record(3, "dnp3", Both, {"response"})
O4 == Record(4, "alert", {}, {})
File(name, records) == [i \in DOMAIN records |-> [records[i] EXCEPT !.file = name]]
MCTelInputs ==
    {[sensor |-> "suricata", matched |-> rs # <<>>, records |-> rs]: rs \in
        {<<>>, <<M1, O4, D3, M2>>, <<[M1 EXCEPT !.valid = FALSE], D3>>, <<M1, [O4 EXCEPT !.type = "cut"]>>}}
    \cup {[sensor |-> "zeek", matched |-> TRUE, records |-> rs]: rs \in
        {File({"modbus"}, <<M1, M2>>) \o File({"dnp3"}, <<D3, [D3 EXCEPT !.sides = {"response"}]>>),
         File({"modbus", "conn"}, <<M2, M1>>) \o File({"dnp3"}, <<[D3 EXCEPT !.known = Both]>>),
         File({"modbus"}, <<M1, [M1 EXCEPT !.timestamp = FALSE]>>) \o File({"http"}, <<M2>>)}}
    \cup {[sensor |-> s, matched |-> TRUE, records |-> <<M1, M2>>]: s \in {"netflow", "snmp"}}

(* Addresses that are known, unset and absent; a flow of the same hosts;   *)
(* an event without a function code and one the schema refuses.            *)
Ev(product, service, src, dst, code) ==
    [product |-> product, service |-> service, src |-> src, dst |-> dst, code |-> code, valid |-> TRUE]
MCBaseEvents ==
    {Ev("ot_ndr", "modbus", "a", "b", 1), Ev("ot_ndr", "modbus", "b", "a", 2), Ev("ot_ndr", "dnp3", "a", "b", 2),
     Ev("ot_ndr", "modbus", "", "b", None), Ev("ot_flow", "flow", "c", "b", None),
     Ev("ot_ndr", "dnp3", "c", "a", 1), [Ev("ot_ndr", "dnp3", "c", None, 2) EXCEPT !.valid = FALSE]}
MCBaseRules ==
    {[type |-> t, service |-> s, field |-> f]: t \in {"new_asset", "new_pair", "new_function_code", "other"},
        s \in {None, "modbus"}, f \in {"src", "dst"}}

(* Zones that are apart, and one that overlaps with both; conduits with    *)
(* and without ports, two of them for one pair.                            *)
Zone(name, addresses) == [name |-> name, addresses |-> addresses]
Pass(from, to, ports) == [from |-> from, to |-> to, ports |-> ports]
MCZones == {Zone("control", {"a"}), Zone("ops", {"b", "c"}), Zone("plant", {"a", "b"})}
MCConduits == {Pass("ops", "control", {502}), Pass("ops", "control", {102}), Pass("control", "ops", {})}
MCAddresses == {"a", "b", "c", "d"}
MCConEvents ==
    {[src |-> s, dst |-> d, port |-> p]: <<s, d, p>> \in
        {<<"b", "a", 502>>, <<"b", "a", 102>>, <<"a", "b", 502>>, <<"b", "c", 502>>, <<"d", "a", None>>,
         <<"", "a", 502>>, <<"c", "a", None>>}}

(* Every condition of two leaves, negated or not, every pair of conditions *)
(* of one leaf each, and a rule without conditions.                        *)
Leaf(field, value) == [op |-> "field", args |-> <<>>, field |-> field, value |-> value]
Word(value) == [Leaf(None, value) EXCEPT !.op = "keyword"]
Node(op, args) == [op |-> op, args |-> args, field |-> None, value |-> None]
MatLeaves ==
    {Leaf("f", [kind |-> "number", num |-> 1]), Leaf("g", [kind |-> "compare", op |-> "neq", num |-> 1]),
     Leaf("g", [kind |-> "compare", op |-> "gte", num |-> 1]), Leaf("f", [kind |-> "compare", op |-> "lt", num |-> 1]),
     Leaf("f", [kind |-> "compare", op |-> "gt", num |-> 0]), Leaf("g", [kind |-> "compare", op |-> "lte", num |-> 0]),
     Leaf("g", [kind |-> "null"]), Leaf("f", [kind |-> "exists", exists |-> FALSE]),
     Leaf("f", [kind |-> "bool", bool |-> TRUE]), Leaf("g", [kind |-> "cidr", texts |-> {"addr"}]),
     Leaf("f", [kind |-> "string", texts |-> {"1", "addr"}, inside |-> {"1", "addr"}]),
     Leaf("g", [kind |-> "re", texts |-> {"yes"}]), Leaf("f", [kind |-> "reference"]),
     Word([kind |-> "string", texts |-> {"yes"}, inside |-> {"yes", "addr"}]), Word([kind |-> "reference"]),
     Node("xor", <<>>), Node("nothing", <<>>)}
MatTrees(negated) ==
    {LET parts == <<a>> \o (IF negated[1] THEN <<Node("not", <<1>>)>> ELSE <<>>)
         more == parts \o <<b>> \o (IF negated[2] THEN <<Node("not", <<Len(parts) + 1>>)>> ELSE <<>>)
     IN  Append(more, Node(op, <<Len(parts), Len(more)>>)): a, b \in MatLeaves, op \in {"and", "or"}}
MatRule(nodes, conditions) ==
    [product |-> None, service |-> "modbus", category |-> None, nodes |-> nodes, conditions |-> conditions]
MCMatRules ==
    {MatRule(t, <<Len(t)>>): t \in UNION {MatTrees(negated): negated \in BOOLEAN \X BOOLEAN}}
    \cup {MatRule(<<a, b>>, <<1, 2>>): a, b \in MatLeaves} \cup {MatRule(<<>>, <<>>)}
Scalar(kind, text, num, bool) == [kind |-> kind, text |-> text, num |-> num, bool |-> bool]
Scalars == {None, Scalar("number", "1", 1, None), Scalar("text", "addr", None, None), Scalar("text", "yes", None, TRUE)}
MCMatEvents ==
    {[service |-> Scalar("text", s, None, None), f |-> a, g |-> b]: s \in {"modbus"}, a, b \in Scalars}
    \cup {[f |-> Scalar("bool", "True", 1, TRUE), g |-> Scalar("number", "0", 0, None)],
          [service |-> Scalar("text", "dnp3", None, None), f |-> None, g |-> None],
          [service |-> None, f |-> Scalar("number", "1", 1, None)]}

MCSamples == <<"benign", "attack">>
MCEvRules == {"r1", "r2"}

MeRule(path, kind, techniques) == [path |-> path, kind |-> kind, techniques |-> techniques]
Label(id, kind, of) == [id |-> id, kind |-> kind, rule |-> of]
MCMeRules == {MeRule("m1", "single", {"T1"}), MeRule("m2", "single", {"T1", "T2"}),
            MeRule("c1", "correlation", {"T2"}), MeRule("s1", "native", {"T0"})}
MCMeLabels == {Label("p1", "positive", "m1"), Label("p2", "positive", "m2"), Label("n1", "negative", None),
             Label("b1", "benign", None), Label("w1", "window", "c1"), Label("q1", "quiet", "c1")}

MCTechniques == {"T1", "T2"}
=============================================================================
