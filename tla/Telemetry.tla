------------------------------ MODULE Telemetry ------------------------------
(***************************************************************************)
(* collector/: a run reads the files of one sensor record by record, turns *)
(* records into contract events, validates them, and hands them to         *)
(* standard output or to Loki.  A record keeps its id, the words of its    *)
(* file's name, the sides of the transaction it shows, the sides whose     *)
(* function is known, whether it has a timestamp and whether the schema    *)
(* takes what is made of it.                                               *)
(***************************************************************************)
EXTENDS Naturals, FiniteSets, SequencesExt

CONSTANTS
    Inputs,     \* what --source and --input name: a sensor, whether each
                \* pattern has a file, and the records, file by file
    MaxRuns     \* bound: runs of the program

Sensors == {"suricata", "zeek", "netflow", "snmp"}
Sides == {"request", "response"}
Records == UNION {ToSet(in.records): in \in Inputs}

TelemetryAssumption ==
    /\ \A in \in Inputs:
        /\ in.sensor \in Sensors /\ in.matched \in BOOLEAN
        /\ in.records \in Seq(ToSet(in.records))
    /\ \A r \in Records: r.sides \subseteq Sides /\ r.known \subseteq Sides /\ r.valid \in BOOLEAN
    /\ MaxRuns \in Nat

Keys == {"ot_ndr"} \X {"modbus", "dnp3"} \cup {<<"ot_flow", "flow">>, <<"ot_snmp", "snmp">>}

VARIABLES
    pc, runs,
    input,      \* of the run at work, and of the last one that ended
    at,         \* records read
    events,
    errors,     \* the events that fail the schema, by their positions
    loki,       \* the lines in each stream of the store
    printed,    \* history: what the last run wrote to standard output
    result
vars == <<pc, runs, input, at, events, errors, loki, printed, result>>

-----------------------------------------------------------------------------
(* contract.event for some sides of a record.                              *)
Event(product, service, r, direction) ==
    [key |-> <<product, service>>, id |-> r.id, direction |-> direction, valid |-> r.valid]

(* One event for each populated side of a Modbus transaction.              *)
SuricataModbus(r) ==
    LET Of(side) == IF side \in r.sides THEN <<Event("ot_ndr", "modbus", r, {side})>> ELSE <<>>
    IN  Of("request") \o Of("response")

Suricata(r) ==
    CASE r.type = "modbus" -> SuricataModbus(r)
      [] r.type = "dnp3" -> <<Event("ot_ndr", "dnp3", r, r.sides)>>
      [] OTHER -> <<>>

(* The log is told by the words in its file's name, conn first; a row      *)
(* whose function is not in the table is dropped, and a DNP3 row speaks    *)
(* for its request whenever it has one.                                    *)
ZeekModbus(r) == IF r.known = {} THEN <<>> ELSE <<Event("ot_ndr", "modbus", r, r.sides)>>
ZeekDnp3(r) ==
    LET side == IF "request" \in r.sides THEN "request" ELSE "response"
    IN  IF side \in r.sides \cap r.known THEN <<Event("ot_ndr", "dnp3", r, {side})>> ELSE <<>>
Zeek(r) ==
    IF "conn" \in r.file THEN <<Event("ot_flow", "flow", r, {})>>
    ELSE IF "modbus" \in r.file THEN ZeekModbus(r)
    ELSE IF "dnp3" \in r.file THEN ZeekDnp3(r) ELSE <<>>

Converted(sensor, r) ==
    CASE sensor = "suricata" -> Suricata(r)
      [] sensor = "zeek" -> Zeek(r)
      [] sensor = "netflow" -> <<Event("ot_flow", "flow", r, {})>>
      [] sensor = "snmp" -> <<Event("ot_snmp", "snmp", r, {})>>

(* A record that becomes an event needs its timestamp, and JSON that a     *)
(* sensor is still writing cannot be read; a Zeek row that is cut is a row *)
(* with fewer columns.                                                     *)
Unreadable(sensor, r) ==
    \/ sensor # "zeek" /\ r.type = "cut"
    \/ ~r.timestamp /\ Converted(sensor, r) # <<>>

(* to_loki_streams: the events of each product and service, in order.      *)
Streams(es) == [k \in Keys |-> FlattenSeq([i \in DOMAIN es |-> IF es[i].key = k THEN <<es[i]>> ELSE <<>>])]

-----------------------------------------------------------------------------
Init ==
    /\ pc = "idle" /\ runs = 0 /\ input = [sensor |-> "none", matched |-> FALSE, records |-> <<>>] /\ at = 0
    /\ events = <<>> /\ errors = {} /\ loki = [k \in Keys |-> <<>>] /\ printed = <<>>
    /\ result = "none"

Exit(status) == pc' = "idle" /\ result' = status /\ at' = 0 /\ events' = <<>> /\ errors' = {}

(* A pattern that names no file ends the run before anything is read.      *)
Start(in) ==
    /\ pc = "idle" /\ runs < MaxRuns /\ runs' = runs + 1 /\ input' = in /\ printed' = <<>>
    /\ IF ~in.matched THEN Exit("raised")
       ELSE pc' = "read" /\ result' = "none" /\ UNCHANGED <<at, events, errors>>
    /\ UNCHANGED loki

(* A slip: a record that cannot be read is skipped.                        *)
ReadSkipping ==
    /\ pc = "read" /\ at < Len(input.records) /\ at' = at + 1
    /\ LET r == input.records[at + 1]
       IN  events' = IF Unreadable(input.sensor, r) THEN events ELSE events \o Converted(input.sensor, r)
    /\ UNCHANGED <<pc, runs, input, errors, loki, printed, result>>

(* The list of events is complete before anything else happens: a record   *)
(* that cannot be read ends the run.                                       *)
Read ==
    /\ pc = "read" /\ at < Len(input.records)
    /\ LET r == input.records[at + 1]
       IN  IF Unreadable(input.sensor, r) THEN Exit("raised")
           ELSE /\ events' = events \o Converted(input.sensor, r) /\ at' = at + 1
                /\ UNCHANGED <<pc, errors, result>>
    /\ UNCHANGED <<runs, input, loki, printed>>

Validate ==
    /\ pc = "read" /\ at = Len(input.records) /\ pc' = "sink"
    /\ errors' = {i \in DOMAIN events: ~events[i].valid}
    /\ UNCHANGED <<runs, input, at, events, loki, printed, result>>

(* Standard output, for the events themselves or for a dry run's streams.  *)
Emit ==
    /\ pc = "sink" /\ pc' = "report" /\ printed' = events
    /\ UNCHANGED <<runs, input, at, events, errors, loki, result>>

(* One request with every stream.  An answer that does not come, or is an  *)
(* error, raises, and leaves open whether the lines are in.                *)
Push ==
    /\ pc = "sink"
    /\ \E stored, answered \in BOOLEAN:
        /\ answered => stored
        /\ loki' = IF stored THEN [k \in Keys |-> loki[k] \o Streams(events)[k]] ELSE loki
        /\ IF answered THEN pc' = "report" /\ UNCHANGED <<at, events, errors, result>> ELSE Exit("raised")
    /\ UNCHANGED <<runs, input, printed>>

Report ==
    /\ pc = "report" /\ Exit(IF errors = {} THEN "ok" ELSE "errors")
    /\ UNCHANGED <<runs, input, loki, printed>>

Kill == pc # "idle" /\ Exit("killed") /\ UNCHANGED <<runs, input, loki, printed>>

Next == (\E in \in Inputs: Start(in)) \/ Read \/ Validate \/ Emit \/ Push \/ Report \/ Kill

Spec == Init /\ [][Next]_vars
-----------------------------------------------------------------------------
Lines == [key: Keys, id: {r.id: r \in Records}, direction: SUBSET Sides, valid: BOOLEAN]

TypeOK ==
    /\ pc \in {"idle", "read", "sink", "report"} /\ runs \in 0..MaxRuns
    /\ at \in 0..Len(input.records) /\ events \in Seq(Lines) /\ errors \subseteq DOMAIN events
    /\ loki \in [Keys -> Seq(Lines)] /\ \A k \in Keys: \A i \in DOMAIN loki[k]: loki[k][i].key = k
    /\ printed \in Seq(Lines)
    /\ result \in {"none", "ok", "errors", "raised", "killed"}

(* Every event the input stands for, record by record.                     *)
Meant(in) == FlattenSeq([i \in DOMAIN in.records |-> Converted(in.sensor, in.records[i])])

(* What reaches the store is always the whole input of the run, each       *)
(* stream in the order of the sensor's files: no run delivers a part, also *)
(* when a record is unreadable or the process dies.                        *)
AllOrNothing ==
    [][loki' # loki => \A k \in Keys: loki'[k] = loki[k] \o Streams(Meant(input))[k]]_vars

(* The exit status speaks for every event: success means that all of the   *)
(* input left the process and all of it is valid, whatever was delivered   *)
(* before the verdict; status 1 means that it left with an invalid event.  *)
ExitTells ==
    result \in {"ok", "errors"} =>
        /\ (result = "ok") = \A i \in DOMAIN Meant(input): Meant(input)[i].valid
        /\ \/ printed = Meant(input)
           \/ \A k \in Keys: IsSuffix(Streams(Meant(input))[k], loki[k])
=============================================================================
