------------------------------- MODULE Decoder -------------------------------
(***************************************************************************)
(* The protocol decoders tools/dnp3-dpi, tools/s7comm-dpi and              *)
(* tools/opcua-dpi.  Their front ends are the same program around          *)
(* different frame parsers: a line of hex becomes octets, parse_stream     *)
(* takes one frame after the other from its front until the first error,   *)
(* and an event is printed for the frames that carry one.                  *)
(*                                                                         *)
(* An octet no control depends on is left out; a field some branch reads   *)
(* has any value of its width when it is read, and a CRC matches or not.   *)
(* Every slice and every index the code takes without asking whether it is *)
(* in range is recorded in "slices".                                       *)
(***************************************************************************)
EXTENDS Integers, Sequences, FiniteSets

CONSTANTS MaxOctet,   \* an octet is 0..MaxOctet (255)
          MaxShort,   \* a u16 is 0..MaxShort (65535)
          Half,       \* a u32 is 0..2 * Half - 1, negative as i32 from Half on (2^31)
          MaxLine,    \* bound on the octets of a line
          MaxLines    \* bound on the lines of the input

ASSUME WidthAssumption == MaxOctet \in Nat /\ MaxShort \in Nat /\ Half \in Nat \ {0}
ASSUME InputAssumption == MaxLine \in Nat /\ MaxLines \in Nat

Protocols == {"dnp3", "s7comm", "opcua"}
Words == 0..(2 * Half - 1)
FrameRecord == [at : Nat, size : Nat, event : {"none", "json", "garbled"}]

VARIABLES protocol,   \* the crate
          lines,      \* lines of the input still to read
          line,       \* octets of the line
          offset,     \* parse_stream: octets taken
          frames,     \* parse_stream: the frames of the line
          pc,         \* "report" and "broken": the line is done, without and with an error
          total,      \* octets of the frame being parsed
          data,       \* octets of its user data, COTP payload or message body
          cursor,     \* where the next block or field of it starts
          remaining,  \* DNP3: octets of user data after the cursor
          plan,       \* OPC UA: fields of the conversation header still to read
          uri,        \* OPC UA: "special" when the policy URI has a character JSON escapes
          errors,     \* lines that are not hex or ended in an error
          exit,       \* exit status: "clean" is 0, "errors" 1, "unusable" 2
          slices      \* history: <<from, to, length>> of each slice of the last step

parser == <<total, data, cursor, remaining, plan, uri>>
tally == <<errors, exit>>
vars == <<protocol, lines, line, offset, frames, pc, parser, tally, slices>>

Init ==
  /\ protocol \in Protocols
  /\ lines \in 0..MaxLines
  /\ line = 0 /\ offset = 0 /\ frames = <<>>
  /\ total = 0 /\ data = 0 /\ cursor = 0 /\ remaining = 0 /\ plan = <<>> /\ uri = "plain"
  /\ pc = "open"
  /\ errors = 0 /\ exit = "running"
  /\ slices = {}

-----------------------------------------------------------------------------
(* main.rs                                                                 *)

\* The arguments: --help returns, a file or standard input is read or not.
Open ==
  /\ pc = "open"
  /\ \/ pc' = "line" /\ UNCHANGED exit
     \/ pc' = "end" /\ exit' \in {"clean", "unusable"}
  /\ UNCHANGED <<protocol, lines, line, offset, frames, parser, errors, slices>>

\* A blank line or a comment, a line that is not hex, or one that is.
ReadLine ==
  /\ pc = "line" /\ lines > 0
  /\ lines' = lines - 1
  /\ \/ UNCHANGED <<line, offset, frames, pc, errors>>
     \/ errors' = errors + 1 /\ UNCHANGED <<line, offset, frames, pc>>
     \/ /\ line' \in 0..MaxLine
        /\ offset' = 0 /\ frames' = <<>>
        /\ pc' = "frame"
        /\ UNCHANGED errors
  /\ slices' = {}
  /\ UNCHANGED <<protocol, parser, exit>>

\* A slip: the error is printed and not counted.
ReportUncounted ==
  /\ pc \in {"report", "broken"}
  /\ pc' = "line"
  /\ line' = 0 /\ offset' = 0 /\ frames' = <<>>
  /\ slices' = {}
  /\ UNCHANGED <<protocol, lines, parser, errors, exit>>

\* "for result in parse_stream(&bytes)": the events are printed, an error is
\* counted.
Report ==
  /\ pc \in {"report", "broken"}
  /\ errors' = IF pc = "broken" THEN errors + 1 ELSE errors
  /\ pc' = "line"
  /\ line' = 0 /\ offset' = 0 /\ frames' = <<>>
  /\ slices' = {}
  /\ UNCHANGED <<protocol, lines, parser, exit>>

End ==
  /\ pc = "line" /\ lines = 0
  /\ exit' = IF errors > 0 THEN "errors" ELSE "clean"
  /\ pc' = "end"
  /\ UNCHANGED <<protocol, lines, line, offset, frames, parser, errors, slices>>

-----------------------------------------------------------------------------
(* parse_stream: "while offset < bytes.len()".                             *)

Avail == line - offset

At(stage, p) == pc = stage /\ protocol = p /\ UNCHANGED <<protocol, lines, line, tally>>

\* parse_frame returns, and its locals are gone.
Forget ==
  /\ total' = 0 /\ data' = 0 /\ cursor' = 0 /\ remaining' = 0
  /\ plan' = <<>> /\ uri' = "plain"

\* A slip: no break.
FailContinues ==
  /\ pc' = "frame"
  /\ Forget
  /\ UNCHANGED <<offset, frames>>

\* parse_frame returns Err: the loop breaks.
Fail ==
  /\ pc' = "broken"
  /\ Forget
  /\ UNCHANGED <<offset, frames>>

\* parse_frame returns a frame and its size.  "event" tells what event() and
\* to_json make of it once the line is parsed: "none", "json", or "garbled",
\* which is not JSON.
Take(size, event) ==
  /\ frames' = Append(frames, [at |-> offset, size |-> size, event |-> event])
  /\ offset' = offset + size
  /\ pc' = "frame"
  /\ Forget

Continue(stage) == pc' = stage /\ UNCHANGED <<offset, frames>>

Exhausted ==
  /\ pc = "frame" /\ offset >= line
  /\ pc' = "report"
  /\ slices' = {}
  /\ UNCHANGED <<protocol, lines, line, offset, frames, parser, tally>>

-----------------------------------------------------------------------------
(* dnp3-dpi: link.rs, then transport.rs and application.rs.                *)

DivCeil(n, d) == (n + d - 1) \div d
BlockLimit == 16
Blocks(n) == DivCeil(n, BlockLimit)

\* Octets of a link frame with n octets of user data: header, CRC, and the
\* data with a CRC for every block.
LinkTotal(n) == 8 + 2 + n + Blocks(n) * 2

LinkHeader ==
  /\ At("frame", "dnp3") /\ offset < line
  /\ \/ Avail < 10 /\ Fail /\ slices' = {}
     \/ /\ Avail >= 10
        /\ slices' = {<<offset, offset + 10, line>>}
        /\ \/ Fail   \* no 05 64, or the header CRC does not match
           \/ \E length \in 0..MaxOctet :
                IF length < 5 \/ Avail < LinkTotal(length - 5)
                THEN Fail
                ELSE /\ total' = LinkTotal(length - 5)
                     /\ data' = length - 5
                     /\ cursor' = offset + 10
                     /\ remaining' = length - 5
                     /\ UNCHANGED <<plan, uri>>
                     /\ Continue("block")

LinkBlock ==
  /\ At("block", "dnp3") /\ remaining > 0
  /\ LET length == IF remaining < BlockLimit THEN remaining ELSE BlockLimit
     IN /\ slices' = {<<cursor, cursor + length, line>>, <<cursor + length, cursor + length + 2, line>>}
        /\ \/ Fail   \* the CRC of the block does not match
           \/ /\ cursor' = cursor + length + 2
              /\ remaining' = remaining - length
              /\ UNCHANGED <<total, data, plan, uri>>
              /\ Continue("block")

\* Octets of the range or count field, by the high nibble of the qualifier.
RangeOctets == <<2, 4, 8, 1, 2, 4, 0>>
Ranged(prefix, rest) == prefix < 7 /\ rest >= RangeOctets[prefix + 1]

ObjectSlices(rest) ==
  IF rest < 3 THEN {{}}
  ELSE {{<<0, 3, rest>>, <<3, rest, rest>>}}
         \cup {{<<0, 3, rest>>, <<3, rest, rest>>,
                <<0, RangeOctets[p + 1], rest - 3>>, <<RangeOctets[p + 1], rest - 3, rest - 3>>} :
                 p \in {q \in 0..15 : Ranged(q, rest - 3)}}

\* The application header: two octets, four in a response, and the objects.
HeaderSlices(rest, header) == {<<0, header, rest>>, <<header, rest, rest>>}

\* event(): the transport octet, and in a first fragment what follows it.
Application ==
  /\ At("block", "dnp3") /\ remaining = 0
  /\ \/ slices' = {} /\ Take(total, "none")   \* no user data, or no first fragment
     \/ /\ data > 0 /\ data - 1 < 4             \* the header is cut
        /\ slices' = {<<1, data, data>>}
        /\ Take(total, "none")
     \/ \E header \in {2, 4} :
          /\ data - 1 >= header
          /\ \E objects \in ObjectSlices(data - 1 - header) :
               slices' = {<<1, data, data>>} \cup HeaderSlices(data - 1, header) \cup objects
          /\ Take(total, "json")

-----------------------------------------------------------------------------
(* s7comm-dpi: tpkt.rs, then cotp.rs and s7.rs.                            *)

Tpkt ==
  /\ At("frame", "s7comm") /\ offset < line
  /\ \/ Avail < 4 /\ Fail /\ slices' = {}
     \/ /\ Avail >= 4
        /\ slices' = {<<offset, offset + 4, line>>}
        /\ Fail     \* not version 3
     \/ /\ Avail >= 4
        /\ \E length \in 0..MaxShort :
             IF length < 7 \/ Avail < length
             THEN /\ slices' = {<<offset, offset + 4, line>>}
                  /\ Fail
             ELSE /\ slices' = {<<offset, offset + 4, line>>, <<offset + 4, offset + length, line>>}
                  /\ total' = length
                  /\ data' = length - 4
                  /\ UNCHANGED <<cursor, remaining, plan, uri>>
                  /\ Continue("cotp")

\* A slip: a header without a function code will do.
S7HeaderOnly(rest) == rest < 10

\* The S7 header is 10 octets, the function code the one after it.
NoS7(rest) == rest <= 10

\* The length indicator does not count itself.
BadCotp(indicator, rest) == indicator < 2 \/ rest < 0

\* A COTP header too short or too long fails the frame; a PDU that is no data
\* transfer, S7comm Plus, and a data PDU too short for a job have no event.
Cotp ==
  /\ At("cotp", "s7comm")
  /\ \E indicator \in 0..MaxOctet :
       LET rest == data - (1 + indicator)
       IN IF BadCotp(indicator, rest)
          THEN slices' = {<<0, 1, data>>} /\ Fail
          ELSE \/ slices' = {<<0, 2, data>>, <<1 + indicator, data, data>>} /\ Take(total, "none")
               \/ /\ ~NoS7(rest)
                  /\ slices' = {<<0, 2, data>>, <<1 + indicator, data, data>>, <<0, 11, rest>>}
                  /\ Take(total, "json")

-----------------------------------------------------------------------------
(* opcua-dpi: message.rs, then conversation.rs and service.rs.  Past the   *)
(* header the code reads by get(), which answers where a slice would panic.*)

Conversation ==
  [OPN  |-> <<"u32", "uri", "bytes", "bytes", "u32", "u32">>,
   MSG  |-> <<"u32", "u32", "u32", "u32">>,     \* and CLO
   none |-> <<>>]                               \* HEL, ACK, ERR, RHE

\* A slip: the size is taken for that of the body.
BadSizeNever(size) == FALSE

BadSize(size) == size < 8

Message ==
  /\ At("frame", "opcua") /\ offset < line
  /\ \/ Avail < 8 /\ Fail /\ slices' = {}
     \/ /\ Avail >= 8
        /\ slices' = {<<offset, offset + 8, line>>}
        /\ Fail     \* no message type, or no chunk type
     \/ /\ Avail >= 8
        /\ \E size \in Words, type \in DOMAIN Conversation :
             IF BadSize(size) \/ Avail < size
             THEN /\ slices' = {<<offset, offset + 8, line>>}
                  /\ Fail
             ELSE /\ slices' = {<<offset, offset + 8, line>>, <<offset + 8, offset + size, line>>}
                  /\ IF type = "none"
                     THEN Take(size, "json")
                     ELSE /\ total' = size
                          /\ data' = size - 8
                          /\ cursor' = 0
                          /\ plan' = Conversation[type]
                          /\ uri' = "plain"
                          /\ UNCHANGED remaining
                          /\ Continue("fields")

\* A reader past the end of the body: the message has no conversation header.
Cut == slices' = {} /\ Take(total, "json")

Advance(to, q) ==
  /\ slices' = {}
  /\ cursor' = to /\ plan' = Tail(plan) /\ uri' = q
  /\ UNCHANGED <<total, data, remaining>>
  /\ Continue("fields")

Field ==
  /\ At("fields", "opcua") /\ plan # <<>>
  /\ IF cursor + 4 > data THEN Cut
     ELSE IF Head(plan) = "u32" THEN Advance(cursor + 4, uri)
     ELSE \E length \in Words :
            IF length >= Half THEN Advance(cursor + 4, uri)   \* negative: null
            ELSE IF cursor + 4 + length > data THEN Cut
            ELSE \E q \in (IF Head(plan) = "uri" /\ length > 0 THEN {"plain", "special"} ELSE {uri}) :
                   Advance(cursor + 4 + length, q)

\* The rest of the body, in which service.rs looks for a NodeId without
\* leaving it; to_json prints the URI as it came.
Service ==
  /\ At("fields", "opcua") /\ plan = <<>>
  /\ slices' = {}
  /\ Take(total, IF uri = "plain" THEN "json" ELSE "garbled")

-----------------------------------------------------------------------------
Next ==
  \/ Open \/ ReadLine \/ Report \/ End \/ Exhausted
  \/ LinkHeader \/ LinkBlock \/ Application
  \/ Tpkt \/ Cotp
  \/ Message \/ Field \/ Service

Spec == Init /\ [][Next]_vars

\* The process runs until it exits.
FairSpec == Spec /\ WF_vars(Next)

-----------------------------------------------------------------------------
LeastSize(p) == CASE p = "dnp3" -> 10 [] p = "s7comm" -> 7 [] p = "opcua" -> 8

(* Type correctness; a frame that is being parsed lies inside its line.    *)
TypeOK ==
  /\ protocol \in Protocols
  /\ lines \in 0..MaxLines /\ line \in 0..MaxLine /\ offset \in 0..line
  /\ frames \in Seq(FrameRecord)
  /\ pc \in {"open", "line", "frame", "block", "cotp", "fields", "report", "broken", "end"}
  /\ pc \in {"block", "cotp", "fields"} => total \in LeastSize(protocol)..(line - offset)
  /\ data \in Nat /\ cursor \in Nat /\ remaining \in Nat
  /\ uri \in {"plain", "special"}
  /\ errors \in Nat
  /\ exit \in {"running", "clean", "errors", "unusable"}

(* docs/THREAT_MODEL.md calls a panic of a decoder loss of visibility, and *)
(* tests/robustness.rs: "decoding malformed input must never panic".  No   *)
(* field of a line, whatever its value, makes the code slice or index out  *)
(* of range.                                                               *)
NeverPanics == \A s \in slices : 0 <= s[1] /\ s[1] <= s[2] /\ s[2] <= s[3]

(* DNP3: the blocks and their CRCs fill the frame to its last octet, so    *)
(* the next frame starts where the last block ended.                       *)
BlocksFillFrame ==
  pc = "block" => cursor + remaining + 2 * Blocks(remaining) = offset + total

(* Whatever the protocol, the decoder divides lines into consecutive       *)
(* frames and owns up to every octet it could not place by its exit status.*)
Stream == INSTANCE OctetStream WITH
  Least  <- 7,
  frames <- [i \in DOMAIN frames |-> [at |-> frames[i].at, size |-> frames[i].size]],
  broken <- errors > 0,
  status <- IF pc = "end" THEN exit
            ELSE IF pc \in {"open", "line"} THEN "idle" ELSE "reading"
ImplementsStream == Stream!Spec

(* Every input is read to its end.                                         *)
Terminates == <>(pc = "end")

(* tools/opcua-dpi/src/main.rs: "writes one normalized JSON event per      *)
(* message".                                                               *)
EventsAreJson == \A i \in DOMAIN frames : frames[i].event # "garbled"
=============================================================================
