---------------------------- MODULE DecoderProofs ----------------------------
(* Proofs about the decoders: they divide a line safely, whatever it says. *)
EXTENDS Decoder, WellFoundedInduction, TLAPS

-----------------------------------------------------------------------------
(* Blocks.                                                                 *)

(* The number of blocks is a natural number.                               *)
LEMMA BlocksNat ==
  ASSUME NEW n \in Nat
  PROVE  Blocks(n) \in Nat
  BY DEF Blocks, DivCeil, BlockLimit

(* Without user data there is no block.                                    *)
LEMMA NoBlocks == Blocks(0) = 0
  BY DEF Blocks, DivCeil, BlockLimit

(* Taking a block of at most 16 octets off takes one off the count.        *)
LEMMA OneBlockLess ==
  ASSUME NEW n \in Nat, n > 0,
         NEW b \in Nat, b = IF n < BlockLimit THEN n ELSE BlockLimit
  PROVE  Blocks(n) = Blocks(n - b) + 1
  BY DEF Blocks, DivCeil, BlockLimit

-----------------------------------------------------------------------------
(* The inductive invariant.                                                *)

Kinds == {"u32", "uri", "bytes"}

(* What each parser knows of the frame it is in.                           *)
InFrame ==
  /\ pc = "block" =>
       /\ protocol = "dnp3"
       /\ total = LinkTotal(data)
       /\ remaining <= data
       /\ cursor >= offset + 10
  /\ pc = "cotp" => protocol = "s7comm" /\ data = total - 4
  /\ pc = "fields" =>
       /\ protocol = "opcua"
       /\ data = total - 8
       /\ cursor <= data
       /\ plan \in Seq(Kinds)

(* How parse_stream and main.rs hand a line over.                          *)
OfLine ==
  /\ pc \in {"open", "line", "end"} => line = 0 /\ offset = 0 /\ frames = <<>>
  /\ pc = "broken" => offset < line
  /\ pc = "report" => offset = line
  /\ pc = "open" => errors = 0

IInv == TypeOK /\ NeverPanics /\ BlocksFillFrame /\ InFrame /\ OfLine

(* Every conversation header is a sequence of known fields.                *)
LEMMA Plans == \A type \in DOMAIN Conversation : Conversation[type] \in Seq(Kinds)
<1>1. <<"u32", "uri", "bytes", "bytes", "u32", "u32">> \in Seq(Kinds)
  BY DEF Kinds
<1>2. <<"u32", "u32", "u32", "u32">> \in Seq(Kinds)
  BY DEF Kinds
<1>3. << >> \in Seq(Kinds)
  OBVIOUS
<1>4. /\ DOMAIN Conversation = {"OPN", "MSG", "none"}
      /\ Conversation["OPN"] = <<"u32", "uri", "bytes", "bytes", "u32", "u32">>
      /\ Conversation["MSG"] = <<"u32", "u32", "u32", "u32">>
      /\ Conversation["none"] = << >>
  BY DEF Conversation
<1> QED
  <2> SUFFICES ASSUME NEW type \in DOMAIN Conversation
               PROVE  Conversation[type] \in Seq(Kinds)
    OBVIOUS
  <2>1. CASE type = "OPN"
    BY <2>1, <1>1, <1>4
  <2>2. CASE type = "MSG"
    BY <2>2, <1>2, <1>4
  <2>3. CASE type = "none"
    BY <2>3, <1>3, <1>4
  <2> QED
    BY <2>1, <2>2, <2>3, <1>4

USE WidthAssumption, InputAssumption

LEMMA InitInv == Init => IInv
  BY DEF Init, IInv, TypeOK, NeverPanics, BlocksFillFrame, InFrame, OfLine, Protocols

LEMMA FrontEndInv ==
  ASSUME IInv, Open \/ ReadLine \/ Report \/ End \/ Exhausted
  PROVE  IInv'
<1>1. CASE Open
  BY <1>1 DEF Open, IInv, TypeOK, NeverPanics, BlocksFillFrame, InFrame, OfLine, parser
<1>2. CASE ReadLine
  <2>1. /\ pc = "line" /\ lines' \in 0..MaxLines /\ slices' = {}
        /\ UNCHANGED <<protocol, total, data, cursor, remaining, plan, uri, exit>>
    BY <1>2 DEF ReadLine, IInv, TypeOK, parser
  <2>2. CASE UNCHANGED <<line, offset, frames, pc, errors>>
    BY <2>1, <2>2 DEF IInv, TypeOK, NeverPanics, BlocksFillFrame, InFrame, OfLine
  <2>3. CASE errors' = errors + 1 /\ UNCHANGED <<line, offset, frames, pc>>
    BY <2>1, <2>3 DEF IInv, TypeOK, NeverPanics, BlocksFillFrame, InFrame, OfLine
  <2>4. CASE line' \in 0..MaxLine /\ offset' = 0 /\ frames' = <<>> /\ pc' = "frame"
             /\ UNCHANGED errors
    BY <2>1, <2>4 DEF IInv, TypeOK, NeverPanics, BlocksFillFrame, InFrame, OfLine
  <2> QED
    BY <1>2, <2>2, <2>3, <2>4 DEF ReadLine
<1>3. CASE Report
  <2>1. errors' \in Nat
    BY <1>3 DEF Report, IInv, TypeOK
  <2> QED
    BY <1>3, <2>1 DEF Report, IInv, TypeOK, NeverPanics, BlocksFillFrame, InFrame, OfLine, parser
<1>4. CASE End
  BY <1>4 DEF End, IInv, TypeOK, NeverPanics, BlocksFillFrame, InFrame, OfLine, parser
<1>5. CASE Exhausted
  BY <1>5 DEF Exhausted, IInv, TypeOK, NeverPanics, BlocksFillFrame, InFrame, OfLine, parser, tally
<1> QED BY <1>1, <1>2, <1>3, <1>4, <1>5

(* Giving up inside a line, and taking a frame that lies inside it, keep   *)
(* what is not about the last slices.                                      *)
LEMMA FailInv ==
  ASSUME IInv, Fail, offset < line, pc \in {"frame", "block", "cotp", "fields"},
         UNCHANGED <<protocol, lines, line, tally>>, NeverPanics'
  PROVE  IInv'
  BY DEF Fail, Forget, IInv, TypeOK, BlocksFillFrame, InFrame, OfLine, tally

LEMMA TakeInv ==
  ASSUME IInv, NEW size \in Nat, NEW event \in {"none", "json", "garbled"},
         Take(size, event), size <= line - offset,
         pc \in {"frame", "block", "cotp", "fields"},
         UNCHANGED <<protocol, lines, line, tally>>, NeverPanics'
  PROVE  IInv'
<1>1. frames' \in Seq(FrameRecord)
  <2>1. [at |-> offset, size |-> size, event |-> event] \in FrameRecord
    BY DEF IInv, TypeOK, FrameRecord
  <2> QED
    BY <2>1 DEF Take, IInv, TypeOK
<1>2. offset' \in 0..line
  BY DEF Take, IInv, TypeOK
<1> QED
  BY <1>1, <1>2 DEF Take, Forget, IInv, TypeOK, BlocksFillFrame, InFrame, OfLine, tally

(* Going on inside a frame: what the parsers have to show.                 *)
LEMMA ContinueInv ==
  ASSUME IInv, NEW stage \in {"block", "cotp", "fields"}, Continue(stage),
         UNCHANGED <<protocol, lines, line, tally>>,
         total' \in LeastSize(protocol)..(line - offset),
         data' \in Nat, cursor' \in Nat, remaining' \in Nat, uri' \in {"plain", "special"},
         NeverPanics', BlocksFillFrame', InFrame'
  PROVE  IInv'
<1>1. TypeOK'
  BY DEF Continue, IInv, TypeOK, tally
<1>2. OfLine'
  BY DEF Continue, OfLine
<1> QED
  BY <1>1, <1>2 DEF IInv

-----------------------------------------------------------------------------
(* DNP3.                                                                   *)

LEMMA LinkHeaderInv == ASSUME IInv, LinkHeader PROVE IInv'
<1>. UNCHANGED <<protocol, lines, line, tally>> /\ pc = "frame" /\ offset < line
  BY DEF LinkHeader, At
<1>1. NeverPanics'
  BY DEF LinkHeader, At, Avail, NeverPanics, IInv, TypeOK
<1>2. CASE Fail
  BY <1>1, <1>2, FailInv
<1>3. ASSUME NEW length \in 0..MaxOctet,
             ~(length < 5 \/ Avail < LinkTotal(length - 5)),
             total' = LinkTotal(length - 5), data' = length - 5,
             cursor' = offset + 10, remaining' = length - 5,
             UNCHANGED <<plan, uri>>, Continue("block")
      PROVE  IInv'
  <2>1. length - 5 \in Nat /\ Blocks(length - 5) \in Nat
    BY <1>3, BlocksNat
  <2>2. total' = 10 + (length - 5) + Blocks(length - 5) * 2
    BY <1>3, <2>1 DEF LinkTotal
  <2>3. protocol = "dnp3"
    BY DEF LinkHeader, At
  <2>4. /\ offset \in Nat /\ line \in Nat /\ offset' = offset /\ pc' = "block"
        /\ total' \in 10..(line - offset)
    BY <1>3, <2>1, <2>2 DEF Continue, Avail, IInv, TypeOK
  <2>5. total' \in LeastSize(protocol)..(line - offset)
    BY <2>3, <2>4 DEF LeastSize
  <2>6. /\ data' \in Nat /\ cursor' \in Nat /\ remaining' \in Nat
        /\ uri' \in {"plain", "special"}
    BY <1>3, <2>1, <2>4 DEF IInv, TypeOK
  <2>7. BlocksFillFrame'
    BY <1>3, <2>1, <2>2, <2>4 DEF BlocksFillFrame
  <2>8. InFrame'
    BY <1>3, <2>1, <2>3, <2>4 DEF InFrame
  <2> QED
    BY <1>1, <1>3, <2>5, <2>6, <2>7, <2>8, ContinueInv
<1> QED
  BY <1>2, <1>3 DEF LinkHeader

LEMMA LinkBlockInv == ASSUME IInv, LinkBlock PROVE IInv'
<1>. DEFINE length == IF remaining < BlockLimit THEN remaining ELSE BlockLimit
<1>1. /\ UNCHANGED <<protocol, lines, line, tally>> /\ pc = "block" /\ protocol = "dnp3"
      /\ remaining \in Nat /\ remaining > 0
      /\ length \in 1..16 /\ length <= remaining
  BY DEF LinkBlock, At, IInv, TypeOK, BlockLimit
<1>2. /\ Blocks(remaining) = Blocks(remaining - length) + 1
      /\ Blocks(remaining) \in Nat /\ Blocks(remaining - length) \in Nat
  BY <1>1, OneBlockLess, BlocksNat
<1>a. slices' = {<<cursor, cursor + length, line>>, <<cursor + length, cursor + length + 2, line>>}
  BY DEF LinkBlock
<1>b. \/ Fail
      \/ /\ cursor' = cursor + length + 2
         /\ remaining' = remaining - length
         /\ UNCHANGED <<total, data, plan, uri>>
         /\ Continue("block")
  BY DEF LinkBlock
<1> HIDE DEF length
<1>c. /\ cursor \in Nat /\ offset \in Nat /\ line \in Nat
      /\ total \in 10..(line - offset)
      /\ cursor + remaining + 2 * Blocks(remaining) = offset + total
  BY <1>1 DEF IInv, TypeOK, BlocksFillFrame, LeastSize
<1>3. cursor + length + 2 <= line /\ offset < line
  BY <1>1, <1>2, <1>c
<1>4. NeverPanics'
  BY <1>1, <1>3, <1>a, <1>c DEF NeverPanics
<1>5. CASE Fail
  BY <1>1, <1>3, <1>4, <1>5, FailInv
<1>6. CASE /\ cursor' = cursor + length + 2
           /\ remaining' = remaining - length
           /\ UNCHANGED <<total, data, plan, uri>>
           /\ Continue("block")
  <2>1. /\ cursor' \in Nat /\ cursor' >= cursor /\ remaining' \in Nat /\ remaining' <= remaining
        /\ cursor' + remaining' + 2 * Blocks(remaining') = offset + total
        /\ UNCHANGED <<protocol, lines, line, errors, exit, offset, frames, total, data, plan, uri, pc>>
    BY <1>1, <1>2, <1>c, <1>6 DEF Continue, tally
  <2>2. total' \in LeastSize(protocol)..(line - offset)
    BY <1>1, <1>c, <2>1 DEF LeastSize
  <2>3. BlocksFillFrame'
    BY <2>1 DEF BlocksFillFrame
  <2>4. data' \in Nat /\ uri' \in {"plain", "special"}
    BY <2>1 DEF IInv, TypeOK
  <2>5. InFrame'
    BY <1>1, <1>c, <2>1, <2>4 DEF IInv, InFrame
  <2> QED
    BY <1>1, <1>4, <1>6, <2>1, <2>2, <2>3, <2>4, <2>5, ContinueInv
<1> QED
  BY <1>5, <1>6, <1>b

LEMMA ApplicationInv == ASSUME IInv, Application PROVE IInv'
<1>1. /\ UNCHANGED <<protocol, lines, line, tally>> /\ pc = "block" /\ protocol = "dnp3"
      /\ total \in Nat /\ total <= line - offset
  BY DEF Application, At, IInv, TypeOK, LeastSize
<1>2. CASE slices' = {} /\ Take(total, "none")
  <2>1. NeverPanics'
    BY <1>2 DEF NeverPanics
  <2> QED
    BY <1>1, <1>2, <2>1, TakeInv
<1>4. CASE data > 0 /\ slices' = {<<1, data, data>>} /\ Take(total, "none")
  <2>1. NeverPanics'
    BY <1>4 DEF NeverPanics, IInv, TypeOK
  <2> QED
    BY <1>1, <1>4, <2>1, TakeInv
<1>3. ASSUME NEW header \in {2, 4}, data - 1 >= header,
             NEW objects \in ObjectSlices(data - 1 - header),
             slices' = {<<1, data, data>>} \cup HeaderSlices(data - 1, header) \cup objects,
             Take(total, "json")
      PROVE  IInv'
  <2>1. data \in Nat /\ data - 1 - header \in Nat
    BY <1>3 DEF IInv, TypeOK
  <2>2. \A s \in objects : 0 <= s[1] /\ s[1] <= s[2] /\ s[2] <= s[3]
    BY <1>3, <2>1 DEF ObjectSlices, Ranged, RangeOctets
  <2>3. NeverPanics'
    BY <1>3, <2>1, <2>2 DEF NeverPanics, HeaderSlices
  <2> QED
    BY <1>1, <1>3, <2>3, TakeInv
<1> QED
  BY <1>2, <1>3, <1>4 DEF Application

-----------------------------------------------------------------------------
(* S7comm.                                                                 *)

LEMMA TpktInv == ASSUME IInv, Tpkt PROVE IInv'
<1>1. UNCHANGED <<protocol, lines, line, tally>> /\ pc = "frame" /\ offset < line
      /\ protocol = "s7comm"
  BY DEF Tpkt, At
<1>2. NeverPanics'
  BY DEF Tpkt, Avail, NeverPanics, IInv, TypeOK
<1>3. CASE Fail
  BY <1>1, <1>2, <1>3, FailInv
<1>4. ASSUME NEW length \in 0..MaxShort, ~(length < 7 \/ Avail < length),
             total' = length, data' = length - 4,
             UNCHANGED <<cursor, remaining, plan, uri>>, Continue("cotp")
      PROVE  IInv'
  <2>1. /\ total' \in 7..(line - offset) /\ data' \in Nat /\ cursor' \in Nat /\ remaining' \in Nat
        /\ uri' \in {"plain", "special"} /\ pc' = "cotp"
    BY <1>4 DEF Continue, Avail, IInv, TypeOK
  <2>2. total' \in LeastSize(protocol)..(line - offset)
    BY <1>1, <2>1 DEF LeastSize
  <2>3. BlocksFillFrame' /\ InFrame'
    BY <1>1, <1>4, <2>1 DEF BlocksFillFrame, InFrame
  <2> QED
    BY <1>1, <1>2, <1>4, <2>1, <2>2, <2>3, ContinueInv
<1> QED
  BY <1>3, <1>4 DEF Tpkt

LEMMA CotpInv == ASSUME IInv, Cotp PROVE IInv'
<1>0. UNCHANGED <<protocol, lines, line, tally>> /\ pc = "cotp" /\ protocol = "s7comm"
  BY DEF Cotp, At
<1>1. /\ UNCHANGED <<protocol, lines, line, tally>> /\ pc = "cotp"
      /\ total \in Nat /\ total <= line - offset /\ total >= 7 /\ data = total - 4
      /\ offset < line
  <2>1. /\ line \in Nat /\ offset \in Nat /\ total \in LeastSize(protocol)..(line - offset)
        /\ LeastSize(protocol) = 7
    BY <1>0 DEF IInv, TypeOK, LeastSize
  <2>2. data = total - 4
    BY <1>0 DEF IInv, InFrame
  <2> QED
    BY <1>0, <2>1, <2>2
<1>2. PICK indicator \in 0..MaxOctet :
        LET rest == data - (1 + indicator)
        IN IF BadCotp(indicator, rest)
           THEN slices' = {<<0, 1, data>>} /\ Fail
           ELSE \/ slices' = {<<0, 2, data>>, <<1 + indicator, data, data>>} /\ Take(total, "none")
                \/ /\ ~NoS7(rest)
                   /\ slices' = {<<0, 2, data>>, <<1 + indicator, data, data>>, <<0, 11, rest>>}
                   /\ Take(total, "json")
  BY DEF Cotp
<1>3. NeverPanics'
  BY <1>1, <1>2 DEF BadCotp, NoS7, NeverPanics
<1>4. CASE Fail
  BY <1>1, <1>3, <1>4, FailInv
<1>5. CASE Take(total, "none")
  BY <1>1, <1>3, <1>5, TakeInv
<1>6. CASE Take(total, "json")
  BY <1>1, <1>3, <1>6, TakeInv
<1> QED
  BY <1>2, <1>4, <1>5, <1>6

-----------------------------------------------------------------------------
(* OPC UA.                                                                 *)

LEMMA MessageInv == ASSUME IInv, Message PROVE IInv'
<1>1. UNCHANGED <<protocol, lines, line, tally>> /\ pc = "frame" /\ offset < line
      /\ protocol = "opcua"
  BY DEF Message, At
<1>2. NeverPanics'
  BY DEF Message, BadSize, Avail, NeverPanics, IInv, TypeOK, Words
<1>3. CASE Fail
  BY <1>1, <1>2, <1>3, FailInv
<1>4. ASSUME NEW size \in Words, ~(BadSize(size) \/ Avail < size), Take(size, "json")
      PROVE  IInv'
  BY <1>1, <1>2, <1>4, TakeInv DEF BadSize, Avail, Words, IInv, TypeOK
<1>5. ASSUME NEW size \in Words, NEW type \in DOMAIN Conversation, ~(BadSize(size) \/ Avail < size),
             total' = size, data' = size - 8, cursor' = 0, plan' = Conversation[type],
             uri' = "plain", UNCHANGED remaining, Continue("fields")
      PROVE  IInv'
  <2>1. plan' \in Seq(Kinds)
    BY <1>5, Plans
  <2>2. /\ total' \in 8..(line - offset) /\ data' \in Nat /\ cursor' \in Nat /\ remaining' \in Nat
        /\ uri' \in {"plain", "special"} /\ pc' = "fields"
    BY <1>5 DEF BadSize, Continue, Avail, Words, IInv, TypeOK
  <2>3. total' \in LeastSize(protocol)..(line - offset)
    BY <1>1, <2>2 DEF LeastSize
  <2>4. BlocksFillFrame' /\ InFrame'
    BY <1>1, <1>5, <2>1, <2>2 DEF BlocksFillFrame, InFrame
  <2> QED
    BY <1>1, <1>2, <1>5, <2>2, <2>3, <2>4, ContinueInv
<1> QED
  BY <1>3, <1>4, <1>5 DEF Message

LEMMA FieldInv == ASSUME IInv, Field PROVE IInv'
<1>1. /\ UNCHANGED <<protocol, lines, line, tally>> /\ pc = "fields" /\ protocol = "opcua"
      /\ plan \in Seq(Kinds) /\ plan # <<>>
      /\ total \in Nat /\ total <= line - offset
      /\ cursor \in Nat /\ data \in Nat
  BY DEF Field, At, IInv, TypeOK, LeastSize, InFrame
<1>2. CASE Cut
  <2>1. NeverPanics'
    BY <1>2 DEF Cut, NeverPanics
  <2> QED
    BY <1>1, <1>2, <2>1, TakeInv DEF Cut
<1>3. ASSUME NEW to \in Nat, cursor <= to, to <= data, NEW q \in {"plain", "special"}, Advance(to, q)
      PROVE  IInv'
  <2>1. plan' \in Seq(Kinds)
    BY <1>1, <1>3 DEF Advance
  <2>2. NeverPanics'
    BY <1>1, <1>3 DEF Advance, NeverPanics
  <2>3. /\ total' = total /\ data' = data /\ cursor' = to /\ remaining' \in Nat
        /\ uri' \in {"plain", "special"} /\ pc' = "fields" /\ Continue("fields")
    BY <1>3 DEF Advance, Continue, IInv, TypeOK
  <2>4. total' \in LeastSize(protocol)..(line - offset)
    BY <1>1, <2>3 DEF IInv, TypeOK
  <2>5. BlocksFillFrame' /\ InFrame'
    BY <1>1, <1>3, <2>1, <2>3 DEF IInv, BlocksFillFrame, InFrame
  <2> QED
    BY <1>1, <1>3, <2>2, <2>3, <2>4, <2>5, ContinueInv
<1>4. uri \in {"plain", "special"}
  BY DEF IInv, TypeOK
<1> QED
  BY <1>1, <1>2, <1>3, <1>4 DEF Field, Words

LEMMA ServiceInv == ASSUME IInv, Service PROVE IInv'
<1>1. /\ UNCHANGED <<protocol, lines, line, tally>> /\ pc = "fields"
      /\ total \in Nat /\ total <= line - offset
      /\ (IF uri = "plain" THEN "json" ELSE "garbled") \in {"none", "json", "garbled"}
  BY DEF Service, At, IInv, TypeOK, LeastSize
<1>2. NeverPanics'
  BY DEF Service, NeverPanics
<1> QED
  BY <1>1, <1>2, TakeInv DEF Service

-----------------------------------------------------------------------------
LEMMA StepInv == IInv /\ [Next]_vars => IInv'
<1>1. CASE UNCHANGED vars
  BY <1>1 DEF vars, parser, tally, IInv, TypeOK, NeverPanics, BlocksFillFrame, InFrame, OfLine
<1> QED
  BY <1>1, FrontEndInv, LinkHeaderInv, LinkBlockInv, ApplicationInv, TpktInv, CotpInv,
     MessageInv, FieldInv, ServiceInv DEF Next

(* The inductive invariant of the decoders.                                *)
THEOREM Invariance == Spec => []IInv
  BY InitInv, StepInv, PTL DEF Spec

(* The parsers stay inside their line.                                     *)
THEOREM TypeCorrect == Spec => []TypeOK
<1>1. IInv => TypeOK
  BY DEF IInv
<1> QED
  BY Invariance, <1>1, PTL

(* No line makes a decoder panic: every slice and index is in range, for   *)
(* every width of the fields and every length of the input.                *)
THEOREM PanicFree == Spec => []NeverPanics
<1>1. IInv => NeverPanics
  BY DEF IInv
<1> QED
  BY Invariance, <1>1, PTL

(* The blocks of a DNP3 frame and their CRCs fill it.                      *)
THEOREM BlocksCorrect == Spec => []BlocksFillFrame
<1>1. IInv => BlocksFillFrame
  BY DEF IInv
<1> QED
  BY Invariance, <1>1, PTL

-----------------------------------------------------------------------------
(* Refinement: the frames of a line as OctetStream sees them.              *)

Spans(s) == [i \in DOMAIN s |-> [at |-> s[i].at, size |-> s[i].size]]

(* Taking a frame appends its span.                                        *)
LEMMA SpansAppend ==
  ASSUME NEW s \in Seq(FrameRecord), NEW f \in FrameRecord
  PROVE  Spans(Append(s, f)) = Append(Spans(s), [at |-> f.at, size |-> f.size])
<1>1. /\ Len(s) \in Nat /\ DOMAIN s = 1..Len(s)
      /\ Append(s, f) \in Seq(FrameRecord)
      /\ DOMAIN Append(s, f) = 1..(Len(s) + 1)
      /\ \A i \in 1..Len(s) : Append(s, f)[i] = s[i]
      /\ Append(s, f)[Len(s) + 1] = f
  OBVIOUS
<1>2. Spans(s) \in Seq([at : Nat, size : Nat]) /\ Len(Spans(s)) = Len(s)
  <2>1. \A i \in 1..Len(s) : [at |-> s[i].at, size |-> s[i].size] \in [at : Nat, size : Nat]
    <3> TAKE i \in 1..Len(s)
    <3>1. s[i] \in FrameRecord
      BY <1>1
    <3> QED
      BY <3>1 DEF FrameRecord
  <2> QED
    BY <1>1, <2>1 DEF Spans
<1>3. \A i \in 1..Len(s) : Spans(Append(s, f))[i] = Spans(s)[i]
  BY <1>1 DEF Spans
<1>4. Spans(Append(s, f))[Len(s) + 1] = [at |-> f.at, size |-> f.size]
  BY <1>1 DEF Spans
<1>5. [at |-> f.at, size |-> f.size] \in [at : Nat, size : Nat]
  BY DEF FrameRecord
<1>6. /\ DOMAIN Append(Spans(s), [at |-> f.at, size |-> f.size]) = 1..(Len(s) + 1)
      /\ \A i \in 1..Len(s) : Append(Spans(s), [at |-> f.at, size |-> f.size])[i] = Spans(s)[i]
      /\ Append(Spans(s), [at |-> f.at, size |-> f.size])[Len(s) + 1] = [at |-> f.at, size |-> f.size]
  BY <1>2, <1>5
<1>7. Spans(Append(s, f)) = [i \in 1..(Len(s) + 1) |-> Spans(Append(s, f))[i]]
  BY <1>1 DEF Spans
<1>8. Append(Spans(s), [at |-> f.at, size |-> f.size]) =
        [i \in 1..(Len(s) + 1) |-> Append(Spans(s), [at |-> f.at, size |-> f.size])[i]]
  BY <1>2, <1>5, <1>6
<1>9. ASSUME NEW i \in 1..(Len(s) + 1)
      PROVE  Spans(Append(s, f))[i] = Append(Spans(s), [at |-> f.at, size |-> f.size])[i]
  <2>1. i \in 1..Len(s) \/ i = Len(s) + 1
    BY <1>1
  <2> QED
    BY <2>1, <1>3, <1>4, <1>6
<1> QED
  BY <1>7, <1>8, <1>9, Zenon

(* No frames, no spans.                                                    *)
LEMMA SpansNone == Spans(<< >>) = << >>
  BY DEF Spans

(* Whatever parser is at work, a step of it stays inside the frame, breaks *)
(* off, or takes a frame that lies inside the line.                        *)
ParserMove ==
  /\ pc \in {"frame", "block", "cotp", "fields"}
  /\ UNCHANGED <<line, errors>>
  /\ \/ Fail
     \/ \E stage \in {"block", "cotp", "fields"} : Continue(stage)
     \/ \E size \in 7..(line - offset), event \in {"none", "json", "garbled"} : Take(size, event)

LEMMA ParserMoves ==
  ASSUME IInv,
         LinkHeader \/ LinkBlock \/ Application \/ Tpkt \/ Cotp \/ Message \/ Field \/ Service
  PROVE  ParserMove
<1>1. /\ line \in Nat /\ offset \in Nat
      /\ pc \in {"block", "cotp", "fields"} => total \in 7..(line - offset)
  <2>1. protocol \in Protocols => LeastSize(protocol) \in {7, 8, 10}
    BY DEF Protocols, LeastSize
  <2> QED
    BY <2>1 DEF IInv, TypeOK
<1>2. CASE LinkHeader
  BY <1>2 DEF LinkHeader, At, tally, ParserMove
<1>3. CASE LinkBlock
  BY <1>3 DEF LinkBlock, At, tally, ParserMove
<1>4. CASE Application
  BY <1>1, <1>4 DEF Application, At, tally, ParserMove
<1>5. CASE Tpkt
  BY <1>5 DEF Tpkt, At, tally, ParserMove
<1>6. CASE Cotp
  BY <1>1, <1>6 DEF Cotp, At, tally, ParserMove
<1>7. CASE Message
  <2>1. CASE Fail
    BY <1>7, <2>1 DEF Message, At, tally, ParserMove
  <2>2. CASE Continue("fields")
    BY <1>7, <2>2 DEF Message, At, tally, ParserMove
  <2>3. ASSUME NEW size \in Words, ~(BadSize(size) \/ Avail < size), Take(size, "json")
        PROVE  ParserMove
    <3>1. size \in 7..(line - offset)
      BY <1>1, <2>3 DEF BadSize, Avail, Words
    <3> QED
      BY <1>7, <2>3, <3>1 DEF Message, At, tally, ParserMove
  <2> QED
    BY <1>7, <2>1, <2>2, <2>3 DEF Message
<1>8. CASE Field
  <2>1. /\ pc = "fields" /\ UNCHANGED <<line, errors>>
        /\ Continue("fields") \/ Take(total, "json")
    BY <1>8 DEF Field, At, tally, Cut, Advance
  <2> QED
    BY <1>1, <2>1 DEF ParserMove
<1>9. CASE Service
  BY <1>1, <1>9 DEF Service, At, tally, ParserMove
<1> QED
  BY <1>2, <1>3, <1>4, <1>5, <1>6, <1>7, <1>8, <1>9

(* A step of a parser is a frame of OctetStream, or nothing.               *)
LEMMA StreamParser ==
  ASSUME IInv, IInv', ParserMove
  PROVE  [Stream!Next]_(Stream!vars)
<1>1. pc' \in {"frame", "block", "cotp", "fields", "broken"} /\ UNCHANGED <<line, errors>>
  BY DEF ParserMove, Fail, Continue, Take
<1>2. CASE UNCHANGED <<offset, frames>>
  BY <1>1, <1>2 DEF ParserMove, Stream!vars
<1>3. ASSUME NEW size \in 7..(line - offset), NEW event \in {"none", "json", "garbled"},
             Take(size, event)
      PROVE  Stream!Next
  <2>1. Spans(frames') = Append(Spans(frames), [at |-> offset, size |-> size])
    <3>1. /\ frames \in Seq(FrameRecord)
          /\ [at |-> offset, size |-> size, event |-> event] \in FrameRecord
      BY <1>3 DEF IInv, TypeOK, FrameRecord
    <3> QED
      BY <1>3, <3>1, SpansAppend DEF Take
  <2>2. Stream!Frame
    BY <1>1, <1>3, <2>1 DEF ParserMove, Take, Stream!Frame, Spans
  <2> QED
    BY <2>2 DEF Stream!Next
<1> QED
  BY <1>2, <1>3 DEF ParserMove, Fail, Continue

LEMMA StreamStep ==
  ASSUME IInv, IInv', [Next]_vars
  PROVE  [Stream!Next]_(Stream!vars)
<1>1. CASE UNCHANGED vars
  BY <1>1 DEF vars, tally, Stream!vars
<1>2. CASE Open
  <2>1. /\ pc = "open" /\ errors = 0 /\ line = 0 /\ UNCHANGED <<line, offset, frames, errors>>
    BY <1>2 DEF Open, IInv, OfLine
  <2>2. CASE pc' = "line"
    BY <2>1, <2>2 DEF Stream!vars
  <2>3. CASE pc' = "end" /\ exit' = "clean"
    BY <2>1, <2>3 DEF Stream!Next, Stream!Exit
  <2>4. CASE pc' = "end" /\ exit' = "unusable"
    BY <2>1, <2>4 DEF Stream!Next, Stream!Unreadable
  <2> QED
    BY <1>2, <2>2, <2>3, <2>4 DEF Open
<1>3. CASE ReadLine
  <2>1. pc = "line" /\ UNCHANGED exit
    BY <1>3 DEF ReadLine
  <2>2. CASE UNCHANGED <<line, offset, frames, pc, errors>>
    BY <2>1, <2>2 DEF Stream!vars
  <2>3. CASE errors' = errors + 1 /\ UNCHANGED <<line, offset, frames, pc>>
    <3>1. errors' > 0
      BY <2>3 DEF IInv, TypeOK
    <3> QED
      BY <2>1, <2>3, <3>1 DEF Stream!Next, Stream!NotHex
  <2>4. CASE line' \in 0..MaxLine /\ offset' = 0 /\ frames' = <<>> /\ pc' = "frame"
             /\ UNCHANGED errors
    <3>1. Spans(frames') = << >> /\ line' \in Nat
      BY <2>4, SpansNone
    <3> QED
      BY <2>1, <2>4, <3>1 DEF Stream!Next, Stream!NextLine, Spans
  <2> QED
    BY <1>3, <2>2, <2>3, <2>4 DEF ReadLine
<1>4. CASE Report
  <2>1. pc' = "line" /\ line' = 0 /\ offset' = 0 /\ Spans(frames') = << >>
    BY <1>4, SpansNone DEF Report
  <2>2. (errors' > 0) = (errors > 0 \/ offset < line)
    <3>1. CASE pc = "broken"
      <4>1. errors' > 0 /\ offset < line
        BY <1>4, <3>1 DEF Report, IInv, TypeOK, OfLine
      <4> QED
        BY <4>1
    <3>2. CASE pc = "report"
      <4>1. errors' = errors /\ ~(offset < line)
        BY <1>4, <3>2 DEF Report, IInv, TypeOK, OfLine
      <4> QED
        BY <4>1
    <3> QED
      BY <1>4, <3>1, <3>2 DEF Report
  <2>3. Stream!EndLine
    BY <1>4, <2>1, <2>2 DEF Report, Stream!EndLine, Spans
  <2> QED
    BY <2>3 DEF Stream!Next
<1>5. CASE End
  BY <1>5 DEF End, Stream!Next, Stream!Exit
<1>6. CASE Exhausted
  BY <1>6 DEF Exhausted, tally, Stream!vars
<1> QED
  BY <1>1, <1>2, <1>3, <1>4, <1>5, <1>6, ParserMoves, StreamParser DEF Next

(* Every run of a decoder is a run of OctetStream: the octets of a line    *)
(* are divided into consecutive frames, and what could not be placed shows *)
(* in the exit status.                                                     *)
THEOREM StreamImplemented == Spec => ImplementsStream
<1>1. Init => Stream!Init
  <2> SUFFICES ASSUME Init PROVE Stream!Init
    OBVIOUS
  <2>1. Spans(frames) = << >>
    BY SpansNone DEF Init
  <2> QED
    BY <2>1 DEF Init, Stream!Init, Spans
<1>2. IInv /\ IInv' /\ [Next]_vars => [Stream!Next]_(Stream!vars)
  BY StreamStep
<1> QED
  BY Invariance, <1>1, <1>2, PTL DEF Spec, ImplementsStream, Stream!Spec

-----------------------------------------------------------------------------
(* What is left to do, most significant first: to open the input, its      *)
(* lines, what becomes of the line at hand, its octets, to begin a frame,  *)
(* and the blocks or fields of the frame.                                  *)
Phase ==
  IF pc \in {"frame", "block", "cotp", "fields"} THEN 3
  ELSE IF pc \in {"report", "broken"} THEN 2
  ELSE IF pc = "line" THEN 1 ELSE 0

Work == <<IF pc = "open" THEN 1 ELSE 0, lines, Phase, line - offset, IF pc = "frame" THEN 1 ELSE 0,
          IF pc = "fields" THEN Len(plan) ELSE remaining>>

Works == [1..6 -> Nat]

Less(v, w) == \E j \in 1..6 : v[j] < w[j] /\ \A i \in 1..(j - 1) : v[i] = w[i]

(* The library's lexicographic order, which has no infinite descent.       *)
Descent == LexProductOrdering(OpToRel(<, Nat), Nat, 6)

LEMMA DescentEnds == IsWellFoundedOn(Descent, Works)
<1>1. IsWellFoundedOn(OpToRel(<, Nat), Nat)
  BY NatLessThanWellFounded
<1> HIDE DEF OpToRel
<1> QED
  BY <1>1, WFLexProductOrdering DEF Descent, Works

LEMMA LessDescends ==
  ASSUME NEW v \in Works, NEW w \in Works, Less(v, w)
  PROVE  <<v, w>> \in Descent
<1>1. PICK j \in 1..6 : v[j] < w[j] /\ \A i \in 1..(j - 1) : v[i] = w[i]
  BY DEF Less
<1>2. <<v[j], w[j]>> \in OpToRel(<, Nat)
  BY <1>1 DEF OpToRel, Works
<1> QED
  BY <1>1, <1>2 DEF Descent, LexProductOrdering, Works

LEMMA WorkType == IInv => Work \in Works
<1> SUFFICES ASSUME IInv PROVE Work \in Works
  OBVIOUS
<1>1. lines \in Nat /\ line - offset \in Nat
  BY DEF IInv, TypeOK
<1>2. Phase \in Nat
  BY DEF Phase
<1>3. (IF pc = "fields" THEN Len(plan) ELSE remaining) \in Nat
  BY DEF IInv, TypeOK, InFrame
<1> QED
  BY <1>1, <1>2, <1>3 DEF Work, Works

(* The frame at work lies in the rest of the line.                         *)
LEMMA TotalInLine ==
  ASSUME IInv, pc \in {"block", "cotp", "fields"}
  PROVE  total \in 1..(line - offset)
<1>1. /\ line \in Nat /\ offset \in Nat /\ protocol \in Protocols
      /\ total \in LeastSize(protocol)..(line - offset)
  BY DEF IInv, TypeOK
<1>2. LeastSize(protocol) \in Nat \ {0}
  BY <1>1 DEF LeastSize, Protocols
<1> QED
  BY <1>1, <1>2

(* parse_frame leaves the line smaller, or ends the work on it.            *)
Parsing == pc \in {"frame", "block", "cotp", "fields"}

LEMMA TakeLess ==
  ASSUME IInv, Parsing, lines' = lines, line' = line,
         NEW size \in 1..(line - offset), NEW event, Take(size, event)
  PROVE  Less(Work', Work)
<1>1. offset \in 0..line /\ line \in Nat
  BY DEF IInv, TypeOK
<1>2. line' - offset' < line - offset /\ pc' = "frame"
  BY <1>1 DEF Take
<1> QED
  BY <1>2 DEF Parsing, Work, Less, Phase

LEMMA FailLess ==
  ASSUME IInv, Parsing, lines' = lines, Fail
  PROVE  Less(Work', Work)
BY DEF Parsing, Fail, Work, Less, Phase

LEMMA BeginLess ==
  ASSUME pc = "frame", lines' = lines, line' = line, offset' = offset, pc' \in {"block", "cotp", "fields"}
  PROVE  Less(Work', Work)
BY DEF Work, Less, Phase

LEMMA PartLess ==
  ASSUME pc \in {"block", "fields"}, pc' = pc, lines' = lines, line' = line, offset' = offset,
         IF pc = "fields" THEN Len(plan') < Len(plan) ELSE remaining' < remaining
  PROVE  Less(Work', Work)
BY DEF Work, Less, Phase

LEMMA FrontEndLess ==
  ASSUME IInv, Open \/ ReadLine \/ Report \/ End \/ Exhausted
  PROVE  Less(Work', Work)
<1> USE DEF Work, Less, Phase
<1>1. CASE Open
  BY <1>1 DEF Open
<1>2. CASE ReadLine
  BY <1>2 DEF ReadLine, IInv, TypeOK
<1>3. CASE Report
  BY <1>3 DEF Report
<1>4. CASE End
  BY <1>4 DEF End
<1>5. CASE Exhausted
  BY <1>5 DEF Exhausted
<1> QED
  BY <1>1, <1>2, <1>3, <1>4, <1>5

LEMMA StepLess ==
  ASSUME IInv, Next
  PROVE  Less(Work', Work)
<1>1. CASE Open \/ ReadLine \/ Report \/ End \/ Exhausted
  BY <1>1, FrontEndLess
<1>2. CASE LinkHeader
  <2>1. pc = "frame" /\ lines' = lines /\ line' = line
    BY <1>2 DEF LinkHeader, At
  <2>2. Fail \/ (offset' = offset /\ pc' = "block")
    BY <1>2 DEF LinkHeader, Continue
  <2> QED
    BY <2>1, <2>2, FailLess, BeginLess DEF Parsing
<1>3. CASE LinkBlock
  <2>1. pc = "block" /\ lines' = lines /\ line' = line /\ remaining > 0 /\ remaining \in Nat
    BY <1>3 DEF LinkBlock, At, IInv, TypeOK
  <2>2. Fail \/ (offset' = offset /\ pc' = "block" /\ remaining' < remaining)
    BY <1>3, <2>1 DEF LinkBlock, Continue, BlockLimit
  <2> QED
    BY <2>1, <2>2, FailLess, PartLess DEF Parsing
<1>4. CASE Application
  <2>1. pc = "block" /\ lines' = lines /\ line' = line
    BY <1>4 DEF Application, At
  <2>2. total \in 1..(line - offset)
    BY <2>1, TotalInLine
  <2>3. Take(total, "none") \/ Take(total, "json")
    BY <1>4 DEF Application
  <2> QED
    BY <2>1, <2>2, <2>3, TakeLess DEF Parsing
<1>5. CASE Tpkt
  <2>1. pc = "frame" /\ lines' = lines /\ line' = line
    BY <1>5 DEF Tpkt, At
  <2>2. Fail \/ (offset' = offset /\ pc' = "cotp")
    BY <1>5 DEF Tpkt, Continue
  <2> QED
    BY <2>1, <2>2, FailLess, BeginLess DEF Parsing
<1>6. CASE Cotp
  <2>1. pc = "cotp" /\ lines' = lines /\ line' = line
    BY <1>6 DEF Cotp, At
  <2>2. total \in 1..(line - offset)
    BY <2>1, TotalInLine
  <2>3. Fail \/ Take(total, "none") \/ Take(total, "json")
    BY <1>6 DEF Cotp
  <2> QED
    BY <2>1, <2>2, <2>3, FailLess, TakeLess DEF Parsing
<1>7. CASE Message
  <2>1. pc = "frame" /\ lines' = lines /\ line' = line /\ offset \in 0..line /\ line \in Nat
    BY <1>7 DEF Message, At, IInv, TypeOK
  <2>2. \/ Fail
        \/ \E size \in Words : ~BadSize(size) /\ ~(Avail < size) /\ Take(size, "json")
        \/ offset' = offset /\ pc' = "fields"
    BY <1>7 DEF Message, Continue
  <2>3. ASSUME NEW size \in Words, ~BadSize(size), ~(Avail < size), Take(size, "json")
        PROVE  Less(Work', Work)
    <3>1. size \in 1..(line - offset)
      BY <2>1, <2>3, WidthAssumption DEF BadSize, Avail, Words
    <3> QED
      BY <2>1, <2>3, <3>1, TakeLess DEF Parsing
  <2> QED
    BY <2>1, <2>2, <2>3, FailLess, BeginLess DEF Parsing
<1>8. CASE Field
  <2>1. pc = "fields" /\ lines' = lines /\ line' = line /\ plan # <<>> /\ plan \in Seq(Kinds)
    BY <1>8 DEF Field, At, IInv, InFrame
  <2>2. total \in 1..(line - offset)
    BY <2>1, TotalInLine
  <2>3. Take(total, "json") \/ (offset' = offset /\ pc' = "fields" /\ plan' = Tail(plan))
    BY <1>8 DEF Field, Cut, Advance, Continue
  <2>4. Len(Tail(plan)) < Len(plan)
    BY <2>1
  <2> QED
    BY <2>1, <2>2, <2>3, <2>4, TakeLess, PartLess DEF Parsing
<1>9. CASE Service
  <2>1. pc = "fields" /\ lines' = lines /\ line' = line
    BY <1>9 DEF Service, At
  <2>2. total \in 1..(line - offset)
    BY <2>1, TotalInLine
  <2>3. \E event \in {"json", "garbled"} : Take(total, event)
    BY <1>9 DEF Service
  <2> QED
    BY <2>1, <2>2, <2>3, TakeLess DEF Parsing
<1> QED
  BY <1>1, <1>2, <1>3, <1>4, <1>5, <1>6, <1>7, <1>8, <1>9 DEF Next

Descends == <<Work', Work>> \in Descent

(* Reading does not go on for ever, whatever the lines hold: every step of *)
(* a decoder leaves less to do, in an order without infinite descent.      *)
THEOREM WorkShrinks ==
  IsWellFoundedOn(Descent, Works) /\ (Spec => [][Descends]_vars)
<1>1. IInv => Work \in Works
  BY WorkType
<1>2. IInv /\ Work \in Works /\ Work' \in Works /\ [Next]_vars => [Descends]_vars
  BY StepLess, LessDescends DEF Descends
<1>3. Works' = Works
  BY DEF Works
<1>4. Spec => [][Descends]_vars
  <2>1. IInv /\ Work \in Works /\ (Work \in Works)' /\ [Next]_vars => [Descends]_vars
    BY <1>2, <1>3
  <2> QED
    BY <1>1, <2>1, Invariance, PTL DEF Spec
<1> QED
  BY <1>4, DescentEnds
=============================================================================
