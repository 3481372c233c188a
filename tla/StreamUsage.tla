------------------------------ MODULE StreamUsage ------------------------------
(***************************************************************************)
(* What one upstream response is charged (src/internal/pricing): the       *)
(* tokens found in its bytes as the proxy hands them on, chunk by chunk,   *)
(* until the response ends, breaks off or is abandoned, and their price.   *)
(*                                                                         *)
(* A document is the JSON of one line of an event stream, or of a whole    *)
(* body; all that matters of it are the counts of its usage field and the  *)
(* length of its delta.content.  It arrives in two bytes, either of which  *)
(* is no JSON without the other, and the end of a line is a byte as well.  *)
(***************************************************************************)
EXTENDS Integers, Sequences, SequencesExt, FiniteSets

CONSTANTS
  Docs,       \* documents, see Doc
  Bodies,     \* response bodies: sequences of bytes
  Models,     \* what clients ask for: a name, with the date of a snapshot or without
  BuiltIn,    \* DefaultModelPricing: the price of one token in and one out
  Overrides   \* what the pricing entries of the configuration may be

Divisor == 4   \* tokensPerByteEstimateDivisor

(* data: does the text begin with "data:"?                                  *)
Doc   == [data : BOOLEAN, in : Int, out : Int, delta : Nat]
NL    == [end |-> TRUE]
Byte  == {NL} \cup [of : Docs, half : {1, 2}]
Bytes(d) == << [of |-> d, half |-> 1], [of |-> d, half |-> 2] >>
Price == [in : Nat, out : Nat]

ASSUME StreamUsageAssumption ==
  /\ Docs \subseteq Doc
  /\ \A b \in Bodies : b \in Seq(Byte)
  /\ \A m \in Models : m.dated \in BOOLEAN /\ m.claude \in BOOLEAN
  /\ \A o \in Overrides \cup {BuiltIn} : \A m \in DOMAIN o : o[m] \in Price

VARIABLES
  body,       \* what the upstream sends
  read,       \* how many bytes of it have been handed on
  streaming,  \* budgetTrackingBody.streaming
  acc,        \* the SSEAccumulator, or the buffered bytes as its partial line
  table,      \* the pricing table
  asked,      \* the model of the request (meta.model)
  usage,      \* what was found, once the body is finalized
  cost        \* and what it costs

bodyVars == <<body, read, streaming, acc, table, asked, usage, cost>>

Open == [in |-> 0, out |-> 0, est |-> "open"]   \* not finalized yet
Received == SubSeq(body, 1, read)

-----------------------------------------------------------------------------
(* Prices.                                                                  *)

normalizeModel(m) == IF m.claude THEN [m EXCEPT !.dated = FALSE] ELSE m

(* Built-in prices and overrides on top; the configuration lists a model    *)
(* once.                                                                    *)
NewPricingTable(overrides) ==
  LET named(m, o) == {k \in DOMAIN o : normalizeModel(k) = m}
      priced == {normalizeModel(k) : k \in DOMAIN BuiltIn \cup DOMAIN overrides}
  IN [m \in priced |->
        IF named(m, overrides) # {} THEN overrides[CHOOSE k \in named(m, overrides) : TRUE]
        ELSE BuiltIn[CHOOSE k \in named(m, BuiltIn) : TRUE]]

Positive(n) == IF n < 0 THEN 0 ELSE n

(* Mutant: the counts are multiplied as they come.                          *)
CalculateCostSigned(m, in, out) ==
  IF normalizeModel(m) \notin DOMAIN table THEN 0
  ELSE in * table[normalizeModel(m)].in + out * table[normalizeModel(m)].out

CalculateCost(m, in, out) ==
  IF normalizeModel(m) \notin DOMAIN table THEN 0
  ELSE Positive(in) * table[normalizeModel(m)].in + Positive(out) * table[normalizeModel(m)].out

-----------------------------------------------------------------------------
(* Usage.                                                                   *)

(* The document a text is, if it is one.                                    *)
Parsed(text) == {d \in Docs : text = Bytes(d)}

(* The usage field, unless both its counts are zero.                        *)
extractUsage(d) == d.in # 0 \/ d.out # 0

estimateTokensFromBodyLength(n) ==
  IF n = 0 THEN 0 ELSE IF n \div Divisor < 1 THEN 1 ELSE n \div Divisor

NewSSEAccumulator == [in |-> 0, out |-> 0, delta |-> 0, partialLine |-> <<>>]

(* The latest positive count of each kind stands; delta.content is read     *)
(* only where there is no usage.                                            *)
processLine(a, line) ==
  LET usable == {d \in Parsed(line) : d.data}
  IN IF usable = {} THEN a
     ELSE LET d == CHOOSE d \in usable : TRUE
          IN IF extractUsage(d)
             THEN [a EXCEPT !.in = IF d.in > 0 THEN d.in ELSE @, !.out = IF d.out > 0 THEN d.out ELSE @]
             ELSE [a EXCEPT !.delta = @ + d.delta]

FlushLine(a) == [processLine(a, a.partialLine) EXCEPT !.partialLine = <<>>]

AddByte(a, byte) ==
  IF byte = NL THEN FlushLine(a) ELSE [a EXCEPT !.partialLine = Append(@, byte)]

(* Mutant: what is left of a chunk is a line.                               *)
WriteWhole(a, chunk) == FlushLine(FoldLeft(AddByte, a, chunk))

Write(a, chunk) == FoldLeft(AddByte, a, chunk)

(* An unfinished last line counts as well.                                  *)
Usage(a) ==
  LET f == FlushLine(a)
  IN CASE f.in > 0 \/ f.out > 0 -> [in |-> f.in, out |-> f.out, est |-> "no"]
       [] f.in = 0 /\ f.out = 0 /\ f.delta > 0 ->
            [in |-> 0, out |-> estimateTokensFromBodyLength(f.delta), est |-> "delta"]
       [] OTHER -> [in |-> 1, out |-> 1, est |-> "least"]

ExtractUsageFromResponse(text) ==
  LET usable == {d \in Parsed(text) : ~d.data /\ extractUsage(d)}
      n == estimateTokensFromBodyLength(Len(text))
  IN IF usable = {} THEN [in |-> n, out |-> n, est |-> "length"]
     ELSE LET d == CHOOSE d \in usable : TRUE IN [in |-> d.in, out |-> d.out, est |-> "no"]

-----------------------------------------------------------------------------
(* budgetTrackingBody.                                                      *)

(* The client asked for a stream, or the upstream says that it is one.      *)
BodyInit ==
  /\ body \in Bodies
  /\ read = 0
  /\ streaming \in BOOLEAN
  /\ acc = NewSSEAccumulator
  /\ \E overrides \in Overrides : table = NewPricingTable(overrides)
  /\ asked \in Models
  /\ usage = Open
  /\ cost = 0

(* One Read hands a chunk on and has it accounted.                          *)
Read(n) ==
  /\ usage = Open
  /\ n <= Len(body) - read
  /\ read' = read + n
  /\ LET chunk == SubSeq(body, read + 1, read + n)
     IN acc' = IF streaming THEN Write(acc, chunk)
               ELSE [acc EXCEPT !.partialLine = @ \o chunk]
  /\ UNCHANGED <<body, streaming, table, asked, usage, cost>>

(* The end of the body, a broken connection or a client that left, all of   *)
(* them through finalize; a body is finalized once.                         *)
FinalizeBody ==
  /\ usage = Open
  /\ LET found == IF streaming THEN Usage(acc) ELSE ExtractUsageFromResponse(acc.partialLine)
     IN usage' = found /\ cost' = CalculateCost(asked, found.in, found.out)
  /\ UNCHANGED <<body, read, streaming, acc, table, asked>>

BodyNext == (\E n \in 1 .. Len(body) : Read(n)) \/ FinalizeBody

BodySpec == BodyInit /\ [][BodyNext]_bodyVars

-----------------------------------------------------------------------------

BodyTypeOK ==
  /\ body \in Seq(Byte) /\ read \in 0 .. Len(body)
  /\ streaming \in BOOLEAN /\ asked \in Models
  /\ acc.in \in Nat /\ acc.out \in Nat /\ acc.delta \in Nat /\ acc.partialLine \in Seq(Byte)
  /\ usage.in \in Int /\ usage.out \in Int

(* The lines of an event stream that have arrived: the documents with a     *)
(* "data:" whose two bytes, next to each other on a line of their own, are  *)
(* among those received.                                                    *)
Arrived ==
  {i \in 1 .. read - 1 :
     /\ \E d \in Docs : d.data /\ SubSeq(body, i, i + 1) = Bytes(d)
     /\ i = 1 \/ body[i - 1] = NL
     /\ i + 1 = read \/ body[i + 2] = NL}

At(i) == body[i].of
Reports(i) == At(i).in # 0 \/ At(i).out # 0

(* The count of the last line that has one.                                 *)
Latest(I, count(_)) ==
  LET has == {i \in I : count(i) > 0}
  IN IF has = {} THEN 0 ELSE count(Max(has))

(* The bytes of text in the lines without usage, and how many they are.     *)
Text   == UNION {{i} \X (1 .. At(i).delta) : i \in {j \in Arrived : ~Reports(j)}}
Deltas == Cardinality(Text)

(* Wherever the network cut a stream into chunks, and wherever it broke     *)
(* off, the charge is that of the lines that arrived whole: the latest      *)
(* counts they report, else an estimate of the text, else the minimum       *)
(* (README.md:233, streaming.go:38-39); and no response earns its agent     *)
(* money.                                                                   *)
BilledAsReceived ==
  /\ BodyTypeOK
  /\ cost >= 0
  /\ usage # Open /\ streaming =>
       LET in  == Latest(Arrived, LAMBDA i : At(i).in)
           out == Latest(Arrived, LAMBDA i : At(i).out)
       IN <<usage.in, usage.out>> =
            CASE in + out > 0 -> <<in, out>>
              [] in + out = 0 /\ Deltas > 0 -> <<0, IF Deltas < 4 THEN 1 ELSE Deltas \div 4>>
              [] OTHER -> <<1, 1>>

=============================================================================
