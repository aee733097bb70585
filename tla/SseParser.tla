------------------------------ MODULE SseParser ------------------------------
(***************************************************************************)
(* parseSseStream and IncrementalSseParser (src/src/events/sse-parser.ts): *)
(* the bytes of a response become the items of SseSubscription, whatever   *)
(* chunks they come in.                                                    *)
(*                                                                         *)
(* A stream is a sequence of symbols: a line end, a field name with its    *)
(* colon, or a character.  TextDecoder keeps the bytes of a character that *)
(* a chunk cuts until the rest arrives, so symbols are never cut; at the   *)
(* end of the stream it makes an unfinished character a "rep".  A symbol   *)
(* counts as many bytes as Width says.                                     *)
(*                                                                         *)
(* The definitions named Bad... are mutations, as in HubDiscovery.         *)
(***************************************************************************)
EXTENDS Naturals, Sequences, SequencesExt

CONSTANTS
    Streams,             \* what the Hub may send
    InitialLastEventId,  \* options.initialLastEventId
    Window,              \* symbols in a window of 4096 bytes, at most
    MaxData              \* maximumEventDataBytes

(* "rep" is the replacement character, "n" a digit, "w" a letter of two    *)
(* bytes, "bom" is U+FEFF, "nul" U+0000.                                   *)
Fields  == {"data", "event", "id", "retry", "comment"}
Symbols == Fields \cup {"n", "w", "sp", "nul", "bom", "rep", "cr", "lf"}
Breaks  == {"cr", "lf"}

ASSUME ParserAssumption ==
    /\ Streams \subseteq Seq(Symbols)
    /\ \A s \in Streams : \A i \in DOMAIN s : s[i] = "rep" => i = Len(s)
    /\ InitialLastEventId \in Seq(Symbols)
    /\ Window \in Nat \ {0}
    /\ MaxData \in Nat \ {0}

VARIABLES
    stream,   \* the text of the response
    fed,      \* symbols of it the parser has been fed
    left,     \* symbols of the window it has yet to be fed
    parser,   \* the fields of IncrementalSseParser
    yielded,  \* history: the items the consumer got
    place     \* where the generator is

vars == <<stream, fed, left, parser, yielded, place>>

-----------------------------------------------------------------------------
Width(symbol) ==
    CASE symbol \in {"bom", "rep"} -> 3
      [] symbol = "w" -> 2
      [] OTHER -> 1

(* One for each symbol, another for each that is wider, another for each   *)
(* that is wider still.                                                    *)
Wider(text, n) == {i \in DOMAIN text : Width(text[i]) > n}

Bytes(text) ==
    Len(text) + Cardinality(Wider(text, 1)) + Cardinality(Wider(text, 2))

(* The name of a data field, its colon and a space, in symbols.            *)
Framing == 2
MaxLine == MaxData + Framing

(* What follows the colon, without one leading space.                      *)
Value(line) ==
    IF Len(line) > 1 /\ line[2] = "sp"
    THEN SubSeq(line, 3, Len(line))
    ELSE Tail(line)

(* The value of a retry field is at most the largest safe integer.         *)
IsNumber(text) == text # <<>> /\ \A i \in DOMAIN text : text[i] = "n"

IsIdentifier(text) == \A i \in DOMAIN text : text[i] # "nul"

Event(name, data, id) == [type |-> "event", name |-> name, data |-> data, id |-> id]
Checkpoint(id)        == [type |-> "checkpoint", id |-> id]
Retry(milliseconds)   == [type |-> "retry", milliseconds |-> milliseconds]

-----------------------------------------------------------------------------
(* IncrementalSseParser.  data is what #dataFragments and #pendingData     *)
(* hold, line what #lineFragments and #pendingLine do.                     *)
NewParser ==
    [items          |-> <<>>,
     data           |-> <<>>,
     line           |-> <<>>,
     emptyDataLines |-> 0,
     lineBytes      |-> 0,
     eventDataBytes |-> 0,
     skipLineFeed   |-> FALSE,
     atStart        |-> TRUE,
     eventType      |-> <<>>,
     lastEventId    |-> InitialLastEventId,
     blockIdChanged |-> FALSE,
     refused        |-> FALSE]

NewLines(n) == [i \in 1 .. n |-> "lf"]

(* #flushEmptyData                                                         *)
Flushed(p) == p.data \o NewLines(p.emptyDataLines)

(* The line feed that joins two lines does not count.                      *)
BadDataBytes(p, value) == p.eventDataBytes + Bytes(value)

DataBytes(p, value) == p.eventDataBytes + Bytes(value) + 1

DataLine(p, value) ==
    IF DataBytes(p, value) > MaxData
    THEN [p EXCEPT !.refused = TRUE]
    ELSE IF value = <<>>
    THEN [p EXCEPT !.eventDataBytes = DataBytes(p, value),
                   !.emptyDataLines = @ + 1]
    ELSE [p EXCEPT !.eventDataBytes = DataBytes(p, value),
                   !.data = Flushed(p) \o Append(value, "lf"),
                   !.emptyDataLines = 0]

(* The item of a finished block, without the last line feed of its data.   *)
BlockItems(p) ==
    IF p.eventDataBytes > 0
    THEN <<Event(p.eventType, Front(Flushed(p)), p.lastEventId)>>
    ELSE IF p.blockIdChanged THEN <<Checkpoint(p.lastEventId)>>
    ELSE <<>>

DispatchBlock(p) ==
    [p EXCEPT !.items = @ \o BlockItems(p),
              !.data = <<>>,
              !.emptyDataLines = 0,
              !.eventDataBytes = 0,
              !.eventType = <<>>,
              !.blockIdChanged = FALSE]

HandleLine(p) ==
    IF p.line = <<>> THEN DispatchBlock(p)
    ELSE LET value == Value(p.line) IN
    CASE p.line[1] = "data" -> DataLine(p, value)
      [] p.line[1] = "event" -> [p EXCEPT !.eventType = value]
      [] p.line[1] = "id" /\ IsIdentifier(value) ->
            [p EXCEPT !.lastEventId = value, !.blockIdChanged = TRUE]
      [] p.line[1] = "retry" /\ IsNumber(value) ->
            [p EXCEPT !.items = Append(@, Retry(value))]
      [] OTHER -> p

EndLine(p, symbol) ==
    [HandleLine(p) EXCEPT !.line = <<>>,
                          !.lineBytes = 0,
                          !.skipLineFeed = symbol = "cr"]

AppendSymbol(p, symbol) ==
    LET bytes == p.lineBytes + Width(symbol) IN
    IF bytes > MaxLine
    THEN [p EXCEPT !.refused = TRUE]
    ELSE [p EXCEPT !.line = Append(@, symbol),
                   !.lineBytes = bytes,
                   !.skipLineFeed = FALSE]

(* The step of feed() for one symbol.                                      *)
FeedSymbol(p, symbol) ==
    IF p.atStart /\ symbol = "bom" THEN [p EXCEPT !.atStart = FALSE]
    ELSE IF p.skipLineFeed /\ symbol = "lf" THEN [p EXCEPT !.skipLineFeed = FALSE]
    ELSE LET q == [p EXCEPT !.atStart = FALSE] IN
         IF symbol \in Breaks THEN EndLine(q, symbol) ELSE AppendSymbol(q, symbol)

-----------------------------------------------------------------------------
(* parseSseStream.                                                         *)
Places == {"open", "done", "refused", "broken", "stopped"}

Items ==
    [type : {"event"}, name : Seq(Symbols), data : Seq(Symbols), id : Seq(Symbols)]
        \cup [type : {"checkpoint"}, id : Seq(Symbols)]
        \cup [type : {"retry"}, milliseconds : Seq({"n"})]

Parsers ==
    [items : Seq(Items), data : Seq(Symbols), line : Seq(Symbols),
     emptyDataLines : 0 .. MaxData, lineBytes : 0 .. MaxLine, eventDataBytes : 0 .. MaxData,
     skipLineFeed : BOOLEAN, atStart : BOOLEAN, eventType : Seq(Symbols),
     lastEventId : Seq(Symbols), blockIdChanged : BOOLEAN, refused : BOOLEAN]

ParserTypeOK ==
    /\ stream \in Streams
    /\ fed \in 0 .. Len(stream)
    /\ left \in 0 .. Len(stream) - fed
    /\ parser \in Parsers
    /\ yielded \in Seq(Items)
    /\ place \in Places

Init ==
    /\ stream \in Streams
    /\ fed = 0
    /\ left = 0
    /\ parser = NewParser
    /\ yielded = <<>>
    /\ place = "open"

Rest == SubSeq(stream, fed + 1, Len(stream))

(* The text that makes an unfinished character at the end.                 *)
IsTail(text) == text \in {<<>>, <<"rep">>}

(* A chunk is one window.                                                  *)
BadWindows == 1 .. Len(Rest)

Windows == 1 .. (IF Window < Len(Rest) THEN Window ELSE Len(Rest))

(* What comes next is read when everything has been fed and taken.         *)
AtRead == place = "open" /\ left = 0 /\ parser.items = <<>>

(* A line feed is skipped only in the window of the carriage return.       *)
BadFeedWindow ==
    /\ AtRead
    /\ \E n \in Windows : stream[fed + n] # "rep" /\ left' = n
    /\ parser' = [parser EXCEPT !.skipLineFeed = FALSE]
    /\ UNCHANGED <<stream, fed, yielded, place>>

(* A window of a chunk is decoded; nothing is read while there are items.  *)
(* A chunk is one or more windows.                                         *)
FeedWindow ==
    /\ AtRead
    /\ \E n \in Windows : stream[fed + n] # "rep" /\ left' = n
    /\ UNCHANGED <<stream, fed, parser, yielded, place>>

(* The window is fed to its end, unless an exception drops the rest.       *)
Feed ==
    LET p == FeedSymbol(parser, stream[fed + 1]) IN
    /\ place = "open"
    /\ left > 0
    /\ fed' = fed + 1
    /\ parser' = p
    /\ left' = IF p.refused THEN 0 ELSE left - 1
    /\ place' = IF p.refused THEN "refused" ELSE "open"
    /\ UNCHANGED <<stream, yielded>>

Yield ==
    /\ place = "open"
    /\ left = 0
    /\ parser.items # <<>>
    /\ yielded' = Append(yielded, Head(parser.items))
    /\ parser' = [parser EXCEPT !.items = Tail(@)]
    /\ UNCHANGED <<stream, fed, left, place>>

(* The stream is at its end; the decoder hands out what it holds.          *)
StreamEnds ==
    LET p == IF Rest = <<>> THEN parser ELSE FeedSymbol(parser, "rep") IN
    /\ AtRead
    /\ IsTail(Rest)
    /\ fed' = Len(stream)
    /\ parser' = p
    /\ place' = IF p.refused THEN "refused" ELSE "done"
    /\ UNCHANGED <<stream, left, yielded>>

ReadFails ==
    /\ AtRead
    /\ place' = "broken"
    /\ UNCHANGED <<stream, fed, left, parser, yielded>>

(* The signal aborts or the consumer returns.  Between an abort and the    *)
(* next look at the signal windows without an item may still be fed.       *)
Stops ==
    /\ place = "open"
    /\ left = 0
    /\ place' = "stopped"
    /\ UNCHANGED <<stream, fed, left, parser, yielded>>

Settled == place # "open" /\ UNCHANGED vars

Next == FeedWindow \/ Feed \/ Yield \/ StreamEnds \/ ReadFails \/ Stops \/ Settled

Spec == Init /\ [][Next]_vars

-----------------------------------------------------------------------------
(* The meaning of a text, without any parser: where its lines end, which   *)
(* of them form a block and what each of them makes.  A line is known by   *)
(* the place of its end; the line and the block that a text leaves open    *)
(* are those at Len(text) + 1.                                             *)

(* A CR LF pair ends one line, at the CR.                                  *)
EndsOf(text) ==
    {i \in DOMAIN text :
        \/ text[i] = "cr"
        \/ text[i] = "lf" /\ (i = 1 \/ text[i - 1] # "cr")}

BreakBefore(text, at) == Max({0} \cup {i \in 1 .. at - 1 : text[i] \in Breaks})

LineAt(text, at) == SubSeq(text, BreakBefore(text, at) + 1, at - 1)

(* The lines before a place that no empty line separates from it.          *)
BlockAt(text, at) ==
    {i \in EndsOf(text) :
        i < at /\ \A j \in EndsOf(text) : i <= j /\ j < at => LineAt(text, j) # <<>>}

FieldAt(text, at, field) == {i \in BlockAt(text, at) : LineAt(text, i)[1] = field}

(* Identifiers hold beyond their block.                                    *)
IdentifiersAt(text, at) ==
    {i \in EndsOf(text) :
        /\ i < at /\ LineAt(text, i) # <<>> /\ LineAt(text, i)[1] = "id"
        /\ IsIdentifier(Value(LineAt(text, i)))}

LatestValue(text, lines, default) ==
    IF lines = {} THEN default ELSE Value(LineAt(text, Max(lines)))

(* The data of a block: a line feed after the value of each data line.     *)
DataAt(text, at) ==
    LET lines == FieldAt(text, at, "data") IN
    FlattenSeq([i \in 1 .. at - 1 |->
                  IF i \in lines THEN Append(Value(LineAt(text, i)), "lf") ELSE <<>>])

(* What the line that ends at a place makes.                               *)
ItemsAt(text, at) ==
    LET line == LineAt(text, at)
        data == DataAt(text, at)
        id   == LatestValue(text, IdentifiersAt(text, at), InitialLastEventId)
    IN CASE line = <<>> /\ data # <<>> ->
               <<Event(LatestValue(text, FieldAt(text, at, "event"), <<>>), Front(data), id)>>
         [] line = <<>> /\ data = <<>>
                /\ IdentifiersAt(text, at) \cap BlockAt(text, at) # {} ->
               <<Checkpoint(id)>>
         [] line # <<>> /\ line[1] = "retry" /\ IsNumber(Value(line)) ->
               <<Retry(Value(line))>>
         [] OTHER -> <<>>

ItemsOf(text) ==
    FlattenSeq([i \in 1 .. Len(text) |->
                  IF i \in EndsOf(text) THEN ItemsAt(text, i) ELSE <<>>])

(* A line, finished or not, is longer than the largest data line, or the   *)
(* data of a block, each line of it with a line feed, does not fit.        *)
IsTooLarge(text) ==
    \E at \in EndsOf(text) \cup {Len(text) + 1} :
        \/ Bytes(LineAt(text, at)) > MaxData + Bytes(<<"data", "sp">>)
        \/ Bytes(DataAt(text, at)) > MaxData

(* What has been fed, but for a byte order mark in front of it.            *)
WithoutBom(text) == IF text # <<>> /\ text[1] = "bom" THEN Tail(text) ELSE text

Text == WithoutBom(SubSeq(stream, 1, fed))

-----------------------------------------------------------------------------
(* However a stream is cut into chunks and windows, between CR and LF,     *)
(* within a line or a block, behind the byte order mark: what has been     *)
(* yielded and what waits is exactly what the text so far means; of a text *)
(* beyond the limits what was yielded is a beginning of that               *)
(* (sse-parser.ts:72-92, 124-157, 250-269).                                *)
ParsesAsWhole ==
    IF parser.refused
    THEN IsPrefix(yielded, ItemsOf(Text))
    ELSE yielded \o parser.items = ItemsOf(Text)

(* sse-parser.ts:5-6 - a text is refused, for good, if and only if a line  *)
(* is longer than the event budget with its framing or the data of one     *)
(* event, line feeds and empty lines counted, exceed the budget.           *)
LimitsAreExact == parser.refused <=> IsTooLarge(Text)

(* sse-parser.ts:75-76 - whatever the size of a chunk, the parser never    *)
(* holds more items than a window can end, nor more text than one line and *)
(* one event (sse-parser.ts:217-248).                                      *)
BuffersAreBounded ==
    /\ Len(parser.items) <= Window
    /\ Bytes(parser.line) <= MaxData + Framing
    /\ Bytes(parser.data) + parser.emptyDataLines <= MaxData
=============================================================================
