--------------------------- MODULE SseParserProofs ---------------------------
(***************************************************************************)
(* Proofs about SseParser for every stream, window and event budget: its   *)
(* accounts and buffers first; then, by induction over the text, that what *)
(* it holds, yields and refuses is what the text so far means.             *)
(***************************************************************************)
EXTENDS SseParser, SequenceTheorems, FunctionTheorems, FiniteSetTheorems, WellFoundedInduction,
        TLAPS

-----------------------------------------------------------------------------
(* Counting bytes.                                                         *)
LEMMA WiderIsFinite ==
    ASSUME NEW s \in Seq(Symbols), NEW n \in {1, 2}
    PROVE  /\ Wider(s, n) \subseteq 1 .. Len(s)
           /\ IsFiniteSet(Wider(s, n)) /\ Cardinality(Wider(s, n)) \in Nat
<1>1. Wider(s, n) \subseteq 1 .. Len(s)
  BY DEF Wider
<1>2. IsFiniteSet(1 .. Len(s))
  BY FS_Interval
<1>3. IsFiniteSet(Wider(s, n))
  BY <1>1, <1>2, FS_Subset
<1>4. QED
  BY <1>1, <1>3, FS_CardinalityType

LEMMA BytesIsNatural == \A s \in Seq(Symbols) : Bytes(s) \in Nat
<1> SUFFICES ASSUME NEW s \in Seq(Symbols) PROVE Bytes(s) \in Nat
  OBVIOUS
<1>1. Cardinality(Wider(s, 1)) \in Nat /\ Cardinality(Wider(s, 2)) \in Nat
  BY WiderIsFinite
<1>2. QED
  BY <1>1 DEF Bytes

LEMMA BytesOfNothing == Bytes(<<>>) = 0
<1>1. Wider(<<>>, 1) = {} /\ Wider(<<>>, 2) = {}
  BY DEF Wider
<1>2. Cardinality(Wider(<<>>, 1)) = 0 /\ Cardinality(Wider(<<>>, 2)) = 0
  BY <1>1, FS_EmptySet, Zenon
<1>3. QED
  BY <1>2 DEF Bytes

LEMMA WiderOfAppend ==
    ASSUME NEW s \in Seq(Symbols), NEW x \in Symbols, NEW n \in {1, 2}
    PROVE  Cardinality(Wider(Append(s, x), n))
              = Cardinality(Wider(s, n)) + (IF Width(x) > n THEN 1 ELSE 0)
<1>1. IsFiniteSet(Wider(s, n)) /\ Wider(s, n) \subseteq 1 .. Len(s)
       /\ Cardinality(Wider(s, n)) \in Nat
  BY WiderIsFinite
<1>2. CASE Width(x) > n
  <2>1. Wider(Append(s, x), n) = Wider(s, n) \cup {Len(s) + 1}
    BY <1>2 DEF Wider
  <2>2. Len(s) + 1 \notin Wider(s, n)
    BY <1>1
  <2>3. QED
    BY <1>1, <1>2, <2>1, <2>2, FS_AddElement
<1>3. CASE ~(Width(x) > n)
  <2>1. Wider(Append(s, x), n) = Wider(s, n)
    BY <1>3 DEF Wider
  <2>2. QED
    BY <1>1, <1>3, <2>1
<1>4. QED
  BY <1>2, <1>3

LEMMA BytesOfAppend ==
    ASSUME NEW s \in Seq(Symbols), NEW x \in Symbols
    PROVE  Bytes(Append(s, x)) = Bytes(s) + Width(x)
<1>1. Cardinality(Wider(s, 1)) \in Nat /\ Cardinality(Wider(s, 2)) \in Nat
  BY WiderIsFinite
<1>2. /\ Cardinality(Wider(Append(s, x), 1))
            = Cardinality(Wider(s, 1)) + (IF Width(x) > 1 THEN 1 ELSE 0)
      /\ Cardinality(Wider(Append(s, x), 2))
            = Cardinality(Wider(s, 2)) + (IF Width(x) > 2 THEN 1 ELSE 0)
  BY WiderOfAppend
<1>3. Width(x) = 1 + (IF Width(x) > 1 THEN 1 ELSE 0) + (IF Width(x) > 2 THEN 1 ELSE 0)
  BY DEF Width
<1>4. Len(Append(s, x)) = Len(s) + 1
  OBVIOUS
<1>5. QED
  BY <1>1, <1>2, <1>3, <1>4 DEF Bytes

LEMMA WiderOfConcat ==
    ASSUME NEW s \in Seq(Symbols), NEW t \in Seq(Symbols), NEW n \in {1, 2}
    PROVE  Cardinality(Wider(s \o t, n)) = Cardinality(Wider(s, n)) + Cardinality(Wider(t, n))
<1> DEFINE A == Wider(s, n)
           T == Wider(t, n)
           B == {i \in Len(s) + 1 .. Len(s) + Len(t) : Width(t[i - Len(s)]) > n}
           f == [i \in T |-> i + Len(s)]
<1>1. IsFiniteSet(A) /\ A \subseteq 1 .. Len(s) /\ IsFiniteSet(T) /\ T \subseteq 1 .. Len(t)
       /\ Cardinality(A) \in Nat /\ Cardinality(T) \in Nat
  BY WiderIsFinite
<1>2. Wider(s \o t, n) = A \cup B
  <2>1. /\ DOMAIN (s \o t) = 1 .. Len(s) + Len(t)
        /\ \A i \in 1 .. Len(s) + Len(t) :
              (s \o t)[i] = IF i <= Len(s) THEN s[i] ELSE t[i - Len(s)]
    BY ConcatProperties
  <2>2. DOMAIN s = 1 .. Len(s) /\ Len(s) \in Nat /\ Len(t) \in Nat
    OBVIOUS
  <2>3. QED
    BY <2>1, <2>2 DEF Wider
<1>3. IsFiniteSet(B) /\ Cardinality(B) = Cardinality(T)
  <2>1. f \in Bijection(T, B)
    <3>1. f \in [T -> B]
      BY <1>1 DEF Wider
    <3>2. \A i, j \in T : f[i] = f[j] => i = j
      BY <1>1
    <3>3. \A k \in B : \E i \in T : f[i] = k
      <4>1. SUFFICES ASSUME NEW k \in B PROVE k - Len(s) \in T /\ f[k - Len(s)] = k
        OBVIOUS
      <4>2. k - Len(s) \in 1 .. Len(t)
        OBVIOUS
      <4>3. QED
        BY <4>2 DEF Wider
    <3>4. QED
      BY <3>1, <3>2, <3>3, Fun_IsBij
  <2>2. ExistsBijection(T, B)
    BY <2>1 DEF ExistsBijection
  <2>3. IsFiniteSet(T)
    BY <1>1
  <2> HIDE DEF T, B
  <2>4. QED
    BY <2>2, <2>3, FS_Bijection
<1>4. A \cap B = {}
  BY <1>1
<1>5. Cardinality(A \cap B) = 0
  BY <1>4, FS_EmptySet, Zenon
<1> HIDE DEF A, B, T
<1>6. Cardinality(A \cup B) = Cardinality(A) + Cardinality(B) - Cardinality(A \cap B)
  BY <1>1, <1>3, FS_Union
<1>7. Cardinality(A \cup B) = Cardinality(A) + Cardinality(T)
  BY <1>1, <1>3, <1>5, <1>6
<1>8. QED
  BY <1>2, <1>7 DEF A, T

LEMMA BytesOfConcat ==
    ASSUME NEW s \in Seq(Symbols), NEW t \in Seq(Symbols)
    PROVE  Bytes(s \o t) = Bytes(s) + Bytes(t)
<1>1. \A n \in {1, 2} : Cardinality(Wider(s, n)) \in Nat /\ Cardinality(Wider(t, n)) \in Nat
  BY WiderIsFinite
<1>2. \A n \in {1, 2} : Cardinality(Wider(s \o t, n))
                           = Cardinality(Wider(s, n)) + Cardinality(Wider(t, n))
  BY WiderOfConcat
<1>3. Len(s \o t) = Len(s) + Len(t)
  OBVIOUS
<1>4. QED
  BY <1>1, <1>2, <1>3 DEF Bytes

LEMMA BytesOfNewLines ==
    ASSUME NEW n \in Nat
    PROVE  NewLines(n) \in Seq(Symbols) /\ Len(NewLines(n)) = n /\ Bytes(NewLines(n)) = n
<1>1. NewLines(n) \in Seq(Symbols) /\ Len(NewLines(n)) = n
  BY DEF NewLines, Symbols
<1>2. Wider(NewLines(n), 1) = {} /\ Wider(NewLines(n), 2) = {}
  BY DEF Wider, NewLines, Width
<1>3. Cardinality(Wider(NewLines(n), 1)) = 0 /\ Cardinality(Wider(NewLines(n), 2)) = 0
  BY <1>2, FS_EmptySet, Zenon
<1>4. QED
  BY <1>1, <1>3 DEF Bytes

-----------------------------------------------------------------------------
(* The counters of the parser tell the size of what it holds.              *)
Accounted(p) ==
    /\ p \in Parsers
    /\ p.lineBytes = Bytes(p.line)
    /\ p.eventDataBytes = Bytes(p.data) + p.emptyDataLines

(* What a symbol may do to the items that wait.                            *)
AtMostOneMore(p, q) == Len(q.items) <= Len(p.items) + 1

LEMMA ValueIsText ==
    ASSUME NEW line \in Seq(Symbols), line # <<>>
    PROVE  Value(line) \in Seq(Symbols)
<1>1. Tail(line) \in Seq(Symbols)
  OBVIOUS
<1>2. SubSeq(line, 3, Len(line)) \in Seq(Symbols)
  <2>1. \A i \in 3 .. Len(line) : line[i] \in Symbols
    OBVIOUS
  <2>2. QED
    BY <2>1, SubSeqProperties
<1>3. QED
  BY <1>1, <1>2 DEF Value

LEMMA FlushedIsText ==
    ASSUME NEW p, Accounted(p)
    PROVE  /\ Flushed(p) \in Seq(Symbols)
           /\ Bytes(Flushed(p)) = p.eventDataBytes
<1>1. p.data \in Seq(Symbols) /\ p.emptyDataLines \in Nat
  BY DEF Accounted, Parsers
<1>2. /\ NewLines(p.emptyDataLines) \in Seq(Symbols)
      /\ Bytes(NewLines(p.emptyDataLines)) = p.emptyDataLines
  BY <1>1, BytesOfNewLines
<1>3. QED
  BY <1>1, <1>2, BytesOfConcat DEF Flushed, Accounted

LEMMA DataLineCounts ==
    ASSUME NEW p, Accounted(p), NEW value \in Seq(Symbols)
    PROVE  Accounted(DataLine(p, value)) /\ DataLine(p, value).items = p.items
<1> DEFINE bytes == DataBytes(p, value)
           text == Flushed(p) \o Append(value, "lf")
<1>1. /\ p \in Parsers /\ MaxData \in Nat /\ p.emptyDataLines \in Nat /\ p.eventDataBytes \in Nat
      /\ p.data \in Seq(Symbols) /\ Bytes(p.data) \in Nat
      /\ p.eventDataBytes = Bytes(p.data) + p.emptyDataLines
      /\ p.lineBytes = Bytes(p.line)
  BY ParserAssumption, BytesIsNatural DEF Accounted, Parsers
<1>2. bytes = p.eventDataBytes + Bytes(value) + 1 /\ Bytes(value) \in Nat
  BY BytesIsNatural DEF DataBytes
<1>3. CASE bytes > MaxData
  <2>1. DataLine(p, value) = [p EXCEPT !.refused = TRUE]
    BY <1>3 DEF DataLine
  <2>2. QED
    BY <1>1, <2>1 DEF Accounted, Parsers
<1>4. CASE bytes <= MaxData /\ value = <<>>
  <2>1. DataLine(p, value) = [p EXCEPT !.eventDataBytes = bytes, !.emptyDataLines = @ + 1]
    BY <1>1, <1>2, <1>4 DEF DataLine
  <2>2. bytes = p.eventDataBytes + 1
    BY <1>1, <1>2, <1>4, BytesOfNothing
  <2>3. bytes \in 0 .. MaxData /\ p.emptyDataLines + 1 \in 0 .. MaxData
    BY <1>1, <1>4, <2>2
  <2> HIDE DEF bytes
  <2> DEFINE q == DataLine(p, value)
  <2>4. q \in Parsers
    BY <1>1, <2>1, <2>3 DEF Parsers
  <2>5. /\ q.items = p.items /\ q.line = p.line /\ q.lineBytes = p.lineBytes
        /\ q.data = p.data /\ q.emptyDataLines = p.emptyDataLines + 1
        /\ q.eventDataBytes = bytes
    BY <1>1, <2>1 DEF Parsers
  <2> HIDE DEF q
  <2>6. Accounted(q) /\ q.items = p.items
    BY <1>1, <2>2, <2>4, <2>5 DEF Accounted
  <2>7. QED
    BY <2>6 DEF q
<1>5. CASE bytes <= MaxData /\ value # <<>>
  <2>1. DataLine(p, value) =
          [p EXCEPT !.eventDataBytes = bytes, !.data = text, !.emptyDataLines = 0]
    BY <1>1, <1>2, <1>5 DEF DataLine
  <2>2. "lf" \in Symbols /\ Width("lf") = 1
    BY DEF Symbols, Width
  <2>3. Append(value, "lf") \in Seq(Symbols) /\ Bytes(Append(value, "lf")) = Bytes(value) + 1
    BY <2>2, BytesOfAppend
  <2>4. text \in Seq(Symbols) /\ Bytes(text) = bytes
    <3>1. Flushed(p) \in Seq(Symbols) /\ Bytes(Flushed(p)) = p.eventDataBytes
      BY FlushedIsText
    <3>2. text \in Seq(Symbols)
      BY <2>3, <3>1
    <3>3. Bytes(text) = Bytes(Flushed(p)) + Bytes(Append(value, "lf"))
      BY <2>3, <3>1, BytesOfConcat
    <3>4. QED
      BY <1>1, <1>2, <2>3, <3>1, <3>2, <3>3
  <2>5. bytes \in 0 .. MaxData /\ 0 \in 0 .. MaxData
    BY <1>1, <1>2, <1>5
  <2> HIDE DEF bytes, text
  <2> DEFINE q == DataLine(p, value)
  <2>6. q \in Parsers
    BY <1>1, <2>1, <2>4, <2>5 DEF Parsers
  <2>7. /\ q.items = p.items /\ q.line = p.line /\ q.lineBytes = p.lineBytes
        /\ q.data = text /\ q.emptyDataLines = 0 /\ q.eventDataBytes = bytes
    BY <1>1, <2>1 DEF Parsers
  <2>8. bytes \in Nat
    BY <2>5
  <2> HIDE DEF q
  <2>9. Accounted(q) /\ q.items = p.items
    BY <1>1, <2>4, <2>6, <2>7, <2>8 DEF Accounted
  <2>10. QED
    BY <2>9 DEF q
<1>6. QED
  BY <1>1, <1>2, <1>3, <1>4, <1>5

LEMMA BlockItemsAreItems ==
    ASSUME NEW p, Accounted(p)
    PROVE  BlockItems(p) \in Seq(Items) /\ Len(BlockItems(p)) <= 1
<1>1. p.eventType \in Seq(Symbols) /\ p.lastEventId \in Seq(Symbols) /\ p.eventDataBytes \in Nat
  BY DEF Accounted, Parsers
<1>2. CASE p.eventDataBytes > 0
  <2>1. Flushed(p) \in Seq(Symbols) /\ Flushed(p) # <<>>
    BY <1>2, FlushedIsText, BytesOfNothing
  <2>2. Front(Flushed(p)) \in Seq(Symbols)
    <3>1. \A i \in 1 .. Len(Flushed(p)) - 1 : Flushed(p)[i] \in Symbols
      BY <2>1
    <3>2. Len(Flushed(p)) - 1 \in Int
      BY <2>1
    <3>3. QED
      BY <3>1, <3>2, SubSeqProperties DEF Front
  <2>3. Event(p.eventType, Front(Flushed(p)), p.lastEventId) \in Items
    BY <1>1, <2>2 DEF Event, Items
  <2>4. QED
    BY <1>2, <2>3 DEF BlockItems
<1>3. CASE ~(p.eventDataBytes > 0) /\ p.blockIdChanged
  <2>1. Checkpoint(p.lastEventId) \in Items
    BY <1>1 DEF Checkpoint, Items
  <2>2. QED
    BY <1>3, <2>1 DEF BlockItems
<1>4. CASE ~(p.eventDataBytes > 0) /\ ~p.blockIdChanged
  BY <1>4 DEF BlockItems
<1>5. QED
  BY <1>2, <1>3, <1>4

LEMMA DispatchBlockCounts ==
    ASSUME NEW p, Accounted(p)
    PROVE  Accounted(DispatchBlock(p)) /\ AtMostOneMore(p, DispatchBlock(p))
<1>1. p.items \o BlockItems(p) \in Seq(Items)
       /\ Len(p.items \o BlockItems(p)) <= Len(p.items) + 1
  <2>1. p.items \in Seq(Items)
    BY DEF Accounted, Parsers
  <2>2. QED
    BY <2>1, BlockItemsAreItems
<1>2. 0 \in 0 .. MaxData
  BY ParserAssumption
<1>3. <<>> \in Seq(Symbols)
  OBVIOUS
<1> DEFINE q == DispatchBlock(p)
<1>4. q \in Parsers
  BY <1>1, <1>2, <1>3 DEF DispatchBlock, Accounted, Parsers
<1>5. /\ q.items = p.items \o BlockItems(p) /\ q.line = p.line /\ q.lineBytes = p.lineBytes
      /\ q.data = <<>> /\ q.emptyDataLines = 0 /\ q.eventDataBytes = 0
  BY DEF DispatchBlock, Accounted, Parsers
<1> HIDE DEF q
<1>6. Accounted(q) /\ AtMostOneMore(p, q)
  BY <1>1, <1>4, <1>5, BytesOfNothing DEF Accounted, AtMostOneMore
<1>7. QED
  BY <1>6 DEF q

LEMMA HandleLineCounts ==
    ASSUME NEW p, Accounted(p)
    PROVE  Accounted(HandleLine(p)) /\ AtMostOneMore(p, HandleLine(p))
<1> DEFINE value == Value(p.line)
           q == HandleLine(p)
<1>1. p \in Parsers /\ p.line \in Seq(Symbols) /\ p.items \in Seq(Items)
  BY DEF Accounted, Parsers
<1>2. CASE p.line = <<>>
  BY <1>2, DispatchBlockCounts DEF HandleLine
<1>3. CASE p.line # <<>>
  <2>1. value \in Seq(Symbols)
    BY <1>1, <1>3, ValueIsText
  <2>2. CASE q = DataLine(p, value)
    BY <1>1, <2>1, <2>2, DataLineCounts DEF AtMostOneMore
  <2>3. CASE q = p
    BY <1>1, <2>3 DEF AtMostOneMore
  <2>4. CASE q = [p EXCEPT !.eventType = value]
    <3>1. q \in Parsers
      BY <1>1, <2>1, <2>4 DEF Parsers
    <3>2. /\ q.items = p.items /\ q.line = p.line /\ q.lineBytes = p.lineBytes
          /\ q.data = p.data /\ q.emptyDataLines = p.emptyDataLines
          /\ q.eventDataBytes = p.eventDataBytes
      BY <1>1, <2>4 DEF Parsers
    <3> HIDE DEF q
    <3>3. Accounted(q) /\ AtMostOneMore(p, q)
      BY <1>1, <3>1, <3>2 DEF Accounted, AtMostOneMore
    <3>4. QED
      BY <3>3 DEF q
  <2>5. CASE q = [p EXCEPT !.lastEventId = value, !.blockIdChanged = TRUE]
    <3>1. q \in Parsers
      BY <1>1, <2>1, <2>5 DEF Parsers
    <3>2. /\ q.items = p.items /\ q.line = p.line /\ q.lineBytes = p.lineBytes
          /\ q.data = p.data /\ q.emptyDataLines = p.emptyDataLines
          /\ q.eventDataBytes = p.eventDataBytes
      BY <1>1, <2>5 DEF Parsers
    <3> HIDE DEF q
    <3>3. Accounted(q) /\ AtMostOneMore(p, q)
      BY <1>1, <3>1, <3>2 DEF Accounted, AtMostOneMore
    <3>4. QED
      BY <3>3 DEF q
  <2>6. CASE IsNumber(value) /\ q = [p EXCEPT !.items = Append(@, Retry(value))]
    <3>1. value \in Seq({"n"})
      BY <2>1, <2>6 DEF IsNumber
    <3>2. Append(p.items, Retry(value)) \in Seq(Items)
      BY <1>1, <3>1 DEF Retry, Items
    <3>3. q \in Parsers
      BY <1>1, <2>6, <3>2 DEF Parsers
    <3>4. /\ q.items = Append(p.items, Retry(value)) /\ q.line = p.line
          /\ q.lineBytes = p.lineBytes /\ q.data = p.data
          /\ q.emptyDataLines = p.emptyDataLines /\ q.eventDataBytes = p.eventDataBytes
      BY <1>1, <2>6 DEF Parsers
    <3> HIDE DEF q
    <3>5. Accounted(q) /\ AtMostOneMore(p, q)
      BY <1>1, <3>3, <3>4 DEF Accounted, AtMostOneMore
    <3>6. QED
      BY <3>5 DEF q
  <2>7. \/ q = DataLine(p, value)
        \/ q = p
        \/ q = [p EXCEPT !.eventType = value]
        \/ q = [p EXCEPT !.lastEventId = value, !.blockIdChanged = TRUE]
        \/ IsNumber(value) /\ q = [p EXCEPT !.items = Append(@, Retry(value))]
    BY <1>3 DEF HandleLine
  <2>8. QED
    BY <2>2, <2>3, <2>4, <2>5, <2>6, <2>7
<1>4. QED
  BY <1>2, <1>3

LEMMA EndLineCounts ==
    ASSUME NEW p, Accounted(p), NEW x \in Symbols
    PROVE  Accounted(EndLine(p, x)) /\ AtMostOneMore(p, EndLine(p, x))
<1> DEFINE h == HandleLine(p)
           q == EndLine(p, x)
           cr == x = "cr"
<1>1. Accounted(h) /\ AtMostOneMore(p, h)
  BY HandleLineCounts
<1>2. q = [h EXCEPT !.line = <<>>, !.lineBytes = 0, !.skipLineFeed = cr]
  BY DEF EndLine
<1>3. 0 \in 0 .. MaxLine /\ <<>> \in Seq(Symbols) /\ cr \in BOOLEAN
  BY ParserAssumption DEF MaxLine, Framing
<1> HIDE DEF h, q, cr
<1>4. q \in Parsers
  BY <1>1, <1>2, <1>3 DEF Accounted, Parsers
<1>5. /\ q.items = h.items /\ q.line = <<>> /\ q.lineBytes = 0
      /\ q.data = h.data /\ q.emptyDataLines = h.emptyDataLines
      /\ q.eventDataBytes = h.eventDataBytes
  BY <1>1, <1>2 DEF Accounted, Parsers
<1>6. Accounted(q) /\ AtMostOneMore(p, q)
  BY <1>1, <1>4, <1>5, BytesOfNothing DEF Accounted, AtMostOneMore
<1>7. QED
  BY <1>6 DEF q

LEMMA AppendSymbolCounts ==
    ASSUME NEW p, Accounted(p), NEW x \in Symbols
    PROVE  Accounted(AppendSymbol(p, x)) /\ AppendSymbol(p, x).items = p.items
<1> DEFINE bytes == p.lineBytes + Width(x)
           q == AppendSymbol(p, x)
<1>1. p \in Parsers /\ p.line \in Seq(Symbols) /\ p.lineBytes \in Nat
  BY DEF Accounted, Parsers
<1>2. Width(x) \in Nat
  BY DEF Width
<1>3. CASE bytes > MaxLine
  <2>1. q = [p EXCEPT !.refused = TRUE]
    BY <1>3 DEF AppendSymbol
  <2>2. q \in Parsers
    BY <1>1, <2>1 DEF Parsers
  <2>3. /\ q.items = p.items /\ q.line = p.line /\ q.lineBytes = p.lineBytes
        /\ q.data = p.data /\ q.emptyDataLines = p.emptyDataLines
        /\ q.eventDataBytes = p.eventDataBytes
    BY <1>1, <2>1 DEF Parsers
  <2> HIDE DEF q
  <2>4. Accounted(q) /\ q.items = p.items
    BY <2>2, <2>3 DEF Accounted
  <2>5. QED
    BY <2>4 DEF q
<1>4. CASE ~(bytes > MaxLine)
  <2>1. q = [p EXCEPT !.line = Append(@, x), !.lineBytes = bytes, !.skipLineFeed = FALSE]
    BY <1>4 DEF AppendSymbol
  <2>2. bytes \in 0 .. MaxLine
    BY <1>1, <1>2, <1>4, ParserAssumption DEF MaxLine, Framing
  <2>3. Append(p.line, x) \in Seq(Symbols) /\ Bytes(Append(p.line, x)) = bytes
    BY <1>1, BytesOfAppend DEF Accounted
  <2> HIDE DEF bytes
  <2>4. q \in Parsers
    BY <1>1, <2>1, <2>2, <2>3 DEF Parsers
  <2>5. /\ q.items = p.items /\ q.line = Append(p.line, x) /\ q.lineBytes = bytes
        /\ q.data = p.data /\ q.emptyDataLines = p.emptyDataLines
        /\ q.eventDataBytes = p.eventDataBytes
    BY <1>1, <2>1 DEF Parsers
  <2> HIDE DEF q
  <2>6. Accounted(q) /\ q.items = p.items
    BY <2>3, <2>4, <2>5 DEF Accounted
  <2>7. QED
    BY <2>6 DEF q
<1>5. QED
  BY <1>3, <1>4

(* A step of feed() keeps the accounts and makes one item at most; the     *)
(* character that is left at the end of a stream makes none.               *)
LEMMA FeedSymbolCounts ==
    ASSUME NEW p, Accounted(p), NEW x \in Symbols
    PROVE  /\ Accounted(FeedSymbol(p, x)) /\ AtMostOneMore(p, FeedSymbol(p, x))
           /\ x = "rep" => FeedSymbol(p, x).items = p.items
<1> DEFINE r == [p EXCEPT !.atStart = FALSE]
           l == [p EXCEPT !.skipLineFeed = FALSE]
<1>1. p \in Parsers /\ p.items \in Seq(Items)
  BY DEF Accounted, Parsers
<1>2. Accounted(r) /\ r.items = p.items
  <2>1. r \in Parsers
    BY <1>1 DEF Parsers
  <2>2. /\ r.items = p.items /\ r.line = p.line /\ r.lineBytes = p.lineBytes
        /\ r.data = p.data /\ r.emptyDataLines = p.emptyDataLines
        /\ r.eventDataBytes = p.eventDataBytes
    BY <1>1 DEF Parsers
  <2> HIDE DEF r
  <2>3. QED
    BY <2>1, <2>2 DEF Accounted
<1>3. Accounted(l) /\ l.items = p.items
  <2>1. l \in Parsers
    BY <1>1 DEF Parsers
  <2>2. /\ l.items = p.items /\ l.line = p.line /\ l.lineBytes = p.lineBytes
        /\ l.data = p.data /\ l.emptyDataLines = p.emptyDataLines
        /\ l.eventDataBytes = p.eventDataBytes
    BY <1>1 DEF Parsers
  <2> HIDE DEF l
  <2>3. QED
    BY <2>1, <2>2 DEF Accounted
<1> HIDE DEF r, l
<1>4. \/ FeedSymbol(p, x) = r
      \/ FeedSymbol(p, x) = l /\ x = "lf"
      \/ FeedSymbol(p, x) = EndLine(r, x) /\ x \in Breaks
      \/ FeedSymbol(p, x) = AppendSymbol(r, x)
  BY DEF FeedSymbol, r, l
<1>5. Accounted(EndLine(r, x)) /\ AtMostOneMore(r, EndLine(r, x))
  BY <1>2, EndLineCounts
<1>6. Accounted(AppendSymbol(r, x)) /\ AppendSymbol(r, x).items = r.items
  BY <1>2, AppendSymbolCounts
<1>7. AtMostOneMore(p, p)
  BY <1>1 DEF AtMostOneMore
<1>8. QED
  BY <1>2, <1>3, <1>4, <1>5, <1>6, <1>7 DEF AtMostOneMore, Breaks

-----------------------------------------------------------------------------
(* The invariant: every symbol left of the window may still make an item.  *)
IInv ==
    /\ ParserTypeOK
    /\ Accounted(parser)
    /\ Len(parser.items) + left <= Window

LEMMA InitIInv == Init => IInv
<1> SUFFICES ASSUME Init PROVE IInv
  OBVIOUS
<1>1. stream \in Streams /\ stream \in Seq(Symbols) /\ Len(stream) \in Nat
  BY ParserAssumption DEF Init
<1>2. /\ 0 \in 0 .. MaxData /\ 0 \in 0 .. MaxLine /\ <<>> \in Seq(Symbols)
      /\ <<>> \in Seq(Items) /\ InitialLastEventId \in Seq(Symbols) /\ Window \in Nat
  BY ParserAssumption DEF MaxLine, Framing
<1>3. parser \in Parsers
  BY <1>2 DEF Init, NewParser, Parsers
<1>4. /\ parser.items = <<>> /\ parser.line = <<>> /\ parser.lineBytes = 0
      /\ parser.data = <<>> /\ parser.emptyDataLines = 0 /\ parser.eventDataBytes = 0
  BY DEF Init, NewParser
<1>5. Accounted(parser)
  BY <1>3, <1>4, BytesOfNothing DEF Accounted
<1>6. ParserTypeOK
  BY <1>1, <1>2, <1>3 DEF Init, ParserTypeOK, Places
<1>7. QED
  BY <1>2, <1>4, <1>5, <1>6 DEF Init, IInv

LEMMA NextIInv == IInv /\ [Next]_vars => IInv'
<1> SUFFICES ASSUME IInv, [Next]_vars PROVE IInv'
  OBVIOUS
<1>1. /\ stream \in Streams /\ stream \in Seq(Symbols) /\ Len(stream) \in Nat
      /\ fed \in 0 .. Len(stream) /\ left \in 0 .. Len(stream) - fed
      /\ parser \in Parsers /\ parser.items \in Seq(Items) /\ yielded \in Seq(Items)
      /\ place \in Places /\ Accounted(parser) /\ Len(parser.items) + left <= Window
      /\ Window \in Nat
  BY ParserAssumption DEF IInv, ParserTypeOK, Parsers
<1>2. CASE FeedWindow
  <2>1. PICK n \in Windows : left' = n
    BY <1>2 DEF FeedWindow
  <2>2. Len(Rest) = Len(stream) - fed
    <3>1. \A i \in fed + 1 .. Len(stream) : stream[i] \in Symbols
      BY <1>1
    <3>2. fed + 1 \in Int /\ Len(stream) \in Int
      BY <1>1
    <3>3. Len(Rest) = IF fed + 1 <= Len(stream) THEN Len(stream) - (fed + 1) + 1 ELSE 0
      BY <3>1, <3>2, SubSeqProperties DEF Rest
    <3>4. QED
      BY <1>1, <3>3
  <2>3. left' \in 0 .. Len(stream) - fed /\ left' <= Window
    BY <1>1, <2>1, <2>2 DEF Windows
  <2>4. UNCHANGED <<stream, fed, parser, yielded, place>> /\ parser.items = <<>>
    BY <1>2 DEF FeedWindow, AtRead
  <2>5. ParserTypeOK'
    BY <1>1, <2>3, <2>4 DEF ParserTypeOK
  <2>6. Accounted(parser)'
    BY <1>1, <2>4 DEF Accounted
  <2>7. Len(parser'.items) + left' <= Window
    <3>1. left' \in Nat
      BY <1>1, <2>3
    <3>2. Len(parser'.items) = 0
      BY <2>4
    <3>3. QED
      BY <2>3, <3>1, <3>2
  <2>8. QED
    BY <2>5, <2>6, <2>7 DEF IInv
<1>3. CASE Feed
  <2> DEFINE p == FeedSymbol(parser, stream[fed + 1])
  <2>1. stream[fed + 1] \in Symbols
    BY <1>1, <1>3 DEF Feed
  <2>2. Accounted(p) /\ AtMostOneMore(parser, p)
    BY <1>1, <2>1, FeedSymbolCounts
  <2>3. /\ left > 0 /\ fed' = fed + 1 /\ parser' = p
        /\ left' = 0 \/ left' = left - 1
        /\ place' \in {"open", "refused"}
        /\ UNCHANGED <<stream, yielded>>
    BY <1>3 DEF Feed
  <2>4. Accounted(parser') /\ Len(parser'.items) <= Len(parser.items) + 1
    BY <2>2, <2>3 DEF AtMostOneMore
  <2> HIDE DEF p
  <2>5. fed' \in 0 .. Len(stream) /\ left' \in 0 .. Len(stream) - fed'
    BY <1>1, <2>3
  <2>6. parser' \in Parsers /\ parser'.items \in Seq(Items)
    BY <2>4 DEF Accounted, Parsers
  <2>7. Len(parser'.items) + left' <= Window
    BY <1>1, <2>3, <2>4, <2>5, <2>6
  <2>8. ParserTypeOK'
    BY <1>1, <2>3, <2>5, <2>6 DEF ParserTypeOK, Places
  <2>9. Accounted(parser)'
    BY <2>4 DEF Accounted
  <2>10. QED
    BY <2>7, <2>8, <2>9 DEF IInv
<1>4. CASE Yield
  <2>1. /\ parser' = [parser EXCEPT !.items = Tail(@)] /\ parser.items # <<>>
        /\ yielded' = Append(yielded, Head(parser.items))
        /\ UNCHANGED <<stream, fed, left, place>>
    BY <1>4 DEF Yield
  <2>2. /\ Tail(parser.items) \in Seq(Items) /\ Len(Tail(parser.items)) = Len(parser.items) - 1
        /\ yielded' \in Seq(Items)
    BY <1>1, <2>1
  <2>3. parser' \in Parsers
    BY <1>1, <2>1, <2>2 DEF Parsers
  <2>4. /\ parser'.items = Tail(parser.items) /\ parser'.line = parser.line
        /\ parser'.lineBytes = parser.lineBytes /\ parser'.data = parser.data
        /\ parser'.emptyDataLines = parser.emptyDataLines
        /\ parser'.eventDataBytes = parser.eventDataBytes
    BY <1>1, <2>1 DEF Parsers
  <2>5. Accounted(parser)'
    BY <1>1, <2>3, <2>4 DEF Accounted
  <2>6. ParserTypeOK'
    BY <1>1, <2>1, <2>2, <2>3 DEF ParserTypeOK
  <2>7. Len(parser'.items) + left' <= Window
    BY <1>1, <2>1, <2>2, <2>4
  <2>8. QED
    BY <2>5, <2>6, <2>7 DEF IInv
<1>5. CASE StreamEnds
  <2> DEFINE p == IF Rest = <<>> THEN parser ELSE FeedSymbol(parser, "rep")
  <2>1. Accounted(p) /\ p.items = parser.items
    BY <1>1, FeedSymbolCounts DEF Symbols
  <2>2. /\ left = 0 /\ left' = left /\ fed' = Len(stream) /\ parser' = p
        /\ place' \in {"refused", "done"} /\ UNCHANGED <<stream, yielded>>
    BY <1>5 DEF StreamEnds, AtRead
  <2>3. Accounted(parser') /\ parser'.items = parser.items
    BY <2>1, <2>2
  <2> HIDE DEF p
  <2>4. ParserTypeOK'
    BY <1>1, <2>2, <2>3 DEF ParserTypeOK, Places, Accounted
  <2>5. Accounted(parser)'
    BY <2>3 DEF Accounted
  <2>6. QED
    BY <1>1, <2>2, <2>3, <2>4, <2>5 DEF IInv
<1>6. CASE ReadFails \/ Stops \/ UNCHANGED vars
  <2>1. UNCHANGED <<stream, fed, left, parser, yielded>> /\ place' \in Places
    BY <1>1, <1>6 DEF ReadFails, Stops, vars, Places
  <2>2. ParserTypeOK' /\ Accounted(parser)'
    BY <1>1, <2>1 DEF ParserTypeOK, Accounted
  <2>3. QED
    BY <1>1, <2>1, <2>2 DEF IInv
<1>7. QED
  BY <1>2, <1>3, <1>4, <1>5, <1>6 DEF Next, Settled

(* The counters of IncrementalSseParser are the sizes of what it holds,    *)
(* and no window makes more items than it has symbols                      *)
(* (sse-parser.ts:75-84, 145-155, 185-193, 250-269).                       *)
THEOREM ParserKeepsAccount == Spec => []IInv
BY InitIInv, NextIInv, PTL DEF Spec

(* The types of the parser and its generator; every item is well formed.   *)
THEOREM ParserTypeCorrect == Spec => []ParserTypeOK
<1>1. IInv => ParserTypeOK
  BY DEF IInv
<1>2. QED
  BY <1>1, ParserKeepsAccount, PTL

(* Whatever the stream and its chunks, the parser holds no more items than *)
(* a window can end and no more text than one line and one event           *)
(* (sse-parser.ts:4-7, 75-84, 217-248).                                    *)
THEOREM BuffersStayBounded == Spec => []BuffersAreBounded
<1>1. IInv => BuffersAreBounded
  <2> SUFFICES ASSUME IInv PROVE BuffersAreBounded
    OBVIOUS
  <2>1. /\ parser.lineBytes \in 0 .. MaxLine /\ parser.eventDataBytes \in 0 .. MaxData
        /\ parser.items \in Seq(Items) /\ stream \in Seq(Symbols)
    BY ParserAssumption DEF IInv, ParserTypeOK, Parsers
  <2>2. left \in Nat
    BY <2>1 DEF IInv, ParserTypeOK
  <2>3. Len(parser.items) <= Window
    BY <2>1, <2>2, ParserAssumption DEF IInv
  <2>4. QED
    BY <2>1, <2>3, ParserAssumption DEF IInv, Accounted, BuffersAreBounded, MaxLine
<1>2. QED
  BY <1>1, ParserKeepsAccount, PTL

-----------------------------------------------------------------------------
(* Least and greatest places.  The naturals are well-founded, so what      *)
(* holds of every place is proved from the least one where it would fail.  *)
LEMMA LessIsWellFounded == IsWellFoundedOn({p \in Nat \X Nat : p[1] < p[2]}, Nat)
BY NatLessThanWellFounded DEF OpToRel

LEMMA LeastNatural ==
    ASSUME NEW T \in SUBSET Nat, T # {}
    PROVE  \E x \in T : \A y \in T : x <= y
<1> DEFINE R == {p \in Nat \X Nat : p[1] < p[2]}
<1>1. IsWellFoundedOn(R, Nat)
  BY LessIsWellFounded
<1> HIDE DEF R
<1>2. PICK x \in T : \A y \in T : ~(<<y, x>> \in R)
  BY <1>1, WFMin
<1>3. \A y \in T : ~(y < x)
  BY <1>2 DEF R
<1>4. QED
  BY <1>3

(* Induction for a set of places.                                          *)
LEMMA OneByOne ==
    ASSUME NEW n \in Nat, NEW P,
           \A i \in 1 .. n : i = 1 \/ i - 1 \in P => i \in P
    PROVE  1 .. n \subseteq P
<1> DEFINE T == {i \in 1 .. n : i \notin P}
<1>1. SUFFICES ASSUME T # {} PROVE FALSE
  OBVIOUS
<1>2. T \in SUBSET Nat
  OBVIOUS
<1> HIDE DEF T
<1>3. PICK m \in T : \A k \in T : m <= k
  BY <1>1, <1>2, LeastNatural
<1>4. m \in 1 .. n /\ m \notin P
  BY <1>3 DEF T
<1>5. m # 1 => m - 1 \in 1 .. n /\ m - 1 \notin T
  BY <1>3, <1>4
<1>6. m # 1 => m - 1 \in P
  BY <1>5 DEF T
<1>7. QED
  BY <1>4, <1>6

LEMMA MaxIsGreatest ==
    ASSUME NEW n \in Nat, NEW S \in SUBSET (0 .. n), S # {}
    PROVE  Max(S) \in S /\ \A y \in S : y <= Max(S)
<1> DEFINE T == {n - x : x \in S}
<1>1. T \in SUBSET Nat /\ T # {}
  OBVIOUS
<1> HIDE DEF T
<1>2. PICK m \in T : \A k \in T : m <= k
  BY <1>1, LeastNatural
<1>3. PICK x \in S : m = n - x
  BY <1>2 DEF T
<1>4. \A y \in S : x >= y
  BY <1>2, <1>3 DEF T
<1>5. \E z \in S : \A y \in S : z >= y
  BY <1>4
<1>6. Max(S) \in S /\ \A y \in S : Max(S) >= y
  BY <1>5 DEF Max
<1>7. QED
  BY <1>6

LEMMA MaxIsTop ==
    ASSUME NEW n \in Nat, NEW S \in SUBSET (0 .. n), n \in S
    PROVE  Max(S) = n
<1>1. Max(S) \in S /\ n <= Max(S)
  BY MaxIsGreatest
<1>2. Max(S) \in 0 .. n
  BY <1>1
<1>3. QED
  BY <1>1, <1>2

(* FlattenSeq, which joins sequences: its recursive function, whose        *)
(* existence and whose values come from the least place where they fail.   *)
Joins(f, seqs) ==
    \A i \in DOMAIN f : f[i] = IF i = 1 THEN seqs[i] ELSE f[i - 1] \o seqs[i]

LEMMA JoinExists ==
    ASSUME NEW S, NEW seqs \in Seq(Seq(S)), NEW n \in 0 .. Len(seqs)
    PROVE  \E f \in [1 .. n -> Seq(S)] : Joins(f, seqs)
<1> DEFINE Join(m) == \E f \in [1 .. m -> Seq(S)] : Joins(f, seqs)
           T == {m \in 0 .. Len(seqs) : ~Join(m)}
<1>1. SUFFICES ASSUME T # {} PROVE FALSE
  OBVIOUS
<1>2. T \in SUBSET Nat
  OBVIOUS
<1> HIDE DEF T
<1>3. PICK m \in T : \A k \in T : m <= k
  BY <1>1, <1>2, LeastNatural
<1>4. m \in 0 .. Len(seqs) /\ ~Join(m)
  BY <1>3 DEF T
<1>5. m # 0
  <2>1. Join(0)
    <3> DEFINE f == [i \in 1 .. 0 |-> <<>>]
    <3>1. f \in [1 .. 0 -> Seq(S)] /\ Joins(f, seqs)
      BY DEF Joins
    <3>2. QED
      BY <3>1
  <2>2. QED
    BY <1>4, <2>1
<1>6. m - 1 \in 0 .. Len(seqs) /\ m \in 1 .. Len(seqs)
  BY <1>4, <1>5
<1>7. Join(m - 1)
  <2>1. m - 1 \notin T
    BY <1>3, <1>6
  <2>2. QED
    BY <1>6, <2>1 DEF T
<1>8. PICK f \in [1 .. m - 1 -> Seq(S)] : Joins(f, seqs)
  BY <1>7
<1> DEFINE last == IF m = 1 THEN seqs[m] ELSE f[m - 1] \o seqs[m]
           g == [i \in 1 .. m |-> IF i < m THEN f[i] ELSE last]
<1>9. last \in Seq(S)
  <2>1. seqs[m] \in Seq(S)
    BY <1>6
  <2>2. m # 1 => f[m - 1] \in Seq(S)
    BY <1>6, <1>8
  <2>3. QED
    BY <2>1, <2>2
<1> HIDE DEF last
<1>10. g \in [1 .. m -> Seq(S)]
  BY <1>6, <1>8, <1>9
<1>11. Joins(g, seqs)
  <2>1. \A i \in 1 .. m - 1 : f[i] = IF i = 1 THEN seqs[i] ELSE f[i - 1] \o seqs[i]
    BY <1>8 DEF Joins
  <2>2. \A i \in 1 .. m - 1 : g[i] = IF i = 1 THEN seqs[i] ELSE g[i - 1] \o seqs[i]
    <3> SUFFICES ASSUME NEW i \in 1 .. m - 1
                 PROVE  g[i] = IF i = 1 THEN seqs[i] ELSE g[i - 1] \o seqs[i]
      OBVIOUS
    <3>1. i \in 1 .. m /\ i < m /\ (i # 1 => i - 1 \in 1 .. m /\ i - 1 < m)
      BY <1>6
    <3>2. g[i] = f[i] /\ (i # 1 => g[i - 1] = f[i - 1])
      BY <3>1
    <3> HIDE DEF g
    <3>3. QED
      BY <2>1, <3>2
  <2>3. g[m] = last /\ (m # 1 => g[m - 1] = f[m - 1]) /\ DOMAIN g = 1 .. m
    BY <1>6
  <2> HIDE DEF g
  <2>4. g[m] = IF m = 1 THEN seqs[m] ELSE g[m - 1] \o seqs[m]
    BY <2>3 DEF last
  <2>5. \A i \in 1 .. m : i = m \/ i \in 1 .. m - 1
    BY <1>6
  <2>6. \A i \in 1 .. m : g[i] = IF i = 1 THEN seqs[i] ELSE g[i - 1] \o seqs[i]
    BY <2>2, <2>4, <2>5
  <2>7. QED
    BY <2>3, <2>6 DEF Joins
<1>12. QED
  BY <1>4, <1>10, <1>11

LEMMA FlattenIsJoin ==
    ASSUME NEW S, NEW seqs \in Seq(Seq(S)), seqs # <<>>
    PROVE  \E f \in [1 .. Len(seqs) -> Seq(S)] :
              Joins(f, seqs) /\ FlattenSeq(seqs) = f[Len(seqs)]
<1> DEFINE Step(f) == [i \in 1 .. Len(seqs) |->
                         IF i = 1 THEN seqs[i] ELSE f[i - 1] \o seqs[i]]
           h == CHOOSE f : f = Step(f)
<1>1. PICK f : f \in [1 .. Len(seqs) -> Seq(S)] /\ Joins(f, seqs)
  BY JoinExists
<1>2. f = Step(f)
  BY <1>1 DEF Joins
<1>3. h = Step(h)
  BY <1>2
<1>4. FlattenSeq(seqs) = h[Len(seqs)]
  BY DEF FlattenSeq
<1> HIDE DEF h
<1>5. Joins(h, seqs) /\ DOMAIN h = 1 .. Len(seqs)
  BY <1>3 DEF Joins
<1>6. Len(seqs) \in 1 .. Len(seqs)
  OBVIOUS
<1>7. h[Len(seqs)] = f[Len(seqs)]
  <2>1. DOMAIN f = 1 .. Len(seqs) /\ Len(seqs) \in Nat
    BY <1>1
  <2>2. \A i \in 1 .. Len(seqs) :
           /\ f[i] = IF i = 1 THEN seqs[i] ELSE f[i - 1] \o seqs[i]
           /\ h[i] = IF i = 1 THEN seqs[i] ELSE h[i - 1] \o seqs[i]
    BY <1>1, <1>5, <2>1 DEF Joins
  <2>3. \A i \in 1 .. Len(seqs) : f[i] = h[i]
    <3> DEFINE P == {i \in Nat : f[i] = h[i]}
    <3>1. ASSUME NEW i \in 1 .. Len(seqs), i = 1 \/ i - 1 \in P PROVE i \in P
      BY <2>2, <3>1
    <3> HIDE DEF P
    <3>2. 1 .. Len(seqs) \subseteq P
      BY <2>1, <3>1, OneByOne
    <3>3. QED
      BY <2>1, <3>2 DEF P
  <2>4. QED
    BY <1>6, <2>1, <2>3
<1>8. QED
  BY <1>1, <1>4, <1>7

LEMMA FlattenOfNothing == FlattenSeq(<<>>) = <<>>
BY DEF FlattenSeq

LEMMA FlattenOfLonger ==
    ASSUME NEW S, NEW seqs \in Seq(Seq(S)), NEW more \in Seq(Seq(S)),
           Len(more) = Len(seqs) + 1,
           \A i \in DOMAIN seqs : more[i] = seqs[i]
    PROVE  /\ FlattenSeq(seqs) \in Seq(S)
           /\ FlattenSeq(more) = FlattenSeq(seqs) \o more[Len(more)]
<1>1. PICK n \in Nat : n = Len(seqs)
  OBVIOUS
<1>2. PICK k \in Nat : k = n + 1
  OBVIOUS
<1>3. /\ more # <<>> /\ Len(more) = k /\ k \in 1 .. k /\ more[k] \in Seq(S) /\ k - 1 = n
      /\ DOMAIN seqs = 1 .. n
  BY <1>1, <1>2
<1>4. PICK g : g \in [1 .. k -> Seq(S)] /\ Joins(g, more) /\ FlattenSeq(more) = g[k]
  BY <1>3, FlattenIsJoin
<1>5. g[k] = IF k = 1 THEN more[k] ELSE g[k - 1] \o more[k]
  BY <1>3, <1>4 DEF Joins
<1>6. CASE n = 0
  <2>1. seqs = <<>> /\ k = 1
    <3>1. Len(seqs) = 0
      BY <1>1, <1>6
    <3>2. seqs = <<>>
      BY <3>1
    <3>3. QED
      BY <1>2, <1>6, <3>2
  <2>2. FlattenSeq(seqs) = <<>> /\ <<>> \in Seq(S)
    BY <2>1, FlattenOfNothing
  <2>3. FlattenSeq(more) = more[k]
    BY <1>4, <1>5, <2>1
  <2>4. <<>> \o more[k] = more[k]
    BY <1>3
  <2>5. QED
    BY <1>3, <2>2, <2>3, <2>4
<1>7. CASE n # 0
  <2>1. seqs # <<>> /\ n \in 1 .. n /\ k # 1
    BY <1>1, <1>2, <1>7
  <2>2. PICK f : f \in [1 .. n -> Seq(S)] /\ Joins(f, seqs) /\ FlattenSeq(seqs) = f[n]
    BY <1>1, <2>1, FlattenIsJoin
  <2>3. /\ DOMAIN f = 1 .. n /\ DOMAIN f \subseteq DOMAIN g
    <3>1. DOMAIN f = 1 .. n /\ DOMAIN g = 1 .. k
      BY <1>4, <2>2
    <3>2. 1 .. n \subseteq 1 .. k
      BY <1>2
    <3>3. QED
      BY <3>1, <3>2
  <2>4. \A i \in 1 .. n : /\ seqs[i] = more[i]
                          /\ f[i] = IF i = 1 THEN seqs[i] ELSE f[i - 1] \o seqs[i]
                          /\ g[i] = IF i = 1 THEN more[i] ELSE g[i - 1] \o more[i]
    BY <1>3, <1>4, <2>2, <2>3 DEF Joins
  <2>5. \A i \in 1 .. n : f[i] = g[i]
    <3> DEFINE P == {i \in Nat : f[i] = g[i]}
    <3>1. ASSUME NEW i \in 1 .. n, i = 1 \/ i - 1 \in P PROVE i \in P
      BY <2>4, <3>1
    <3> HIDE DEF P
    <3>2. 1 .. n \subseteq P
      BY <3>1, OneByOne
    <3>3. QED
      BY <3>2 DEF P
  <2>6. f[n] = g[n] /\ f[n] \in Seq(S)
    BY <2>1, <2>2, <2>3, <2>5
  <2>7. QED
    BY <1>3, <1>4, <1>5, <2>1, <2>2, <2>6
<1>8. QED
  BY <1>6, <1>7

LEMMA FlattenOfAppend ==
    ASSUME NEW S, NEW seqs \in Seq(Seq(S)), NEW s \in Seq(S)
    PROVE  /\ FlattenSeq(seqs) \in Seq(S)
           /\ FlattenSeq(Append(seqs, s)) = FlattenSeq(seqs) \o s
<1>1. PICK more \in Seq(Seq(S)) : more = Append(seqs, s)
  <2>1. Append(seqs, s) \in Seq(Seq(S))
    OBVIOUS
  <2>2. QED
    BY <2>1
<1>2. /\ Len(more) = Len(seqs) + 1 /\ more[Len(seqs) + 1] = s
      /\ \A i \in 1 .. Len(seqs) : more[i] = seqs[i]
  BY <1>1, AppendProperties
<1>3. more[Len(more)] = s /\ \A i \in DOMAIN seqs : more[i] = seqs[i]
  <2>1. DOMAIN seqs = 1 .. Len(seqs)
    OBVIOUS
  <2>2. QED
    BY <1>2, <2>1
<1>4. QED
  BY <1>1, <1>2, <1>3, FlattenOfLonger

(* Nothing joined is nothing.                                              *)
LEMMA FlattenOfEmpties ==
    ASSUME NEW n \in Nat
    PROVE  FlattenSeq([i \in 1 .. n |-> <<>>]) = <<>>
<1> DEFINE empties(m) == [i \in 1 .. m |-> <<>>]
           T == {m \in Nat : FlattenSeq(empties(m)) # <<>>}
<1>1. SUFFICES ASSUME T # {} PROVE FALSE
  OBVIOUS
<1>2. T \in SUBSET Nat
  OBVIOUS
<1> HIDE DEF T
<1>3. PICK m \in T : \A k \in T : m <= k
  BY <1>1, <1>2, LeastNatural
<1>4. m \in Nat /\ FlattenSeq(empties(m)) # <<>>
  BY <1>3 DEF T
<1>5. CASE m = 0
  <2>1. empties(0) = <<>>
    OBVIOUS
  <2>2. QED
    BY <1>4, <1>5, <2>1, FlattenOfNothing
<1>6. CASE m # 0
  <2>1. PICK k \in Nat : k = m - 1
    BY <1>4, <1>6
  <2>2. FlattenSeq(empties(k)) = <<>>
    <3>1. k \notin T
      BY <1>3, <1>4, <2>1
    <3>2. QED
      BY <2>1, <3>1 DEF T
  <2>3. \A j \in Nat : empties(j) \in Seq(Seq(Nat)) /\ Len(empties(j)) = j
    <3>1. \A j \in Nat : \A i \in 1 .. j : <<>> \in Seq(Nat)
      OBVIOUS
    <3>2. QED
      BY <3>1, IsASeq
  <2>4. (\A i \in 1 .. k : empties(m)[i] = empties(k)[i]) /\ empties(m)[m] = <<>>
    BY <1>4, <1>6, <2>1
  <2>5. m = k + 1
    BY <1>4, <2>1
  <2> HIDE DEF empties
  <2>6. PICK more \in Seq(Seq(Nat)) : more = empties(m) /\ Len(more) = m
    BY <1>4, <2>3
  <2>7. PICK seqs \in Seq(Seq(Nat)) : seqs = empties(k) /\ Len(seqs) = k
    BY <2>3
  <2>8. Len(more) = Len(seqs) + 1 /\ \A i \in DOMAIN seqs : more[i] = seqs[i]
    BY <2>4, <2>5, <2>6, <2>7
  <2>9. FlattenSeq(more) = FlattenSeq(seqs) \o more[Len(more)]
    BY <2>8, FlattenOfLonger
  <2>10. QED
    BY <1>4, <2>2, <2>4, <2>6, <2>7, <2>9
<1>7. QED
  BY <1>5, <1>6
-----------------------------------------------------------------------------
(* A text and the same with one more symbol.                               *)
Longer(u, t, x) ==
    /\ u \in Seq(Symbols) /\ t \in Seq(Symbols) /\ x \in Symbols
    /\ Len(u) = Len(t) + 1
    /\ u[Len(u)] = x
    /\ \A i \in 1 .. Len(t) : u[i] = t[i]

(* Lines.                                                                  *)
LEMMA BreakIsBefore ==
    ASSUME NEW t \in Seq(Symbols), NEW n \in 1 .. Len(t) + 1
    PROVE  BreakBefore(t, n) \in 0 .. n - 1
<1> DEFINE S == {0} \cup {i \in 1 .. n - 1 : t[i] \in Breaks}
<1>1. S \in SUBSET (0 .. n - 1) /\ S # {} /\ n - 1 \in Nat
  OBVIOUS
<1> HIDE DEF S
<1>2. Max(S) \in S
  BY <1>1, MaxIsGreatest
<1>3. Max(S) \in 0 .. n - 1
  BY <1>1, <1>2
<1>4. QED
  BY <1>3 DEF BreakBefore, S

LEMMA LineIsText ==
    ASSUME NEW t \in Seq(Symbols), NEW n \in 1 .. Len(t) + 1
    PROVE  LineAt(t, n) \in Seq(Symbols)
<1>1. PICK b \in 0 .. n - 1 : b = BreakBefore(t, n)
  BY BreakIsBefore
<1>2. \A i \in b + 1 .. n - 1 : t[i] \in Symbols
  BY <1>1
<1>3. b + 1 \in Int /\ n - 1 \in Int
  BY <1>1
<1>4. SubSeq(t, b + 1, n - 1) \in Seq(Symbols)
  BY <1>2, <1>3, SubSeqProperties
<1>5. QED
  BY <1>1, <1>4 DEF LineAt

LEMMA LineStays ==
    ASSUME NEW u, NEW t, NEW x, Longer(u, t, x), NEW n \in 1 .. Len(u)
    PROVE  LineAt(u, n) = LineAt(t, n)
<1>1. /\ u \in Seq(Symbols) /\ t \in Seq(Symbols) /\ Len(u) = Len(t) + 1
      /\ \A i \in 1 .. n - 1 : u[i] = t[i]
      /\ n \in 1 .. Len(t) + 1
  BY DEF Longer
<1>2. {i \in 1 .. n - 1 : u[i] \in Breaks} = {i \in 1 .. n - 1 : t[i] \in Breaks}
  BY <1>1
<1>3. BreakBefore(u, n) = BreakBefore(t, n)
  BY <1>2 DEF BreakBefore
<1>4. PICK b \in 0 .. n - 1 : b = BreakBefore(t, n)
  BY <1>1, BreakIsBefore
<1>5. SubSeq(u, b + 1, n - 1) = SubSeq(t, b + 1, n - 1)
  <2>1. \A i \in 1 .. (n - 1) - (b + 1) + 1 : (b + 1) + i - 1 \in 1 .. n - 1
    BY <1>4
  <2>2. \A i \in 1 .. (n - 1) - (b + 1) + 1 : u[(b + 1) + i - 1] = t[(b + 1) + i - 1]
    BY <1>1, <2>1
  <2>3. QED
    BY <2>2
<1>6. QED
  BY <1>3, <1>4, <1>5 DEF LineAt

LEMMA LineGrows ==
    ASSUME NEW u, NEW t, NEW x, Longer(u, t, x)
    PROVE  LineAt(u, Len(u) + 1)
              = IF x \in Breaks THEN <<>> ELSE Append(LineAt(t, Len(t) + 1), x)
<1> DEFINE n == Len(t) + 1
           S(v, k) == {i \in 1 .. k - 1 : v[i] \in Breaks}
<1>1. /\ u \in Seq(Symbols) /\ t \in Seq(Symbols) /\ Len(u) = n /\ n \in Nat \ {0}
      /\ u[n] = x /\ \A i \in 1 .. n - 1 : u[i] = t[i]
  BY DEF Longer
<1> HIDE DEF n
<1>2. CASE x \in Breaks
  <2>1. {0} \cup S(u, n + 1) \in SUBSET (0 .. n) /\ n \in {0} \cup S(u, n + 1)
    BY <1>1, <1>2
  <2>2. Max({0} \cup S(u, n + 1)) = n
    BY <1>1, <2>1, MaxIsTop
  <2>3. BreakBefore(u, n + 1) = n
    BY <2>2 DEF BreakBefore
  <2>4. SubSeq(u, n + 1, n) = <<>>
    BY <1>1, SubSeqProperties
  <2>5. n + 1 - 1 = n
    BY <1>1
  <2>6. QED
    BY <1>1, <1>2, <2>3, <2>4, <2>5 DEF LineAt
<1>3. CASE x \notin Breaks
  <2>1. S(u, n + 1) = S(t, n)
    BY <1>1, <1>3
  <2>2. BreakBefore(u, n + 1) = BreakBefore(t, n)
    BY <2>1 DEF BreakBefore
  <2>3. PICK b \in 0 .. n - 1 : b = BreakBefore(t, n)
    BY <1>1, BreakIsBefore DEF n
  <2>4. SubSeq(u, b + 1, n) = Append(SubSeq(t, b + 1, n - 1), x)
    <3>1. b + 1 \in 1 .. Len(u) /\ n \in b + 1 .. Len(u)
      BY <1>1, <2>3
    <3>2. SubSeq(u, b + 1, n) = SubSeq(u, b + 1, n - 1) \o <<x>>
      BY <1>1, <3>1, SubSeqRecursiveSecond
    <3>3. SubSeq(u, b + 1, n - 1) = SubSeq(t, b + 1, n - 1)
      <4>1. \A i \in 1 .. (n - 1) - (b + 1) + 1 : (b + 1) + i - 1 \in 1 .. n - 1
        BY <1>1, <2>3
      <4>2. \A i \in 1 .. (n - 1) - (b + 1) + 1 : u[(b + 1) + i - 1] = t[(b + 1) + i - 1]
        BY <1>1, <4>1
      <4>3. QED
        BY <1>1, <4>2
    <3>4. LineAt(t, n) = SubSeq(t, b + 1, n - 1) /\ LineAt(t, n) \in Seq(Symbols)
      BY <1>1, <2>3, LineIsText DEF LineAt, n
    <3>5. x \in Symbols
      BY DEF Longer
    <3>6. QED
      BY <3>2, <3>3, <3>4, <3>5, AppendIsConcat
  <2>5. n + 1 - 1 = n
    BY <1>1
  <2>6. QED
    BY <1>1, <1>3, <2>2, <2>3, <2>4, <2>5 DEF LineAt, n
<1>4. QED
  BY <1>2, <1>3

(* Whether a symbol ends a line: a line feed behind a carriage return does *)
(* not, for that line has ended.                                           *)
Ends(t, x) == x = "cr" \/ (x = "lf" /\ (t = <<>> \/ t[Len(t)] # "cr"))

LEMMA EndsGrow ==
    ASSUME NEW u, NEW t, NEW x, Longer(u, t, x)
    PROVE  /\ EndsOf(t) \subseteq 1 .. Len(t)
           /\ EndsOf(u) = EndsOf(t) \cup (IF Ends(t, x) THEN {Len(u)} ELSE {})
<1> DEFINE n == Len(t) + 1
           IsEnd(v, i) == v[i] = "cr" \/ (v[i] = "lf" /\ (i = 1 \/ v[i - 1] # "cr"))
<1>1. /\ u \in Seq(Symbols) /\ t \in Seq(Symbols) /\ Len(u) = n /\ n \in Nat \ {0}
      /\ DOMAIN u = 1 .. n /\ DOMAIN t = 1 .. n - 1 /\ Len(t) = n - 1
      /\ u[n] = x /\ \A i \in 1 .. n - 1 : u[i] = t[i]
  BY DEF Longer
<1>2. t = <<>> <=> n = 1
  BY <1>1
<1> HIDE DEF n
<1>3. \A i \in 1 .. n - 1 : IsEnd(u, i) <=> IsEnd(t, i)
  BY <1>1
<1>4. IsEnd(u, n) <=> Ends(t, x)
  BY <1>1, <1>2 DEF Ends
<1>5. EndsOf(u) = {i \in 1 .. n : IsEnd(u, i)} /\ EndsOf(t) = {i \in 1 .. n - 1 : IsEnd(t, i)}
  BY <1>1 DEF EndsOf
<1> HIDE DEF IsEnd
<1>6. QED
  BY <1>1, <1>3, <1>4, <1>5

(* Blocks.                                                                 *)
LEMMA BlockStays ==
    ASSUME NEW u, NEW t, NEW x, Longer(u, t, x), NEW n \in 1 .. Len(u)
    PROVE  /\ BlockAt(u, n) = BlockAt(t, n)
           /\ BlockAt(t, n) \subseteq EndsOf(t) \cap (1 .. n - 1)
<1>1. Len(u) = Len(t) + 1 /\ Len(t) \in Nat
  BY DEF Longer
<1>2. \A i \in 1 .. Len(u) : LineAt(u, i) = LineAt(t, i)
  BY LineStays
<1>3. /\ EndsOf(t) \subseteq 1 .. Len(t)
      /\ \A i : i \in EndsOf(u) /\ i < n <=> i \in EndsOf(t) /\ i < n
  BY <1>1, EndsGrow
<1>4. \A i \in EndsOf(t) : i < n => LineAt(u, i) = LineAt(t, i)
  BY <1>1, <1>2, <1>3
<1>5. QED
  BY <1>1, <1>3, <1>4 DEF BlockAt

LEMMA BlockGrows ==
    ASSUME NEW u, NEW t, NEW x, Longer(u, t, x)
    PROVE  BlockAt(u, Len(u) + 1) =
              IF ~Ends(t, x) THEN BlockAt(t, Len(u))
              ELSE IF LineAt(t, Len(u)) = <<>> THEN {}
              ELSE BlockAt(t, Len(u)) \cup {Len(u)}
<1> DEFINE n == Len(u)
<1>1. n = Len(t) + 1 /\ n \in Nat \ {0}
  BY DEF Longer
<1>2. \A i \in 1 .. n : LineAt(u, i) = LineAt(t, i)
  BY LineStays
<1>3. EndsOf(t) \subseteq 1 .. n - 1
  BY <1>1, EndsGrow
<1>4. EndsOf(u) = IF Ends(t, x) THEN EndsOf(t) \cup {n} ELSE EndsOf(t)
  BY EndsGrow
<1>5. BlockAt(t, n) = {i \in EndsOf(t) : \A j \in EndsOf(t) : i <= j => LineAt(t, j) # <<>>}
  BY <1>1, <1>3 DEF BlockAt
<1>6. BlockAt(u, n + 1) = {i \in EndsOf(u) : \A j \in EndsOf(u) : i <= j => LineAt(u, j) # <<>>}
  BY <1>1, <1>3, <1>4 DEF BlockAt
<1>7. \A j \in EndsOf(u) : LineAt(u, j) = LineAt(t, j)
  BY <1>1, <1>2, <1>3, <1>4
<1> HIDE DEF n
<1>8. BlockAt(u, n + 1) =
              IF ~Ends(t, x) THEN BlockAt(t, n)
              ELSE IF LineAt(t, n) = <<>> THEN {}
              ELSE BlockAt(t, n) \cup {n}
  <2>1. CASE ~Ends(t, x)
    BY <1>4, <1>5, <1>6, <1>7, <2>1
  <2>2. CASE Ends(t, x) /\ LineAt(t, n) = <<>>
    BY <1>1, <1>3, <1>4, <1>6, <1>7, <2>2
  <2>3. CASE Ends(t, x) /\ LineAt(t, n) # <<>>
    <3>1. \A i \in EndsOf(t) : i <= n
      BY <1>1, <1>3
    <3>2. \A i \in EndsOf(t) : ~(n <= i)
      BY <1>1, <1>3
    <3>3. EndsOf(u) = EndsOf(t) \cup {n}
      BY <1>4, <2>3
    <3>4. n <= n
      BY <1>1
    <3>5. QED
      BY <1>5, <1>6, <1>7, <2>3, <3>1, <3>2, <3>3, <3>4
  <2>4. QED
    BY <2>1, <2>2, <2>3
<1>9. QED
  BY <1>8 DEF n

LEMMA FieldStays ==
    ASSUME NEW u, NEW t, NEW x, Longer(u, t, x), NEW n \in 1 .. Len(u), NEW field
    PROVE  /\ FieldAt(u, n, field) = FieldAt(t, n, field)
           /\ FieldAt(t, n, field) \subseteq EndsOf(t) \cap (1 .. n - 1)
<1>1. Len(u) = Len(t) + 1 /\ Len(t) \in Nat
  BY DEF Longer
<1>2. \A i \in 1 .. Len(u) : LineAt(u, i) = LineAt(t, i)
  BY LineStays
<1>3. BlockAt(u, n) = BlockAt(t, n) /\ BlockAt(t, n) \subseteq EndsOf(t) \cap (1 .. n - 1)
  BY BlockStays
<1>4. 1 .. n - 1 \subseteq 1 .. Len(u)
  BY <1>1
<1>5. QED
  BY <1>2, <1>3, <1>4 DEF FieldAt

LEMMA FieldGrows ==
    ASSUME NEW u, NEW t, NEW x, Longer(u, t, x), NEW field
    PROVE  FieldAt(u, Len(u) + 1, field) =
              IF ~Ends(t, x) THEN FieldAt(t, Len(u), field)
              ELSE IF LineAt(t, Len(u)) = <<>> THEN {}
              ELSE FieldAt(t, Len(u), field)
                      \cup (IF LineAt(t, Len(u))[1] = field THEN {Len(u)} ELSE {})
<1> DEFINE n == Len(u)
<1>1. n = Len(t) + 1 /\ n \in 1 .. Len(u)
  BY DEF Longer
<1>2. \A i \in 1 .. n : LineAt(u, i) = LineAt(t, i)
  BY LineStays
<1>3. BlockAt(t, n) \subseteq 1 .. n - 1
  BY <1>1, BlockStays
<1>4. BlockAt(u, n + 1) =
              IF ~Ends(t, x) THEN BlockAt(t, n)
              ELSE IF LineAt(t, n) = <<>> THEN {}
              ELSE BlockAt(t, n) \cup {n}
  BY BlockGrows
<1>5. \A i \in BlockAt(u, n + 1) : LineAt(u, i) = LineAt(t, i)
  BY <1>1, <1>2, <1>3, <1>4
<1> HIDE DEF n
<1>6. FieldAt(u, n + 1, field) =
              IF ~Ends(t, x) THEN FieldAt(t, n, field)
              ELSE IF LineAt(t, n) = <<>> THEN {}
              ELSE FieldAt(t, n, field)
                      \cup (IF LineAt(t, n)[1] = field THEN {n} ELSE {})
  BY <1>4, <1>5 DEF FieldAt
<1>7. QED
  BY <1>6 DEF n

LEMMA IdentifiersStay ==
    ASSUME NEW u, NEW t, NEW x, Longer(u, t, x), NEW n \in 1 .. Len(u)
    PROVE  /\ IdentifiersAt(u, n) = IdentifiersAt(t, n)
           /\ IdentifiersAt(t, n) \subseteq EndsOf(t) \cap (1 .. n - 1)
<1>1. Len(u) = Len(t) + 1 /\ Len(t) \in Nat
  BY DEF Longer
<1>2. \A i \in 1 .. Len(u) : LineAt(u, i) = LineAt(t, i)
  BY LineStays
<1>3. /\ EndsOf(t) \subseteq 1 .. Len(t)
      /\ \A i : i \in EndsOf(u) /\ i < n <=> i \in EndsOf(t) /\ i < n
  BY <1>1, EndsGrow
<1>4. \A i \in EndsOf(t) : i < n => LineAt(u, i) = LineAt(t, i)
  BY <1>1, <1>2, <1>3
<1>5. QED
  BY <1>1, <1>3, <1>4 DEF IdentifiersAt

LEMMA IdentifiersGrow ==
    ASSUME NEW u, NEW t, NEW x, Longer(u, t, x)
    PROVE  IdentifiersAt(u, Len(u) + 1) =
              IdentifiersAt(t, Len(u))
                 \cup (IF /\ Ends(t, x) /\ LineAt(t, Len(u)) # <<>>
                          /\ LineAt(t, Len(u))[1] = "id"
                          /\ IsIdentifier(Value(LineAt(t, Len(u))))
                       THEN {Len(u)} ELSE {})
<1> DEFINE n == Len(u)
           Is(line) == line # <<>> /\ line[1] = "id" /\ IsIdentifier(Value(line))
<1>1. n = Len(t) + 1 /\ n \in Nat \ {0}
  BY DEF Longer
<1>2. \A i \in 1 .. n : LineAt(u, i) = LineAt(t, i)
  BY LineStays
<1>3. EndsOf(t) \subseteq 1 .. n - 1
  BY <1>1, EndsGrow
<1>4. EndsOf(u) = IF Ends(t, x) THEN EndsOf(t) \cup {n} ELSE EndsOf(t)
  BY EndsGrow
<1>5. /\ IdentifiersAt(t, n) = {i \in EndsOf(t) : Is(LineAt(t, i))}
      /\ IdentifiersAt(u, n + 1) = {i \in EndsOf(u) : Is(LineAt(u, i))}
  BY <1>1, <1>3, <1>4 DEF IdentifiersAt
<1>6. \A i \in EndsOf(u) : LineAt(u, i) = LineAt(t, i)
  BY <1>1, <1>2, <1>3, <1>4
<1> HIDE DEF n, Is
<1>7. IdentifiersAt(u, n + 1) =
          IdentifiersAt(t, n) \cup (IF Ends(t, x) /\ Is(LineAt(t, n)) THEN {n} ELSE {})
  BY <1>4, <1>5, <1>6
<1>8. QED
  BY <1>7 DEF n, Is

(* The values of the lines of a text do not change with its end.           *)
LEMMA LatestStays ==
    ASSUME NEW u, NEW t, NEW x, Longer(u, t, x),
           NEW lines \in SUBSET (1 .. Len(t)), NEW default
    PROVE  LatestValue(u, lines, default) = LatestValue(t, lines, default)
<1>1. Len(u) = Len(t) + 1 /\ Len(t) \in Nat
  BY DEF Longer
<1>2. CASE lines = {}
  BY <1>2 DEF LatestValue
<1>3. CASE lines # {}
  <2>1. lines \in SUBSET (0 .. Len(t))
    OBVIOUS
  <2>2. Max(lines) \in lines
    BY <1>1, <1>3, <2>1, MaxIsGreatest
  <2>3. PICK m \in lines : m = Max(lines)
    BY <2>2
  <2>4. m \in 1 .. Len(u)
    BY <1>1
  <2>5. LineAt(u, m) = LineAt(t, m)
    BY <2>4, LineStays
  <2>6. QED
    BY <2>3, <2>5 DEF LatestValue
<1>4. QED
  BY <1>2, <1>3

LEMMA LatestIsLast ==
    ASSUME NEW text, NEW n \in Nat, NEW lines \in SUBSET (0 .. n), NEW default, n \in lines
    PROVE  LatestValue(text, lines, default) = Value(LineAt(text, n))
<1>1. Max(lines) = n
  BY MaxIsTop
<1>2. QED
  BY <1>1 DEF LatestValue

LEMMA LatestIsText ==
    ASSUME NEW t \in Seq(Symbols), NEW default \in Seq(Symbols),
           NEW lines \in SUBSET (1 .. Len(t)),
           \A i \in lines : LineAt(t, i) # <<>>
    PROVE  LatestValue(t, lines, default) \in Seq(Symbols)
<1>1. CASE lines = {}
  BY <1>1 DEF LatestValue
<1>2. CASE lines # {}
  <2>1. lines \in SUBSET (0 .. Len(t)) /\ Len(t) \in Nat
    OBVIOUS
  <2>2. Max(lines) \in lines
    BY <1>2, <2>1, MaxIsGreatest
  <2>3. PICK m \in lines : m = Max(lines)
    BY <2>2
  <2>4. m \in 1 .. Len(t) + 1
    BY <2>1
  <2>5. LineAt(t, m) \in Seq(Symbols) /\ LineAt(t, m) # <<>>
    BY <2>4, LineIsText
  <2>6. Value(LineAt(t, m)) \in Seq(Symbols)
    BY <2>5, ValueIsText
  <2>7. QED
    BY <1>2, <2>3, <2>6 DEF LatestValue
<1>3. QED
  BY <1>1, <1>2

(* No line of a block is empty.                                            *)
LEMMA BlockHasText ==
    ASSUME NEW t \in Seq(Symbols), NEW n \in 1 .. Len(t) + 1
    PROVE  /\ BlockAt(t, n) \subseteq 1 .. n - 1
           /\ \A i \in BlockAt(t, n) : LineAt(t, i) # <<>>
<1>1. EndsOf(t) \subseteq 1 .. Len(t)
  BY DEF EndsOf
<1>2. QED
  BY <1>1 DEF BlockAt

(* The data of a block, line by line.                                      *)
DataOf(t, i) == Append(Value(LineAt(t, i)), "lf")

DataLines(t, n) ==
    [i \in 1 .. n - 1 |-> IF i \in FieldAt(t, n, "data") THEN DataOf(t, i) ELSE <<>>]

LEMMA DataOfLines ==
    ASSUME NEW t, NEW n
    PROVE  DataAt(t, n) = FlattenSeq(DataLines(t, n))
BY DEF DataAt, DataLines, DataOf

LEMMA DataIsText ==
    ASSUME NEW t \in Seq(Symbols), NEW n \in 1 .. Len(t) + 1
    PROVE  /\ DataLines(t, n) \in Seq(Seq(Symbols)) /\ Len(DataLines(t, n)) = n - 1
           /\ DataAt(t, n) \in Seq(Symbols)
<1>1. FieldAt(t, n, "data") \subseteq 1 .. n - 1
  BY BlockHasText DEF FieldAt
<1>2. \A i \in FieldAt(t, n, "data") : DataOf(t, i) \in Seq(Symbols)
  <2> SUFFICES ASSUME NEW i \in FieldAt(t, n, "data") PROVE DataOf(t, i) \in Seq(Symbols)
    OBVIOUS
  <2>1. i \in 1 .. Len(t) + 1 /\ LineAt(t, i) # <<>>
    BY <1>1, BlockHasText DEF FieldAt
  <2>2. Value(LineAt(t, i)) \in Seq(Symbols)
    BY <2>1, LineIsText, ValueIsText
  <2>3. "lf" \in Symbols
    BY DEF Symbols
  <2>4. QED
    BY <2>2, <2>3 DEF DataOf
<1>3. DataLines(t, n) \in Seq(Seq(Symbols)) /\ Len(DataLines(t, n)) = n - 1
  BY <1>2 DEF DataLines
<1>4. FlattenSeq(DataLines(t, n)) \in Seq(Symbols)
  BY <1>3, FlattenOfAppend
<1>5. QED
  BY <1>3, <1>4, DataOfLines

LEMMA DataStays ==
    ASSUME NEW u, NEW t, NEW x, Longer(u, t, x), NEW n \in 1 .. Len(u)
    PROVE  DataAt(u, n) = DataAt(t, n)
<1>1. FieldAt(u, n, "data") = FieldAt(t, n, "data")
  BY FieldStays
<1>2. Len(u) = Len(t) + 1 /\ Len(t) \in Nat
  BY DEF Longer
<1>3. \A i \in 1 .. n - 1 : DataOf(u, i) = DataOf(t, i)
  BY <1>2, LineStays DEF DataOf
<1>4. DataLines(u, n) = DataLines(t, n)
  BY <1>1, <1>3 DEF DataLines
<1>5. QED
  BY <1>4, DataOfLines

LEMMA DataGrows ==
    ASSUME NEW u, NEW t, NEW x, Longer(u, t, x)
    PROVE  DataAt(u, Len(u) + 1) =
              IF ~Ends(t, x) THEN DataAt(t, Len(u))
              ELSE IF LineAt(t, Len(u)) = <<>> THEN <<>>
              ELSE IF LineAt(t, Len(u))[1] = "data"
              THEN DataAt(t, Len(u)) \o Append(Value(LineAt(t, Len(u))), "lf")
              ELSE DataAt(t, Len(u))
<1>1. PICK n \in Nat : n = Len(u)
  BY DEF Longer
<1>2. /\ n = Len(t) + 1 /\ n \in 1 .. Len(t) + 1 /\ n + 1 \in 1 .. Len(u) + 1 /\ n \in 1 .. Len(u)
      /\ t \in Seq(Symbols) /\ u \in Seq(Symbols)
  BY <1>1 DEF Longer
<1> DEFINE line == LineAt(t, n)
           old == DataLines(t, n)
           new == DataLines(u, n + 1)
           F == FieldAt(t, n, "data")
           G == FieldAt(u, n + 1, "data")
<1>3. /\ old \in Seq(Seq(Symbols)) /\ Len(old) = n - 1
      /\ new \in Seq(Seq(Symbols)) /\ Len(new) = n
      /\ FlattenSeq(old) = DataAt(t, n) /\ FlattenSeq(new) = DataAt(u, n + 1)
      /\ DataAt(t, n) \in Seq(Symbols)
  <2>1. /\ old \in Seq(Seq(Symbols)) /\ Len(old) = n - 1 /\ DataAt(t, n) \in Seq(Symbols)
    BY <1>2, DataIsText
  <2>2. new \in Seq(Seq(Symbols)) /\ Len(new) = n + 1 - 1
    BY <1>2, DataIsText
  <2>3. n + 1 - 1 = n
    OBVIOUS
  <2>4. FlattenSeq(old) = DataAt(t, n) /\ FlattenSeq(new) = DataAt(u, n + 1)
    BY DataOfLines
  <2> HIDE DEF old, new
  <2>5. QED
    BY <2>1, <2>2, <2>3, <2>4
<1>4. G = IF ~Ends(t, x) THEN F
          ELSE IF line = <<>> THEN {}
          ELSE F \cup (IF line[1] = "data" THEN {n} ELSE {})
  BY <1>1, FieldGrows
<1>5. F \subseteq 1 .. n - 1
  BY <1>2, BlockHasText DEF FieldAt
<1>6. \A i \in 1 .. n : DataOf(u, i) = DataOf(t, i)
  BY <1>1, LineStays DEF DataOf
<1>7. /\ old = [i \in 1 .. n - 1 |-> IF i \in F THEN DataOf(t, i) ELSE <<>>]
      /\ new = [i \in 1 .. n |-> IF i \in G THEN DataOf(t, i) ELSE <<>>]
  <2>1. new = [i \in 1 .. n + 1 - 1 |-> IF i \in G THEN DataOf(u, i) ELSE <<>>]
    BY DEF DataLines
  <2>2. n + 1 - 1 = n
    OBVIOUS
  <2>3. QED
    BY <1>6, <2>1, <2>2 DEF DataLines
<1> HIDE DEF old, new, F, G, line
<1>8. CASE Ends(t, x) /\ line = <<>>
  <2>1. new = [i \in 1 .. n |-> <<>>]
    BY <1>4, <1>7, <1>8
  <2>2. FlattenSeq(new) = <<>>
    BY <2>1, FlattenOfEmpties
  <2>3. QED
    BY <1>1, <1>3, <1>8, <2>2 DEF line
<1>9. CASE ~(Ends(t, x) /\ line = <<>>)
  <2>1. G \ {n} = F
    <3>1. n \notin F
      BY <1>5
    <3>2. QED
      BY <1>4, <1>9, <3>1
  <2>2. \A i \in 1 .. n - 1 : new[i] = old[i]
    <3>1. \A i \in 1 .. n - 1 : i # n
      OBVIOUS
    <3>2. \A i \in 1 .. n - 1 : i \in G <=> i \in F
      BY <2>1, <3>1
    <3>3. QED
      BY <1>7, <3>2
  <2>3. new[n] = IF n \in G THEN DataOf(t, n) ELSE <<>>
    BY <1>2, <1>7
  <2>4. FlattenSeq(new) = FlattenSeq(old) \o new[n]
    <3>1. Len(new) = Len(old) + 1 /\ \A i \in DOMAIN old : new[i] = old[i]
      BY <1>3, <2>2
    <3>2. FlattenSeq(new) = FlattenSeq(old) \o new[Len(new)]
      BY <1>3, <3>1, FlattenOfLonger
    <3>3. QED
      BY <1>3, <3>2
  <2>5. n \in G <=> Ends(t, x) /\ line[1] = "data"
    BY <1>4, <1>5, <1>9, <2>1
  <2>6. DataAt(t, n) \o <<>> = DataAt(t, n)
    BY <1>3
  <2>7. QED
    BY <1>1, <1>3, <1>9, <2>3, <2>4, <2>5, <2>6 DEF line, DataOf
<1>10. QED
  BY <1>8, <1>9

(* What the lines of a text make.                                          *)
LEMMA ItemsAtStay ==
    ASSUME NEW u, NEW t, NEW x, Longer(u, t, x), NEW n \in 1 .. Len(u)
    PROVE  ItemsAt(u, n) = ItemsAt(t, n)
<1>1. Len(u) = Len(t) + 1 /\ Len(t) \in Nat
  BY DEF Longer
<1>2. LineAt(u, n) = LineAt(t, n) /\ DataAt(u, n) = DataAt(t, n) /\ BlockAt(u, n) = BlockAt(t, n)
  BY LineStays, DataStays, BlockStays
<1>3. /\ IdentifiersAt(u, n) = IdentifiersAt(t, n)
      /\ FieldAt(u, n, "event") = FieldAt(t, n, "event")
      /\ IdentifiersAt(t, n) \in SUBSET (1 .. Len(t))
      /\ FieldAt(t, n, "event") \in SUBSET (1 .. Len(t))
  <2>1. 1 .. n - 1 \subseteq 1 .. Len(t)
    BY <1>1
  <2>2. QED
    BY <2>1, IdentifiersStay, FieldStays
<1>4. /\ LatestValue(u, IdentifiersAt(t, n), InitialLastEventId)
            = LatestValue(t, IdentifiersAt(t, n), InitialLastEventId)
      /\ LatestValue(u, FieldAt(t, n, "event"), <<>>) = LatestValue(t, FieldAt(t, n, "event"), <<>>)
  BY <1>3, LatestStays
<1>5. QED
  BY <1>2, <1>3, <1>4, Zenon DEF ItemsAt

LEMMA ItemsAtAreItems ==
    ASSUME NEW t \in Seq(Symbols), NEW n \in 1 .. Len(t) + 1
    PROVE  ItemsAt(t, n) \in Seq(Items)
<1> DEFINE line == LineAt(t, n)
           data == DataAt(t, n)
           id   == LatestValue(t, IdentifiersAt(t, n), InitialLastEventId)
           name == LatestValue(t, FieldAt(t, n, "event"), <<>>)
<1>1. line \in Seq(Symbols) /\ data \in Seq(Symbols)
  BY LineIsText, DataIsText
<1>2. id \in Seq(Symbols)
  <2>1. IdentifiersAt(t, n) \subseteq 1 .. Len(t)
    BY DEF IdentifiersAt, EndsOf
  <2>2. \A i \in IdentifiersAt(t, n) : LineAt(t, i) # <<>>
    BY DEF IdentifiersAt
  <2>3. QED
    BY <2>1, <2>2, LatestIsText, ParserAssumption
<1>3. name \in Seq(Symbols)
  <2>1. FieldAt(t, n, "event") \subseteq 1 .. Len(t)
    BY BlockHasText DEF FieldAt
  <2>2. \A i \in FieldAt(t, n, "event") : LineAt(t, i) # <<>>
    BY BlockHasText DEF FieldAt
  <2>3. <<>> \in Seq(Symbols)
    OBVIOUS
  <2>4. QED
    BY <2>1, <2>2, <2>3, LatestIsText
<1>4. ItemsAt(t, n) =
        CASE line = <<>> /\ data # <<>> -> <<Event(name, Front(data), id)>>
          [] line = <<>> /\ data = <<>> /\ IdentifiersAt(t, n) \cap BlockAt(t, n) # {} ->
                <<Checkpoint(id)>>
          [] line # <<>> /\ line[1] = "retry" /\ IsNumber(Value(line)) -> <<Retry(Value(line))>>
          [] OTHER -> <<>>
  BY Zenon DEF ItemsAt
<1> HIDE DEF line, data, id, name
<1>5. data # <<>> => Front(data) \in Seq(Symbols)
  <2> SUFFICES ASSUME data # <<>> PROVE Front(data) \in Seq(Symbols)
    OBVIOUS
  <2>1. \A i \in 1 .. Len(data) - 1 : data[i] \in Symbols
    BY <1>1
  <2>2. QED
    BY <1>1, <2>1, SubSeqProperties DEF Front
<1>6. line # <<>> /\ IsNumber(Value(line)) => Value(line) \in Seq({"n"})
  <2> SUFFICES ASSUME line # <<>>, IsNumber(Value(line)) PROVE Value(line) \in Seq({"n"})
    OBVIOUS
  <2>1. Value(line) \in Seq(Symbols)
    BY <1>1, ValueIsText
  <2>2. QED
    BY <2>1 DEF IsNumber
<1>7. data # <<>> => Event(name, Front(data), id) \in Items
  BY <1>2, <1>3, <1>5 DEF Event, Items
<1>8. Checkpoint(id) \in Items
  BY <1>2 DEF Checkpoint, Items
<1>9. line # <<>> /\ IsNumber(Value(line)) => Retry(Value(line)) \in Items
  BY <1>6 DEF Retry, Items
<1>10. QED
  BY <1>4, <1>7, <1>8, <1>9

LinesMake(t) == [i \in 1 .. Len(t) |-> IF i \in EndsOf(t) THEN ItemsAt(t, i) ELSE <<>>]

LEMMA ItemsAreItems ==
    ASSUME NEW t \in Seq(Symbols)
    PROVE  /\ LinesMake(t) \in Seq(Seq(Items)) /\ Len(LinesMake(t)) = Len(t)
           /\ ItemsOf(t) = FlattenSeq(LinesMake(t))
           /\ ItemsOf(t) \in Seq(Items)
<1>1. \A i \in 1 .. Len(t) : ItemsAt(t, i) \in Seq(Items)
  BY ItemsAtAreItems
<1>2. LinesMake(t) \in Seq(Seq(Items)) /\ Len(LinesMake(t)) = Len(t)
  BY <1>1 DEF LinesMake
<1>3. ItemsOf(t) = FlattenSeq(LinesMake(t))
  BY DEF ItemsOf, LinesMake
<1>4. FlattenSeq(LinesMake(t)) \in Seq(Items)
  BY <1>2, FlattenOfAppend
<1>5. QED
  BY <1>2, <1>3, <1>4

LEMMA ItemsGrow ==
    ASSUME NEW u, NEW t, NEW x, Longer(u, t, x)
    PROVE  ItemsOf(u) = ItemsOf(t) \o (IF Ends(t, x) THEN ItemsAt(t, Len(u)) ELSE <<>>)
<1>1. PICK n \in Nat : n = Len(u)
  BY DEF Longer
<1>2. /\ n = Len(t) + 1 /\ n \in 1 .. Len(u) /\ t \in Seq(Symbols) /\ u \in Seq(Symbols)
  BY <1>1 DEF Longer
<1> DEFINE old == LinesMake(t)
           new == LinesMake(u)
<1>3. /\ old \in Seq(Seq(Items)) /\ Len(old) = n - 1 /\ FlattenSeq(old) = ItemsOf(t)
      /\ new \in Seq(Seq(Items)) /\ Len(new) = n /\ FlattenSeq(new) = ItemsOf(u)
  <2>1. /\ old \in Seq(Seq(Items)) /\ Len(old) = Len(t) /\ FlattenSeq(old) = ItemsOf(t)
        /\ new \in Seq(Seq(Items)) /\ Len(new) = Len(u) /\ FlattenSeq(new) = ItemsOf(u)
    BY <1>2, ItemsAreItems
  <2>2. Len(t) = n - 1
    BY <1>2
  <2> HIDE DEF old, new
  <2>3. QED
    BY <1>1, <2>1, <2>2
<1>4. EndsOf(t) \subseteq 1 .. n - 1 /\ EndsOf(u) = EndsOf(t) \cup (IF Ends(t, x) THEN {n} ELSE {})
  <2>1. /\ EndsOf(t) \subseteq 1 .. Len(t)
        /\ EndsOf(u) = EndsOf(t) \cup (IF Ends(t, x) THEN {Len(u)} ELSE {})
    BY EndsGrow
  <2>2. Len(t) = n - 1
    BY <1>2
  <2>3. QED
    BY <1>1, <2>1, <2>2
<1>5. \A i \in 1 .. n : ItemsAt(u, i) = ItemsAt(t, i)
  BY <1>1, ItemsAtStay
<1>6. /\ old = [i \in 1 .. n - 1 |-> IF i \in EndsOf(t) THEN ItemsAt(t, i) ELSE <<>>]
      /\ new = [i \in 1 .. n |-> IF i \in EndsOf(u) THEN ItemsAt(t, i) ELSE <<>>]
  BY <1>1, <1>2, <1>5 DEF LinesMake
<1> HIDE DEF old, new
<1>7. \A i \in 1 .. n - 1 : new[i] = old[i]
  BY <1>4, <1>6
<1>8. new[n] = IF Ends(t, x) THEN ItemsAt(t, n) ELSE <<>>
  BY <1>1, <1>2, <1>4, <1>6
<1>9. FlattenSeq(new) = FlattenSeq(old) \o new[n]
  <2>1. Len(new) = Len(old) + 1 /\ \A i \in DOMAIN old : new[i] = old[i]
    BY <1>3, <1>7
  <2>2. FlattenSeq(new) = FlattenSeq(old) \o new[Len(new)]
    BY <1>3, <2>1, FlattenOfLonger
  <2>3. QED
    BY <1>3, <2>2
<1>10. QED
  BY <1>1, <1>3, <1>8, <1>9

(* The limits.                                                             *)
TooMuch(text, at) ==
    \/ Bytes(LineAt(text, at)) > MaxData + Bytes(<<"data", "sp">>)
    \/ Bytes(DataAt(text, at)) > MaxData

LEMMA TooLargeGrows ==
    ASSUME NEW u, NEW t, NEW x, Longer(u, t, x), ~IsTooLarge(t)
    PROVE  IsTooLarge(u) <=> TooMuch(u, Len(u) + 1)
<1>1. PICK n \in Nat : n = Len(u)
  BY DEF Longer
<1>2. n = Len(t) + 1 /\ Len(t) \in Nat
  BY <1>1 DEF Longer
<1>3. \A i \in 1 .. n : LineAt(u, i) = LineAt(t, i) /\ DataAt(u, i) = DataAt(t, i)
  BY <1>1, LineStays, DataStays
<1>4. EndsOf(t) \subseteq 1 .. n - 1 /\ EndsOf(u) = EndsOf(t) \cup (IF Ends(t, x) THEN {n} ELSE {})
  <2>1. /\ EndsOf(t) \subseteq 1 .. Len(t)
        /\ EndsOf(u) = EndsOf(t) \cup (IF Ends(t, x) THEN {Len(u)} ELSE {})
    BY EndsGrow
  <2>2. Len(t) = n - 1
    BY <1>2
  <2>3. QED
    BY <1>1, <2>1, <2>2
<1>5. \A i \in 1 .. n : TooMuch(u, i) <=> TooMuch(t, i)
  BY <1>3 DEF TooMuch
<1>6. \A i \in EndsOf(t) \cup {n} : i \in 1 .. n /\ ~TooMuch(t, i)
  BY <1>2, <1>4 DEF IsTooLarge, TooMuch
<1>7. \A i \in EndsOf(u) : ~TooMuch(u, i)
  BY <1>4, <1>5, <1>6
<1>8. IsTooLarge(u) <=> \E i \in EndsOf(u) \cup {n + 1} : TooMuch(u, i)
  BY <1>1 DEF IsTooLarge, TooMuch
<1>9. QED
  BY <1>1, <1>7, <1>8

NameAt(t, n)      == LatestValue(t, FieldAt(t, n, "event"), <<>>)
IdAt(t, n)        == LatestValue(t, IdentifiersAt(t, n), InitialLastEventId)
IdChangedAt(t, n) == IdentifiersAt(t, n) \cap BlockAt(t, n) # {}

LEMMA NameGrows ==
    ASSUME NEW u, NEW t, NEW x, Longer(u, t, x)
    PROVE  NameAt(u, Len(u) + 1) =
              IF ~Ends(t, x) THEN NameAt(t, Len(u))
              ELSE IF LineAt(t, Len(u)) = <<>> THEN <<>>
              ELSE IF LineAt(t, Len(u))[1] = "event" THEN Value(LineAt(t, Len(u)))
              ELSE NameAt(t, Len(u))
<1>1. PICK n \in Nat : n = Len(u)
  BY DEF Longer
<1>2. n = Len(t) + 1 /\ n \in 1 .. Len(u)
  BY <1>1 DEF Longer
<1> DEFINE F == FieldAt(t, n, "event")
           G == FieldAt(u, n + 1, "event")
           line == LineAt(t, n)
<1>3. F \in SUBSET (1 .. Len(t))
  <2>1. F \subseteq 1 .. n - 1
    BY <1>2, FieldStays
  <2>2. QED
    BY <1>2, <2>1
<1>4. G = IF ~Ends(t, x) THEN F
          ELSE IF line = <<>> THEN {}
          ELSE F \cup (IF line[1] = "event" THEN {n} ELSE {})
  BY <1>1, FieldGrows
<1>5. LineAt(u, n) = line
  BY <1>2, LineStays
<1>6. LatestValue(u, F, <<>>) = LatestValue(t, F, <<>>)
  BY <1>3, LatestStays
<1>7. LatestValue(u, F \cup {n}, <<>>) = Value(line)
  <2>1. F \cup {n} \in SUBSET (0 .. n) /\ n \in F \cup {n}
    BY <1>2, <1>3
  <2> HIDE DEF F, line
  <2>2. QED
    BY <1>5, <2>1, LatestIsLast
<1>8. LatestValue(u, {}, <<>>) = <<>>
  BY DEF LatestValue
<1> HIDE DEF F, G, line
<1>9. LatestValue(u, G, <<>>) =
        IF ~Ends(t, x) THEN LatestValue(t, F, <<>>)
        ELSE IF line = <<>> THEN <<>>
        ELSE IF line[1] = "event" THEN Value(line) ELSE LatestValue(t, F, <<>>)
  BY <1>4, <1>6, <1>7, <1>8
<1>10. QED
  BY <1>1, <1>9 DEF NameAt, F, G, line

LEMMA IdGrows ==
    ASSUME NEW u, NEW t, NEW x, Longer(u, t, x)
    PROVE  IdAt(u, Len(u) + 1) =
              IF /\ Ends(t, x) /\ LineAt(t, Len(u)) # <<>>
                 /\ LineAt(t, Len(u))[1] = "id" /\ IsIdentifier(Value(LineAt(t, Len(u))))
              THEN Value(LineAt(t, Len(u)))
              ELSE IdAt(t, Len(u))
<1>1. PICK n \in Nat : n = Len(u)
  BY DEF Longer
<1>2. n = Len(t) + 1 /\ n \in 1 .. Len(u)
  BY <1>1 DEF Longer
<1> DEFINE F == IdentifiersAt(t, n)
           G == IdentifiersAt(u, n + 1)
           line == LineAt(t, n)
           new == Ends(t, x) /\ line # <<>> /\ line[1] = "id" /\ IsIdentifier(Value(line))
<1>3. F \in SUBSET (1 .. Len(t))
  <2>1. F \subseteq 1 .. n - 1
    BY <1>2, IdentifiersStay
  <2>2. QED
    BY <1>2, <2>1
<1>4. G = F \cup (IF new THEN {n} ELSE {})
  BY <1>1, IdentifiersGrow
<1>5. LineAt(u, n) = line
  BY <1>2, LineStays
<1>6. LatestValue(u, F, InitialLastEventId) = LatestValue(t, F, InitialLastEventId)
  BY <1>3, LatestStays
<1>7. LatestValue(u, F \cup {n}, InitialLastEventId) = Value(line)
  <2>1. F \cup {n} \in SUBSET (0 .. n) /\ n \in F \cup {n}
    BY <1>2, <1>3
  <2> HIDE DEF F, line
  <2>2. QED
    BY <1>5, <2>1, LatestIsLast
<1> HIDE DEF F, G, new
<1>8. LatestValue(u, G, InitialLastEventId) =
        IF new THEN Value(line) ELSE LatestValue(t, F, InitialLastEventId)
  BY <1>4, <1>6, <1>7
<1>9. QED
  BY <1>1, <1>8 DEF IdAt, F, G, new

LEMMA IdChangedGrows ==
    ASSUME NEW u, NEW t, NEW x, Longer(u, t, x)
    PROVE  IdChangedAt(u, Len(u) + 1) <=>
              IF ~Ends(t, x) THEN IdChangedAt(t, Len(u))
              ELSE LineAt(t, Len(u)) # <<>> /\
                   (\/ LineAt(t, Len(u))[1] = "id" /\ IsIdentifier(Value(LineAt(t, Len(u))))
                    \/ IdChangedAt(t, Len(u)))
<1>1. PICK n \in Nat : n = Len(u)
  BY DEF Longer
<1>2. n \in 1 .. Len(u)
  BY <1>1 DEF Longer
<1> DEFINE line == LineAt(t, n)
           new == line # <<>> /\ line[1] = "id" /\ IsIdentifier(Value(line))
<1>3. IdentifiersAt(u, n + 1) = IdentifiersAt(t, n) \cup (IF Ends(t, x) /\ new THEN {n} ELSE {})
  BY <1>1, IdentifiersGrow
<1>4. BlockAt(u, n + 1) = IF ~Ends(t, x) THEN BlockAt(t, n)
                          ELSE IF line = <<>> THEN {} ELSE BlockAt(t, n) \cup {n}
  BY <1>1, BlockGrows
<1>5. n \notin IdentifiersAt(t, n) /\ n \notin BlockAt(t, n)
  <2>1. IdentifiersAt(t, n) \subseteq 1 .. n - 1 /\ BlockAt(t, n) \subseteq 1 .. n - 1
    BY <1>2, IdentifiersStay, BlockStays
  <2>2. QED
    BY <2>1
<1> HIDE DEF line
<1>6. IdChangedAt(u, n + 1) <=>
              IF ~Ends(t, x) THEN IdChangedAt(t, n)
              ELSE line # <<>> /\ (new \/ IdChangedAt(t, n))
  BY <1>3, <1>4, <1>5 DEF IdChangedAt
<1>7. QED
  BY <1>1, <1>6 DEF line

LEMMA ItemsOfLine ==
    ASSUME NEW t, NEW n
    PROVE  ItemsAt(t, n) =
        CASE LineAt(t, n) = <<>> /\ DataAt(t, n) # <<>> ->
                <<Event(NameAt(t, n), Front(DataAt(t, n)), IdAt(t, n))>>
          [] LineAt(t, n) = <<>> /\ DataAt(t, n) = <<>> /\ IdChangedAt(t, n) ->
                <<Checkpoint(IdAt(t, n))>>
          [] LineAt(t, n) # <<>> /\ LineAt(t, n)[1] = "retry" /\ IsNumber(Value(LineAt(t, n))) ->
                <<Retry(Value(LineAt(t, n)))>>
          [] OTHER -> <<>>
BY Zenon DEF ItemsAt, NameAt, IdAt, IdChangedAt
-----------------------------------------------------------------------------
(* What the parser knows of a text: all but the line it is in.             *)
Knows(p, t) ==
    /\ Flushed(p) = DataAt(t, Len(t) + 1)
    /\ p.eventType = NameAt(t, Len(t) + 1)
    /\ p.lastEventId = IdAt(t, Len(t) + 1)
    /\ p.blockIdChanged <=> IdChangedAt(t, Len(t) + 1)

Understood(p, t) ==
    /\ Knows(p, t)
    /\ p.line = LineAt(t, Len(t) + 1)
    /\ p.skipLineFeed <=> t # <<>> /\ t[Len(t)] = "cr"
    /\ p.skipLineFeed => p.line = <<>>

LEMMA BytesOfSomething ==
    ASSUME NEW s \in Seq(Symbols)
    PROVE  Bytes(s) > 0 <=> s # <<>>
<1>1. CASE s = <<>>
  BY <1>1, BytesOfNothing
<1>2. CASE s # <<>>
  <2>1. Cardinality(Wider(s, 1)) \in Nat /\ Cardinality(Wider(s, 2)) \in Nat
    BY WiderIsFinite
  <2>2. Len(s) \in Nat /\ Len(s) > 0
    BY <1>2
  <2>3. QED
    BY <1>2, <2>1, <2>2 DEF Bytes
<1>3. QED
  BY <1>1, <1>2

LEMMA OneMoreNewLine ==
    ASSUME NEW n \in Nat
    PROVE  NewLines(0) = <<>> /\ NewLines(n + 1) = Append(NewLines(n), "lf")
<1>1. NewLines(0) = <<>>
  BY DEF NewLines
<1>2. NewLines(n) \in Seq(Symbols) /\ Len(NewLines(n)) = n /\ "lf" \in Symbols
  BY BytesOfNewLines DEF Symbols
<1>3. NewLines(n + 1) \in Seq(Symbols) /\ Len(NewLines(n + 1)) = n + 1
  BY BytesOfNewLines
<1>4. /\ \A i \in 1 .. n : NewLines(n)[i] = "lf"
      /\ \A i \in 1 .. n + 1 : NewLines(n + 1)[i] = "lf"
  BY DEF NewLines
<1> DEFINE a == NewLines(n)
           b == NewLines(n + 1)
<1> HIDE DEF a, b
<1>5. b = Append(a, "lf")
  <2>1. a \in Seq(Symbols) /\ b \in Seq(Symbols) /\ Len(a) = n /\ Len(b) = n + 1
    BY <1>2, <1>3 DEF a, b
  <2>2. PICK c \in Seq(Symbols) : c = Append(a, "lf")
    <3>1. Append(a, "lf") \in Seq(Symbols)
      BY <1>2, <2>1
    <3>2. QED
      BY <3>1
  <2>3. Len(c) = n + 1 /\ c[n + 1] = "lf" /\ \A i \in 1 .. n : c[i] = a[i]
    BY <1>2, <2>1, <2>2, AppendProperties
  <2>4. \A i \in 1 .. n + 1 : c[i] = "lf" /\ b[i] = "lf"
    BY <1>4, <2>3 DEF a, b
  <2>5. b = c
    BY <2>1, <2>2, <2>3, <2>4, SeqEqual
  <2>6. QED
    BY <2>2, <2>5
<1>6. QED
  BY <1>1, <1>5 DEF a, b

(* A symbol that ends no line leaves what is known of the block.           *)
LEMMA KnowsStays ==
    ASSUME NEW u, NEW t, NEW x, Longer(u, t, x), ~Ends(t, x), NEW p, Knows(p, t)
    PROVE  Knows(p, u)
<1>1. Len(u) = Len(t) + 1
  BY DEF Longer
<1>2. /\ DataAt(u, Len(u) + 1) = DataAt(t, Len(u)) /\ NameAt(u, Len(u) + 1) = NameAt(t, Len(u))
      /\ IdAt(u, Len(u) + 1) = IdAt(t, Len(u))
      /\ IdChangedAt(u, Len(u) + 1) <=> IdChangedAt(t, Len(u))
  BY DataGrows, NameGrows, IdGrows, IdChangedGrows
<1>3. QED
  BY <1>1, <1>2 DEF Knows

(* What a finished block makes.                                            *)
LEMMA BlockItemsMean ==
    ASSUME NEW p, Accounted(p), NEW t, Knows(p, t),
           p.line = LineAt(t, Len(t) + 1), p.line = <<>>
    PROVE  BlockItems(p) = ItemsAt(t, Len(t) + 1)
<1>1. Flushed(p) \in Seq(Symbols) /\ Bytes(Flushed(p)) = p.eventDataBytes
  BY FlushedIsText
<1>2. p.eventDataBytes > 0 <=> Flushed(p) # <<>>
  BY <1>1, BytesOfSomething
<1>3. BlockItems(p) =
        CASE Flushed(p) # <<>> -> <<Event(p.eventType, Front(Flushed(p)), p.lastEventId)>>
          [] Flushed(p) = <<>> /\ p.blockIdChanged -> <<Checkpoint(p.lastEventId)>>
          [] OTHER -> <<>>
  BY <1>2 DEF BlockItems
<1>4. LineAt(t, Len(t) + 1) = <<>>
  OBVIOUS
<1>5. QED
  BY <1>3, <1>4, ItemsOfLine DEF Knows

LEMMA DispatchBlockMeans ==
    ASSUME NEW u, NEW t, NEW x, Longer(u, t, x), Ends(t, x),
           NEW p, Accounted(p), Knows(p, t), p.line = LineAt(t, Len(t) + 1), p.line = <<>>
    PROVE  /\ Knows(DispatchBlock(p), u)
           /\ DispatchBlock(p).items = p.items \o ItemsAt(t, Len(u))
           /\ DispatchBlock(p).refused = p.refused
<1> DEFINE q == DispatchBlock(p)
<1>1. Len(u) = Len(t) + 1 /\ LineAt(t, Len(u)) = <<>>
  BY DEF Longer
<1>2. /\ DataAt(u, Len(u) + 1) = <<>> /\ NameAt(u, Len(u) + 1) = <<>>
      /\ IdAt(u, Len(u) + 1) = IdAt(t, Len(u)) /\ ~IdChangedAt(u, Len(u) + 1)
  BY <1>1, DataGrows, NameGrows, IdGrows, IdChangedGrows
<1>3. /\ q.items = p.items \o BlockItems(p) /\ q.data = <<>> /\ q.emptyDataLines = 0
      /\ q.eventType = <<>> /\ q.blockIdChanged = FALSE
      /\ q.lastEventId = p.lastEventId /\ q.refused = p.refused
  BY DEF DispatchBlock, Accounted, Parsers
<1> HIDE DEF q
<1>4. Flushed(q) = <<>>
  BY <1>3, OneMoreNewLine DEF Flushed
<1>5. BlockItems(p) = ItemsAt(t, Len(u))
  BY <1>1, BlockItemsMean
<1>6. Knows(q, u)
  BY <1>1, <1>2, <1>3, <1>4 DEF Knows
<1>7. QED
  BY <1>3, <1>5, <1>6 DEF q

(* A data line joins the data of its block unless that is then too long.   *)
LEMMA DataLineMeans ==
    ASSUME NEW p, Accounted(p), NEW value \in Seq(Symbols)
    PROVE  /\ Flushed(p) \o Append(value, "lf") \in Seq(Symbols)
           /\ Bytes(Flushed(p) \o Append(value, "lf")) = DataBytes(p, value)
           /\ IF DataBytes(p, value) > MaxData
              THEN DataLine(p, value).refused
              ELSE /\ DataLine(p, value).refused = p.refused
                   /\ Flushed(DataLine(p, value)) = Flushed(p) \o Append(value, "lf")
           /\ DataLine(p, value).items = p.items
           /\ DataLine(p, value).eventType = p.eventType
           /\ DataLine(p, value).lastEventId = p.lastEventId
           /\ DataLine(p, value).blockIdChanged = p.blockIdChanged
<1> DEFINE q == DataLine(p, value)
           text == Flushed(p) \o Append(value, "lf")
<1>1. /\ p \in Parsers /\ p.data \in Seq(Symbols) /\ p.emptyDataLines \in Nat
      /\ p.eventDataBytes \in Nat
  BY DEF Accounted, Parsers
<1>2. Flushed(p) \in Seq(Symbols) /\ Bytes(Flushed(p)) = p.eventDataBytes
  BY FlushedIsText
<1>3. /\ Append(value, "lf") \in Seq(Symbols) /\ Bytes(value) \in Nat
      /\ Bytes(Append(value, "lf")) = Bytes(value) + 1
  BY BytesOfAppend, BytesIsNatural DEF Width, Symbols
<1>4. text \in Seq(Symbols) /\ Bytes(text) = DataBytes(p, value)
  <2>1. Bytes(text) = Bytes(Flushed(p)) + Bytes(Append(value, "lf"))
    BY <1>2, <1>3, BytesOfConcat
  <2>2. text \in Seq(Symbols)
    BY <1>2, <1>3
  <2>3. PICK e \in Nat : e = p.eventDataBytes
    BY <1>1
  <2>4. PICK b \in Nat : b = Bytes(value)
    BY <1>3
  <2>5. DataBytes(p, value) = e + b + 1
    BY <2>3, <2>4 DEF DataBytes
  <2>6. Bytes(text) = e + (b + 1)
    BY <1>2, <1>3, <2>1, <2>3, <2>4
  <2> HIDE DEF text
  <2>7. QED
    BY <2>2, <2>5, <2>6
<1>5. CASE DataBytes(p, value) > MaxData
  <2>1. q = [p EXCEPT !.refused = TRUE]
    BY <1>5 DEF DataLine
  <2>2. /\ q.refused = TRUE /\ q.items = p.items /\ q.eventType = p.eventType
        /\ q.lastEventId = p.lastEventId /\ q.blockIdChanged = p.blockIdChanged
    BY <1>1, <2>1 DEF Parsers
  <2>3. QED
    BY <1>4, <1>5, <2>2
<1>6. CASE ~(DataBytes(p, value) > MaxData) /\ value = <<>>
  <2>1. q = [p EXCEPT !.eventDataBytes = DataBytes(p, value), !.emptyDataLines = @ + 1]
    BY <1>6 DEF DataLine
  <2>2. /\ q.refused = p.refused /\ q.items = p.items /\ q.eventType = p.eventType
        /\ q.lastEventId = p.lastEventId /\ q.blockIdChanged = p.blockIdChanged
        /\ q.data = p.data /\ q.emptyDataLines = p.emptyDataLines + 1
    BY <1>1, <2>1 DEF Parsers
  <2>3. Flushed(q) = text
    <3> DEFINE lines == NewLines(p.emptyDataLines)
    <3>1. lines \in Seq(Symbols)
      BY <1>1, BytesOfNewLines
    <3>2. Flushed(q) = p.data \o Append(lines, "lf")
      BY <1>1, <2>2, OneMoreNewLine DEF Flushed
    <3>3. Flushed(p) = p.data \o lines
      BY DEF Flushed
    <3>4. "lf" \in Symbols /\ <<"lf">> \in Seq(Symbols)
      BY DEF Symbols
    <3>5. Append(value, "lf") = <<"lf">>
      BY <1>6
    <3> HIDE DEF lines
    <3>6. Append(lines, "lf") = lines \o <<"lf">>
      BY <3>1, <3>4, AppendIsConcat
    <3>7. \A a, b, c \in Seq(Symbols) : (a \o b) \o c = a \o (b \o c)
      BY ConcatAssociative
    <3>8. (p.data \o lines) \o <<"lf">> = p.data \o (lines \o <<"lf">>)
      BY <1>1, <3>1, <3>4, <3>7
    <3>9. QED
      BY <3>2, <3>3, <3>5, <3>6, <3>8
  <2> HIDE DEF q, text
  <2>4. QED
    BY <1>4, <1>6, <2>2, <2>3 DEF q, text
<1>7. CASE ~(DataBytes(p, value) > MaxData) /\ value # <<>>
  <2>1. q = [p EXCEPT !.eventDataBytes = DataBytes(p, value),
                      !.data = text, !.emptyDataLines = 0]
    BY <1>7 DEF DataLine
  <2>2. /\ q.refused = p.refused /\ q.items = p.items /\ q.eventType = p.eventType
        /\ q.lastEventId = p.lastEventId /\ q.blockIdChanged = p.blockIdChanged
        /\ q.data = text /\ q.emptyDataLines = 0
    BY <1>1, <2>1 DEF Parsers
  <2>3. Flushed(q) = text
    <3>1. Flushed(q) = text \o <<>>
      BY <2>2, OneMoreNewLine DEF Flushed
    <3>2. QED
      BY <1>4, <3>1, ConcatEmptySeq
  <2> HIDE DEF q, text
  <2>4. QED
    BY <1>4, <1>7, <2>2, <2>3 DEF q, text
<1>8. QED
  BY <1>5, <1>6, <1>7

(* What a line with text makes, and what it adds to its block.             *)
LEMMA HandleTextMeans ==
    ASSUME NEW u, NEW t, NEW x, Longer(u, t, x), Ends(t, x),
           NEW p, Accounted(p), ~p.refused, Knows(p, t),
           p.line = LineAt(t, Len(t) + 1), p.line # <<>>
    PROVE  IF HandleLine(p).refused
           THEN Bytes(DataAt(u, Len(u) + 1)) > MaxData
           ELSE Knows(HandleLine(p), u) /\ HandleLine(p).items = p.items \o ItemsAt(t, Len(u))
<1> DEFINE n == Len(u)
           q == HandleLine(p)
           name == p.line[1]
           value == Value(p.line)
<1>1. /\ p \in Parsers /\ p.line \in Seq(Symbols) /\ p.items \in Seq(Items)
      /\ p.refused = FALSE
  BY DEF Accounted, Parsers
<1>2. n = Len(t) + 1 /\ p.line = LineAt(t, n)
  BY DEF Longer
<1>3. value \in Seq(Symbols)
  BY <1>1, ValueIsText
<1>4. /\ Flushed(p) = DataAt(t, n) /\ p.eventType = NameAt(t, n)
      /\ p.lastEventId = IdAt(t, n) /\ (p.blockIdChanged <=> IdChangedAt(t, n))
  BY <1>2 DEF Knows
<1>5. /\ DataAt(u, n + 1) = IF name = "data" THEN Flushed(p) \o Append(value, "lf") ELSE Flushed(p)
      /\ NameAt(u, n + 1) = IF name = "event" THEN value ELSE p.eventType
      /\ IdAt(u, n + 1) = IF name = "id" /\ IsIdentifier(value) THEN value ELSE p.lastEventId
      /\ IdChangedAt(u, n + 1) <=> (name = "id" /\ IsIdentifier(value)) \/ p.blockIdChanged
  BY <1>2, <1>4, DataGrows, NameGrows, IdGrows, IdChangedGrows
<1>6. ItemsAt(t, n) = IF name = "retry" /\ IsNumber(value) THEN <<Retry(value)>> ELSE <<>>
  <2>1. LineAt(t, n) # <<>>
    BY <1>2
  <2>2. QED
    BY <1>2, <2>1, ItemsOfLine
<1> HIDE DEF n
<1>7. Knows(q, u) <=> /\ Flushed(q) = DataAt(u, n + 1) /\ q.eventType = NameAt(u, n + 1)
                      /\ q.lastEventId = IdAt(u, n + 1)
                      /\ (q.blockIdChanged <=> IdChangedAt(u, n + 1))
  BY DEF Knows, n
<1>8. p.items \o <<>> = p.items
  BY <1>1
<1>9. IF q.refused THEN Bytes(DataAt(u, n + 1)) > MaxData
      ELSE Knows(q, u) /\ q.items = p.items \o ItemsAt(t, n)
  <2> HIDE DEF value
  <2>1. CASE name = "data"
    <3>1. q = DataLine(p, value)
      BY <2>1 DEF HandleLine, value
    <3>2. DataAt(u, n + 1) = Flushed(p) \o Append(value, "lf") /\ ItemsAt(t, n) = <<>>
      BY <1>5, <1>6, <2>1
    <3>3. /\ NameAt(u, n + 1) = p.eventType /\ IdAt(u, n + 1) = p.lastEventId
          /\ IdChangedAt(u, n + 1) <=> p.blockIdChanged
      BY <1>5, <2>1
    <3>4. /\ Bytes(DataAt(u, n + 1)) = DataBytes(p, value)
          /\ IF DataBytes(p, value) > MaxData
             THEN q.refused
             ELSE q.refused = FALSE /\ Flushed(q) = DataAt(u, n + 1)
          /\ q.items = p.items /\ q.eventType = p.eventType
          /\ q.lastEventId = p.lastEventId /\ q.blockIdChanged = p.blockIdChanged
      <4> HIDE DEF q
      <4> DEFINE r == DataLine(p, value)
      <4>1. /\ Bytes(Flushed(p) \o Append(value, "lf")) = DataBytes(p, value)
            /\ IF DataBytes(p, value) > MaxData
               THEN r.refused
               ELSE r.refused = p.refused /\ Flushed(r) = Flushed(p) \o Append(value, "lf")
            /\ r.items = p.items /\ r.eventType = p.eventType
            /\ r.lastEventId = p.lastEventId /\ r.blockIdChanged = p.blockIdChanged
        BY <1>3, DataLineMeans
      <4> HIDE DEF r
      <4>2. q = r
        BY <3>1 DEF r
      <4>3. QED
        BY <1>1, <3>2, <4>1, <4>2
    <3> HIDE DEF q
    <3>5. QED
      BY <1>7, <1>8, <3>2, <3>3, <3>4
  <2>2. CASE name = "event"
    <3>1. q = [p EXCEPT !.eventType = value]
      BY <2>2 DEF HandleLine, value
    <3>2. /\ q.refused = FALSE /\ q.items = p.items /\ q.eventType = value
          /\ q.lastEventId = p.lastEventId /\ q.blockIdChanged = p.blockIdChanged
          /\ Flushed(q) = Flushed(p)
      BY <1>1, <3>1 DEF Parsers, Flushed
    <3> HIDE DEF q
    <3>3. QED
      BY <1>5, <1>6, <1>7, <1>8, <2>2, <3>2
  <2>3. CASE name = "id" /\ IsIdentifier(value)
    <3>1. q = [p EXCEPT !.lastEventId = value, !.blockIdChanged = TRUE]
      BY <2>3 DEF HandleLine, value
    <3>2. /\ q.refused = FALSE /\ q.items = p.items /\ q.eventType = p.eventType
          /\ q.lastEventId = value /\ q.blockIdChanged = TRUE
          /\ Flushed(q) = Flushed(p)
      BY <1>1, <3>1 DEF Parsers, Flushed
    <3> HIDE DEF q
    <3>3. QED
      BY <1>5, <1>6, <1>7, <1>8, <2>3, <3>2
  <2>4. CASE name = "retry" /\ IsNumber(value)
    <3>1. q = [p EXCEPT !.items = Append(@, Retry(value))]
      BY <2>4 DEF HandleLine, value
    <3>2. /\ q.refused = FALSE /\ q.items = Append(p.items, Retry(value))
          /\ q.eventType = p.eventType /\ q.lastEventId = p.lastEventId
          /\ q.blockIdChanged = p.blockIdChanged /\ Flushed(q) = Flushed(p)
      BY <1>1, <3>1 DEF Parsers, Flushed
    <3>3. Retry(value) \in Items
      <4>1. value \in Seq({"n"})
        BY <1>3, <2>4 DEF IsNumber
      <4>2. QED
        BY <4>1 DEF Retry, Items
    <3>4. Append(p.items, Retry(value)) = p.items \o <<Retry(value)>>
      BY <1>1, <3>3, AppendIsConcat
    <3> HIDE DEF q
    <3>5. QED
      BY <1>5, <1>6, <1>7, <2>4, <3>2, <3>4
  <2>5. CASE /\ name # "data" /\ name # "event"
             /\ ~(name = "id" /\ IsIdentifier(value))
             /\ ~(name = "retry" /\ IsNumber(value))
    <3>1. q = p
      BY <2>5 DEF HandleLine, value
    <3> HIDE DEF q
    <3>2. QED
      BY <1>1, <1>5, <1>6, <1>7, <1>8, <2>5, <3>1
  <2>6. QED
    BY <2>1, <2>2, <2>3, <2>4, <2>5
<1>10. QED
  BY <1>9 DEF n, q

LEMMA HandleLineMeans ==
    ASSUME NEW u, NEW t, NEW x, Longer(u, t, x), Ends(t, x),
           NEW p, Accounted(p), ~p.refused, Knows(p, t), p.line = LineAt(t, Len(t) + 1)
    PROVE  IF HandleLine(p).refused
           THEN Bytes(DataAt(u, Len(u) + 1)) > MaxData
           ELSE Knows(HandleLine(p), u) /\ HandleLine(p).items = p.items \o ItemsAt(t, Len(u))
<1>1. CASE p.line = <<>>
  BY <1>1, DispatchBlockMeans DEF HandleLine
<1>2. CASE p.line # <<>>
  BY <1>2, HandleTextMeans
<1>3. QED
  BY <1>1, <1>2

(* The text a step of feed() leaves is what the parser understands, and it *)
(* is within the limits exactly when the step does not refuse it.          *)
Means(p, t, q, u, x) ==
    IF q.refused
    THEN IsTooLarge(u)
    ELSE /\ Understood(q, u)
         /\ ~IsTooLarge(u)
         /\ q.items = p.items \o (IF Ends(t, x) THEN ItemsAt(t, Len(u)) ELSE <<>>)

LEMMA BudgetOfLine == MaxData + Bytes(<<"data", "sp">>) = MaxLine
<1>1. Bytes(<<"data", "sp">>) = 2
  <2>1. /\ <<>> \in Seq(Symbols) /\ <<"data">> \in Seq(Symbols)
        /\ "data" \in Symbols /\ "sp" \in Symbols
    BY DEF Symbols, Fields
  <2>2. <<"data">> = Append(<<>>, "data") /\ <<"data", "sp">> = Append(<<"data">>, "sp")
    OBVIOUS
  <2>3. Width("data") = 1 /\ Width("sp") = 1
    BY DEF Width
  <2>4. /\ Bytes(Append(<<>>, "data")) = Bytes(<<>>) + Width("data")
        /\ Bytes(Append(<<"data">>, "sp")) = Bytes(<<"data">>) + Width("sp")
    BY <2>1, BytesOfAppend
  <2>5. /\ Bytes(<<"data">>) = Bytes(<<>>) + Width("data")
        /\ Bytes(<<"data", "sp">>) = Bytes(<<"data">>) + Width("sp")
    BY <2>2, <2>4, Zenon
  <2>6. QED
    BY <2>3, <2>5, BytesOfNothing
<1>2. QED
  BY <1>1 DEF MaxLine, Framing

LEMMA UnderstoodFits ==
    ASSUME NEW u, NEW t, NEW x, Longer(u, t, x), ~IsTooLarge(t),
           NEW q, Accounted(q), Understood(q, u)
    PROVE  ~IsTooLarge(u)
<1>1. Bytes(q.line) <= MaxLine /\ Bytes(Flushed(q)) <= MaxData
  <2>1. Bytes(Flushed(q)) = q.eventDataBytes
    BY FlushedIsText
  <2>2. /\ q.eventDataBytes \in 0 .. MaxData
        /\ q.lineBytes \in 0 .. MaxLine /\ q.lineBytes = Bytes(q.line)
    BY DEF Accounted, Parsers
  <2>3. MaxData \in Nat /\ MaxLine \in Nat
    BY ParserAssumption DEF MaxLine, Framing
  <2>4. QED
    BY <2>1, <2>2, <2>3
<1>2. q.line = LineAt(u, Len(u) + 1) /\ Flushed(q) = DataAt(u, Len(u) + 1)
  BY DEF Understood, Knows
<1>3. ~TooMuch(u, Len(u) + 1)
  <2>1. MaxData \in Nat /\ MaxLine \in Nat
    BY ParserAssumption DEF MaxLine, Framing
  <2>2. q \in Parsers /\ q.line \in Seq(Symbols) /\ Flushed(q) \in Seq(Symbols)
    BY FlushedIsText DEF Accounted, Parsers
  <2>3. Bytes(q.line) \in Nat /\ Bytes(Flushed(q)) \in Nat
    BY <2>2, BytesIsNatural
  <2>4. ~(Bytes(q.line) > MaxLine) /\ ~(Bytes(Flushed(q)) > MaxData)
    BY <1>1, <2>1, <2>3
  <2>5. QED
    BY <1>2, <2>4, BudgetOfLine DEF TooMuch
<1>4. QED
  BY <1>3, TooLargeGrows

LEMMA EndLineMeans ==
    ASSUME NEW u, NEW t, NEW x, Longer(u, t, x), ~IsTooLarge(t), x \in Breaks, Ends(t, x),
           NEW p, Accounted(p), ~p.refused, Understood(p, t)
    PROVE  Means(p, t, EndLine(p, x), u, x) /\ EndLine(p, x).atStart = p.atStart
<1> DEFINE h == HandleLine(p)
           q == EndLine(p, x)
           cr == x = "cr"
<1>1. Accounted(h) /\ Accounted(q)
  <2>1. x \in Symbols
    BY DEF Longer
  <2>2. QED
    BY <2>1, HandleLineCounts, EndLineCounts
<1>2. h \in Parsers /\ p \in Parsers
  BY <1>1 DEF Accounted
<1>3. /\ q = [h EXCEPT !.line = <<>>, !.lineBytes = 0, !.skipLineFeed = cr]
      /\ h.atStart = p.atStart
  <2>1. q = [h EXCEPT !.line = <<>>, !.lineBytes = 0, !.skipLineFeed = cr]
    BY DEF EndLine
  <2>2. h.atStart = p.atStart
    BY <1>2 DEF HandleLine, DispatchBlock, DataLine, Parsers
  <2>3. QED
    BY <2>1, <2>2
<1>4. IF h.refused
      THEN Bytes(DataAt(u, Len(u) + 1)) > MaxData
      ELSE Knows(h, u) /\ h.items = p.items \o ItemsAt(t, Len(u))
  BY HandleLineMeans DEF Understood
<1> HIDE DEF h, q, cr
<1>5. /\ q.line = <<>> /\ q.skipLineFeed = cr /\ q.refused = h.refused /\ q.items = h.items
      /\ q.data = h.data /\ q.emptyDataLines = h.emptyDataLines /\ q.eventType = h.eventType
      /\ q.lastEventId = h.lastEventId /\ q.blockIdChanged = h.blockIdChanged
      /\ q.atStart = h.atStart
  BY <1>2, <1>3 DEF Parsers
<1>6. CASE h.refused
  <2>1. TooMuch(u, Len(u) + 1)
    BY <1>4, <1>6 DEF TooMuch
  <2>2. IsTooLarge(u)
    BY <2>1, TooLargeGrows
  <2>3. QED
    BY <1>3, <1>5, <1>6, <2>2 DEF Means, q
<1>7. CASE ~h.refused
  <2>1. Knows(q, u)
    BY <1>4, <1>5, <1>7 DEF Knows, Flushed
  <2>2. q.line = LineAt(u, Len(u) + 1)
    BY <1>5, LineGrows
  <2>3. q.skipLineFeed <=> u # <<>> /\ u[Len(u)] = "cr"
    <3>1. u # <<>> /\ u[Len(u)] = x
      BY DEF Longer
    <3>2. QED
      BY <1>5, <3>1 DEF cr
  <2>4. Understood(q, u)
    BY <1>5, <2>1, <2>2, <2>3 DEF Understood
  <2>5. ~IsTooLarge(u)
    BY <1>1, <2>4, UnderstoodFits
  <2>6. q.items = p.items \o ItemsAt(t, Len(u))
    BY <1>4, <1>5, <1>7
  <2>7. QED
    BY <1>3, <1>5, <1>7, <2>4, <2>5, <2>6 DEF Means, q
<1>8. QED
  BY <1>6, <1>7

LEMMA AppendSymbolMeans ==
    ASSUME NEW u, NEW t, NEW x, Longer(u, t, x), ~IsTooLarge(t), x \notin Breaks,
           NEW p, Accounted(p), ~p.refused, Understood(p, t)
    PROVE  Means(p, t, AppendSymbol(p, x), u, x) /\ AppendSymbol(p, x).atStart = p.atStart
<1> DEFINE q == AppendSymbol(p, x)
           bytes == p.lineBytes + Width(x)
<1>1. x \in Symbols /\ ~Ends(t, x) /\ u # <<>> /\ u[Len(u)] # "cr" /\ Len(u) = Len(t) + 1
  BY DEF Longer, Ends, Breaks
<1>2. p \in Parsers /\ p.line \in Seq(Symbols) /\ p.items \in Seq(Items) /\ p.refused = FALSE
  BY DEF Accounted, Parsers
<1>3. /\ LineAt(u, Len(u) + 1) = Append(p.line, x)
      /\ Bytes(LineAt(u, Len(u) + 1)) = bytes
  <2>1. LineAt(u, Len(u) + 1) = Append(p.line, x)
    BY LineGrows DEF Understood
  <2>2. Bytes(Append(p.line, x)) = Bytes(p.line) + Width(x)
    BY <1>1, <1>2, BytesOfAppend
  <2>3. QED
    BY <2>1, <2>2 DEF Accounted
<1>4. Accounted(q)
  BY <1>1, AppendSymbolCounts
<1>5. CASE bytes > MaxLine
  <2>1. q = [p EXCEPT !.refused = TRUE]
    BY <1>5 DEF AppendSymbol
  <2>2. q.refused = TRUE /\ q.atStart = p.atStart
    BY <1>2, <2>1 DEF Parsers
  <2>3. TooMuch(u, Len(u) + 1)
    BY <1>3, <1>5, BudgetOfLine DEF TooMuch
  <2>4. IsTooLarge(u)
    BY <2>3, TooLargeGrows
  <2>5. QED
    BY <2>2, <2>4 DEF Means
<1>6. CASE ~(bytes > MaxLine)
  <2>1. q = [p EXCEPT !.line = Append(@, x), !.lineBytes = bytes, !.skipLineFeed = FALSE]
    BY <1>6 DEF AppendSymbol
  <2>2. /\ q.line = Append(p.line, x) /\ q.skipLineFeed = FALSE /\ q.refused = FALSE
        /\ q.items = p.items /\ q.data = p.data /\ q.emptyDataLines = p.emptyDataLines
        /\ q.eventType = p.eventType /\ q.lastEventId = p.lastEventId
        /\ q.blockIdChanged = p.blockIdChanged /\ q.atStart = p.atStart
    BY <1>2, <2>1 DEF Parsers
  <2> HIDE DEF q
  <2>3. Knows(q, t)
    BY <2>2 DEF Understood, Knows, Flushed
  <2>4. Knows(q, u)
    BY <1>1, <2>3, KnowsStays
  <2>5. Understood(q, u)
    BY <1>1, <1>3, <2>2, <2>4 DEF Understood
  <2>6. ~IsTooLarge(u)
    BY <1>4, <2>5, UnderstoodFits
  <2>7. p.items \o <<>> = p.items
    BY <1>2
  <2>8. Means(p, t, q, u, x)
    BY <1>1, <2>2, <2>5, <2>6, <2>7 DEF Means
  <2>9. QED
    BY <2>2, <2>8 DEF q
<1>7. QED
  BY <1>5, <1>6

(* A line feed behind a carriage return changes nothing.                   *)
LEMMA SkipMeans ==
    ASSUME NEW u, NEW t, NEW x, Longer(u, t, x), ~IsTooLarge(t), x = "lf",
           NEW p, Accounted(p), ~p.refused, Understood(p, t), p.skipLineFeed,
           NEW q, q = [p EXCEPT !.skipLineFeed = FALSE], Accounted(q)
    PROVE  Means(p, t, q, u, x) /\ q.atStart = p.atStart
<1>1. /\ t # <<>> /\ t[Len(t)] = "cr" /\ p.line = <<>>
      /\ ~Ends(t, x) /\ x \in Breaks /\ u # <<>> /\ u[Len(u)] # "cr"
  BY DEF Understood, Ends, Longer, Breaks
<1>2. p \in Parsers /\ p.items \in Seq(Items) /\ p.refused = FALSE
  BY DEF Accounted, Parsers
<1>3. /\ q.line = p.line /\ q.skipLineFeed = FALSE /\ q.refused = FALSE
      /\ q.items = p.items /\ q.data = p.data /\ q.emptyDataLines = p.emptyDataLines
      /\ q.eventType = p.eventType /\ q.lastEventId = p.lastEventId
      /\ q.blockIdChanged = p.blockIdChanged /\ q.atStart = p.atStart
  BY <1>2 DEF Parsers
<1>4. Knows(q, t)
  BY <1>3 DEF Understood, Knows, Flushed
<1>5. Knows(q, u)
  BY <1>1, <1>4, KnowsStays
<1>6. LineAt(u, Len(u) + 1) = <<>>
  BY <1>1, LineGrows
<1>7. Understood(q, u)
  BY <1>1, <1>3, <1>5, <1>6 DEF Understood
<1>8. ~IsTooLarge(u)
  BY <1>7, UnderstoodFits
<1>9. p.items \o <<>> = p.items
  BY <1>2
<1>10. QED
  BY <1>1, <1>3, <1>7, <1>8, <1>9 DEF Means

LEMMA FeedSymbolMeans ==
    ASSUME NEW u, NEW t, NEW x, Longer(u, t, x), ~IsTooLarge(t),
           NEW p, Accounted(p), ~p.refused, Understood(p, t),
           ~(p.atStart /\ x = "bom"), p.skipLineFeed => ~p.atStart
    PROVE  Means(p, t, FeedSymbol(p, x), u, x) /\ FeedSymbol(p, x).atStart = FALSE
<1> DEFINE r == [p EXCEPT !.atStart = FALSE]
           l == [p EXCEPT !.skipLineFeed = FALSE]
<1>1. p \in Parsers /\ x \in Symbols
  BY DEF Accounted, Longer
<1>2. CASE p.skipLineFeed /\ x = "lf"
  <2>1. FeedSymbol(p, x) = l
    BY <1>2 DEF FeedSymbol
  <2>2. Accounted(l)
    BY <1>1, <2>1, FeedSymbolCounts
  <2>3. PICK q : q = l
    OBVIOUS
  <2>4. Means(p, t, q, u, x) /\ q.atStart = p.atStart
    BY <1>2, <2>2, <2>3, SkipMeans
  <2>5. p.atStart = FALSE
    BY <1>1, <1>2 DEF Parsers
  <2>6. QED
    BY <2>1, <2>3, <2>4, <2>5
<1>3. CASE ~(p.skipLineFeed /\ x = "lf")
  <2>1. FeedSymbol(p, x) = IF x \in Breaks THEN EndLine(r, x) ELSE AppendSymbol(r, x)
    BY <1>3 DEF FeedSymbol
  <2>2. /\ r \in Parsers /\ r.line = p.line /\ r.skipLineFeed = p.skipLineFeed
        /\ r.refused = p.refused /\ r.items = p.items /\ r.data = p.data
        /\ r.emptyDataLines = p.emptyDataLines /\ r.eventType = p.eventType
        /\ r.lastEventId = p.lastEventId /\ r.blockIdChanged = p.blockIdChanged
        /\ r.atStart = FALSE /\ r.lineBytes = p.lineBytes /\ r.eventDataBytes = p.eventDataBytes
    BY <1>1 DEF Parsers
  <2> HIDE DEF r
  <2>3. Accounted(r) /\ Understood(r, t)
    BY <2>2 DEF Accounted, Understood, Knows, Flushed
  <2>4. PICK s : s = r
    OBVIOUS
  <2>5. CASE x \in Breaks
    <3>1. Ends(t, x)
      BY <1>3, <2>5 DEF Ends, Breaks, Understood
    <3>2. Means(s, t, EndLine(s, x), u, x) /\ EndLine(s, x).atStart = FALSE
      BY <2>2, <2>3, <2>4, <2>5, <3>1, EndLineMeans
    <3>3. QED
      BY <2>1, <2>2, <2>4, <2>5, <3>2 DEF Means
  <2>6. CASE x \notin Breaks
    <3>1. Means(s, t, AppendSymbol(s, x), u, x) /\ AppendSymbol(s, x).atStart = FALSE
      BY <2>2, <2>3, <2>4, <2>6, AppendSymbolMeans
    <3>2. QED
      BY <2>1, <2>2, <2>4, <2>6, <3>1 DEF Means
  <2>7. QED
    BY <2>5, <2>6
<1>4. QED
  BY <1>2, <1>3
-----------------------------------------------------------------------------
(* The text grows by one symbol a step, but for the byte order mark.       *)
LEMMA TextGrows ==
    ASSUME NEW s \in Seq(Symbols), NEW n \in 0 .. Len(s) - 1
    PROVE  IF n = 0 /\ s[n + 1] = "bom"
           THEN WithoutBom(SubSeq(s, 1, n + 1)) = WithoutBom(SubSeq(s, 1, n))
           ELSE Longer(WithoutBom(SubSeq(s, 1, n + 1)), WithoutBom(SubSeq(s, 1, n)), s[n + 1])
<1>1. PICK x \in Symbols : x = s[n + 1]
  OBVIOUS
<1>2. PICK k \in Nat : k = n + 1
  OBVIOUS
<1>3. PICK a : a = SubSeq(s, 1, n)
  OBVIOUS
<1>4. PICK b : b = SubSeq(s, 1, k)
  OBVIOUS
<1>5. a \in Seq(Symbols) /\ Len(a) = n /\ \A i \in 1 .. n : a[i] = s[i]
  <2>1. \A i \in 1 .. n : s[i] \in Symbols
    OBVIOUS
  <2>2. /\ SubSeq(s, 1, n) \in Seq(Symbols)
        /\ Len(SubSeq(s, 1, n)) = IF 1 <= n THEN n - 1 + 1 ELSE 0
        /\ \A i \in 1 .. n - 1 + 1 : SubSeq(s, 1, n)[i] = s[1 + i - 1]
    BY <2>1, SubSeqProperties
  <2>3. \A i \in 1 .. n : i \in 1 .. n - 1 + 1 /\ 1 + i - 1 = i
    OBVIOUS
  <2>4. (IF 1 <= n THEN n - 1 + 1 ELSE 0) = n
    OBVIOUS
  <2>5. QED
    BY <1>3, <2>2, <2>3, <2>4
<1>6. b \in Seq(Symbols) /\ Len(b) = k /\ \A i \in 1 .. k : b[i] = s[i]
  <2>1. \A i \in 1 .. k : s[i] \in Symbols
    BY <1>2
  <2>2. /\ SubSeq(s, 1, k) \in Seq(Symbols)
        /\ Len(SubSeq(s, 1, k)) = IF 1 <= k THEN k - 1 + 1 ELSE 0
        /\ \A i \in 1 .. k - 1 + 1 : SubSeq(s, 1, k)[i] = s[1 + i - 1]
    BY <2>1, SubSeqProperties
  <2>3. \A i \in 1 .. k : i \in 1 .. k - 1 + 1 /\ 1 + i - 1 = i
    OBVIOUS
  <2>4. (IF 1 <= k THEN k - 1 + 1 ELSE 0) = k
    OBVIOUS
  <2>5. QED
    BY <1>4, <2>2, <2>3, <2>4
<1>7. /\ Len(b) = Len(a) + 1 /\ b[Len(b)] = x /\ \A i \in 1 .. Len(a) : b[i] = a[i]
      /\ b # <<>> /\ b[1] = s[1]
  BY <1>1, <1>2, <1>5, <1>6
<1>8. CASE n = 0
  <2>1. a = <<>> /\ WithoutBom(a) = <<>>
    BY <1>5, <1>8 DEF WithoutBom
  <2>2. CASE x = "bom"
    <3>1. b[1] = "bom" /\ Len(b) = 1
      BY <1>1, <1>2, <1>6, <1>7, <1>8, <2>2
    <3>2. WithoutBom(b) = Tail(b) /\ Tail(b) = <<>>
      <4>1. WithoutBom(b) = Tail(b)
        BY <1>7, <3>1 DEF WithoutBom
      <4>2. PICK c \in Seq(Symbols) : c = Tail(b) /\ Len(c) = Len(b) - 1
        BY <1>6, <1>7, HeadTailProperties
      <4>3. Len(c) = 0
        BY <3>1, <4>2
      <4>4. c = <<>>
        BY <4>3
      <4>5. QED
        BY <4>1, <4>2, <4>4
    <3>3. QED
      BY <1>1, <1>2, <1>3, <1>4, <1>8, <2>1, <2>2, <3>2
  <2>3. CASE x # "bom"
    <3>1. WithoutBom(b) = b
      BY <1>1, <1>7, <1>8, <2>3 DEF WithoutBom
    <3>2. Longer(b, a, x)
      BY <1>5, <1>6, <1>7 DEF Longer
    <3>3. QED
      BY <1>1, <1>2, <1>3, <1>4, <2>1, <2>3, <3>1, <3>2
  <2>4. QED
    BY <2>2, <2>3
<1>9. CASE n # 0
  <2>1. a # <<>> /\ a[1] = b[1]
    BY <1>5, <1>7, <1>9
  <2>2. CASE b[1] = "bom"
    <3>1. WithoutBom(a) = Tail(a) /\ WithoutBom(b) = Tail(b)
      BY <1>7, <2>1, <2>2 DEF WithoutBom
    <3>2. /\ Tail(a) \in Seq(Symbols) /\ Len(Tail(a)) = n - 1
          /\ \A i \in 1 .. n - 1 : Tail(a)[i] = a[i + 1]
      BY <1>5, <2>1, HeadTailProperties
    <3>3. /\ Tail(b) \in Seq(Symbols) /\ Len(Tail(b)) = n
          /\ \A i \in 1 .. n : Tail(b)[i] = b[i + 1]
      BY <1>2, <1>6, <1>7, HeadTailProperties
    <3>4. Tail(b)[n] = x /\ \A i \in 1 .. n - 1 : Tail(b)[i] = Tail(a)[i]
      BY <1>2, <1>5, <1>6, <1>7, <1>9, <3>2, <3>3
    <3>5. Longer(Tail(b), Tail(a), x)
      BY <3>2, <3>3, <3>4 DEF Longer
    <3>6. QED
      BY <1>1, <1>2, <1>3, <1>4, <1>9, <3>1, <3>5
  <2>3. CASE b[1] # "bom"
    <3>1. WithoutBom(a) = a /\ WithoutBom(b) = b
      BY <2>1, <2>3 DEF WithoutBom
    <3>2. Longer(b, a, x)
      BY <1>5, <1>6, <1>7 DEF Longer
    <3>3. QED
      BY <1>1, <1>2, <1>3, <1>4, <1>9, <3>1, <3>2
  <2>4. QED
    BY <2>2, <2>3
<1>10. QED
  BY <1>8, <1>9

LEMMA TextIsText ==
    ASSUME NEW s \in Seq(Symbols), NEW n \in 0 .. Len(s)
    PROVE  WithoutBom(SubSeq(s, 1, n)) \in Seq(Symbols)
<1>1. \A i \in 1 .. n : s[i] \in Symbols
  OBVIOUS
<1>2. SubSeq(s, 1, n) \in Seq(Symbols)
  BY <1>1, SubSeqProperties
<1>3. QED
  BY <1>2 DEF WithoutBom

LEMMA NothingMeansNothing ==
    /\ LineAt(<<>>, 1) = <<>> /\ DataAt(<<>>, 1) = <<>>
    /\ NameAt(<<>>, 1) = <<>> /\ IdAt(<<>>, 1) = InitialLastEventId /\ ~IdChangedAt(<<>>, 1)
    /\ ItemsOf(<<>>) = <<>> /\ ~IsTooLarge(<<>>)
<1>1. EndsOf(<<>>) = {} /\ <<>> \in Seq(Symbols) /\ Len(<<>>) = 0
  BY DEF EndsOf
<1>2. LineAt(<<>>, 1) = <<>>
  <2>1. {i \in 1 .. 1 - 1 : <<>>[i] \in Breaks} = {}
    OBVIOUS
  <2>2. BreakBefore(<<>>, 1) = 0
    <3>1. Max({0}) = 0
      BY MaxIsTop
    <3>2. QED
      BY <2>1, <3>1 DEF BreakBefore
  <2>3. SubSeq(<<>>, 1, 0) = <<>>
    BY SubSeqEmpty
  <2>4. QED
    BY <2>2, <2>3 DEF LineAt
<1>3. /\ \A field : FieldAt(<<>>, 1, field) = {}
      /\ IdentifiersAt(<<>>, 1) = {} /\ BlockAt(<<>>, 1) = {}
  BY <1>1 DEF FieldAt, BlockAt, IdentifiersAt
<1>4. DataAt(<<>>, 1) = <<>>
  <2>1. DataLines(<<>>, 1) = <<>>
    BY DEF DataLines
  <2>2. QED
    BY <2>1, DataOfLines, FlattenOfNothing
<1>5. ItemsOf(<<>>) = <<>>
  <2>1. LinesMake(<<>>) = <<>>
    BY <1>1 DEF LinesMake
  <2>2. ItemsOf(<<>>) = FlattenSeq(LinesMake(<<>>))
    BY <1>1, ItemsAreItems
  <2>3. QED
    BY <2>1, <2>2, FlattenOfNothing
<1>6. ~IsTooLarge(<<>>)
  <2>1. IsTooLarge(<<>>) <=> TooMuch(<<>>, 1)
    BY <1>1 DEF IsTooLarge, TooMuch
  <2>2. MaxLine \in Nat /\ MaxData \in Nat
    BY ParserAssumption DEF MaxLine, Framing
  <2>3. QED
    BY <1>2, <1>4, <2>1, <2>2, BytesOfNothing, BudgetOfLine DEF TooMuch
<1>7. QED
  BY <1>2, <1>3, <1>4, <1>5, <1>6 DEF NameAt, IdAt, IdChangedAt, LatestValue

(* The invariant: what the parser holds is what the text so far means.     *)
Meant ==
    /\ parser.atStart <=> fed = 0
    /\ parser.refused <=> place = "refused"
    /\ IF parser.refused
       THEN IsTooLarge(Text) /\ IsPrefix(yielded, ItemsOf(Text))
       ELSE /\ Understood(parser, Text)
            /\ ~IsTooLarge(Text)
            /\ yielded \o parser.items = ItemsOf(Text)

LEMMA BeginningOfJoin ==
    ASSUME NEW S, NEW a \in Seq(S), NEW b \in Seq(S)
    PROVE  IsPrefix(a, a \o b)
<1>1. /\ a \o b \in Seq(S) /\ Len(a \o b) = Len(a) + Len(b)
      /\ \A i \in 1 .. Len(a) : (a \o b)[i] = a[i]
  BY ConcatProperties
<1>2. PICK c \in Seq(S) : c = a \o b
  BY <1>1
<1>3. Len(a) <= Len(c) /\ \A i \in 1 .. Len(a) : c[i] = a[i]
  BY <1>1, <1>2
<1>4. PICK n \in Nat : n = Len(a)
  OBVIOUS
<1>5. SubSeq(c, 1, n) = SubSeq(a, 1, n)
  <2>1. \A i \in 1 .. n : c[i] = a[i]
    BY <1>3, <1>4
  <2>2. \A i \in 1 .. n - 1 + 1 : c[1 + i - 1] = a[1 + i - 1]
    BY <2>1
  <2>3. QED
    BY <2>2
<1>6. QED
  BY <1>2, <1>3, <1>4, <1>5 DEF IsPrefix

LEMMA InitMeant == Init => Meant
<1> SUFFICES ASSUME Init PROVE Meant
  OBVIOUS
<1>1. Text = <<>>
  <2>1. SubSeq(stream, 1, 0) = <<>>
    BY SubSeqEmpty
  <2>2. QED
    BY <2>1 DEF Init, Text, WithoutBom
<1>2. /\ parser.line = <<>> /\ parser.data = <<>> /\ parser.emptyDataLines = 0
      /\ parser.eventType = <<>> /\ parser.lastEventId = InitialLastEventId
      /\ parser.blockIdChanged = FALSE /\ parser.skipLineFeed = FALSE /\ parser.atStart = TRUE
      /\ parser.refused = FALSE /\ parser.items = <<>>
      /\ fed = 0 /\ yielded = <<>> /\ place = "open"
  BY DEF Init, NewParser
<1>3. Flushed(parser) = <<>>
  BY <1>2, OneMoreNewLine DEF Flushed
<1>4. Understood(parser, <<>>)
  <2>1. Len(<<>>) + 1 = 1
    OBVIOUS
  <2>2. QED
    BY <1>2, <1>3, <2>1, NothingMeansNothing DEF Understood, Knows
<1>5. <<>> \o <<>> = <<>>
  OBVIOUS
<1>6. QED
  BY <1>1, <1>2, <1>4, <1>5, NothingMeansNothing DEF Meant

(* One symbol more.                                                        *)
LEMMA FeedMeant ==
    ASSUME IInv, Meant, place = "open", fed < Len(stream),
           parser' = FeedSymbol(parser, stream[fed + 1]), fed' = fed + 1,
           place' = "refused" <=> parser'.refused,
           UNCHANGED <<stream, yielded>>
    PROVE  Meant'
<1>1. /\ stream \in Seq(Symbols) /\ Len(stream) \in Nat /\ fed \in 0 .. Len(stream) - 1
      /\ parser \in Parsers /\ parser.items \in Seq(Items) /\ yielded \in Seq(Items)
      /\ Accounted(parser)
  BY ParserAssumption DEF IInv, ParserTypeOK, Parsers
<1>2. PICK x \in Symbols : x = stream[fed + 1]
  BY <1>1
<1>3. PICK t \in Seq(Symbols) : t = Text
  BY <1>1, TextIsText DEF Text
<1>4. PICK u : u = Text'
  OBVIOUS
<1>5. u = WithoutBom(SubSeq(stream, 1, fed + 1)) /\ t = WithoutBom(SubSeq(stream, 1, fed))
  BY <1>3, <1>4 DEF Text
<1>6. /\ ~parser.refused /\ Understood(parser, t) /\ ~IsTooLarge(t)
      /\ yielded \o parser.items = ItemsOf(t)
  BY <1>3 DEF Meant
<1>7. parser.atStart <=> fed = 0
  BY DEF Meant
<1>8. CASE fed = 0 /\ x = "bom"
  <2>1. parser' = [parser EXCEPT !.atStart = FALSE]
    BY <1>2, <1>7, <1>8 DEF FeedSymbol
  <2>2. u = t
    BY <1>1, <1>2, <1>5, <1>8, TextGrows
  <2>3. /\ parser'.line = parser.line /\ parser'.skipLineFeed = parser.skipLineFeed
        /\ parser'.refused = parser.refused /\ parser'.items = parser.items
        /\ parser'.data = parser.data /\ parser'.emptyDataLines = parser.emptyDataLines
        /\ parser'.eventType = parser.eventType /\ parser'.lastEventId = parser.lastEventId
        /\ parser'.blockIdChanged = parser.blockIdChanged /\ parser'.atStart = FALSE
    BY <1>1, <2>1 DEF Parsers
  <2>4. Understood(parser', t)
    BY <1>6, <2>3 DEF Understood, Knows, Flushed
  <2>5. fed' # 0
    BY <1>1
  <2>6. QED
    BY <1>4, <1>6, <2>2, <2>3, <2>4, <2>5 DEF Meant
<1>9. CASE ~(fed = 0 /\ x = "bom")
  <2>1. Longer(u, t, x)
    BY <1>1, <1>2, <1>5, <1>9, TextGrows
  <2>2. parser.skipLineFeed => ~parser.atStart
    <3>1. fed = 0 => t = <<>>
      <4>1. SubSeq(stream, 1, 0) = <<>>
        BY SubSeqEmpty
      <4>2. QED
        BY <1>5, <4>1 DEF WithoutBom
    <3>2. QED
      BY <1>6, <1>7, <3>1 DEF Understood
  <2>3. Means(parser, t, parser', u, x) /\ parser'.atStart = FALSE
    <3>1. ~(parser.atStart /\ x = "bom")
      BY <1>7, <1>9
    <3>2. Means(parser, t, FeedSymbol(parser, x), u, x) /\ FeedSymbol(parser, x).atStart = FALSE
      BY <1>1, <1>6, <2>1, <2>2, <3>1, FeedSymbolMeans
    <3>3. QED
      BY <1>2, <3>2
  <2>4. fed' # 0
    BY <1>1
  <2>5. PICK more \in Seq(Items) : more = IF Ends(t, x) THEN ItemsAt(t, Len(u)) ELSE <<>>
    <3>1. Len(u) \in 1 .. Len(t) + 1
      BY <2>1 DEF Longer
    <3>2. ItemsAt(t, Len(u)) \in Seq(Items)
      BY <3>1, ItemsAtAreItems
    <3>3. <<>> \in Seq(Items)
      OBVIOUS
    <3>4. (IF Ends(t, x) THEN ItemsAt(t, Len(u)) ELSE <<>>) \in Seq(Items)
      BY <3>2, <3>3
    <3>5. QED
      BY <3>4, Zenon
  <2>6. ItemsOf(u) = ItemsOf(t) \o more
    BY <2>1, <2>5, ItemsGrow
  <2>7. ItemsOf(u) = yielded \o (parser.items \o more)
    <3>1. \A a, b, c \in Seq(Items) : (a \o b) \o c = a \o (b \o c)
      BY ConcatAssociative
    <3>2. (yielded \o parser.items) \o more = yielded \o (parser.items \o more)
      BY <1>1, <2>5, <3>1
    <3>3. QED
      BY <1>6, <2>6, <3>2
  <2>8. CASE parser'.refused
    <3>1. IsTooLarge(u)
      BY <2>3, <2>8 DEF Means
    <3>2. parser.items \o more \in Seq(Items)
      BY <1>1, <2>5
    <3>3. IsPrefix(yielded, ItemsOf(u))
      <4>1. \A b \in Seq(Items) : IsPrefix(yielded, yielded \o b)
        BY <1>1, BeginningOfJoin
      <4>2. QED
        BY <2>7, <3>2, <4>1
    <3>4. QED
      BY <1>4, <2>3, <2>4, <2>8, <3>1, <3>3 DEF Meant
  <2>9. CASE ~parser'.refused
    <3>1. Understood(parser', u) /\ ~IsTooLarge(u) /\ parser'.items = parser.items \o more
      BY <2>3, <2>5, <2>9 DEF Means
    <3>2. yielded \o parser'.items = ItemsOf(u)
      BY <2>7, <3>1
    <3>3. QED
      BY <1>4, <2>3, <2>4, <2>9, <3>1, <3>2 DEF Meant
  <2>10. QED
    BY <2>8, <2>9
<1>10. QED
  BY <1>8, <1>9

LEMMA RestIsLast ==
    ASSUME NEW s \in Seq(Symbols), NEW k \in 0 .. Len(s)
    PROVE  /\ Len(SubSeq(s, k + 1, Len(s))) = Len(s) - k
           /\ k < Len(s) => SubSeq(s, k + 1, Len(s))[1] = s[k + 1]
<1>1. PICK n \in Nat : n = Len(s)
  OBVIOUS
<1>2. \A i \in k + 1 .. n : s[i] \in Symbols
  BY <1>1
<1>3. k + 1 \in Int
  OBVIOUS
<1>4. /\ Len(SubSeq(s, k + 1, n)) = IF k + 1 <= n THEN n - (k + 1) + 1 ELSE 0
      /\ \A i \in 1 .. n - (k + 1) + 1 : SubSeq(s, k + 1, n)[i] = s[(k + 1) + i - 1]
  BY <1>2, <1>3, SubSeqProperties
<1>5. Len(SubSeq(s, k + 1, n)) = n - k
  BY <1>1, <1>4
<1>6. k < n => 1 \in 1 .. n - (k + 1) + 1 /\ (k + 1) + 1 - 1 = k + 1
  BY <1>1
<1>7. k < n => SubSeq(s, k + 1, n)[1] = s[k + 1]
  BY <1>4, <1>6
<1>8. QED
  BY <1>1, <1>5, <1>7

LEMMA NextMeant == IInv /\ Meant /\ [Next]_vars => Meant'
<1> SUFFICES ASSUME IInv, Meant, [Next]_vars PROVE Meant'
  OBVIOUS
<1>1. /\ stream \in Seq(Symbols) /\ Len(stream) \in Nat /\ fed \in 0 .. Len(stream)
      /\ left \in 0 .. Len(stream) - fed
      /\ parser \in Parsers /\ parser.items \in Seq(Items) /\ yielded \in Seq(Items)
  BY ParserAssumption DEF IInv, ParserTypeOK, Parsers
<1>2. CASE FeedWindow
  BY <1>2 DEF FeedWindow, Meant, Text
<1>3. CASE Feed
  <2>1. /\ place = "open" /\ left > 0 /\ fed' = fed + 1
        /\ parser' = FeedSymbol(parser, stream[fed + 1])
        /\ place' = IF parser'.refused THEN "refused" ELSE "open"
        /\ UNCHANGED <<stream, yielded>>
    BY <1>3 DEF Feed
  <2>2. fed < Len(stream)
    BY <1>1, <2>1
  <2>3. place' = "refused" <=> parser'.refused
    BY <2>1
  <2>4. QED
    BY <2>1, <2>2, <2>3, FeedMeant
<1>4. CASE Yield
  <2>1. /\ parser' = [parser EXCEPT !.items = Tail(@)] /\ parser.items # <<>>
        /\ yielded' = Append(yielded, Head(parser.items)) /\ place = "open"
        /\ UNCHANGED <<stream, fed, left, place>>
    BY <1>4 DEF Yield
  <2>2. /\ parser'.line = parser.line /\ parser'.skipLineFeed = parser.skipLineFeed
        /\ parser'.refused = parser.refused /\ parser'.items = Tail(parser.items)
        /\ parser'.data = parser.data /\ parser'.emptyDataLines = parser.emptyDataLines
        /\ parser'.eventType = parser.eventType /\ parser'.lastEventId = parser.lastEventId
        /\ parser'.blockIdChanged = parser.blockIdChanged /\ parser'.atStart = parser.atStart
    BY <1>1, <2>1 DEF Parsers
  <2>3. yielded' \o parser'.items = yielded \o parser.items
    <3>1. PICK h \in Items : h = Head(parser.items)
      BY <1>1, <2>1, HeadTailProperties
    <3>2. PICK rest \in Seq(Items) : rest = Tail(parser.items)
      BY <1>1, <2>1, HeadTailProperties
    <3>3. parser.items = <<h>> \o rest
      BY <1>1, <2>1, <3>1, <3>2
    <3>4. yielded' = yielded \o <<h>>
      BY <1>1, <2>1, <3>1, AppendIsConcat
    <3>5. \A a, b, c \in Seq(Items) : (a \o b) \o c = a \o (b \o c)
      BY ConcatAssociative
    <3>6. <<h>> \in Seq(Items)
      OBVIOUS
    <3>7. (yielded \o <<h>>) \o rest = yielded \o (<<h>> \o rest)
      BY <1>1, <3>5, <3>6
    <3>8. QED
      BY <2>2, <3>2, <3>3, <3>4, <3>7
  <2>4. ~parser.refused
    BY <2>1 DEF Meant
  <2>5. Text' = Text
    BY <2>1 DEF Text
  <2>6. Understood(parser', Text)
    BY <2>2, <2>4 DEF Meant, Understood, Knows, Flushed
  <2>7. QED
    BY <2>1, <2>2, <2>3, <2>4, <2>5, <2>6 DEF Meant
<1>5. CASE StreamEnds
  <2>1. /\ place = "open" /\ fed' = Len(stream) /\ IsTail(Rest)
        /\ parser' = IF Rest = <<>> THEN parser ELSE FeedSymbol(parser, "rep")
        /\ place' = IF parser'.refused THEN "refused" ELSE "done"
        /\ UNCHANGED <<stream, left, yielded>>
    BY <1>5 DEF StreamEnds, AtRead
  <2>2. /\ Len(Rest) = Len(stream) - fed
        /\ fed < Len(stream) => Rest[1] = stream[fed + 1]
    BY <1>1, RestIsLast DEF Rest
  <2>3. CASE Rest = <<>>
    <3>1. fed = Len(stream)
      BY <1>1, <2>2, <2>3
    <3>2. parser' = parser /\ fed' = fed /\ ~parser.refused
      BY <2>1, <2>3, <3>1 DEF Meant
    <3>3. place' = "done" /\ Text' = Text
      BY <2>1, <3>2 DEF Text
    <3>4. QED
      BY <2>1, <3>2, <3>3 DEF Meant
  <2>4. CASE Rest # <<>>
    <3>1. Rest = <<"rep">>
      BY <2>1, <2>4 DEF IsTail
    <3>2. Len(Rest) = 1 /\ Rest[1] = "rep"
      BY <3>1
    <3>3. Len(stream) = fed + 1 /\ stream[fed + 1] = "rep"
      <4>1. Len(stream) - fed = 1
        BY <2>2, <3>2
      <4>2. Len(stream) = fed + 1
        BY <1>1, <4>1
      <4>3. fed < Len(stream)
        BY <1>1, <4>2
      <4>4. QED
        BY <2>2, <3>2, <4>2, <4>3
    <3>4. fed < Len(stream) /\ fed' = fed + 1
      BY <1>1, <2>1, <3>3
    <3>5. parser' = FeedSymbol(parser, stream[fed + 1])
      BY <2>1, <2>4, <3>3
    <3>6. place' = "refused" <=> parser'.refused
      BY <2>1
    <3>7. QED
      BY <2>1, <3>4, <3>5, <3>6, FeedMeant
  <2>5. QED
    BY <2>3, <2>4
<1>6. CASE ReadFails \/ Stops
  <2>1. /\ UNCHANGED <<stream, fed, left, parser, yielded>>
        /\ place = "open" /\ place' \in {"broken", "stopped"}
    BY <1>6 DEF ReadFails, Stops, AtRead
  <2>2. QED
    BY <2>1 DEF Meant, Text
<1>7. CASE UNCHANGED vars
  BY <1>7 DEF Meant, Text, vars
<1>8. QED
  BY <1>2, <1>3, <1>4, <1>5, <1>6, <1>7 DEF Next, Settled

(* What IncrementalSseParser holds is, field by field, what the text it    *)
(* was fed means: the open line, the data, type and identifier of the open *)
(* block, and whether a line feed is to be skipped                         *)
(* (sse-parser.ts:97-122, 124-157, 250-269).                               *)
THEOREM ParserUnderstands == Spec => []Meant
<1>1. Init => IInv /\ Meant
  BY InitIInv, InitMeant
<1>2. IInv /\ Meant /\ [Next]_vars => (IInv /\ Meant)'
  BY NextIInv, NextMeant
<1>3. QED
  BY <1>1, <1>2, PTL DEF Spec

(* Whatever the stream, and wherever it is cut, the items are those of the *)
(* whole text (sse-parser.ts:72-92, 124-157, 250-269).                     *)
THEOREM ParsesEveryCut == Spec => []ParsesAsWhole
<1>1. Meant => ParsesAsWhole
  BY DEF Meant, ParsesAsWhole
<1>2. QED
  BY <1>1, ParserUnderstands, PTL

(* Whatever the stream and the budget, a text is refused if and only if a  *)
(* line or the data of a block is too large (sse-parser.ts:5-6, 145-155).  *)
THEOREM LimitsAreKept == Spec => []LimitsAreExact
<1>1. Meant => LimitsAreExact
  BY DEF Meant, LimitsAreExact
<1>2. QED
  BY <1>1, ParserUnderstands, PTL
=============================================================================
