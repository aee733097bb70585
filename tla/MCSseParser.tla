---------------------------- MODULE MCSseParser -----------------------------
(* SseParser on every short stream over some of the symbols: line ends,    *)
(* blocks with types and retries, identifiers, sizes at the limits; and    *)
(* streams of up to four blocks.                                           *)
EXTENDS SseParser

Texts(symbols, n) == BoundedSeq(symbols, n)

SmallStreams ==
    Texts({"data", "id", "n", "cr", "lf", "bom"}, 4)
        \cup Texts({"data", "cr", "lf"}, 6)
        \cup Texts({"data", "event", "retry", "n", "lf"}, 5)
        \cup Texts({"id", "data", "sp", "nul", "lf"}, 5)
        \cup Texts({"data", "w", "lf"}, 6)
        \cup {Append(text, "rep") : text \in Texts({"data", "sp", "w", "comment", "lf"}, 4)}

Blocks ==
    {<<"id", "n", "lf", "lf">>, <<"retry", "n", "lf">>,
     <<"data", "n", "cr", "lf", "cr", "lf">>, <<"event", "n", "lf", "data", "lf", "lf">>}

LongStreams == {FlattenSeq(blocks) : blocks \in BoundedSeq(Blocks, 4)}

EveryStream == SmallStreams \cup LongStreams

LastSaved == <<"w">>
=============================================================================
