------------------------------ MODULE Framing ------------------------------
(***************************************************************************)
(* The readers between a response's bytes and the adapters: the SSE framer  *)
(* and the NDJSON line framer (backends/_sse.py) and Dify's think stripper  *)
(* (backends/dify.py).  Their input comes in chunks whose boundaries fall   *)
(* anywhere; what they put out must depend on the bytes alone.              *)
(*                                                                         *)
(* A byte is one of a few: the terminators, the letters of the tags, and    *)
(* "d" and "e", each of which stands for a field name with its colon.       *)
(***************************************************************************)
EXTENDS Naturals, SequencesExt

CONSTANTS
    MaxLine,   \* max_line_bytes
    Open,      \* the tag that opens a block of reasoning
    Close,     \* the tag that closes it
    MaxBytes,  \* bound: bytes of a stream
    MaxChunk   \* bound: bytes of a chunk

ASSUME BoundsAssumption == MaxLine \in Nat /\ MaxBytes \in Nat /\ MaxChunk \in Nat

\* What the stripper's text is made of.
Letters == {Open[i] : i \in DOMAIN Open} \cup {Close[i] : i \in DOMAIN Close}

ASSUME TagsAssumption == {Open, Close} \subseteq Seq(Letters) \ {<<>>}

VARIABLES
    reader,   \* sse, lines or think
    sent,     \* the bytes that have arrived
    chunk,    \* what is left of the chunk the reader works on
    buf,      \* line_buf, _buf: bytes kept for later
    over,     \* line_overflowed: the line is past the cap
    cr,       \* prev_was_cr: the previous chunk ended with a CR
    data,     \* data_values of the event so far
    type,     \* event_type
    inThink,  \* inside a block of reasoning
    out,      \* what was put out: events, lines or text
    eof       \* has the stream ended?

vars == <<reader, sent, chunk, buf, over, cr, data, type, inThink, out, eof>>

Bytes == [sse |-> {"CR", "LF", "d", "e", "x"},
          lines |-> {"LF", "x"},
          think |-> Letters]

\* The default event type, which a stream may name, too; an empty field names another.
Message == <<"x">>

TypeOK ==
    /\ reader \in DOMAIN Bytes
    /\ {sent, chunk, buf} \subseteq Seq(Bytes[reader])
    /\ {over, cr, inThink, eof} \subseteq BOOLEAN
    /\ reader # "think" => Len(buf) <= MaxLine
    /\ over => buf = <<>>
    /\ data \in Seq(Seq(Bytes["sse"]))
    /\ type \in Seq(Bytes["sse"])

Init ==
    /\ reader \in DOMAIN Bytes
    /\ sent = <<>>
    /\ chunk = <<>>
    /\ buf = <<>>
    /\ over = FALSE
    /\ cr = FALSE
    /\ data = <<>>
    /\ type = Message
    /\ inThink = FALSE
    /\ out = <<>>
    /\ eof = FALSE

-----------------------------------------------------------------------------
(* Chunks                                                                  *)

Chunks(r) == UNION {[1..n -> Bytes[r]] : n \in 1..MaxChunk}

\* The reader waits for a chunk.
Waits == chunk = <<>> /\ ~eof

\* A chunk arrives.  An LF that completes a CRLF split across chunks is passed.
Arrive(c) ==
    /\ Waits
    /\ Len(sent) + Len(c) <= MaxBytes
    /\ sent' = sent \o c
    /\ chunk' = IF cr /\ Head(c) = "LF" THEN Tail(c) ELSE c
    /\ cr' = FALSE
    /\ UNCHANGED <<reader, buf, over, data, type, inThink, out, eof>>

\* The smallest of some places, 0 if there is none.
Least(at) == IF at = {} THEN 0 ELSE Min(at)

\* The first of some bytes in a text, 0 if there is none.
First(text, bytes) == Least({i \in DOMAIN text : text[i] \in bytes})

-----------------------------------------------------------------------------
(* Lines                                                                   *)

TooLong(line) == Len(line) > MaxLine

\* Mutant: the cap is applied to complete lines only.
KeepRestUnbounded(terminators) ==
    /\ chunk # <<>>
    /\ First(chunk, terminators) = 0
    /\ chunk' = <<>>
    /\ buf' = IF over THEN <<>> ELSE buf \o chunk
    /\ UNCHANGED <<reader, sent, over, cr, data, type, inThink, out, eof>>

\* A chunk without a terminator is kept, unless its line is past the cap.
KeepRest(terminators) ==
    /\ chunk # <<>>
    /\ First(chunk, terminators) = 0
    /\ chunk' = <<>>
    /\ LET line == buf \o chunk
       IN /\ over' = (over \/ TooLong(line))
          /\ buf' = IF over' THEN <<>> ELSE line
    /\ UNCHANGED <<reader, sent, cr, data, type, inThink, out, eof>>

\* The line that the chunk's first terminator completes.
Line(terminators) == buf \o SubSeq(chunk, 1, First(chunk, terminators) - 1)

-----------------------------------------------------------------------------
(* The SSE framer (async_iter_sse)                                         *)

Ends == {"CR", "LF"}

\* The number of bytes of the chunk's first terminator: a CRLF has two.
EndLength ==
    LET i == First(chunk, Ends)
    IN IF chunk[i] = "CR" /\ i < Len(chunk) /\ chunk[i + 1] = "LF" THEN 2 ELSE 1

\* _handle_line: a blank line dispatches what was gathered, a field is gathered.
HandleLine(line) ==
    IF line = <<>>
    THEN /\ out' = IF data = <<>> THEN out ELSE Append(out, [event |-> type, data |-> data])
         /\ data' = <<>>
         /\ type' = Message
    ELSE /\ data' = IF Head(line) = "d" THEN Append(data, Tail(line)) ELSE data
         /\ type' = IF Head(line) = "e" THEN Tail(line) ELSE type
         /\ UNCHANGED out

\* Mutant: a CR that closes a chunk is forgotten.
SseLineForgettingCr ==
    /\ reader = "sse"
    /\ First(chunk, Ends) # 0
    /\ IF over \/ TooLong(Line(Ends)) THEN UNCHANGED <<data, type, out>> ELSE HandleLine(Line(Ends))
    /\ buf' = <<>>
    /\ over' = FALSE
    /\ chunk' = SubSeq(chunk, First(chunk, Ends) + EndLength, Len(chunk))
    /\ UNCHANGED <<reader, sent, cr, inThink, eof>>

\* A terminator ends a line, which is handled unless it is past the cap.
SseLine ==
    /\ reader = "sse"
    /\ First(chunk, Ends) # 0
    /\ IF over \/ TooLong(Line(Ends)) THEN UNCHANGED <<data, type, out>> ELSE HandleLine(Line(Ends))
    /\ buf' = <<>>
    /\ over' = FALSE
    /\ chunk' = SubSeq(chunk, First(chunk, Ends) + EndLength, Len(chunk))
    /\ cr' = (chunk' = <<>> /\ Last(chunk) = "CR")
    /\ UNCHANGED <<reader, sent, inThink, eof>>

SseRest == reader = "sse" /\ KeepRest(Ends)

\* The stream ends: what no blank line dispatched is not.
SseEof ==
    /\ reader = "sse"
    /\ Waits
    /\ eof' = TRUE
    /\ UNCHANGED <<reader, sent, chunk, buf, over, cr, data, type, inThink, out>>

-----------------------------------------------------------------------------
(* The line framer (async_iter_lines)                                      *)

\* An LF ends a line, which is put out raw unless it is past the cap.
NdjsonLine ==
    /\ reader = "lines"
    /\ First(chunk, {"LF"}) # 0
    /\ out' = IF over \/ TooLong(Line({"LF"})) THEN out ELSE Append(out, Line({"LF"}))
    /\ buf' = <<>>
    /\ over' = FALSE
    /\ chunk' = SubSeq(chunk, First(chunk, {"LF"}) + 1, Len(chunk))
    /\ UNCHANGED <<reader, sent, cr, data, type, inThink, eof>>

NdjsonRest == reader = "lines" /\ KeepRest({"LF"})

\* Mutant: the last line is dropped if it has no terminator.
NdjsonEofDropping ==
    /\ reader = "lines"
    /\ Waits
    /\ eof' = TRUE
    /\ UNCHANGED <<reader, sent, chunk, buf, over, cr, data, type, inThink, out>>

\* The stream ends: the last line needs no terminator.
NdjsonEof ==
    /\ reader = "lines"
    /\ Waits
    /\ eof' = TRUE
    /\ out' = IF buf = <<>> THEN out ELSE Append(out, buf)
    /\ UNCHANGED <<reader, sent, chunk, buf, over, cr, data, type, inThink>>

-----------------------------------------------------------------------------
(* The think stripper (_ThinkStripper)                                     *)

\* A tag begins at a place of a text.
Occurs(text, tag, i) == i + Len(tag) - 1 <= Len(text) /\ SubSeq(text, i, i + Len(tag) - 1) = tag

\* The place of a tag's first occurrence in a text, 0 if there is none.
Find(text, tag) == Least({i \in DOMAIN text : Occurs(text, tag, i)})

\* Mutant: nothing is held back.
TagTailNone(text, tag) == 0

\* _tag_tail: the length of the longest end of a text that may begin a tag.
TagTail(text, tag) ==
    Max({0} \cup {k \in 1..(Len(tag) - 1) :
                     k <= Len(text) /\ SubSeq(text, Len(text) - k + 1, Len(text)) = SubSeq(tag, 1, k)})

\* The buffer holds a whole tag that the stripper waits for: it changes sides.
ThinkTag ==
    /\ reader = "think"
    /\ chunk # <<>>
    /\ LET tag == IF inThink THEN Close ELSE Open
           text == buf \o chunk
           i == Find(text, tag)
       IN /\ i # 0
          /\ out' = IF inThink THEN out ELSE out \o SubSeq(text, 1, i - 1)
          /\ chunk' = SubSeq(text, i + Len(tag), Len(text))
    /\ buf' = <<>>
    /\ inThink' = ~inThink
    /\ UNCHANGED <<reader, sent, over, cr, data, type, eof>>

\* It does not: all but a fragment that may begin the tag is spoken or dropped.
ThinkRest ==
    /\ reader = "think"
    /\ chunk # <<>>
    /\ LET tag == IF inThink THEN Close ELSE Open
           text == buf \o chunk
           visible == Len(text) - TagTail(text, tag)
       IN /\ Find(text, tag) = 0
          /\ out' = IF inThink THEN out ELSE out \o SubSeq(text, 1, visible)
          /\ buf' = SubSeq(text, visible + 1, Len(text))
    /\ chunk' = <<>>
    /\ UNCHANGED <<reader, sent, over, cr, data, type, inThink, eof>>

\* flush: a fragment held back was text after all, unless it is in a block.
ThinkEof ==
    /\ reader = "think"
    /\ Waits
    /\ eof' = TRUE
    /\ out' = IF inThink THEN out ELSE out \o buf
    /\ buf' = <<>>
    /\ UNCHANGED <<reader, sent, chunk, over, cr, data, type, inThink>>

Next ==
    \/ \E c \in Chunks(reader) : Arrive(c)
    \/ SseLine \/ SseRest \/ SseEof
    \/ NdjsonLine \/ NdjsonRest \/ NdjsonEof
    \/ ThinkTag \/ ThinkRest \/ ThinkEof

Spec == Init /\ [][Next]_vars

-----------------------------------------------------------------------------
(* What each reader is to make of all the bytes at once                    *)

(* The definitions take all places of a sequence at once: none of them scans. *)

\* The number of places up to one of them.
Rank(at, i) == Cardinality({j \in at : j <= i})

\* The items of a sequence at some of its places, in order.
Pick(seq, at) == [k \in 1..Cardinality(at) |-> seq[CHOOSE i \in at : Rank(at, i) = k]]

\* The nearest of some places before another, 0 if there is none.
Nearest(at, i) == Max({0} \cup {j \in at : j < i})

\* What a sequence holds before a place, back to the nearest of some places.
Before(seq, at, i) == SubSeq(seq, Nearest(at, i) + 1, i - 1)

Places(seq, items) == {i \in DOMAIN seq : seq[i] \in items}

Fits(line) == Len(line) <= MaxLine

\* A terminator ends a line unless it is the LF of a CRLF, whose CR has ended it.
LineEnds(text) == {i \in Places(text, Ends) : ~(text[i] = "LF" /\ i > 1 /\ text[i - 1] = "CR")}

\* The bytes between a place and the terminator before it.
LineBefore(text, i) == Before(text, Places(text, Ends), i)

\* The terminated lines of a text.
LinesOf(text) ==
    Pick([i \in DOMAIN text |-> LineBefore(text, i)], {i \in LineEnds(text) : Fits(LineBefore(text, i))})

\* Its last line, which has no terminator.
Remainder(text) == LineBefore(text, Len(text) + 1)

\* The values of a field in the lines of one event.
Values(lines, field) ==
    Pick([k \in DOMAIN lines |-> Tail(lines[k])], {k \in DOMAIN lines : Head(lines[k]) = field})

EventOf(lines) ==
    [event |-> IF Values(lines, "e") = <<>> THEN Message ELSE Last(Values(lines, "e")),
     data |-> Values(lines, "d")]

\* The lines between a place and the blank line before it.
GroupBefore(lines, k) == Before(lines, Places(lines, {<<>>}), k)

\* The events of some lines: a blank line ends one, which counts if it has data.
EventsIn(lines) ==
    Pick([k \in DOMAIN lines |-> EventOf(GroupBefore(lines, k))],
         {k \in Places(lines, {<<>>}) : EventOf(GroupBefore(lines, k)).data # <<>>})

EventsOf(text) == EventsIn(LinesOf(text))

\* A block of reasoning that opens at a place ends with the first closing tag
\* after its opening tag; one that is never closed has no end.
Closings(text, i) == {j \in DOMAIN text : i + Len(Open) <= j /\ Occurs(text, Close, j)}
BlockEnd(text, i) ==
    IF Closings(text, i) = {} THEN Len(text) ELSE Min(Closings(text, i)) + Len(Close) - 1

\* The places where blocks open: an opening tag opens one unless it is part of one.
OpensAt(text, opens) ==
    \A i \in DOMAIN text :
        i \in opens <=> /\ Occurs(text, Open, i)
                       /\ \A o \in opens : o < i => BlockEnd(text, o) < i

Openings(text) == CHOOSE opens \in SUBSET DOMAIN text : OpensAt(text, opens)

\* The places of a text that are part of no block.
Outside(text) == {i \in DOMAIN text : \A o \in Openings(text) : i < o \/ BlockEnd(text, o) < i}

\* A text without its blocks of reasoning.
Spoken(text) == Pick(text, Outside(text))

-----------------------------------------------------------------------------
(* Properties                                                              *)

\* "Boundaries need not align with lines, CRLFs, or events": however a stream is
\* cut into chunks, the same events, or lines, come out of it in order, those
\* that the cap spares, and no line over the cap costs more than itself.  The
\* line framer gives the unterminated last line at the end, the other does not.
FramesTheBytes ==
    /\ reader = "sse" /\ chunk = <<>> => out = EventsOf(sent)
    /\ reader = "lines" /\ chunk = <<>> =>
           out = IF eof /\ Remainder(sent) # <<>> /\ Fits(Remainder(sent))
                 THEN Append(LinesOf(sent), Remainder(sent)) ELSE LinesOf(sent)

\* Whatever the deltas cut through, no reasoning is spoken and no text that only
\* resembles a tag is lost: what was put out and what is held back are the text
\* outside the blocks.
ReasoningIsStripped ==
    reader = "think" /\ chunk = <<>> =>
        out \o (IF inThink THEN <<>> ELSE buf) = Spoken(sent)

=============================================================================
