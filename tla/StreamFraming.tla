--------------------------- MODULE StreamFraming ---------------------------
(***************************************************************************)
(* observeStreamFailure of refresh.go: how the chunks of a bound attempt's *)
(* stream are put together to events again, and which events queue a       *)
(* refresh.  The host cuts the stream where it likes.  A symbol stands for *)
(* the bytes that no property has to cut: a line's "data:" or other start, *)
(* the half of a payload that says what an event is, the half with its     *)
(* text, CR and LF; a chunk may begin and end at any symbol.               *)
(*                                                                         *)
(* Symbols have the positions at which they come; what the code cuts and   *)
(* joins, buffers, frames and payloads, are sets of positions.             *)
(***************************************************************************)
EXTENDS Naturals, Sequences, FiniteSets

CONSTANTS
    Streams,        \* what upstream may send under a request ID, over all attempts
    Limit,          \* symbols a buffer and a chunk may have, 64 KiB in the code
    MaxRetries      \* bound: attempts after the first under one request ID

ASSUME FramingAssumption == Limit \in Nat \ {0} /\ MaxRetries \in Nat

Types == {"failed", "delta"}            \* a failure's event type, or another
Texts == {"overloaded", "fine"}         \* what failureRefreshReason looks for
Framings == {"line", "lines", "named", "long", "raw"}
Events == [type : Types, text : Texts, framing : Framings, eol : {"lf", "crlf"}]

-----------------------------------------------------------------------------
(* What upstream sends. *)

Encode(event) ==
    LET type == event.type
        text == event.text
    IN  CASE event.framing = "raw" -> <<type, text>>
          [] event.framing = "line" /\ event.eol = "lf" ->
                 <<"data", type, text, "lf", "lf">>
          [] event.framing = "line" /\ event.eol = "crlf" ->
                 <<"data", type, text, "cr", "lf", "cr", "lf">>
          [] event.framing = "lines" /\ event.eol = "lf" ->
                 <<"data", type, "lf", "data", text, "lf", "lf">>
          [] event.framing = "lines" /\ event.eol = "crlf" ->
                 <<"data", type, "cr", "lf", "data", text, "cr", "lf", "cr", "lf">>
          [] event.framing = "named" /\ event.eol = "lf" ->
                 <<"event", "lf", "data", type, text, "lf", "lf">>
          [] event.framing = "named" /\ event.eol = "crlf" ->
                 <<"event", "cr", "lf", "data", type, text, "cr", "lf", "cr", "lf">>
          [] event.framing = "long" /\ event.eol = "lf" ->
                 <<"event", "lf", "data", type, "lf", "data", text, "lf", "lf">>
          [] event.framing = "long" /\ event.eol = "crlf" ->
                 <<"event", "cr", "lf", "data", type, "cr", "lf", "data", text, "cr", "lf",
                   "cr", "lf">>

FailureEvent(event) == event.type = "failed" /\ event.text = "overloaded"

\* A symbol knows the event it is of: where this begins and ends.
Sent(event, first) ==
    [first |-> first, last |-> first + Len(Encode(event)) - 1,
     fails |-> FailureEvent(event), raw |-> event.framing = "raw"]

\* Events one after the other, each as a whole.
IsStream(symbols) ==
    \A i \in 1..Len(symbols) : \E event \in Events :
        LET of == symbols[i].event
        IN  /\ of.first \in 1..i /\ of.last \in i..Len(symbols)
            /\ of = Sent(event, of.first)
            /\ \A j \in 1..Len(Encode(event)) :
                  symbols[of.first + j - 1] = [sym |-> Encode(event)[j], event |-> of]

ASSUME StreamsAssumption ==
    \A symbols \in Streams : Len(symbols) \in Nat /\ IsStream(symbols)

VARIABLES
    attempt,    \* of the host, under the one request ID
    bound,      \* whether interceptAfter bound it
    wire,       \* what upstream sends, all of it
    delivered,  \* how much of it has come or been given up
    buffer,     \* binding.StreamBuffer
    alarms,     \* per queued refresh, when it was and the payload it was for
    spoiled     \* history: events an overflow, a retry or no binding has hit

vars == <<attempt, bound, wire, delivered, buffer, alarms, spoiled>>

-----------------------------------------------------------------------------
(* What the code makes of it. *)

Is(i, syms) == wire[i].sym \in syms
Line(i) == Is(i, {"lf"})
EventsOf(S) == {wire[i].event : i \in S}

\* i is followed by j, what lies between them is not in S.
Adjacent(S, i, j) == i < j /\ \A k \in S : ~(i < k /\ k < j)

\* bytes.ReplaceAll "\r\n" by "\n".
Normalised(S) == {i \in S : ~ (Is(i, {"cr"}) /\ \E j \in S : Adjacent(S, i, j) /\ Line(j))}

\* Mutant: only the chunk that has come is normalised.
ChunkNormalised(old, chunk) == old \cup Normalised(chunk)
Joined(old, chunk) == Normalised(old \cup chunk)

\* Every second LF of a row ends a frame: "\n\n" is looked for from the left.
Run(S, end) == {i \in S : i <= end /\ \A k \in S : i <= k /\ k <= end => Line(k)}
FrameEnds(S) == {end \in S : Line(end) /\ Cardinality(Run(S, end)) % 2 = 0}

\* The frame up to an end, and what is left behind the last.
Frame(S, end) == {i \in S : i < end /\ \A e \in FrameEnds(S) : e < end => e < i}
Rest(S) == {i \in S : \A e \in FrameEnds(S) : e < i}

\* The payload of a frame: its "data:" lines, joined.
LineStart(S, i) == \A p \in S : Adjacent(S, p, i) => Line(p)
DataOf(S) ==
    {i \in S : /\ ~Line(i)
               /\ \E d \in S : /\ d < i /\ Is(d, {"data"}) /\ LineStart(S, d)
                               /\ \A k \in S : d < k /\ k < i => ~Line(k)}

\* Line ends around the halves of a payload are white space.
Bare(S) == {i \in S : ~Is(i, {"cr", "lf"})}

\* json.Valid, and streamFailureReason: assistant text is no error.
Halves(S, types, texts) ==
    \E i, j \in S : i < j /\ S = {i, j} /\ Is(i, types) /\ Is(j, texts)
ValidJSON(S) == Halves(S, Types, Texts)
StreamFailureReason(S) == Halves(S, {"failed"}, {"overloaded"})

Payloads(S) == {DataOf(Frame(S, end)) : end \in FrameEnds(S)} \cup {Bare(Rest(S))}

\* Mutant: an overflow drops the chunk and keeps the fragment before it.
FragmentKept == buffer
AfterOverflow == {}

\* Mutant: only a chunk that is too long by itself overflows.
ChunkOverflows(chunk) == Cardinality(chunk) > Limit
Overflows(chunk) == Cardinality(buffer) + Cardinality(chunk) > Limit

Observe(chunk) ==
    IF Overflows(chunk)
    THEN /\ buffer' = AfterOverflow
         /\ spoiled' = spoiled \cup EventsOf(chunk)
         /\ UNCHANGED alarms
    ELSE LET joined == Joined(buffer, chunk)
         IN  /\ alarms' = alarms \cup
                    {[when |-> delivered', payload |-> payload] :
                        payload \in {P \in Payloads(joined) : StreamFailureReason(P)}}
             /\ buffer' = IF ValidJSON(Bare(Rest(joined))) THEN {} ELSE Rest(joined)
             /\ UNCHANGED spoiled

-----------------------------------------------------------------------------
Init ==
    /\ attempt = 0
    /\ bound \in BOOLEAN
    /\ wire \in Streams
    /\ delivered = 0
    /\ buffer = {}
    /\ alarms = {}
    /\ spoiled = {}

\* The host hands over the next chunk; an attempt without a binding is not
\* looked at.
StreamChunk(size) ==
    /\ size \in 1..(Len(wire) - delivered)
    /\ delivered' = delivered + size
    /\ LET chunk == (delivered + 1)..delivered'
       IN  IF bound THEN Observe(chunk)
                    ELSE /\ spoiled' = spoiled \cup EventsOf(chunk)
                         /\ UNCHANGED <<buffer, alarms>>
    /\ UNCHANGED <<attempt, bound, wire>>

\* Where an attempt's stream may begin: between two events.
Starts == {n \in delivered..Len(wire) : n = Len(wire) \/ wire[n + 1].event.first = n + 1}

\* The host gives the stream up and makes another attempt, which
\* interceptAfter binds anew or not at all; its stream begins with an event.
RetryStream ==
    /\ attempt < MaxRetries
    /\ attempt' = attempt + 1
    /\ bound' \in BOOLEAN
    /\ delivered' \in Starts
    /\ buffer' = {}
    /\ spoiled' = spoiled \cup EventsOf((delivered + 1)..delivered')
    /\ UNCHANGED <<wire, alarms>>

Next == (\E size \in 1..Len(wire) : StreamChunk(size)) \/ RetryStream

Spec == Init /\ [][Next]_vars

-----------------------------------------------------------------------------
\* The types, and the bound of the memory a request's stream may take.
TypeOK ==
    /\ attempt \in 0..MaxRetries
    /\ bound \in BOOLEAN
    /\ delivered \in 0..Len(wire)
    /\ buffer \subseteq 1..delivered
    /\ Cardinality(buffer) <= Limit
    /\ spoiled \subseteq EventsOf(1..Len(wire))

\* A queued refresh stands for one failure event upstream sent, and no event
\* queues two: no text of the assistant, no fragments of two events glued
\* over an overflow or a retry, however the host cuts the stream.
NoFalseAlarms ==
    /\ \A a \in alarms : \E event \in EventsOf(a.payload) :
          event.fails /\ EventsOf(a.payload) = {event}
    /\ \A a, b \in alarms : EventsOf(a.payload) = EventsOf(b.payload) => a = b

\* A JSON event without framing is all the stream there is: behind or in
\* front of anything else, the buffer is no JSON value as a whole.
RawStandsAlone == \A i \in 1..Len(wire) : wire[i].event.raw => wire[i].event.last = Len(wire)
                                                              /\ wire[i].event.first = 1

\* A failure event that has come as a whole queues its refresh at once,
\* wherever the host cut it, a CR LF pair included, unless an overflow hit
\* the event itself: the events behind the overflow are seen again.
EveryFailureSeen ==
    RawStandsAlone =>
        \A i \in 1..delivered :
            LET event == wire[i].event
            IN  event.fails /\ event \notin spoiled /\ event.last <= delivered =>
                    \E a \in alarms : EventsOf(a.payload) = {event}

=============================================================================
