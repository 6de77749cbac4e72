----------------------------- MODULE ProbeFetch -----------------------------
(***************************************************************************)
(* One fetchProbe of probe.go: net/http dials in a goroutine of its own    *)
(* while client.Do waits for it; through the connection it gets, the       *)
(* request is made and the event stream of the response is read line by    *)
(* line to its first terminal event.  client.Do returns when the context   *)
(* ends, whatever the dial is doing then.                                  *)
(***************************************************************************)
EXTENDS ProxyTransport, TurnStateToken, FiniteSets

CONSTANTS
    Lines,          \* lines upstream's event stream may have
    MaxLines,       \* bound: lines of a stream
    Received        \* values the turn state header may have

ASSUME FetchAssumption == MaxLines \in Nat /\ Received \subseteq Values

VARIABLES
    lines,      \* the lines of the response read so far
    data,       \* the payload of the event being read
    outcome,    \* what fetchProbe returns
    value       \* with which value

answer == <<lines, data, outcome, value>>
vars == <<transportVars, answer>>

NoValue == [chars |-> 0, padding |-> 0, printable |-> TRUE, alphabet |-> TRUE,
            version |-> 0, seconds |-> 0]

Init ==
    /\ TransportInit
    /\ lines = <<>> /\ data = <<>>
    /\ outcome = "none" /\ value = NoValue

-----------------------------------------------------------------------------
(* probeCompleted. *)

\* A blank line ends an event; of the others, those with data have a
\* payload.  "open" and "close" are a completed response over two lines.
Blank == "blank"
Payloads == {"completed", "stopped", "failed", "delta", "open", "close"}

\* The type and status of an event, if its data are JSON.
CompletedEvents == {<<"completed">>, <<"open", "close">>}
TerminalEvents == CompletedEvents \union {<<"stopped">>, <<"failed">>}

Completed(event) == event \in CompletedEvents
Terminal(event) == event \in TerminalEvents

\* Mutant: the data are kept for the next event.
DataKept(line) == IF line \in Payloads THEN Append(data, line) ELSE data
DataAfter(line) == CASE line \in Payloads -> Append(data, line)
                     [] line = Blank      -> <<>>
                     [] OTHER             -> data

-----------------------------------------------------------------------------
(* fetchProbe. *)

\* The body is closed, and the connection, which is kept alive for nobody.
Returns(result) ==
    /\ outcome' = result
    /\ pc' = "over"
    /\ closed' = TRUE
    /\ UNCHANGED <<chain, hop, rest, header, connection, watching, ctx>>

\* The header came with the response; only a completed probe looks at it.
Judged(completed) ==
    \/ ~completed /\ Returns("upstream_incomplete") /\ UNCHANGED value
    \/ /\ completed
       /\ value' \in Received
       /\ Returns(IF value' = NoValue THEN "state_missing" ELSE "ok")

\* client.Do with a connection: an error, a status, or the event stream.
Respond ==
    /\ pc = "open" /\ outcome = "none"
    /\ \/ Returns("network_error")
       \/ ~closed /\ Returns("upstream_http")
       \/ ~closed /\ pc' = "body"
          /\ UNCHANGED <<chain, hop, rest, header, connection, guard, ctx, outcome>>
    /\ UNCHANGED <<lines, data, value>>

ReadLine ==
    /\ pc = "body" /\ Len(lines) < MaxLines
    /\ \E line \in Lines :
          /\ lines' = Append(lines, line)
          /\ \/ /\ line = Blank /\ Terminal(data)
                /\ Judged(Completed(data))
                /\ UNCHANGED data
             \/ /\ ~(line = Blank /\ Terminal(data))
                /\ data' = DataAfter(line)
                /\ UNCHANGED <<transportVars, outcome, value>>

\* The end of the body, or of the first MiB of it.
BodyEnds ==
    /\ pc = "body"
    /\ Judged(Completed(data))
    /\ UNCHANGED <<lines, data>>

\* A read error, or a line longer than the scanner's buffer.
BodyBreaks ==
    /\ pc = "body"
    /\ Judged(FALSE)
    /\ UNCHANGED <<lines, data>>

\* client.Do returns the dial's error, or its own at the context's end.
DialReturns ==
    /\ outcome = "none"
    /\ pc = "failed" \/ (ctx # "live" /\ pc \notin {"body", "over"})
    /\ outcome' = "network_error"
    /\ UNCHANGED <<transportVars, lines, data, value>>

\* The connection of a dial nobody waits for any more is closed.
Unwanted ==
    /\ pc = "open" /\ outcome # "none"
    /\ pc' = "over" /\ closed' = TRUE
    /\ UNCHANGED <<chain, hop, rest, header, connection, watching, ctx, answer>>

FetchStep == Respond \/ ReadLine \/ BodyEnds \/ BodyBreaks \/ DialReturns \/ Unwanted

Next == (TransportStep /\ UNCHANGED answer) \/ FetchStep

\* Goroutines that can go on do; what peers and proxies do is up to them.
\* The end of the context ends the reading of a body.
Fairness ==
    /\ WF_vars(DialerStep /\ UNCHANGED answer)
    /\ WF_vars(AfterFunc /\ UNCHANGED answer)
    /\ WF_vars(DialReturns)
    /\ WF_vars(Unwanted)
    /\ WF_vars(ctx # "live" /\ BodyBreaks)

Spec == Init /\ [][Next]_vars /\ Fairness

-----------------------------------------------------------------------------
(* Properties. *)

\* A message is for the peer that gets it, and what that peer may read or
\* say next is not mixed with what an earlier one has left: tunnelProxy
\* and socksConnect read a reply to its last byte, and take none for
\* granted that was not given.
TunnelIsClean ==
    pc \in Writing \union {"tls", "handOver", "open"} =>
        /\ level = hop
        /\ \A i \in DOMAIN (inbox \o sent) : (inbox \o sent)[i].by = hop

\* What upstream sends right behind a proxy's reply is not read as a part
\* of it: no read of a handshake takes the bytes of another peer than the
\* one it speaks to (the comment on the CONNECT header says why).
ReadsOnePeer ==
    [][\A i \in 1..(Len(inbox) - Len(inbox')) : inbox[i].by = hop]_vars

\* The stretches of a stream between blank lines, up to its end, and the
\* lines with a payload in the one before an end.
EventEnds == {i \in 1..(Len(lines) + 1) : i = Len(lines) + 1 \/ lines[i] = Blank}
PayloadsBefore(end) == {i \in 1..(end - 1) : /\ lines[i] \in Payloads
                                             /\ \A j \in i..(end - 1) : lines[j] # Blank}

\* The payloads of that stretch, in their order, are this event.
Reads(end, event) ==
    \E at \in [1..Len(event) -> 1..Len(lines)] :
        /\ \A k, l \in 1..Len(event) : k < l => at[k] < at[l]
        /\ \A k \in 1..Len(event) : lines[at[k]] = event[k]
        /\ PayloadsBefore(end) = {at[k] : k \in 1..Len(event)}

FirstTerminal(end) == \A earlier \in EventEnds :
    earlier < end => ~ \E event \in TerminalEvents : Reads(earlier, event)

\* The first terminal event of the stream is a completed response.
CompletesFirst == \E end \in EventEnds :
    FirstTerminal(end) /\ \E event \in CompletedEvents : Reads(end, event)

\* A probe is successful only if the first terminal event of the stream is
\* a completed response, whatever lines, other events and unterminated
\* ends are around it; and a response that was read to such an event is
\* not given up.
FirstTerminalDecides ==
    /\ outcome \in {"ok", "state_missing"} => CompletesFirst
    /\ (outcome = "upstream_incomplete" /\ lines # <<>> /\ lines[Len(lines)] = Blank) =>
          ~CompletesFirst

\* What upstream may have minted: the plain texts a token of this length can
\* be of, and a time of this century.
PlainsOf(token) == {plain \in 0..MaxBytes : EncodedChars(MintedBytes(plain)) = token.chars}
Minted(token) == /\ token.printable /\ token.alphabet
                 /\ token.version = 128
                 /\ token.seconds \in MinTime..(MaxTime - 1)
                 /\ PlainsOf(token) # {}

\* Of a successful probe's values that fit, parseTurnState accepts exactly
\* those upstream can mint, padded or not, and the blocks it counts, by
\* which a state is called normal, are those of the plain text.
TokensReadBack ==
    (outcome = "ok" /\ value.chars + value.padding <= MaxBytes) =>
        /\ Parses(value) <=> Minted(value)
        /\ \A plain \in PlainsOf(value) : Blocks(value) = plain \div 16 + 1

\* The end of the context ends the fetch and the dial behind it, and no
\* connection is left of them, however silent the peers are: net/http may
\* detach the dial from the request, so fetchProbe binds it to the probe's
\* own context, and a connection may come when nobody waits for it any more.
EndsWithItsContext ==
    (ctx # "live") ~> (outcome # "none" /\ pc \in {"failed", "over"} /\ closed)

=============================================================================
