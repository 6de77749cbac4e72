------------------------------ MODULE StreamMC ------------------------------
(***************************************************************************)
(* Instance of StreamFraming for TLC.                                      *)
(***************************************************************************)
EXTENDS StreamFraming, SequencesExt

\* Two events, in every framing, with either line end throughout; around a
\* failure too long for the buffer, or behind it; or JSON events without
\* framing, as some hosts send them.
Framed == {e \in Events : e.framing \notin {"long", "raw"}}
TooLong == {e \in Events : e.framing = "long" /\ FailureEvent(e)}
Raw == {e \in Events : e.framing = "raw"}
Pairs ==
    {s \in {<<e, f>> : e \in Framed \cup TooLong, f \in Framed} : s[1].eol = s[2].eol}
    \cup {s \in {<<e, l, f>> : e \in Framed, l \in TooLong, f \in Framed} :
              s[1].eol = s[2].eol /\ s[2].eol = s[3].eol}
    \cup {<<e>> : e \in Raw} \cup {<<e, f>> : e \in Raw, f \in Raw}

\* The symbols of a stream: every event begins where the one before it ends.
Wire(events) ==
    LET first(i) == 1 + Len(FlattenSeq([k \in 1..(i - 1) |-> Encode(events[k])]))
    IN  FlattenSeq([i \in DOMAIN events |->
            [j \in 1..Len(Encode(events[i])) |->
                [sym |-> Encode(events[i])[j], event |-> Sent(events[i], first(i))]]])
PairStreams == {Wire(events) : events \in Pairs}

=============================================================================
