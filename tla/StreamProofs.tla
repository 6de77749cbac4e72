---------------------------- MODULE StreamProofs ----------------------------
(***************************************************************************)
(* The properties of StreamFraming for streams of any length, any limit,   *)
(* any cutting by the host and any number of attempts.                     *)
(*                                                                         *)
(* The inductive invariant (StreamInv): the buffer is all that has come    *)
(* behind some position, but for the CRs of CR LF pairs (Window); every    *)
(* alarm is for a failure event before that position, and one event has    *)
(* one alarm; and a failure event that has begun to come is alarmed, hit   *)
(* by an overflow or a retry, or it begins behind the position and has not *)
(* come as a whole.                                                        *)
(*                                                                         *)
(* To show that a chunk keeps it: how every kind of event is laid out      *)
(* (Codes, Layouts); that joining and normalising gives a Window again     *)
(* (JoinsWindow); that of an event's LFs only the last ends a frame, and   *)
(* does if the LF before it is still there (EndsOf); that a frame's        *)
(* payload has nothing but the halves of the event it ends (DataWithin),   *)
(* and both if the event is there as a whole (DataWhole); that the rest is *)
(* a Window (RestWindow), and JSON by itself only if it is one event       *)
(* (RawWithin).                                                            *)
(***************************************************************************)
EXTENDS StreamFraming, FiniteSetTheorems, WellFoundedInduction, TLAPS

-----------------------------------------------------------------------------
(* Events on the wire. *)

Content(k) == ~Is(k, {"cr", "lf"})

\* An LF with content before it, or with content and a CR.
EndsContent(b, k) == \/ b <= k - 1 /\ Content(k - 1)
                     \/ b <= k - 2 /\ Is(k - 1, {"cr"}) /\ Content(k - 2)

\* An event from b to l: its halves are at t and x.
LaidOut(b, l, t, x) ==
    /\ t \in b..l /\ x \in b..l /\ t < x
    /\ \A k \in b..l : (Is(k, Types) <=> k = t) /\ (Is(k, Texts) <=> k = x)
    /\ \A k \in b..l : Is(k, {"cr"}) => k < l /\ Line(k + 1)
    /\ \A k \in b..l : Line(k) /\ k < l => EndsContent(b, k)
    /\ \A k \in b..l : Is(k, {"cr", "lf", "data", "event"}) \/ k = t \/ k = x
    /\ Content(b)
    /\ wire[b].event.fails <=> Is(t, {"failed"}) /\ Is(x, {"overloaded"})

\* An event with framing ends in two LFs, the first of them at p, and its
\* halves are on lines that begin at c and d.
Framed(b, l, t, x, p, c, d) ==
    /\ p \in (x + 1)..(l - 1) /\ Line(p) /\ Line(l)
    /\ p = l - 1 \/ (p = l - 2 /\ Is(l - 1, {"cr"}))
    /\ c \in b..l /\ c = t - 1 /\ (c = b \/ Line(c - 1))
    /\ d \in b..l /\ (d = b \/ Line(d - 1))
    /\ d = x - 1 \/ (d = c /\ x = t + 1)
    /\ \A k \in b..l : Is(k, {"data"}) <=> k = c \/ k = d
    /\ \A k \in b..l : Is(k, {"event"}) => k = b

LEMMA SentFields ==
    ASSUME NEW event, NEW first
    PROVE  /\ Sent(event, first).first = first
           /\ Sent(event, first).last = first + Len(Encode(event)) - 1
           /\ Sent(event, first).fails <=> FailureEvent(event)
           /\ Sent(event, first).raw <=> event.framing = "raw"
BY DEF Sent, FailureEvent

\* The same of an event's code, n symbols.
CodeOf(code, n, t, x) ==
    /\ t \in 1..n /\ x \in 1..n /\ t < x
    /\ \A k \in 1..n : (code[k] \in Types <=> k = t) /\ (code[k] \in Texts <=> k = x)
    /\ \A k \in 1..n : code[k] \in {"cr", "lf", "data", "event"} \/ k = t \/ k = x
    /\ \A k \in 1..n : code[k] = "cr" => k < n /\ code[k + 1] = "lf"
    /\ \A k \in 1..n : code[k] = "lf" /\ k < n =>
          \/ k > 1 /\ code[k - 1] \notin {"cr", "lf"}
          \/ k > 2 /\ code[k - 1] = "cr" /\ code[k - 2] \notin {"cr", "lf"}
    /\ code[1] \notin {"cr", "lf"}

CodeFramed(code, n, t, x, p, c, d) ==
    /\ p \in 1..n /\ x < p /\ p < n /\ code[p] = "lf" /\ code[n] = "lf"
    /\ p = n - 1 \/ (p = n - 2 /\ code[n - 1] = "cr")
    /\ c \in 1..n /\ c = t - 1 /\ (c = 1 \/ code[c - 1] = "lf")
    /\ d \in 1..n /\ (d = 1 \/ code[d - 1] = "lf")
    /\ d = x - 1 \/ (d = c /\ x = t + 1)
    /\ \A k \in 1..n : (code[k] = "data" <=> k = c \/ k = d) /\ (code[k] = "event" => k = 1)

CodeIs(code, n, t, x, event) ==
    /\ n \in Nat /\ Len(code) = n
    /\ code[t] = event.type /\ code[x] = event.text
    /\ CodeOf(code, n, t, x)
    /\ event.framing = "raw" => t = 1 /\ x = 2 /\ n = 2
    /\ event.framing # "raw" => \E p, c, d \in 1..n : CodeFramed(code, n, t, x, p, c, d)

LEMMA Codes ==
    ASSUME NEW event \in Events
    PROVE  \E n, t, x \in Nat : CodeIs(Encode(event), n, t, x, event)
<1>. PICK type, text : type = event.type /\ text = event.text
    OBVIOUS
<1>0. type \in Types /\ text \in Texts
    BY DEF Events
<1>1. CASE event.framing = "raw"
    <2>1. PICK code : code = Encode(event) /\ code = <<type, text>>
        BY <1>1 DEF Encode
    <2>2. Len(code) = 2 /\ code[1] = type /\ code[2] = text /\ CodeOf(code, 2, 1, 2)
        BY <1>0, <2>1 DEF CodeOf, Types, Texts
    <2>3. CodeIs(code, 2, 1, 2, event)
        BY <1>1, <2>2 DEF CodeIs
    <2>. QED
        BY <2>1, <2>3
<1>2. CASE event.framing = "line" /\ event.eol = "lf"
    <2>1. PICK code : code = Encode(event) /\ code = <<"data", type, text, "lf", "lf">>
        BY <1>2 DEF Encode
    <2>2. Len(code) = 5 /\ code[2] = type /\ code[3] = text /\ CodeOf(code, 5, 2, 3)
        BY <1>0, <2>1 DEF CodeOf, Types, Texts
    <2>3. CodeFramed(code, 5, 2, 3, 4, 1, 1)
        BY <1>0, <2>1 DEF CodeFramed, Types, Texts
    <2>4. 4 \in 1..5 /\ 1 \in 1..5 /\ 1 \in 1..5
        OBVIOUS
    <2>5. CodeIs(code, 5, 2, 3, event)
        BY <1>2, <2>2, <2>3, <2>4 DEF CodeIs
    <2>. QED
        BY <2>1, <2>5
<1>3. CASE event.framing = "line" /\ event.eol = "crlf"
    <2>1. PICK code : code = Encode(event) /\ code = <<"data", type, text, "cr", "lf", "cr", "lf">>
        BY <1>3 DEF Encode
    <2>2. Len(code) = 7 /\ code[2] = type /\ code[3] = text /\ CodeOf(code, 7, 2, 3)
        BY <1>0, <2>1 DEF CodeOf, Types, Texts
    <2>3. CodeFramed(code, 7, 2, 3, 5, 1, 1)
        BY <1>0, <2>1 DEF CodeFramed, Types, Texts
    <2>4. 5 \in 1..7 /\ 1 \in 1..7 /\ 1 \in 1..7
        OBVIOUS
    <2>5. CodeIs(code, 7, 2, 3, event)
        BY <1>3, <2>2, <2>3, <2>4 DEF CodeIs
    <2>. QED
        BY <2>1, <2>5
<1>4. CASE event.framing = "lines" /\ event.eol = "lf"
    <2>1. PICK code : code = Encode(event) /\ code = <<"data", type, "lf", "data", text, "lf", "lf">>
        BY <1>4 DEF Encode
    <2>2. Len(code) = 7 /\ code[2] = type /\ code[5] = text /\ CodeOf(code, 7, 2, 5)
        BY <1>0, <2>1 DEF CodeOf, Types, Texts
    <2>3. CodeFramed(code, 7, 2, 5, 6, 1, 4)
        BY <1>0, <2>1 DEF CodeFramed, Types, Texts
    <2>4. 6 \in 1..7 /\ 1 \in 1..7 /\ 4 \in 1..7
        OBVIOUS
    <2>5. CodeIs(code, 7, 2, 5, event)
        BY <1>4, <2>2, <2>3, <2>4 DEF CodeIs
    <2>. QED
        BY <2>1, <2>5
<1>5. CASE event.framing = "lines" /\ event.eol = "crlf"
    <2>1. PICK code : code = Encode(event) /\ code = <<"data", type, "cr", "lf", "data", text, "cr", "lf", "cr",
                                "lf">>
        BY <1>5 DEF Encode
    <2>2. Len(code) = 10 /\ code[2] = type /\ code[6] = text /\ CodeOf(code, 10, 2, 6)
        BY <1>0, <2>1 DEF CodeOf, Types, Texts
    <2>3. CodeFramed(code, 10, 2, 6, 8, 1, 5)
        BY <1>0, <2>1 DEF CodeFramed, Types, Texts
    <2>4. 8 \in 1..10 /\ 1 \in 1..10 /\ 5 \in 1..10
        OBVIOUS
    <2>5. CodeIs(code, 10, 2, 6, event)
        BY <1>5, <2>2, <2>3, <2>4 DEF CodeIs
    <2>. QED
        BY <2>1, <2>5
<1>6. CASE event.framing = "named" /\ event.eol = "lf"
    <2>1. PICK code : code = Encode(event) /\ code = <<"event", "lf", "data", type, text, "lf", "lf">>
        BY <1>6 DEF Encode
    <2>2. Len(code) = 7 /\ code[4] = type /\ code[5] = text /\ CodeOf(code, 7, 4, 5)
        BY <1>0, <2>1 DEF CodeOf, Types, Texts
    <2>3. CodeFramed(code, 7, 4, 5, 6, 3, 3)
        BY <1>0, <2>1 DEF CodeFramed, Types, Texts
    <2>4. 6 \in 1..7 /\ 3 \in 1..7 /\ 3 \in 1..7
        OBVIOUS
    <2>5. CodeIs(code, 7, 4, 5, event)
        BY <1>6, <2>2, <2>3, <2>4 DEF CodeIs
    <2>. QED
        BY <2>1, <2>5
<1>7. CASE event.framing = "named" /\ event.eol = "crlf"
    <2>1. PICK code : code = Encode(event) /\ code = <<"event", "cr", "lf", "data", type, text, "cr", "lf", "cr",
                                "lf">>
        BY <1>7 DEF Encode
    <2>2. Len(code) = 10 /\ code[5] = type /\ code[6] = text /\ CodeOf(code, 10, 5, 6)
        BY <1>0, <2>1 DEF CodeOf, Types, Texts
    <2>3. CodeFramed(code, 10, 5, 6, 8, 4, 4)
        BY <1>0, <2>1 DEF CodeFramed, Types, Texts
    <2>4. 8 \in 1..10 /\ 4 \in 1..10 /\ 4 \in 1..10
        OBVIOUS
    <2>5. CodeIs(code, 10, 5, 6, event)
        BY <1>7, <2>2, <2>3, <2>4 DEF CodeIs
    <2>. QED
        BY <2>1, <2>5
<1>8. CASE event.framing = "long" /\ event.eol = "lf"
    <2>1. PICK code : code = Encode(event) /\ code = <<"event", "lf", "data", type, "lf", "data", text, "lf", "lf">>
        BY <1>8 DEF Encode
    <2>2. Len(code) = 9 /\ code[4] = type /\ code[7] = text /\ CodeOf(code, 9, 4, 7)
        BY <1>0, <2>1 DEF CodeOf, Types, Texts
    <2>3. CodeFramed(code, 9, 4, 7, 8, 3, 6)
        BY <1>0, <2>1 DEF CodeFramed, Types, Texts
    <2>4. 8 \in 1..9 /\ 3 \in 1..9 /\ 6 \in 1..9
        OBVIOUS
    <2>5. CodeIs(code, 9, 4, 7, event)
        BY <1>8, <2>2, <2>3, <2>4 DEF CodeIs
    <2>. QED
        BY <2>1, <2>5
<1>9. CASE event.framing = "long" /\ event.eol = "crlf"
    <2>1. PICK code : code = Encode(event) /\ code = <<"event", "cr", "lf", "data", type, "cr", "lf", "data", text,
                                "cr", "lf", "cr", "lf">>
        BY <1>9 DEF Encode
    <2>2. Len(code) = 13 /\ code[5] = type /\ code[9] = text /\ CodeOf(code, 13, 5, 9)
        BY <1>0, <2>1 DEF CodeOf, Types, Texts
    <2>3. CodeFramed(code, 13, 5, 9, 11, 4, 8)
        BY <1>0, <2>1 DEF CodeFramed, Types, Texts
    <2>4. 11 \in 1..13 /\ 4 \in 1..13 /\ 8 \in 1..13
        OBVIOUS
    <2>5. CodeIs(code, 13, 5, 9, event)
        BY <1>9, <2>2, <2>3, <2>4 DEF CodeIs
    <2>. QED
        BY <2>1, <2>5
<1>. QED
    BY <1>1, <1>2, <1>3, <1>4, <1>5, <1>6, <1>7, <1>8, <1>9 DEF Events, Framings

LEMMA Layouts ==
    ASSUME NEW event \in Events, NEW b \in Nat \ {0}, NEW l \in Nat, b <= l,
           wire[b].event = Sent(event, b), l = wire[b].event.last,
           \A j \in 1..Len(Encode(event)) : wire[b + j - 1].sym = Encode(event)[j]
    PROVE  \E t, x \in b..l :
              /\ LaidOut(b, l, t, x)
              /\ wire[b].event.raw => t = b /\ x = l /\ l = b + 1
              /\ ~wire[b].event.raw => \E p, c, d \in b..l : Framed(b, l, t, x, p, c, d)
<1>1. PICK code, n, t, x : code = Encode(event) /\ n \in Nat /\ CodeIs(code, n, t, x, event)
    BY Codes
<1>. DEFINE at(j) == b + j - 1
            of(k) == k - b + 1
<1>2. /\ Len(code) = n /\ CodeOf(code, n, t, x)
      /\ wire[b].event.fails <=> code[t] = "failed" /\ code[x] = "overloaded"
      /\ wire[b].event.raw => t = 1 /\ x = 2 /\ n = 2
      /\ ~wire[b].event.raw => \E p, c, d \in 1..n : CodeFramed(code, n, t, x, p, c, d)
    <2>1. wire[b].event.fails <=> event.type = "failed" /\ event.text = "overloaded"
        BY SentFields DEF FailureEvent
    <2>2. wire[b].event.raw <=> event.framing = "raw"
        BY SentFields
    <2>. QED
        BY <1>1, <2>1, <2>2 DEF CodeIs
<1>0. l = b + n - 1 /\ b \in Nat /\ n \in Nat
    <2>1. l = b + Len(Encode(event)) - 1
        BY SentFields
    <2>. QED
        BY <1>1, <1>2, <2>1
<1>3. t \in 1..n /\ x \in 1..n /\ t < x /\ 1 \in 1..n
    BY <1>1, <1>2 DEF CodeOf
<1>4. \A k \in b..l : of(k) \in 1..n /\ at(of(k)) = k
    BY <1>0
<1>5. \A j \in 1..n : at(j) \in b..l /\ of(at(j)) = j
    BY <1>0
<1>6. \A j \in 1..n : wire[at(j)].sym = code[j]
    BY <1>1, <1>2
<1>7. \A k \in b..l : wire[k].sym = code[of(k)]
    BY <1>4, <1>6
<1>8. LaidOut(b, l, at(t), at(x))
    <2>1. \A k \in b..l : /\ Is(k, Types) <=> k = at(t)
                          /\ Is(k, Texts) <=> k = at(x)
                          /\ Is(k, {"cr", "lf", "data", "event"}) \/ k = at(t) \/ k = at(x)
        <3>1. \A k \in b..l : (of(k) = t <=> k = at(t)) /\ (of(k) = x <=> k = at(x))
            BY <1>3, <1>4, <1>5
        <3>. QED
            BY <1>2, <1>4, <1>7, <3>1 DEF CodeOf, Is
    <2>2. ASSUME NEW k \in b..l, Is(k, {"cr"})
          PROVE  k < l /\ Line(k + 1)
        <3>1. of(k) \in 1..n /\ of(k) < n /\ code[of(k) + 1] = "lf"
            <4>1. of(k) \in 1..n /\ code[of(k)] = "cr"
                BY <1>4, <1>7, <2>2 DEF Is
            <4>. HIDE DEF of
            <4>. QED
                BY <1>2, <4>1 DEF CodeOf
        <3>2. k < l /\ k + 1 \in b..l /\ of(k + 1) = of(k) + 1
            BY <1>0, <3>1
        <3>. QED
            BY <1>7, <3>1, <3>2 DEF Line, Is
    <2>3. ASSUME NEW k \in b..l, Line(k), k < l
          PROVE  EndsContent(b, k)
        <3>1. of(k) \in 1..n /\ of(k) < n /\ code[of(k)] = "lf"
            BY <1>0, <1>4, <1>7, <2>3 DEF Line, Is
        <3>2. CASE of(k) > 1 /\ code[of(k) - 1] \notin {"cr", "lf"}
            <4>1. k - 1 \in b..l /\ of(k - 1) = of(k) - 1 /\ b <= k - 1
                BY <3>2
            <4>. QED
                BY <1>7, <3>2, <4>1 DEF EndsContent, Content, Is
        <3>3. CASE of(k) > 2 /\ code[of(k) - 1] = "cr" /\ code[of(k) - 2] \notin {"cr", "lf"}
            <4>1. k - 1 \in b..l /\ of(k - 1) = of(k) - 1
                BY <3>3
            <4>2. k - 2 \in b..l /\ of(k - 2) = of(k) - 2 /\ b <= k - 2
                BY <3>3
            <4>. QED
                BY <1>7, <3>3, <4>1, <4>2 DEF EndsContent, Content, Is
        <3>. QED
            BY <1>2, <3>1, <3>2, <3>3 DEF CodeOf
    <2>4. Content(b)
        <3>1. b \in b..l /\ of(b) = 1
            BY <1>0
        <3>. QED
            BY <1>2, <1>7, <3>1 DEF CodeOf, Content, Is
    <2>5. wire[b].event.fails <=> Is(at(t), {"failed"}) /\ Is(at(x), {"overloaded"})
        BY <1>2, <1>3, <1>6 DEF Is
    <2>6. at(t) \in b..l /\ at(x) \in b..l /\ at(t) < at(x)
        <3>1. t \in Nat /\ x \in Nat
            BY <1>3
        <3>. QED
            BY <1>0, <1>3, <1>5, <3>1
    <2>. QED
        BY <2>1, <2>2, <2>3, <2>4, <2>5, <2>6 DEF LaidOut
<1>9. ASSUME NEW p \in 1..n, NEW c \in 1..n, NEW d \in 1..n, CodeFramed(code, n, t, x, p, c, d)
      PROVE  Framed(b, l, at(t), at(x), at(p), at(c), at(d))
    <2>1. /\ at(p) \in b..l /\ at(c) \in b..l /\ at(d) \in b..l
          /\ at(p) \in (at(x) + 1)..(l - 1) /\ Line(at(p))
          /\ at(c) = at(t) - 1
          /\ at(d) = at(x) - 1 \/ (at(d) = at(c) /\ at(x) = at(t) + 1)
        <3>1. /\ p \in Nat /\ c \in Nat /\ d \in Nat /\ t \in Nat /\ x \in Nat
              /\ x < p /\ p < n /\ c = t - 1 /\ (d = x - 1 \/ (d = c /\ x = t + 1))
              /\ code[p] = "lf"
            BY <1>3, <1>9 DEF CodeFramed
        <3>2. Line(at(p))
            BY <1>6, <3>1 DEF Line, Is
        <3>3. at(p) \in b..l /\ at(c) \in b..l /\ at(d) \in b..l
            BY <1>5
        <3>4. at(p) \in (at(x) + 1)..(l - 1)
            BY <1>0, <3>1
        <3>5. at(c) = at(t) - 1
            BY <1>0, <3>1
        <3>6. at(d) = at(x) - 1 \/ (at(d) = at(c) /\ at(x) = at(t) + 1)
            BY <1>0, <3>1
        <3>. QED
            BY <3>2, <3>3, <3>4, <3>5, <3>6
    <2>2. Line(l) /\ (at(p) = l - 1 \/ (at(p) = l - 2 /\ Is(l - 1, {"cr"})))
        <3>1. n \in 1..n /\ l = at(n) /\ code[n] = "lf"
            BY <1>0, <1>3, <1>9 DEF CodeFramed
        <3>2. CASE p = n - 1
            <4>1. at(p) = l - 1
                BY <1>0, <3>2
            <4>2. Line(l)
                BY <1>6, <3>1 DEF Line, Is
            <4>. QED
                BY <4>1, <4>2
        <3>3. CASE p = n - 2 /\ code[n - 1] = "cr"
            <4>1. n - 1 \in 1..n /\ at(n - 1) = l - 1 /\ at(p) = l - 2
                BY <1>0, <3>3
            <4>. QED
                BY <1>6, <3>1, <3>3, <4>1 DEF Line, Is
        <3>. QED
            BY <1>9, <3>2, <3>3 DEF CodeFramed
    <2>3. ASSUME NEW j \in 1..n, j = 1 \/ code[j - 1] = "lf"
          PROVE  at(j) = b \/ Line(at(j) - 1)
        <3>1. CASE j = 1
            BY <3>1
        <3>2. CASE j # 1
            <4>1. j - 1 \in 1..n /\ at(j - 1) = at(j) - 1
                BY <1>0, <3>2
            <4>. QED
                BY <1>6, <2>3, <3>2, <4>1 DEF Line, Is
        <3>. QED
            BY <3>1, <3>2
    <2>4. /\ at(c) = b \/ Line(at(c) - 1)
          /\ at(d) = b \/ Line(at(d) - 1)
        BY <1>9, <2>3 DEF CodeFramed
    <2>5. \A k \in b..l : /\ Is(k, {"data"}) <=> k = at(c) \/ k = at(d)
                          /\ Is(k, {"event"}) => k = b
        <3>1. \A k \in b..l : /\ of(k) = c <=> k = at(c)
                              /\ of(k) = d <=> k = at(d)
                              /\ of(k) = 1 => k = b
            BY <1>0, <1>4, <1>5
        <3>. QED
            BY <1>4, <1>7, <1>9, <3>1 DEF CodeFramed, Is
    <2>. QED
        BY <2>1, <2>2, <2>4, <2>5 DEF Framed
<1>10. /\ at(t) \in b..l /\ at(x) \in b..l
       /\ wire[b].event.raw => at(t) = b /\ at(x) = l /\ l = b + 1
    BY <1>0, <1>2, <1>3, <1>5
<1>11. ~wire[b].event.raw => \E p, c, d \in b..l : Framed(b, l, at(t), at(x), p, c, d)
    <2>1. SUFFICES ASSUME ~wire[b].event.raw
                   PROVE  \E p, c, d \in b..l : Framed(b, l, at(t), at(x), p, c, d)
        OBVIOUS
    <2>2. PICK p \in 1..n, c \in 1..n, d \in 1..n : CodeFramed(code, n, t, x, p, c, d)
        BY <1>2, <2>1
    <2>3. at(p) \in b..l /\ at(c) \in b..l /\ at(d) \in b..l
        BY <1>5
    <2>4. Framed(b, l, at(t), at(x), at(p), at(c), at(d))
        BY <1>9, <2>2
    <2>. QED
        BY <2>3, <2>4
<1>. QED
    BY <1>8, <1>10, <1>11


LEMMA CodeLength ==
    ASSUME NEW event \in Events
    PROVE  Len(Encode(event)) \in Nat
BY Codes DEF CodeIs

EventIs(b, l, t, x) ==
    /\ b \in Nat \ {0} /\ l \in Nat /\ b <= l /\ l <= Len(wire)
    /\ \A k \in b..l : wire[k].event = wire[b].event
    /\ wire[b].event.first = b /\ wire[b].event.last = l
    /\ LaidOut(b, l, t, x)
    /\ wire[b].event.raw => t = b /\ x = l /\ l = b + 1
    /\ ~wire[b].event.raw => \E p, c, d \in b..l : Framed(b, l, t, x, p, c, d)

OnWire == wire \in Streams

LEMMA EventOf ==
    ASSUME OnWire, NEW i \in 1..Len(wire)
    PROVE  \E b, l, t, x \in Nat : i \in b..l /\ EventIs(b, l, t, x)
<1>1. Len(wire) \in Nat /\ IsStream(wire)
    BY StreamsAssumption DEF OnWire
<1>2. PICK event \in Events :
          LET of == wire[i].event
          IN  /\ of.first \in 1..i /\ of.last \in i..Len(wire)
              /\ of = Sent(event, of.first)
              /\ \A j \in 1..Len(Encode(event)) :
                    wire[of.first + j - 1] = [sym |-> Encode(event)[j], event |-> of]
    BY <1>1 DEF IsStream
<1>3. PICK b \in Nat \ {0}, l \in Nat, n \in Nat :
          b = wire[i].event.first /\ l = wire[i].event.last /\ n = Len(Encode(event))
    BY <1>1, <1>2, CodeLength
<1>4. i \in b..l /\ l <= Len(wire) /\ b <= l /\ l = b + n - 1 /\ n > 0
    <2>1. b <= i /\ i <= l /\ l <= Len(wire)
        BY <1>1, <1>2, <1>3
    <2>2. l = b + n - 1
        BY <1>2, <1>3, SentFields
    <2>. QED
        BY <1>1, <2>1, <2>2
<1>5. ASSUME NEW k \in b..l
      PROVE  wire[k].event = wire[i].event
    <2>1. k - b + 1 \in 1..n /\ b + (k - b + 1) - 1 = k
        BY <1>4
    <2>2. wire[k] = [sym |-> Encode(event)[k - b + 1], event |-> wire[i].event]
        BY <1>2, <1>3, <2>1
    <2>. QED
        BY <2>2
<1>6. b \in b..l
    BY <1>4
<1>8. wire[b].event = wire[i].event
    BY <1>5, <1>6
<1>7. \A k \in b..l : wire[k].event = wire[b].event
    BY <1>5, <1>8
<1>9. \A j \in 1..Len(Encode(event)) : wire[b + j - 1].sym = Encode(event)[j]
    <2>1. SUFFICES ASSUME NEW j \in 1..Len(Encode(event))
                   PROVE  wire[b + j - 1].sym = Encode(event)[j]
        OBVIOUS
    <2>2. wire[b + j - 1] = [sym |-> Encode(event)[j], event |-> wire[i].event]
        BY <1>2, <1>3
    <2>. QED
        BY <2>2
<1>10. PICK t, x \in b..l :
          /\ LaidOut(b, l, t, x)
          /\ wire[b].event.raw => t = b /\ x = l /\ l = b + 1
          /\ ~wire[b].event.raw => \E p, c, d \in b..l : Framed(b, l, t, x, p, c, d)
    <2>1. wire[b].event = Sent(event, b) /\ l = wire[b].event.last /\ b <= l
        BY <1>2, <1>3, <1>4, <1>8
    <2>. QED
        BY <1>9, <2>1, Layouts
<1>11. EventIs(b, l, t, x)
    BY <1>3, <1>4, <1>7, <1>8, <1>10 DEF EventIs
<1>. QED
    BY <1>4, <1>11

\* Events do not overlap.
LEMMA SameEvent ==
    ASSUME NEW b, NEW l, NEW t, NEW x, EventIs(b, l, t, x),
           NEW b2, NEW l2, NEW t2, NEW x2, EventIs(b2, l2, t2, x2),
           NEW k \in b..l, k \in b2..l2 \/ wire[k].event = wire[b2].event
    PROVE  b = b2 /\ l = l2 /\ t = t2 /\ x = x2
<1>1. wire[b].event = wire[b2].event
    BY DEF EventIs
<1>2. b = b2 /\ l = l2
    BY <1>1 DEF EventIs
<1>. QED
    BY <1>2 DEF EventIs, LaidOut

LEMMA ReturnThenLine ==
    ASSUME OnWire, NEW k \in 1..Len(wire), Is(k, {"cr"})
    PROVE  k < Len(wire) /\ Line(k + 1)
<1>1. PICK b, l, t, x \in Nat : k \in b..l /\ EventIs(b, l, t, x)
    BY EventOf
<1>2. k < l /\ Line(k + 1) /\ l <= Len(wire)
    BY <1>1 DEF EventIs, LaidOut
<1>. QED
    BY <1>1, <1>2, StreamsAssumption DEF OnWire

-----------------------------------------------------------------------------
(* What is buffered. *)

\* All that has come behind a position, without the CRs that an LF has
\* followed.
Window(from, to) == {i \in (from + 1)..to : ~(Is(i, {"cr"}) /\ i < to)}

LEMMA JoinsWindow ==
    ASSUME OnWire, NEW from \in Nat, NEW old \in Nat, NEW to \in Nat,
           from <= old, old < to, to <= Len(wire)
    PROVE  Joined(Window(from, old), (old + 1)..to) = Window(from, to)
<1>. DEFINE all == Window(from, old) \cup ((old + 1)..to)
<1>0. Len(wire) \in Nat
    BY StreamsAssumption DEF OnWire
<1>1. \A i : i \in all <=> i \in (from + 1)..to /\ ~(Is(i, {"cr"}) /\ i < old)
    BY DEF Window
<1>2. ASSUME NEW i \in all, Is(i, {"cr"}), i < to
      PROVE  \E j \in all : Adjacent(all, i, j) /\ Line(j)
    <2>1. i \in Nat /\ ~(i < old) /\ i \in 1..Len(wire)
        BY <1>0, <1>1, <1>2
    <2>2. Line(i + 1) /\ i + 1 \in (old + 1)..to
        BY <1>2, <2>1, ReturnThenLine
    <2>3. Adjacent(all, i, i + 1)
        <3>1. \A k \in all : k \in Nat
            BY <1>1
        <3>. QED
            BY <2>1, <3>1 DEF Adjacent
    <2>. QED
        BY <2>2, <2>3
<1>3. ASSUME NEW i \in all, i = to, NEW j \in all
      PROVE  ~Adjacent(all, i, j)
    BY <1>1, <1>3 DEF Adjacent
<1>4. \A i \in all : i < to \/ i = to
    BY <1>1
<1>5. \A i : i \in Normalised(all) <=> i \in all /\ ~(Is(i, {"cr"}) /\ i < to)
    BY <1>2, <1>3, <1>4 DEF Normalised
<1>6. \A i : i \in Window(from, to) <=> i \in all /\ ~(Is(i, {"cr"}) /\ i < to)
    <2>1. \A i : i \in Window(from, to) <=> i \in (from + 1)..to /\ ~(Is(i, {"cr"}) /\ i < to)
        BY DEF Window
    <2>2. \A i \in (from + 1)..to : i < old => i < to
        OBVIOUS
    <2>. QED
        BY <1>1, <2>1, <2>2
<1>. QED
    BY <1>5, <1>6 DEF Joined

\* k is the next symbol after q, but for a CR.
Before(q, k) == q \in Nat /\ q < k /\ \A j \in (q + 1)..(k - 1) : Is(j, {"cr"})

LEMMA NothingBetween ==
    ASSUME NEW from \in Nat, NEW to \in Nat, NEW k \in Window(from, to), NEW q, Before(q, k)
    PROVE  /\ k \in Nat /\ from < k /\ k <= to
           /\ \A i \in Window(from, to) : i < k => i <= q
           /\ q > from /\ ~Is(q, {"cr"}) => q \in Window(from, to)
<1>1. k \in Nat /\ from < k /\ k <= to
    BY DEF Window
<1>2. ASSUME NEW i \in Window(from, to), i < k, ~(i <= q)
      PROVE  FALSE
    <2>1. i \in (q + 1)..(k - 1) /\ i < to
        BY <1>1, <1>2 DEF Window, Before
    <2>. QED
        BY <1>2, <2>1 DEF Window, Before
<1>3. ASSUME q > from, ~Is(q, {"cr"})
      PROVE  q \in Window(from, to)
    BY <1>1, <1>3 DEF Window, Before
<1>. QED
    BY <1>1, <1>2, <1>3

LEMMA ContentBefore ==
    ASSUME NEW b, NEW l, NEW t, NEW x, EventIs(b, l, t, x), NEW k \in b..l, Line(k), k < l
    PROVE  \E q \in b..l : Before(q, k) /\ Content(q)
<1>1. b \in Nat \ {0} /\ l \in Nat /\ k \in Nat /\ EndsContent(b, k)
    BY DEF EventIs, LaidOut
<1>2. CASE b <= k - 1 /\ Content(k - 1)
    BY <1>1, <1>2 DEF Before
<1>3. CASE b <= k - 2 /\ Is(k - 1, {"cr"}) /\ Content(k - 2)
    <2>1. k - 2 \in b..l /\ k - 2 \in Nat
        BY <1>1, <1>3
    <2>2. \A j \in ((k - 2) + 1)..(k - 1) : j = k - 1
        BY <1>1
    <2>. QED
        BY <1>1, <1>3, <2>1, <2>2 DEF Before
<1>. QED
    BY <1>1, <1>2, <1>3 DEF EndsContent

LEMMA RunAfterContent ==
    ASSUME NEW from \in Nat, NEW to \in Nat, NEW k \in Window(from, to), Line(k),
           NEW q, Before(q, k), Content(q)
    PROVE  Run(Window(from, to), k) = {k}
<1>. DEFINE W == Window(from, to)
<1>1. /\ k \in Nat /\ from < k /\ k <= to
      /\ \A i \in W : i < k => i <= q
      /\ q > from /\ ~Is(q, {"cr"}) => q \in W
    BY NothingBetween
<1>2. ASSUME NEW i \in Run(W, k)
      PROVE  i = k
    <2>1. i \in W /\ i <= k /\ \A j \in W : i <= j /\ j <= k => Line(j)
        BY <1>2 DEF Run
    <2>2. SUFFICES ASSUME i # k
                   PROVE  FALSE
        OBVIOUS
    <2>3. i <= q /\ i \in Nat /\ from < i
        BY <1>1, <2>1, <2>2 DEF Window
    <2>4. q \in W /\ q <= k
        BY <1>1, <2>3 DEF Before, Content, Is
    <2>. QED
        BY <2>1, <2>3, <2>4 DEF Content, Line, Is
<1>3. k \in Run(W, k)
    <2>1. \A j \in W : k <= j /\ j <= k => j = k
        BY <1>1 DEF Window
    <2>. QED
        BY <1>1, <2>1 DEF Run
<1>. QED
    BY <1>2, <1>3

LEMMA RunAfterLine ==
    ASSUME NEW from \in Nat, NEW to \in Nat, NEW l \in Window(from, to), Line(l),
           NEW p, Before(p, l), Line(p),
           NEW q, Before(q, p), Content(q)
    PROVE  Run(Window(from, to), l) = IF p > from THEN {p, l} ELSE {l}
<1>. DEFINE W == Window(from, to)
<1>1. /\ l \in Nat /\ from < l /\ l <= to
      /\ \A i \in W : i < l => i <= p
      /\ p > from /\ ~Is(p, {"cr"}) => p \in W
      /\ p \in Nat /\ p < l
    BY NothingBetween DEF Before
<1>2. l \in Run(W, l)
    <2>1. \A j \in W : l <= j /\ j <= l => j = l
        BY <1>1 DEF Window
    <2>. QED
        BY <1>1, <2>1 DEF Run
<1>3. CASE p > from
    <2>1. p \in W
        BY <1>1, <1>3 DEF Line, Is
    <2>2. Run(W, p) = {p}
        BY <2>1, RunAfterContent
    <2>3. ASSUME NEW i \in Run(W, l), i # l
          PROVE  i = p
        <3>1. i \in W /\ i <= l /\ \A j \in W : i <= j /\ j <= l => Line(j)
            BY <2>3 DEF Run
        <3>2. i \in Nat /\ i <= p
            BY <1>1, <2>3, <3>1 DEF Window
        <3>3. \A j \in W : i <= j /\ j <= p => Line(j)
            BY <1>1, <3>1 DEF Window
        <3>4. i \in Run(W, p)
            BY <3>1, <3>2, <3>3 DEF Run
        <3>. QED
            BY <2>2, <3>4
    <2>4. p \in Run(W, l)
        <3>1. ASSUME NEW j \in W, p <= j, j <= l
              PROVE  Line(j)
            <4>1. j \in Nat
                BY DEF Window
            <4>2. j = l \/ j <= p
                BY <1>1, <3>1, <4>1
            <4>. QED
                BY <1>1, <3>1, <4>1, <4>2
        <3>. QED
            BY <1>1, <2>1, <3>1 DEF Run
    <2>. QED
        BY <1>2, <1>3, <2>3, <2>4
<1>4. CASE ~(p > from)
    <2>1. ASSUME NEW i \in Run(W, l)
          PROVE  i = l
        <3>1. i \in W /\ i <= l /\ i \in Nat /\ from < i
            BY <2>1 DEF Run, Window
        <3>. QED
            BY <1>1, <1>4, <3>1
    <2>. QED
        BY <1>2, <1>4, <2>1
<1>. QED
    BY <1>3, <1>4

LEMMA PairSize ==
    ASSUME NEW p \in Nat, NEW l \in Nat, p # l
    PROVE  IsFiniteSet({p, l}) /\ Cardinality({p, l}) = 2
<1>1. IsFiniteSet({p}) /\ Cardinality({p}) = 1 /\ l \notin {p}
    BY FS_Singleton
<1>2. IsFiniteSet({p} \cup {l}) /\ Cardinality({p} \cup {l}) = 1 + 1
    BY <1>1, FS_AddElement
<1>3. {p} \cup {l} = {p, l}
    OBVIOUS
<1>. QED
    BY <1>2, <1>3

\* Of the LFs of an event only the last can end a frame, and it does if the
\* one before it is still there.
LEMMA EndsOf ==
    ASSUME NEW from \in Nat, NEW to \in Nat, NEW b, NEW l, NEW t, NEW x, EventIs(b, l, t, x)
    PROVE  /\ \A e \in b..l : e \in FrameEnds(Window(from, to)) => e = l /\ ~wire[b].event.raw
           /\ \A p, c, d : Framed(b, l, t, x, p, c, d) /\ l <= to /\ l > from =>
                 (l \in FrameEnds(Window(from, to)) <=> p > from)
<1>. DEFINE W == Window(from, to)
<1>0. b \in Nat \ {0} /\ l \in Nat
    BY DEF EventIs
<1>1. ASSUME NEW e \in b..l, e \in FrameEnds(W), e # l
      PROVE  FALSE
    <2>1. e \in W /\ Line(e) /\ Cardinality(Run(W, e)) % 2 = 0
        BY <1>1 DEF FrameEnds
    <2>2. PICK q \in b..l : Before(q, e) /\ Content(q)
        BY <1>0, <1>1, <2>1, ContentBefore
    <2>3. Run(W, e) = {e}
        BY <2>1, <2>2, RunAfterContent
    <2>4. Cardinality(Run(W, e)) = 1
        BY <2>3, FS_Singleton
    <2>. QED
        BY <2>1, <2>4
<1>2. ASSUME l \in FrameEnds(W), wire[b].event.raw
      PROVE  FALSE
    <2>1. Line(l) /\ Is(l, Texts)
        BY <1>2 DEF FrameEnds, EventIs, LaidOut
    <2>. QED
        BY <2>1 DEF Line, Is, Texts
<1>3. ASSUME NEW p, NEW c, NEW d, Framed(b, l, t, x, p, c, d), l <= to, l > from
      PROVE  l \in FrameEnds(W) <=> p > from
    <2>1. /\ p \in b..l /\ p < l /\ p \in Nat /\ Line(p) /\ Line(l)
          /\ p = l - 1 \/ (p = l - 2 /\ Is(l - 1, {"cr"}))
        <3>1. /\ p \in (x + 1)..(l - 1) /\ Line(p) /\ Line(l)
              /\ p = l - 1 \/ (p = l - 2 /\ Is(l - 1, {"cr"}))
            BY <1>3 DEF Framed
        <3>2. x \in Nat /\ b <= x
            BY <1>0 DEF EventIs, LaidOut
        <3>. QED
            BY <1>0, <3>1, <3>2
    <2>2. Before(p, l)
        <3>1. CASE p = l - 1
            BY <1>0, <2>1, <3>1 DEF Before
        <3>2. CASE p = l - 2 /\ Is(l - 1, {"cr"})
            <4>1. \A j \in (p + 1)..(l - 1) : j = l - 1
                BY <1>0, <2>1, <3>2
            <4>. QED
                BY <2>1, <3>2, <4>1 DEF Before
        <3>. QED
            BY <2>1, <3>1, <3>2
    <2>3. PICK q \in b..l : Before(q, p) /\ Content(q)
        BY <2>1, ContentBefore
    <2>4. l \in W
        BY <1>0, <1>3, <2>1 DEF Window, Line, Is
    <2>5. Run(W, l) = IF p > from THEN {p, l} ELSE {l}
        BY <2>1, <2>2, <2>3, <2>4, RunAfterLine
    <2>6. CASE p > from
        <3>1. Cardinality({p, l}) = 2
            BY <1>0, <2>1, PairSize
        <3>. QED
            BY <2>1, <2>4, <2>5, <2>6, <3>1 DEF FrameEnds
    <2>7. CASE ~(p > from)
        <3>1. Cardinality({l}) = 1
            BY FS_Singleton
        <3>. QED
            BY <2>5, <2>7, <3>1 DEF FrameEnds
    <2>. QED
        BY <2>6, <2>7
<1>. QED
    BY <1>1, <1>2, <1>3

-----------------------------------------------------------------------------
(* What a frame's payload is. *)

\* A "data:" that is still there keeps the end of its event a frame's end.
LEMMA DataEnds ==
    ASSUME NEW from \in Nat, NEW to \in Nat, NEW k \in Window(from, to), Is(k, {"data"}),
           NEW b, NEW l, NEW t, NEW x, EventIs(b, l, t, x), k \in b..l
    PROVE  k < l /\ (l <= to => l \in FrameEnds(Window(from, to)))
<1>0. b \in Nat \ {0} /\ l \in Nat /\ k \in Nat /\ from < k
    BY DEF EventIs, Window
<1>1. ~wire[b].event.raw
    <2>1. SUFFICES ASSUME wire[b].event.raw
                   PROVE  k = t \/ k = x
        BY DEF EventIs, LaidOut, Is, Types, Texts
    <2>. QED
        BY <1>0, <2>1 DEF EventIs
<1>2. PICK p, c, d \in b..l : Framed(b, l, t, x, p, c, d)
    BY <1>1 DEF EventIs
<1>3. k < p /\ p < l
    <2>1. k = c \/ k = d
        BY <1>2 DEF Framed
    <2>2. t \in Nat /\ x \in Nat /\ t < x
        BY <1>0 DEF EventIs, LaidOut
    <2>. QED
        BY <1>0, <1>2, <2>1, <2>2 DEF Framed
<1>. QED
    BY <1>0, <1>2, <1>3, EndsOf

\* The lines of a frame end's own event are all that is read: one event's
\* halves are never joined with another's.
LEMMA DataWithin ==
    ASSUME OnWire, NEW from \in Nat, NEW to \in Nat, to <= Len(wire),
           NEW e \in FrameEnds(Window(from, to))
    PROVE  \E b, l, t, x \in Nat :
              /\ EventIs(b, l, t, x) /\ l = e
              /\ DataOf(Frame(Window(from, to), e)) \subseteq {t, x}
<1>. DEFINE W == Window(from, to)
            F == Frame(W, e)
<1>0. e \in W /\ Line(e) /\ e \in Nat /\ from < e /\ e <= to /\ e \in 1..Len(wire)
    BY StreamsAssumption DEF FrameEnds, Window, OnWire
<1>1. PICK b, l, t, x \in Nat : e \in b..l /\ EventIs(b, l, t, x)
    BY <1>0, EventOf
<1>2. e = l /\ ~wire[b].event.raw
    BY <1>1, EndsOf
<1>3. PICK p, c, d \in b..l : Framed(b, l, t, x, p, c, d)
    BY <1>1, <1>2 DEF EventIs
<1>4. ASSUME NEW i \in DataOf(F)
      PROVE  i \in {t, x}
    <2>1. /\ i \in F /\ ~Line(i)
          /\ i \in W /\ i < e /\ i \in Nat
        BY <1>4 DEF DataOf, Frame, Window
    <2>2. PICK k \in F : /\ k < i /\ Is(k, {"data"})
                         /\ \A j \in F : k < j /\ j < i => ~Line(j)
        BY <1>4 DEF DataOf
    <2>3. /\ k \in W /\ k \in Nat /\ from < k /\ k \in 1..Len(wire)
          /\ \A end \in FrameEnds(W) : end < e => end < k
        BY <2>2, StreamsAssumption DEF Frame, Window, OnWire
    <2>4. PICK b2, l2, t2, x2 \in Nat : k \in b2..l2 /\ EventIs(b2, l2, t2, x2)
        BY <2>3, EventOf
    <2>5. k < l2 /\ (l2 <= to => l2 \in FrameEnds(W))
        BY <2>2, <2>3, <2>4, DataEnds
    <2>6. ~(l2 < e)
        BY <1>0, <2>3, <2>5
    <2>7. e \in b2..l2
        BY <1>0, <2>1, <2>2, <2>3, <2>4, <2>6
    <2>8. b2 = b /\ l2 = l
        BY <1>1, <2>4, <2>7, SameEvent
    <2>9. i \in b..l /\ k \in b..l
        BY <1>0, <1>1, <2>1, <2>2, <2>3, <2>4, <2>7, <2>8
    <2>10. ~Is(i, {"cr"})
        BY <1>0, <2>1 DEF Window
    <2>11. ~Is(i, {"event"})
        BY <1>3, <2>2, <2>3, <2>9 DEF Framed
    <2>12. ASSUME Is(i, {"data"})
           PROVE  FALSE
        <3>1. k \in {c, d} /\ i \in {c, d} /\ (d = x - 1 \/ d = c)
              /\ (d = b \/ Line(d - 1)) /\ (c = t - 1) /\ t < x
            BY <1>1, <1>3, <2>2, <2>9, <2>12 DEF Framed, EventIs, LaidOut
        <3>2. k = c /\ i = d /\ d = x - 1
            BY <1>1, <2>1, <2>2, <2>3, <3>1
        <3>3. Line(d - 1)
            BY <1>1, <2>2, <2>9, <3>1, <3>2
        <3>4. d - 1 \in Nat /\ k < d - 1
            <4>1. d - 1 # k
                BY <2>2, <3>3 DEF Line, Is
            <4>. QED
                BY <1>1, <2>1, <2>2, <2>3, <3>2, <4>1
        <3>5. d - 1 \in F
            <4>1. d - 1 \in W
                BY <1>0, <2>1, <2>3, <3>2, <3>3, <3>4 DEF Window, Line, Is
            <4>2. d - 1 < e
                BY <1>0, <2>1, <3>2
            <4>3. \A end \in FrameEnds(W) : end \in Nat
                BY DEF FrameEnds, Window
            <4>. QED
                BY <2>3, <3>4, <4>1, <4>2, <4>3 DEF Frame
        <3>. QED
            BY <2>1, <2>2, <3>2, <3>3, <3>4, <3>5
    <2>. QED
        BY <1>1, <2>1, <2>9, <2>10, <2>11, <2>12 DEF EventIs, LaidOut, Is, Line
<1>. QED
    BY <1>1, <1>2, <1>4

\* The data line that begins at c begins in the frame, too.
LEMMA LineStarts ==
    ASSUME NEW from \in Nat, NEW to \in Nat, NEW e \in FrameEnds(Window(from, to)),
           NEW b, NEW l, NEW t, NEW x, EventIs(b, l, t, x), l = e,
           b > from, b - 1 <= from \/ Line(b - 1),
           NEW c \in b..l, c < l, Content(c), c = b \/ Line(c - 1)
    PROVE  /\ c \in Frame(Window(from, to), e)
           /\ LineStart(Frame(Window(from, to), e), c)
<1>. DEFINE W == Window(from, to)
            F == Frame(W, e)
<1>0. /\ b \in Nat \ {0} /\ e \in Nat /\ from < e /\ e <= to /\ e \in W
      /\ c \in Nat /\ b <= c /\ c < e /\ from < c
    BY DEF EventIs, FrameEnds, Window
<1>1. ASSUME NEW end \in FrameEnds(W), end < e
      PROVE  end \in Nat /\ end < b
    <2>1. end \in Nat
        BY DEF FrameEnds, Window
    <2>. QED
        BY <1>0, <1>1, <2>1, EndsOf
<1>2. ASSUME NEW k \in b..l, k < e, ~Is(k, {"cr"})
      PROVE  k \in F
    <2>1. k \in W
        BY <1>0, <1>2 DEF Window
    <2>. QED
        BY <1>0, <1>1, <1>2, <2>1 DEF Frame
<1>3. c \in F
    BY <1>0, <1>2 DEF Content, Is
<1>4. ASSUME NEW p \in F, Adjacent(F, p, c)
      PROVE  Line(p)
    <2>1. /\ p < c /\ \A k \in F : ~(p < k /\ k < c)
          /\ p \in W /\ p \in Nat /\ p > from
          /\ \A end \in FrameEnds(W) : end < e => end < p
        BY <1>4 DEF Adjacent, Frame, Window
    <2>2. p <= c - 1
        BY <1>0, <2>1
    <2>3. ASSUME c - 1 \in W, c - 1 < b => Line(c - 1), c - 1 >= b => Line(c - 1)
          PROVE  Line(p)
        <3>1. Line(c - 1) /\ ~Is(c - 1, {"cr"}) /\ c - 1 \in Nat
            BY <1>0, <2>3 DEF Line, Is
        <3>2. CASE c - 1 \in F
            BY <1>0, <2>1, <2>2, <3>1, <3>2
        <3>3. CASE c - 1 \notin F
            <4>1. PICK end \in FrameEnds(W) : end < e /\ ~(end < c - 1)
                BY <1>0, <2>3, <3>3 DEF Frame
            <4>2. end < p /\ end \in Nat
                BY <1>1, <2>1, <4>1
            <4>. QED
                BY <1>0, <2>1, <2>2, <3>1, <4>1, <4>2
        <3>. QED
            BY <3>2, <3>3
    <2>4. CASE c = b
        <3>1. ~(b - 1 <= from)
            BY <1>0, <2>1, <2>2, <2>4
        <3>2. Line(b - 1)
            BY <3>1
        <3>3. b - 1 \in W
            BY <1>0, <2>4, <3>1, <3>2 DEF Window, Line, Is
        <3>. QED
            BY <2>3, <2>4, <3>2, <3>3
    <2>5. CASE c # b
        <3>1. Line(c - 1) /\ c - 1 >= b /\ c - 1 \in Nat
            BY <1>0, <2>5
        <3>2. c - 1 \in W
            BY <1>0, <3>1 DEF Window, Line, Is
        <3>. QED
            BY <2>3, <3>1, <3>2
    <2>. QED
        BY <2>4, <2>5
<1>. QED
    BY <1>3, <1>4 DEF LineStart

\* Of an event that is still there as a whole, all is read.
LEMMA DataWhole ==
    ASSUME OnWire, NEW from \in Nat, NEW to \in Nat, to <= Len(wire),
           NEW e \in FrameEnds(Window(from, to)),
           NEW b, NEW l, NEW t, NEW x, EventIs(b, l, t, x), l = e,
           b > from, b - 1 <= from \/ Line(b - 1)
    PROVE  DataOf(Frame(Window(from, to), e)) = {t, x}
<1>. DEFINE F == Frame(Window(from, to), e)
<1>0. b \in Nat \ {0} /\ l \in Nat /\ l \in b..l
    BY DEF EventIs
<1>1. DataOf(F) \subseteq {t, x}
    <2>1. PICK b2, l2, t2, x2 \in Nat :
              EventIs(b2, l2, t2, x2) /\ l2 = e /\ DataOf(F) \subseteq {t2, x2}
        BY DataWithin
    <2>2. l \in b2..l2
        BY <1>0, <2>1 DEF EventIs
    <2>. QED
        BY <1>0, <2>1, <2>2, SameEvent
<1>2. ~wire[b].event.raw
    BY <1>0, EndsOf
<1>3. PICK p, c, d \in b..l : Framed(b, l, t, x, p, c, d)
    BY <1>2 DEF EventIs
<1>4. /\ t \in Nat /\ x \in Nat /\ c \in Nat /\ d \in Nat /\ t < x /\ x < l /\ t \in b..l /\ x \in b..l
      /\ c = t - 1 /\ (d = x - 1 \/ (d = c /\ x = t + 1))
      /\ Is(c, {"data"}) /\ Is(d, {"data"}) /\ Is(t, Types) /\ Is(x, Texts)
      /\ (c = b \/ Line(c - 1)) /\ (d = b \/ Line(d - 1))
    BY <1>0, <1>3 DEF Framed, EventIs, LaidOut
<1>5. c < t /\ t < l /\ d < x /\ c < l /\ d < l
    BY <1>0, <1>4
<1>6. Content(c) /\ Content(d) /\ Content(t) /\ Content(x)
    BY <1>4 DEF Content, Is, Types, Texts
<1>7. c \in F /\ LineStart(F, c) /\ d \in F /\ LineStart(F, d)
    BY <1>3, <1>4, <1>5, <1>6, LineStarts
<1>8. t \in F /\ x \in F
    <2>1. \A end \in FrameEnds(Window(from, to)) : end < e => end < b
        <3>1. \A end \in FrameEnds(Window(from, to)) : end \in Nat
            BY DEF FrameEnds, Window
        <3>. QED
            BY <1>0, <3>1, EndsOf
    <2>2. e \in Nat /\ e <= to
        BY DEF FrameEnds, Window
    <2>3. t \in Window(from, to) /\ x \in Window(from, to)
        BY <1>0, <1>4, <1>5, <1>6, <2>2 DEF Window, Content, Is
    <2>4. \A end \in FrameEnds(Window(from, to)) : end \in Nat
        BY DEF FrameEnds, Window
    <2>. QED
        BY <1>0, <1>4, <1>5, <2>1, <2>3, <2>4 DEF Frame
<1>9. \A k \in F : k \in Nat
    BY DEF Frame, Window
<1>10. ~Line(t) /\ ~Line(x)
    BY <1>6 DEF Content, Line, Is
<1>11. t \in DataOf(F)
    <2>1. \A k \in F : ~(c < k /\ k < t)
        BY <1>4, <1>9
    <2>. QED
        BY <1>4, <1>5, <1>7, <1>8, <1>10, <2>1 DEF DataOf
<1>12. x \in DataOf(F)
    <2>1. \A k \in F : d < k /\ k < x => k = t
        BY <1>4, <1>9
    <2>. QED
        BY <1>4, <1>5, <1>7, <1>8, <1>10, <2>1 DEF DataOf
<1>. QED
    BY <1>1, <1>11, <1>12

-----------------------------------------------------------------------------
(* What is left behind the last frame. *)

LEMMA RestWindow ==
    ASSUME NEW from \in Nat, NEW to \in Nat, from <= to
    PROVE  \E last \in from..to :
              /\ last = from \/ last \in FrameEnds(Window(from, to))
              /\ \A e \in FrameEnds(Window(from, to)) : e <= last
              /\ Rest(Window(from, to)) = Window(last, to)
<1>. DEFINE W == Window(from, to)
            Ends == FrameEnds(W)
<1>1. \A e \in Ends : e \in W /\ e \in Nat /\ from < e /\ e <= to
    BY DEF FrameEnds, Window
<1>2. PICK last \in from..to :
          (last = from \/ last \in Ends) /\ \A e \in Ends : e <= last
    <2>1. CASE Ends = {}
        BY <2>1
    <2>2. CASE Ends # {}
        <3>. DEFINE T == {to - e : e \in Ends}
        <3>1. T \subseteq Nat /\ T # {}
            BY <1>1, <2>2
        <3>2. PICK n \in T : \A m \in T : ~(<<m, n>> \in OpToRel(<, Nat))
            BY <3>1, NatLessThanWellFounded, WFMin
        <3>3. \A m \in T : ~(m < n)
            BY <3>1, <3>2 DEF OpToRel
        <3>4. PICK last \in Ends : n = to - last
            OBVIOUS
        <3>5. ASSUME NEW e \in Ends
              PROVE  e <= last
            BY <1>1, <3>3, <3>4
        <3>. QED
            BY <1>1, <3>4, <3>5
    <2>. QED
        BY <2>1, <2>2
<1>3. ASSUME NEW i
      PROVE  i \in Rest(W) <=> i \in Window(last, to)
    <2>1. i \in Rest(W) <=> i \in W /\ \A e \in Ends : e < i
        BY DEF Rest
    <2>2. i \in W <=> i \in (from + 1)..to /\ ~(Is(i, {"cr"}) /\ i < to)
        BY DEF Window
    <2>3. i \in Window(last, to) <=> i \in (last + 1)..to /\ ~(Is(i, {"cr"}) /\ i < to)
        BY DEF Window
    <2>4. i \in (from + 1)..to => (i \in (last + 1)..to <=> from < i /\ last < i)
        BY <1>2
    <2>5. i \in (last + 1)..to => i \in (from + 1)..to
        BY <1>2
    <2>6. i \in (from + 1)..to => ((\A e \in Ends : e < i) <=> last < i)
        BY <1>1, <1>2
    <2>. QED
        BY <2>1, <2>2, <2>3, <2>4, <2>5, <2>6
<1>. QED
    BY <1>2, <1>3

\* What stands for itself as one JSON value is of one event.
LEMMA RawWithin ==
    ASSUME OnWire, NEW from \in Nat, NEW to \in Nat, to <= Len(wire),
           ValidJSON(Bare(Window(from, to)))
    PROVE  \E b, l, t, x \in Nat :
              /\ EventIs(b, l, t, x) /\ t \in Window(from, to) /\ x \in Window(from, to)
              /\ Bare(Window(from, to)) = {t, x}
<1>. DEFINE W == Window(from, to)
<1>1. PICK i, j \in Bare(W) : i < j /\ Bare(W) = {i, j} /\ Is(i, Types) /\ Is(j, Texts)
    BY DEF ValidJSON, Halves
<1>2. \A k : k \in Bare(W) <=> k \in W /\ Content(k)
    BY DEF Bare, Content
<1>3. /\ i \in Nat /\ j \in Nat /\ from < i /\ i < j /\ j <= to
      /\ i \in 1..Len(wire) /\ j \in 1..Len(wire)
    BY <1>1, <1>2, StreamsAssumption DEF Window, OnWire
<1>4. PICK b, l, t, x \in Nat : i \in b..l /\ EventIs(b, l, t, x)
    BY <1>3, EventOf
<1>5. i = t /\ t < x /\ x \in b..l /\ Is(x, Texts)
    BY <1>1, <1>4 DEF EventIs, LaidOut
<1>6. j = x
    <2>1. CASE x <= to
        <3>1. Content(x) /\ x \in W
            BY <1>3, <1>5, <2>1 DEF Window, Content, Is, Texts
        <3>. QED
            BY <1>1, <1>2, <1>3, <1>5, <3>1
    <2>2. CASE ~(x <= to)
        <3>1. j \in b..l
            BY <1>3, <1>4, <1>5, <2>2
        <3>. QED
            BY <1>1, <1>4, <3>1 DEF EventIs, LaidOut
    <2>. QED
        BY <2>1, <2>2
<1>. QED
    BY <1>1, <1>2, <1>4, <1>5, <1>6

LEMMA BufferSize ==
    ASSUME OnWire, NEW from \in Nat, NEW old \in Nat, NEW to \in Nat,
           from <= old, old < to, to <= Len(wire),
           Cardinality(Window(from, old)) + Cardinality((old + 1)..to) <= Limit
    PROVE  Cardinality(Rest(Window(from, to))) <= Limit
<1>. DEFINE A == Window(from, old)
            C == (old + 1)..to
            R == Rest(Window(from, to))
<1>1. IsFiniteSet((from + 1)..old) /\ IsFiniteSet(C)
    BY FS_Interval
<1>2. IsFiniteSet(A)
    BY <1>1, FS_Subset DEF Window
<1>3. IsFiniteSet(A \cup C)
      /\ Cardinality(A \cup C) = Cardinality(A) + Cardinality(C) - Cardinality(A \cap C)
    BY <1>1, <1>2, FS_Union
<1>4. R \subseteq A \cup C
    <2>1. R \subseteq Joined(A, C)
        BY JoinsWindow DEF Rest
    <2>. QED
        BY <2>1 DEF Joined, Normalised
<1>5. IsFiniteSet(R) /\ Cardinality(R) <= Cardinality(A \cup C)
    BY <1>3, <1>4, FS_Subset
<1>6. IsFiniteSet(A \cap C)
    BY <1>2, FS_Subset
<1>7. /\ Cardinality(A) \in Nat /\ Cardinality(C) \in Nat /\ Cardinality(R) \in Nat
      /\ Cardinality(A \cap C) \in Nat /\ Cardinality(A \cup C) \in Nat
    BY <1>1, <1>2, <1>3, <1>5, <1>6, FS_CardinalityType
<1>. QED
    BY <1>3, <1>5, <1>7, FramingAssumption

-----------------------------------------------------------------------------
(* The invariant: what is buffered is all that has come behind some position, *)
(* an alarm stands for an event before it, and a failure event is alarmed,    *)
(* spoiled, or still to be completed behind it.                               *)

Reported(a, t, x) == a.payload = {t, x}

AlarmsUpTo(A, from) ==
    /\ \A a \in A : \E b, l, t, x \in Nat :
          /\ EventIs(b, l, t, x) /\ Reported(a, t, x) /\ x <= from
          /\ Is(t, {"failed"}) /\ Is(x, {"overloaded"})
    /\ \A a, a2 \in A : a.payload = a2.payload => a = a2

SeenUpTo(A, S, from, to) ==
    RawStandsAlone =>
        \A b, l, t, x \in Nat :
            /\ EventIs(b, l, t, x) /\ b <= to
            /\ wire[b].event.fails /\ wire[b].event \notin S
            => (\E a \in A : Reported(a, t, x)) \/ (from < b /\ to < l)

StreamInv ==
    /\ TypeOK
    /\ OnWire
    /\ ~bound => buffer = {}
    /\ \E from \in 0..delivered :
          /\ buffer = Window(from, delivered)
          /\ AlarmsUpTo(alarms, from)
          /\ SeenUpTo(alarms, spoiled, from, delivered)

LEMMA SameWire ==
    ASSUME wire' = wire, NEW A, NEW S, NEW from, NEW to
    PROVE  /\ Window(from, to)' = Window(from, to)
           /\ AlarmsUpTo(A, from)' <=> AlarmsUpTo(A, from)
           /\ SeenUpTo(A, S, from, to)' <=> SeenUpTo(A, S, from, to)
<1>1. \A i, syms : Is(i, syms)' <=> Is(i, syms)
    BY DEF Is
<1>2. \A i : (Line(i)' <=> Line(i)) /\ (Content(i)' <=> Content(i))
    BY <1>1 DEF Line, Content
<1>3. \A b, k : EndsContent(b, k)' <=> EndsContent(b, k)
    BY <1>1, <1>2 DEF EndsContent
<1>4. \A b, l, t, x : LaidOut(b, l, t, x)' <=> LaidOut(b, l, t, x)
    BY <1>1, <1>2, <1>3 DEF LaidOut
<1>5. \A b, l, t, x, p, c, d : Framed(b, l, t, x, p, c, d)' <=> Framed(b, l, t, x, p, c, d)
    BY <1>1, <1>2 DEF Framed
<1>6. \A b, l, t, x : EventIs(b, l, t, x)' <=> EventIs(b, l, t, x)
    BY <1>4, <1>5 DEF EventIs
<1>7. Window(from, to)' = Window(from, to)
    BY <1>1 DEF Window
<1>8. AlarmsUpTo(A, from)' <=> AlarmsUpTo(A, from)
    BY <1>1, <1>6 DEF AlarmsUpTo, Reported
<1>9. SeenUpTo(A, S, from, to)' <=> SeenUpTo(A, S, from, to)
    <2>1. RawStandsAlone' <=> RawStandsAlone
        BY DEF RawStandsAlone
    <2>. QED
        BY <1>6, <2>1 DEF SeenUpTo, Reported
<1>. QED
    BY <1>7, <1>8, <1>9

\* What the refresh of a payload stands for.
LEMMA NewAlarm ==
    ASSUME OnWire, NEW from \in Nat, NEW to \in Nat, from <= to, to <= Len(wire),
           NEW last \in from..to, Rest(Window(from, to)) = Window(last, to),
           \A e \in FrameEnds(Window(from, to)) : e <= last,
           NEW P \in Payloads(Window(from, to)), StreamFailureReason(P)
    PROVE  \E b, l, t, x \in Nat :
              /\ EventIs(b, l, t, x) /\ P = {t, x}
              /\ from < t /\ t < x /\ Is(t, {"failed"}) /\ Is(x, {"overloaded"})
              /\ x <= last \/ (x <= to /\ ValidJSON(Bare(Rest(Window(from, to)))))
<1>. DEFINE W == Window(from, to)
<1>1. PICK i, j \in P : i < j /\ P = {i, j} /\ Is(i, {"failed"}) /\ Is(j, {"overloaded"})
    BY DEF StreamFailureReason, Halves
<1>2. \A k \in W : k \in Nat /\ from < k /\ k <= to
    BY DEF Window
<1>3. CASE \E e \in FrameEnds(W) : P = DataOf(Frame(W, e))
    <2>1. PICK e \in FrameEnds(W) : P = DataOf(Frame(W, e))
        BY <1>3
    <2>2. PICK b, l, t, x \in Nat :
              EventIs(b, l, t, x) /\ l = e /\ P \subseteq {t, x}
        BY <2>1, DataWithin
    <2>3. t < x
        BY <2>2 DEF EventIs, LaidOut
    <2>4. i = t /\ j = x
        BY <1>1, <2>2, <2>3
    <2>5. t \in W /\ x \in W /\ x < e
        BY <1>1, <2>1, <2>4 DEF DataOf, Frame
    <2>6. x <= last
        BY <1>2, <2>1, <2>2, <2>5
    <2>. QED
        BY <1>1, <1>2, <2>2, <2>3, <2>4, <2>5, <2>6
<1>4. CASE P = Bare(Rest(W))
    <2>1. ValidJSON(P)
        BY <1>1 DEF ValidJSON, Halves, Types, Texts, Is
    <2>0. P = Bare(Window(last, to)) /\ last \in Nat
        BY <1>4
    <2>6. ValidJSON(Bare(Window(last, to)))
        BY <2>0, <2>1
    <2>7. \E b, l, t, x \in Nat :
              /\ EventIs(b, l, t, x) /\ t \in Window(last, to) /\ x \in Window(last, to)
              /\ Bare(Window(last, to)) = {t, x}
        BY <2>0, <2>6, RawWithin
    <2>2. PICK b, l, t, x \in Nat :
              EventIs(b, l, t, x) /\ t \in Window(last, to) /\ x \in Window(last, to) /\ P = {t, x}
        BY <2>0, <2>7
    <2>3. t < x
        BY <2>2 DEF EventIs, LaidOut
    <2>4. i = t /\ j = x
        BY <1>1, <2>2, <2>3
    <2>5. last < t /\ x <= to
        BY <2>2 DEF Window
    <2>. QED
        BY <1>1, <1>4, <2>1, <2>2, <2>3, <2>4, <2>5
<1>. QED
    BY <1>3, <1>4 DEF Payloads

\* A failure event of which nothing was taken away and which is not complete
\* is not taken for JSON.
LEMMA HalfEvent ==
    ASSUME OnWire, NEW last \in Nat, NEW to \in Nat, to <= Len(wire),
           NEW b, NEW l, NEW t, NEW x, EventIs(b, l, t, x),
           last < b, b <= to, to < l
    PROVE  ~ValidJSON(Bare(Window(last, to)))
<1>. DEFINE W == Window(last, to)
<1>0. b \in Nat \ {0} /\ l \in Nat /\ Content(b) /\ t \in b..l /\ x \in b..l /\ t < x
    BY DEF EventIs, LaidOut
<1>1. SUFFICES ASSUME ValidJSON(Bare(W))
               PROVE  FALSE
    OBVIOUS
<1>2. PICK b2, l2, t2, x2 \in Nat :
          EventIs(b2, l2, t2, x2) /\ t2 \in W /\ x2 \in W /\ Bare(W) = {t2, x2}
    BY <1>1, RawWithin
<1>3. b \in Bare(W)
    BY <1>0 DEF Bare, Window, Content, Is
<1>4. b \in b2..l2
    BY <1>2, <1>3 DEF EventIs, LaidOut
<1>5. b \in b..l
    BY <1>0
<1>6. b2 = b /\ l2 = l /\ t2 = t /\ x2 = x
    BY <1>2, <1>4, <1>5, SameEvent
<1>7. b = t
    <2>1. b = t \/ b = x
        BY <1>2, <1>3, <1>6
    <2>. QED
        BY <1>0, <2>1
<1>8. ~wire[b].event.raw
    <2>1. x <= to
        BY <1>2, <1>6 DEF Window
    <2>. QED
        BY <1>0, <2>1 DEF EventIs
<1>9. PICK p, c, d \in b..l : Framed(b, l, t, x, p, c, d)
    BY <1>8 DEF EventIs
<1>. QED
    BY <1>0, <1>7, <1>9 DEF Framed

\* One that has come as a whole is read.
LEMMA WholeEvent ==
    ASSUME OnWire, RawStandsAlone,
           NEW from \in Nat, NEW to \in Nat, from <= to, to <= Len(wire),
           NEW b, NEW l, NEW t, NEW x, EventIs(b, l, t, x), from < b, l <= to
    PROVE  {t, x} \in Payloads(Window(from, to))
<1>. DEFINE W == Window(from, to)
<1>0. b \in Nat \ {0} /\ l \in Nat /\ b <= l /\ b \in b..l /\ b \in 1..Len(wire)
      /\ Len(wire) \in Nat
    BY StreamsAssumption DEF EventIs, OnWire
<1>1. CASE wire[b].event.raw
    <2>1. b = 1 /\ l = Len(wire) /\ t = b /\ x = l /\ l = b + 1
        BY <1>0, <1>1 DEF RawStandsAlone, EventIs
    <2>2. from = 0 /\ to = 2 /\ t = 1 /\ x = 2
        BY <1>0, <2>1
    <2>3. Is(1, Types) /\ Is(2, Texts)
        BY <1>0, <2>1, <2>2 DEF EventIs, LaidOut
    <2>4. W = {1, 2}
        BY <2>2, <2>3 DEF Window, Is, Types, Texts
    <2>5. FrameEnds(W) = {}
        BY <2>3, <2>4 DEF FrameEnds, Line, Is, Types, Texts
    <2>6. Bare(Rest(W)) = {1, 2}
        BY <2>3, <2>4, <2>5 DEF Rest, Bare, Is, Types, Texts
    <2>. QED
        BY <2>2, <2>6 DEF Payloads
<1>2. CASE ~wire[b].event.raw
    <2>1. PICK p, c, d \in b..l : Framed(b, l, t, x, p, c, d)
        BY <1>2 DEF EventIs
    <2>2. p \in Nat /\ from < p
        BY <1>0, <2>1
    <2>3. l \in FrameEnds(W)
        BY <1>0, <2>1, <2>2, EndsOf
    <2>4. b - 1 <= from \/ Line(b - 1)
        <3>1. SUFFICES ASSUME ~(b - 1 <= from)
                       PROVE  Line(b - 1)
            OBVIOUS
        <3>2. b - 1 \in 1..Len(wire)
            BY <1>0, <3>1
        <3>3. PICK b2, l2, t2, x2 \in Nat : b - 1 \in b2..l2 /\ EventIs(b2, l2, t2, x2)
            BY <3>2, EventOf
        <3>4. b - 1 = l2
            <4>1. SUFFICES ASSUME b \in b2..l2
                           PROVE  FALSE
                BY <1>0, <3>3
            <4>2. b2 = b
                BY <1>0, <3>3, <4>1, SameEvent
            <4>. QED
                BY <1>0, <3>3, <4>2
        <3>5. ~wire[b2].event.raw
            <4>1. wire[b2].event.last = l2 /\ b2 \in 1..Len(wire)
                BY <1>0, <3>3 DEF EventIs
            <4>2. l2 # Len(wire)
                BY <1>0, <3>4
            <4>. QED
                BY <4>1, <4>2 DEF RawStandsAlone
        <3>6. PICK p2, c2, d2 \in b2..l2 : Framed(b2, l2, t2, x2, p2, c2, d2)
            BY <3>3, <3>5 DEF EventIs
        <3>. QED
            BY <3>4, <3>6 DEF Framed
    <2>5. DataOf(Frame(W, l)) = {t, x}
        BY <2>3, <2>4, DataWhole
    <2>. QED
        BY <2>3, <2>5 DEF Payloads
<1>. QED
    BY <1>1, <1>2

-----------------------------------------------------------------------------
(* The steps. *)

\* A chunk that is taken in.
LEMMA TakenIn ==
    ASSUME OnWire, NEW from \in Nat, NEW old \in Nat, NEW to \in Nat,
           from <= old, old < to, to <= Len(wire),
           NEW A, NEW S, AlarmsUpTo(A, from), SeenUpTo(A, S, from, old)
    PROVE  LET W == Window(from, to)
               more == A \cup {[when |-> to, payload |-> payload] :
                                   payload \in {P \in Payloads(W) : StreamFailureReason(P)}}
           IN  \E next \in 0..to :
                  /\ (IF ValidJSON(Bare(Rest(W))) THEN {} ELSE Rest(W)) = Window(next, to)
                  /\ AlarmsUpTo(more, next)
                  /\ SeenUpTo(more, S, next, to)
<1>. DEFINE W == Window(from, to)
            alarm(P) == [when |-> to, payload |-> P]
            Found == {P \in Payloads(W) : StreamFailureReason(P)}
            more == A \cup {alarm(P) : P \in Found}
<1>1. PICK last \in from..to :
          /\ last = from \/ last \in FrameEnds(W)
          /\ \A e \in FrameEnds(W) : e <= last
          /\ Rest(W) = Window(last, to)
    BY RestWindow
<1>. DEFINE next == IF ValidJSON(Bare(Rest(W))) THEN to ELSE last
<1>2. /\ next \in 0..to /\ from <= next /\ next \in Nat
      /\ (IF ValidJSON(Bare(Rest(W))) THEN {} ELSE Rest(W)) = Window(next, to)
    <2>1. Window(to, to) = {}
        BY DEF Window
    <2>2. last \in Nat /\ from <= last /\ last <= to
        BY <1>1
    <2>3. CASE ValidJSON(Bare(Rest(W)))
        BY <2>1, <2>3
    <2>4. CASE ~ValidJSON(Bare(Rest(W)))
        BY <1>1, <2>2, <2>4
    <2>. QED
        BY <2>3, <2>4
<1>3. ASSUME NEW P \in Found
      PROVE  \E b, l, t, x \in Nat :
                /\ EventIs(b, l, t, x) /\ P = {t, x} /\ from < t /\ from < x /\ x <= next
                /\ Is(t, {"failed"}) /\ Is(x, {"overloaded"})
    <2>1. PICK b, l, t, x \in Nat :
              /\ EventIs(b, l, t, x) /\ P = {t, x}
              /\ from < t /\ t < x /\ Is(t, {"failed"}) /\ Is(x, {"overloaded"})
              /\ x <= last \/ (x <= to /\ ValidJSON(Bare(Rest(W))))
        BY <1>1, <1>3, NewAlarm
    <2>2. x <= next
        BY <1>1, <2>1
    <2>. QED
        BY <2>1, <2>2
<1>4. AlarmsUpTo(more, next)
    <2>1. ASSUME NEW a \in more
          PROVE  \E b, l, t, x \in Nat :
                    /\ EventIs(b, l, t, x) /\ Reported(a, t, x) /\ x <= next
                    /\ Is(t, {"failed"}) /\ Is(x, {"overloaded"})
        <3>1. CASE a \in A
            <4>1. PICK b, l, t, x \in Nat :
                      /\ EventIs(b, l, t, x) /\ Reported(a, t, x) /\ x <= from
                      /\ Is(t, {"failed"}) /\ Is(x, {"overloaded"})
                BY <3>1 DEF AlarmsUpTo
            <4>2. x <= next
                BY <1>2, <4>1
            <4>. QED
                BY <4>1, <4>2
        <3>2. CASE \E P \in Found : a = alarm(P)
            BY <1>3, <3>2 DEF Reported
        <3>. QED
            BY <2>1, <3>1, <3>2
    <2>2. ASSUME NEW a \in A, NEW P \in Found
          PROVE  a.payload # P
        <3>1. PICK b, l, t, x \in Nat : EventIs(b, l, t, x) /\ a.payload = {t, x} /\ x <= from
            BY DEF AlarmsUpTo, Reported
        <3>2. PICK b2, l2, t2, x2 \in Nat : P = {t2, x2} /\ from < t2 /\ from < x2
            BY <1>3
        <3>3. x \notin P
            BY <3>1, <3>2
        <3>. QED
            BY <3>1, <3>3
    <2>3. ASSUME NEW a \in more, NEW a2 \in more, a.payload = a2.payload
          PROVE  a = a2
        <3>1. \A P \in Found : alarm(P).payload = P
            OBVIOUS
        <3>2. CASE a \in A /\ a2 \in A
            BY <2>3, <3>2 DEF AlarmsUpTo
        <3>3. CASE a \notin A /\ a2 \notin A
            BY <2>3, <3>1, <3>3
        <3>4. ASSUME NEW y \in A, NEW z \in more, z \notin A
              PROVE  y.payload # z.payload
            BY <2>2, <3>1, <3>4
        <3>. QED
            BY <2>3, <3>2, <3>3, <3>4
    <2>. HIDE DEF more, next
    <2>. QED
        BY <2>1, <2>3 DEF AlarmsUpTo
<1>5. SeenUpTo(more, S, next, to)
    <2>1. SUFFICES ASSUME RawStandsAlone,
                          NEW b \in Nat, NEW l \in Nat, NEW t \in Nat, NEW x \in Nat,
                          EventIs(b, l, t, x), b <= to,
                          wire[b].event.fails, wire[b].event \notin S,
                          ~(\E a \in A : Reported(a, t, x))
                   PROVE  (\E a \in more : Reported(a, t, x)) \/ (next < b /\ to < l)
        BY DEF SeenUpTo
    <2>2. from < b /\ old < l
        <3>1. CASE b <= old
            BY <2>1, <3>1 DEF SeenUpTo
        <3>2. CASE ~(b <= old)
            BY <2>1, <3>2 DEF EventIs
        <3>. QED
            BY <3>1, <3>2
    <2>3. CASE l <= to
        <3>1. {t, x} \in Payloads(W)
            BY <2>1, <2>2, <2>3, WholeEvent
        <3>2. StreamFailureReason({t, x})
            BY <2>1 DEF EventIs, LaidOut, StreamFailureReason, Halves
        <3>3. {t, x} \in Found
            BY <3>1, <3>2
        <3>4. alarm({t, x}) \in more
            BY <3>3
        <3>5. Reported(alarm({t, x}), t, x)
            BY DEF Reported
        <3>. QED
            BY <3>4, <3>5
    <2>4. CASE to < l
        <3>1. last < b
            <4>1. CASE last = from
                BY <2>2, <4>1
            <4>2. CASE last \in FrameEnds(W)
                <5>1. last # l
                    BY <1>1, <2>4
                <5>2. ~(last \in b..l)
                    BY <2>1, <4>2, <5>1, EndsOf
                <5>. QED
                    BY <1>1, <2>4, <5>2
            <4>. QED
                BY <1>1, <4>1, <4>2
        <3>2. ~ValidJSON(Bare(Rest(W)))
            <4>1. ~ValidJSON(Bare(Window(last, to)))
                BY <1>1, <2>1, <2>4, <3>1, HalfEvent
            <4>. QED
                BY <1>1, <4>1
        <3>. QED
            BY <2>4, <3>1, <3>2
    <2>. QED
        BY <2>3, <2>4
<1>. QED
    BY <1>2, <1>4, <1>5

\* Symbols that are not looked at, or that overflow what was left.
LEMMA Dropped ==
    ASSUME OnWire, NEW from \in Nat, NEW old \in Nat, NEW to \in Nat,
           from <= old, old < to, to <= Len(wire),
           NEW A, NEW S, AlarmsUpTo(A, from), SeenUpTo(A, S, from, old)
    PROVE  /\ AlarmsUpTo(A, to)
           /\ SeenUpTo(A, S \cup EventsOf((old + 1)..to), to, to)
<1>1. AlarmsUpTo(A, to)
    <2>1. \A x \in Nat : x <= from => x <= to
        OBVIOUS
    <2>. QED
        BY <2>1 DEF AlarmsUpTo
<1>2. SUFFICES ASSUME RawStandsAlone,
                      NEW b \in Nat, NEW l \in Nat, NEW t \in Nat, NEW x \in Nat,
                      EventIs(b, l, t, x), b <= to,
                      wire[b].event.fails, wire[b].event \notin S \cup EventsOf((old + 1)..to)
               PROVE  \E a \in A : Reported(a, t, x)
    BY <1>1 DEF SeenUpTo
<1>3. \A k \in b..l : k \notin (old + 1)..to
    BY <1>2 DEF EventIs, EventsOf
<1>4. b <= old /\ ~(old < l)
    <2>1. b \in b..l /\ (old < l /\ b <= old => old + 1 \in b..l)
        BY <1>2 DEF EventIs
    <2>2. ~(b <= old /\ old < l)
        BY <1>3, <2>1
    <2>3. b \notin (old + 1)..to
        BY <1>3, <2>1
    <2>4. b <= old
        BY <1>2, <2>3
    <2>. QED
        BY <2>2, <2>4
<1>. QED
    BY <1>2, <1>4 DEF SeenUpTo

\* The stream is given up for a new attempt's.
LEMMA GivenUp ==
    ASSUME OnWire, NEW from \in Nat, NEW old \in Nat, NEW to \in Nat,
           from <= old, old <= to, to <= Len(wire),
           to = Len(wire) \/ wire[to + 1].event.first = to + 1,
           NEW A, NEW S, AlarmsUpTo(A, from), SeenUpTo(A, S, from, old)
    PROVE  /\ AlarmsUpTo(A, to)
           /\ SeenUpTo(A, S \cup EventsOf((old + 1)..to), to, to)
<1>1. CASE old < to
    BY <1>1, Dropped
<1>2. CASE ~(old < to)
    <2>1. old = to
        BY <1>2
    <2>2. AlarmsUpTo(A, to)
        <3>1. \A x \in Nat : x <= from => x <= to
            OBVIOUS
        <3>. QED
            BY <3>1 DEF AlarmsUpTo
    <2>3. SUFFICES ASSUME RawStandsAlone,
                          NEW b \in Nat, NEW l \in Nat, NEW t \in Nat, NEW x \in Nat,
                          EventIs(b, l, t, x), b <= to,
                          wire[b].event.fails, wire[b].event \notin S
                   PROVE  \E a \in A : Reported(a, t, x)
        BY <2>2 DEF SeenUpTo
    <2>4. ~(to < l)
        <3>1. SUFFICES ASSUME to < l
                       PROVE  FALSE
            OBVIOUS
        <3>2. to + 1 \in b..l /\ to < Len(wire) /\ Len(wire) \in Nat
            BY <2>3, <3>1, StreamsAssumption DEF EventIs, OnWire
        <3>3. wire[to + 1].event.first = b
            BY <2>3, <3>2 DEF EventIs
        <3>. QED
            BY <2>3, <3>2, <3>3
    <2>. QED
        BY <2>1, <2>3, <2>4 DEF SeenUpTo
<1>. QED
    BY <1>1, <1>2

LEMMA InvAgain ==
    ASSUME wire' = wire, OnWire, TypeOK', ~bound' => buffer' = {},
           NEW from \in 0..delivered', buffer' = Window(from, delivered'),
           AlarmsUpTo(alarms', from), SeenUpTo(alarms', spoiled', from, delivered')
    PROVE  StreamInv'
<1>1. PICK A, S, to : A = alarms' /\ S = spoiled' /\ to = delivered'
    OBVIOUS
<1>2. /\ Window(from, to)' = Window(from, to)
      /\ AlarmsUpTo(A, from)' <=> AlarmsUpTo(A, from)
      /\ SeenUpTo(A, S, from, to)' <=> SeenUpTo(A, S, from, to)
    BY SameWire
<1>3. Window(from, to)' = buffer' /\ AlarmsUpTo(A, from)' /\ SeenUpTo(A, S, from, to)'
    BY <1>1, <1>2
<1>4. Window(from, delivered)' = buffer'
    BY <1>1, <1>3 DEF Window
<1>5. AlarmsUpTo(alarms, from)'
    BY <1>1, <1>3 DEF AlarmsUpTo
<1>6. SeenUpTo(alarms, spoiled, from, delivered)'
    BY <1>1, <1>3 DEF SeenUpTo
<1>7. OnWire'
    BY DEF OnWire
<1>. QED
    BY <1>4, <1>5, <1>6, <1>7 DEF StreamInv

LEMMA InvInit == Init => StreamInv
<1>. SUFFICES ASSUME Init
              PROVE  StreamInv
    OBVIOUS
<1>1. OnWire /\ Len(wire) \in Nat
    BY StreamsAssumption DEF Init, OnWire
<1>2. TypeOK
    BY <1>1, FS_EmptySet, FramingAssumption DEF Init, TypeOK
<1>3. Window(0, 0) = {}
    BY DEF Window
<1>4. AlarmsUpTo({}, 0)
    BY DEF AlarmsUpTo
<1>5. SeenUpTo({}, {}, 0, 0)
    BY DEF SeenUpTo, EventIs
<1>6. 0 \in 0..delivered /\ buffer = Window(0, delivered)
      /\ AlarmsUpTo(alarms, 0) /\ SeenUpTo(alarms, spoiled, 0, delivered)
    BY <1>3, <1>4, <1>5 DEF Init
<1>7. ~bound => buffer = {}
    BY DEF Init
<1>. QED
    BY <1>1, <1>2, <1>6, <1>7 DEF StreamInv

LEMMA InvChunk ==
    ASSUME StreamInv, NEW size \in 1..Len(wire), StreamChunk(size)
    PROVE  StreamInv'
<1>. DEFINE chunk == (delivered + 1)..delivered'
<1>1. /\ OnWire /\ TypeOK /\ Len(wire) \in Nat /\ wire' = wire /\ bound' = bound
      /\ attempt' = attempt
    BY StreamsAssumption DEF StreamInv, OnWire, StreamChunk
<1>2. PICK from \in 0..delivered :
          /\ buffer = Window(from, delivered)
          /\ AlarmsUpTo(alarms, from)
          /\ SeenUpTo(alarms, spoiled, from, delivered)
    BY DEF StreamInv
<1>3. /\ delivered \in Nat /\ delivered' \in Nat /\ from \in Nat /\ from <= delivered
      /\ delivered < delivered' /\ delivered' <= Len(wire)
      /\ delivered' \in 0..delivered'
    BY <1>1 DEF TypeOK, StreamChunk
<1>4. EventsOf(chunk) \subseteq EventsOf(1..Len(wire))
    <2>1. chunk \subseteq 1..Len(wire)
        BY <1>1, <1>3
    <2>. QED
        BY <2>1 DEF EventsOf
<1>5. ASSUME buffer' \subseteq 1..delivered', Cardinality(buffer') <= Limit,
             spoiled' \subseteq EventsOf(1..Len(wire))
      PROVE  TypeOK'
    <2>1. EventsOf(1..Len(wire))' = EventsOf(1..Len(wire))
        BY <1>1 DEF EventsOf
    <2>. QED
        BY <1>1, <1>3, <1>5, <2>1 DEF TypeOK
<1>6. CASE buffer' = {} /\ alarms' = alarms /\ spoiled' = spoiled \cup EventsOf(chunk)
    <2>1. TypeOK'
        BY <1>1, <1>4, <1>5, <1>6, FS_EmptySet, FramingAssumption DEF TypeOK
    <2>2. AlarmsUpTo(alarms, delivered')
          /\ SeenUpTo(alarms, spoiled \cup EventsOf(chunk), delivered', delivered')
        BY <1>1, <1>2, <1>3, Dropped
    <2>3. Window(delivered', delivered') = {}
        BY <1>3 DEF Window
    <2>4. AlarmsUpTo(alarms', delivered')
          /\ SeenUpTo(alarms', spoiled', delivered', delivered')
        BY <1>6, <2>2
    <2>. QED
        BY <1>1, <1>3, <1>6, <2>1, <2>3, <2>4, InvAgain
<1>7. CASE bound /\ ~Overflows(chunk) /\ Observe(chunk)
    <2>. DEFINE W == Window(from, delivered')
                more == alarms \cup {[when |-> delivered', payload |-> payload] :
                                        payload \in {P \in Payloads(W) : StreamFailureReason(P)}}
    <2>1. Joined(buffer, chunk) = W
        BY <1>1, <1>2, <1>3, JoinsWindow
    <2>2. /\ alarms' = more
          /\ buffer' = IF ValidJSON(Bare(Rest(W))) THEN {} ELSE Rest(W)
          /\ spoiled' = spoiled
        BY <1>7, <2>1 DEF Observe
    <2>3. PICK next \in 0..delivered' :
              /\ (IF ValidJSON(Bare(Rest(W))) THEN {} ELSE Rest(W)) = Window(next, delivered')
              /\ AlarmsUpTo(more, next)
              /\ SeenUpTo(more, spoiled, next, delivered')
        BY <1>1, <1>2, <1>3, TakenIn
    <2>4. /\ buffer' = Window(next, delivered')
          /\ AlarmsUpTo(alarms', next)
          /\ SeenUpTo(alarms', spoiled', next, delivered')
        BY <2>2, <2>3
    <2>5. buffer' \subseteq 1..delivered'
        BY <1>3, <2>4 DEF Window
    <2>6. Cardinality(buffer') <= Limit
        <3>1. Cardinality(buffer) + Cardinality(chunk) <= Limit
            <4>1. IsFiniteSet((from + 1)..delivered) /\ IsFiniteSet(chunk)
                <5>1. from + 1 \in Int /\ delivered + 1 \in Int /\ delivered' \in Int
                      /\ delivered \in Int
                    BY <1>3
                <5>. QED
                    BY <5>1, FS_Interval
            <4>2. IsFiniteSet(buffer)
                BY <1>2, <4>1, FS_Subset DEF Window
            <4>3. Cardinality(buffer) \in Nat /\ Cardinality(chunk) \in Nat
                BY <4>1, <4>2, FS_CardinalityType
            <4>. QED
                BY <1>7, <4>3, FramingAssumption DEF Overflows
        <3>2. Cardinality(Rest(W)) <= Limit
            BY <1>1, <1>2, <1>3, <3>1, BufferSize
        <3>3. Cardinality({}) <= Limit
            BY FS_EmptySet, FramingAssumption
        <3>. QED
            BY <2>2, <3>2, <3>3
    <2>7. TypeOK'
        BY <1>1, <1>5, <2>2, <2>5, <2>6 DEF TypeOK
    <2>8. ~bound' => buffer' = {}
        BY <1>1, <1>7
    <2>. QED
        BY <1>1, <2>4, <2>7, <2>8, InvAgain
<1>8. CASE bound /\ Overflows(chunk)
    BY <1>6, <1>8 DEF StreamChunk, Observe, AfterOverflow
<1>9. CASE ~bound
    BY <1>6, <1>9 DEF StreamChunk, StreamInv
<1>. QED
    BY <1>7, <1>8, <1>9 DEF StreamChunk

LEMMA InvRetry ==
    ASSUME StreamInv, RetryStream
    PROVE  StreamInv'
<1>. DEFINE lost == (delivered + 1)..delivered'
<1>1. OnWire /\ TypeOK /\ Len(wire) \in Nat /\ wire' = wire /\ alarms' = alarms /\ buffer' = {}
      /\ spoiled' = spoiled \cup EventsOf(lost)
    BY StreamsAssumption DEF StreamInv, OnWire, RetryStream
<1>2. PICK from \in 0..delivered :
          AlarmsUpTo(alarms, from) /\ SeenUpTo(alarms, spoiled, from, delivered)
    BY DEF StreamInv
<1>3. /\ delivered \in Nat /\ delivered' \in Nat /\ from \in Nat /\ from <= delivered
      /\ delivered <= delivered' /\ delivered' <= Len(wire)
      /\ delivered' \in 0..delivered'
      /\ delivered' = Len(wire) \/ wire[delivered' + 1].event.first = delivered' + 1
    BY <1>1 DEF TypeOK, RetryStream, Starts
<1>4. TypeOK'
    <2>1. EventsOf(1..Len(wire))' = EventsOf(1..Len(wire))
        BY <1>1 DEF EventsOf
    <2>2. lost \subseteq 1..Len(wire)
        BY <1>1, <1>3
    <2>3. spoiled' \subseteq EventsOf(1..Len(wire))
        BY <1>1, <2>2 DEF TypeOK, EventsOf
    <2>4. attempt' \in 0..MaxRetries /\ bound' \in BOOLEAN
        BY <1>1, FramingAssumption DEF TypeOK, RetryStream
    <2>5. Cardinality(buffer') <= Limit
        BY <1>1, FS_EmptySet, FramingAssumption
    <2>. QED
        BY <1>1, <1>3, <2>1, <2>3, <2>4, <2>5 DEF TypeOK
<1>5. AlarmsUpTo(alarms, delivered')
      /\ SeenUpTo(alarms, spoiled \cup EventsOf(lost), delivered', delivered')
    BY <1>1, <1>2, <1>3, GivenUp
<1>6. Window(delivered', delivered') = {}
    BY <1>3 DEF Window
<1>7. AlarmsUpTo(alarms', delivered') /\ SeenUpTo(alarms', spoiled', delivered', delivered')
    BY <1>1, <1>5
<1>. QED
    BY <1>1, <1>3, <1>4, <1>6, <1>7, InvAgain

LEMMA InvStutter ==
    ASSUME StreamInv, UNCHANGED vars
    PROVE  StreamInv'
<1>1. wire' = wire /\ delivered' = delivered /\ buffer' = buffer /\ alarms' = alarms
      /\ spoiled' = spoiled /\ bound' = bound /\ attempt' = attempt
    BY DEF vars
<1>2. TypeOK'
    BY <1>1 DEF StreamInv, TypeOK, EventsOf
<1>3. PICK from \in 0..delivered' :
          buffer' = Window(from, delivered') /\ AlarmsUpTo(alarms', from)
          /\ SeenUpTo(alarms', spoiled', from, delivered')
    BY <1>1 DEF StreamInv
<1>. QED
    BY <1>1, <1>2, <1>3, InvAgain DEF StreamInv

LEMMA InvAlways == Spec => []StreamInv
<1>1. StreamInv /\ [Next]_vars => StreamInv'
    BY InvChunk, InvRetry, InvStutter DEF Next
<1>. QED
    BY <1>1, InvInit, PTL DEF Spec

-----------------------------------------------------------------------------
\* The buffer of a stream never holds more than the code's limit, whatever
\* the host cuts and wherever it overflows.
THEOREM BufferBounded == Spec => []TypeOK
<1>1. StreamInv => TypeOK
    BY DEF StreamInv
<1>. QED
    BY <1>1, InvAlways, PTL

\* A queued refresh stands for one failure event that upstream sent, and no
\* event queues two, for streams of any length and however they are cut.
THEOREM NoFalseAlarmsEver == Spec => []NoFalseAlarms
<1>1. StreamInv => NoFalseAlarms
    <2>1. SUFFICES ASSUME StreamInv
                   PROVE  NoFalseAlarms
        OBVIOUS
    <2>2. PICK from \in Nat : AlarmsUpTo(alarms, from)
        BY <2>1 DEF StreamInv, TypeOK
    <2>3. ASSUME NEW a \in alarms
          PROVE  \E b, l, t, x \in Nat :
                    /\ EventIs(b, l, t, x) /\ a.payload = {t, x}
                    /\ EventsOf(a.payload) = {wire[b].event} /\ wire[b].event.fails
        <3>1. PICK b, l, t, x \in Nat :
                  /\ EventIs(b, l, t, x) /\ a.payload = {t, x}
                  /\ Is(t, {"failed"}) /\ Is(x, {"overloaded"})
            BY <2>2, <2>3 DEF AlarmsUpTo, Reported
        <3>2. wire[t].event = wire[b].event /\ wire[x].event = wire[b].event
              /\ wire[b].event.fails
            BY <3>1 DEF EventIs, LaidOut
        <3>3. EventsOf(a.payload) = {wire[b].event}
            BY <3>1, <3>2 DEF EventsOf
        <3>. QED
            BY <3>1, <3>2, <3>3
    <2>4. ASSUME NEW a \in alarms, NEW a2 \in alarms,
                 EventsOf(a.payload) = EventsOf(a2.payload)
          PROVE  a = a2
        <3>1. PICK b, l, t, x \in Nat :
                  EventIs(b, l, t, x) /\ a.payload = {t, x} /\ EventsOf(a.payload) = {wire[b].event}
            BY <2>3
        <3>2. PICK b2, l2, t2, x2 \in Nat :
                  /\ EventIs(b2, l2, t2, x2) /\ a2.payload = {t2, x2}
                  /\ EventsOf(a2.payload) = {wire[b2].event}
            BY <2>3
        <3>3. wire[b].event = wire[b2].event /\ b \in b..l
            <4>1. {wire[b].event} = {wire[b2].event}
                BY <2>4, <3>1, <3>2
            <4>2. b \in b..l
                BY <3>1 DEF EventIs
            <4>. QED
                BY <4>1, <4>2
        <3>4. t = t2 /\ x = x2
            BY <3>1, <3>2, <3>3, SameEvent
        <3>. QED
            BY <2>2, <3>1, <3>2, <3>4 DEF AlarmsUpTo
    <2>. QED
        BY <2>3, <2>4 DEF NoFalseAlarms
<1>. QED
    BY <1>1, InvAlways, PTL

\* A failure event that has come as a whole has queued its refresh, unless an
\* overflow or a retry hit the event itself or its attempt is not bound.
THEOREM EveryFailureSeenEver == Spec => []EveryFailureSeen
<1>1. StreamInv => EveryFailureSeen
    <2>1. SUFFICES ASSUME StreamInv, RawStandsAlone, NEW i \in 1..delivered,
                          wire[i].event.fails, wire[i].event \notin spoiled,
                          wire[i].event.last <= delivered
                   PROVE  \E a \in alarms : EventsOf(a.payload) = {wire[i].event}
        BY DEF EveryFailureSeen
    <2>2. OnWire /\ Len(wire) \in Nat /\ delivered \in 0..Len(wire)
        BY <2>1, StreamsAssumption DEF StreamInv, OnWire, TypeOK
    <2>3. PICK from \in Nat : SeenUpTo(alarms, spoiled, from, delivered)
        BY <2>1, <2>2 DEF StreamInv
    <2>4. PICK b, l, t, x \in Nat : i \in b..l /\ EventIs(b, l, t, x)
        <3>1. i \in 1..Len(wire)
            BY <2>1, <2>2
        <3>. QED
            BY <2>2, <3>1, EventOf
    <2>5. wire[b].event = wire[i].event /\ l <= delivered /\ b <= delivered
        BY <2>1, <2>2, <2>4 DEF EventIs
    <2>6. PICK a \in alarms : a.payload = {t, x}
        <3>1. ~(delivered < l)
            BY <2>2, <2>5
        <3>. QED
            BY <2>1, <2>3, <2>4, <2>5, <3>1 DEF SeenUpTo, Reported
    <2>7. wire[t].event = wire[b].event /\ wire[x].event = wire[b].event
        BY <2>4 DEF EventIs, LaidOut
    <2>. QED
        BY <2>5, <2>6, <2>7 DEF EventsOf
<1>. QED
    BY <1>1, InvAlways, PTL

=============================================================================
