--------------------------- MODULE ProxyTransport ---------------------------
(***************************************************************************)
(* chainTransport of transport.go: the dial of one probe.  It connects to  *)
(* the first proxy of the chain and asks each proxy for the next one, the  *)
(* last for upstream, all over the same connection.  The network delivers  *)
(* what a peer sends in pieces of its own; a peer may fall silent, refuse, *)
(* talk nonsense or hang up, and the context may end, at any point.        *)
(*                                                                         *)
(* A byte is a number.  The lines of a CONNECT response are numbers above  *)
(* 255, one for a line.                                                    *)
(***************************************************************************)
EXTENDS Integers, Sequences, SequencesExt

CONSTANTS
    Chains,         \* the chains of proxies a run dials
    HeaderLimit     \* lines a CONNECT response may have, 64 KiB in the code

Proxies == [scheme : {"http", "https", "socks5"}, user : BOOLEAN]

ASSUME TransportAssumption ==
    /\ \A proxies \in Chains : proxies \in Seq(Proxies) /\ Len(proxies) \in 1..2
    /\ HeaderLimit \in Nat \ {0}

VARIABLES
    chain,      \* the proxies of this dial
    pc,         \* where the dial is
    hop,        \* the peer it speaks to; behind the last proxy, upstream
    rest,       \* bytes of the SOCKS address still to be read
    header,     \* what it has read of a CONNECT response
    level,      \* the peer the network connects it to by now
    sent,       \* what peers have sent and the network not delivered
    inbox,      \* what has been delivered and not been read
    hungUp,     \* whether the far side has closed its end
    closed,     \* whether this side has closed its own
    watching,   \* whether context.AfterFunc is armed
    ctx         \* the probe's context

dialer == <<pc, hop, rest, header>>
connection == <<level, sent, inbox, hungUp>>
guard == <<closed, watching>>
transportVars == <<chain, dialer, connection, guard, ctx>>

TransportInit ==
    /\ chain \in Chains
    /\ pc = "dial" /\ hop = 1 /\ rest = 0 /\ header = <<>>
    /\ level = 0 /\ sent = <<>> /\ inbox = <<>> /\ hungUp = FALSE
    /\ closed = FALSE /\ watching = FALSE /\ ctx = "live"

Upstream == Len(chain) + 1
Proxy == chain[hop]

Writing == {"greet", "login", "request", "connect"}
Reading == {"method", "loggedIn", "reply", "length", "address", "status"}
Handshaking == Writing \union Reading \union {"tls"}

-----------------------------------------------------------------------------
(* The peers. *)

OK == 200
Denied == 407
Field == 300
End == 301
Greeting == 400

Zeros(n) == [i \in 1..n |-> 0]
Answers(opens, replies) == [opens : {opens}, bytes : replies]

\* What a proxy may answer to each message.
Methods == Answers(FALSE, {<<5, 0>>, <<5, 2>>, <<4, 0>>})
Logins == Answers(FALSE, {<<1, 0>>, <<1, 1>>})
Replies == Answers(TRUE, {<<5, 0, 0, 1>> \o Zeros(6), <<5, 0, 0, 4>> \o Zeros(18),
                          <<5, 0, 0, 3, 2>> \o Zeros(4), <<5, 0, 0, 3, 0>> \o Zeros(2)})
           \union Answers(FALSE, {<<5, 5, 0, 1>> \o Zeros(6), <<5, 0, 0, 9>>})
Statuses == Answers(TRUE, {<<OK, End>>, <<OK, Field, End>>, <<OK, Field, Field, Field, End>>})
            \union Answers(FALSE, {<<Denied, End>>, <<Field, End>>})

Signed(peer, bytes) == [i \in DOMAIN bytes |-> [byte |-> bytes[i], by |-> peer]]

\* Some targets send data as soon as the tunnel is there.
Greetings(peer) == IF peer = Upstream THEN {<<>>, <<Greeting>>} ELSE {<<>>}

\* The peer the message reaches answers it, or does not.
Answered(answers) ==
    \/ UNCHANGED connection
    \/ /\ level = hop /\ ~hungUp
       /\ \E answer \in answers :
             /\ level' = IF answer.opens THEN hop + 1 ELSE hop
             /\ \E greeting \in IF answer.opens THEN Greetings(level') ELSE {<<>>} :
                   sent' = sent \o Signed(hop, answer.bytes) \o Signed(level', greeting)
             /\ UNCHANGED <<inbox, hungUp>>

Deliver ==
    /\ sent # <<>> /\ ~closed
    /\ inbox' = Append(inbox, Head(sent))
    /\ sent' = Tail(sent)
    /\ UNCHANGED <<chain, dialer, level, hungUp, guard, ctx>>

PeerHangsUp ==
    /\ pc \in Handshaking
    /\ ~hungUp
    /\ hungUp' = TRUE
    /\ sent' = <<>>
    /\ UNCHANGED <<chain, dialer, level, inbox, guard, ctx>>

-----------------------------------------------------------------------------
(* The context. *)

\* A lifecycle call cancels the probe, or its time is over.
ContextEnds ==
    /\ ctx = "live"
    /\ ctx' \in {"cancelled", "expired"}
    /\ UNCHANGED <<chain, dialer, connection, guard>>

\* Mutant: the end of the context interrupts the TCP dial only.
DialOnly == FALSE
Watches == watching /\ ctx # "live"

AfterFunc ==
    /\ Watches
    /\ closed' = TRUE
    /\ watching' = FALSE
    /\ UNCHANGED <<chain, dialer, connection, ctx>>

-----------------------------------------------------------------------------
(* The end of the dial. *)

\* DialContext returns an error; its deferred call closes the connection
\* and stops the watch.
Fails ==
    /\ pc' = "failed"
    /\ closed' = TRUE
    /\ watching' = FALSE
    /\ UNCHANGED <<hop, rest, header>>

Goes(step) == pc' = step /\ UNCHANGED <<hop, rest, header, guard>>

\* Where tunnelProxy begins with a proxy.
FirstStep(proxy) == CASE proxy.scheme = "socks5" -> "greet"
                      [] proxy.scheme = "https"  -> "tls"
                      [] proxy.scheme = "http"   -> "connect"

\* tunnelProxy returns: on with the next proxy, or upstream is there.
TunnelOpens ==
    /\ hop' = hop + 1
    /\ header' = <<>>
    /\ rest' = 0
    /\ pc' = IF hop' = Upstream THEN "handOver" ELSE FirstStep(chain[hop'])
    /\ UNCHANGED guard

DialConnects ==
    /\ pc = "dial" /\ ctx = "live"
    /\ level' = 1
    /\ watching' = TRUE
    /\ pc' = FirstStep(chain[1])
    /\ UNCHANGED <<chain, hop, rest, header, sent, inbox, hungUp, closed, ctx>>

\* A proxy that cannot be resolved, or not be reached.
DialFails ==
    /\ pc = "dial"
    /\ Fails
    /\ UNCHANGED <<chain, connection, ctx>>

\* A read or write that cannot succeed: the connection was closed, its
\* deadline, which is the context's, is over, or the peer is gone; and the
\* messages that cannot be put together for this proxy.
Need == CASE pc \in {"method", "loggedIn"} -> 2
          [] pc = "reply"                  -> 4
          [] pc \in {"length", "status"}   -> 1
          [] pc = "address"                -> rest
          [] OTHER                         -> 0

Broken == closed \/ ctx = "expired" \/ (hungUp /\ Len(inbox) < Need)

HandshakeBreaks ==
    /\ pc \in Handshaking
    /\ Broken \/ pc \in Writing
    /\ Fails
    /\ UNCHANGED <<chain, connection, ctx>>

\* stop(), no deadline any more, good.
HandOver ==
    /\ pc = "handOver"
    /\ pc' = "open"
    /\ watching' = FALSE
    /\ UNCHANGED <<chain, hop, rest, header, connection, closed, ctx>>

-----------------------------------------------------------------------------
(* The handshakes. *)

\* A write, and what the peer makes of it.
Says(from, to, answers) ==
    /\ pc = from /\ ~closed
    /\ Goes(to)
    /\ Answered(answers)
    /\ UNCHANGED <<chain, ctx>>

\* io.ReadFull of n bytes.
Takes(n) ==
    /\ ~closed
    /\ Len(inbox) >= n
    /\ inbox' = SubSeq(inbox, n + 1, Len(inbox))
    /\ UNCHANGED <<chain, level, sent, hungUp, ctx>>

Bytes(n) == [i \in 1..n |-> inbox[i].byte]

\* tls.Client's handshake with an https proxy.
TLSHandshake ==
    /\ pc = "tls" /\ ~closed
    /\ (level = hop /\ ~hungUp /\ Goes("connect")) \/ Fails
    /\ UNCHANGED <<chain, connection, ctx>>

ConnectRequest == Says("connect", "status", Statuses)

\* Mutant: the response is read through a buffer.
BufferBytes == IF Len(inbox) >= 2 THEN 2 ELSE 1
\* One byte at a time.
StatusBytes == 1

\* Mutant: any response opens the tunnel.
AnyStatus(response) == TRUE
Accepts(response) == response[1] = OK

ConnectStatus ==
    /\ pc = "status"
    /\ Takes(StatusBytes)
    /\ LET response == header \o Bytes(StatusBytes)
       IN  \/ /\ Last(response) # End /\ Len(response) < HeaderLimit
              /\ header' = response
              /\ UNCHANGED <<pc, hop, rest, guard>>
           \/ Last(response) = End /\ Accepts(response) /\ TunnelOpens
           \/ /\ IF Last(response) = End THEN ~Accepts(response)
                                         ELSE Len(response) >= HeaderLimit
              /\ Fails

SocksGreeting == Says("greet", "method", Methods)

\* The method offered is the one that must be chosen.
SocksMethod ==
    /\ pc = "method"
    /\ Takes(2)
    /\ IF Bytes(2) = <<5, IF Proxy.user THEN 2 ELSE 0>>
       THEN Goes(IF Proxy.user THEN "login" ELSE "request")
       ELSE Fails

SocksLogin == Says("login", "loggedIn", Logins)

SocksLoggedIn ==
    /\ pc = "loggedIn"
    /\ Takes(2)
    /\ IF Bytes(2) = <<1, 0>> THEN Goes("request") ELSE Fails

SocksRequest == Says("request", "reply", Replies)

\* Mutant: the port behind the address is forgotten.
WithoutPort(n) == n
AddressBytes(n) == n + 2

Address(n) ==
    /\ pc' = "address"
    /\ rest' = AddressBytes(n)
    /\ UNCHANGED <<hop, header, guard>>

SocksReply ==
    /\ pc = "reply"
    /\ Takes(4)
    /\ LET reply == Bytes(4)
           granted == reply[1] = 5 /\ reply[2] = 0
       IN  \/ granted /\ reply[4] = 1 /\ Address(4)
           \/ granted /\ reply[4] = 4 /\ Address(16)
           \/ granted /\ reply[4] = 3 /\ Goes("length")
           \/ ~(granted /\ reply[4] \in {1, 3, 4}) /\ Fails

SocksLength ==
    /\ pc = "length"
    /\ Takes(1)
    /\ Address(Bytes(1)[1])

SocksAddress ==
    /\ pc = "address"
    /\ Takes(rest)
    /\ TunnelOpens

SocksStep == \/ SocksGreeting \/ SocksMethod \/ SocksLogin \/ SocksLoggedIn
             \/ SocksRequest \/ SocksReply \/ SocksLength \/ SocksAddress

\* What the dialing goroutine does by itself, and what the network does.
DialerStep ==
    \/ (ctx # "live" /\ DialFails)
    \/ HandshakeBreaks
    \/ HandOver
    \/ ConnectRequest
    \/ ConnectStatus
    \/ SocksStep

NetworkStep == DialConnects \/ DialFails \/ TLSHandshake \/ Deliver \/ PeerHangsUp

TransportStep == DialerStep \/ NetworkStep \/ AfterFunc \/ ContextEnds

=============================================================================
