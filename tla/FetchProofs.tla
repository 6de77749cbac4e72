----------------------------- MODULE FetchProofs -----------------------------
(***************************************************************************)
(* TunnelIsClean, ReadsOnePeer, FirstTerminalDecides and TokensReadBack    *)
(* for every chain of proxies, stream and header value.                    *)
(*                                                                         *)
(* The first two need whose every byte on the way is, and where in them    *)
(* the reply being read ends: as soon as a proxy has opened the tunnel,    *)
(* what follows its reply is upstream's.  Where a dial goes on depends on  *)
(* the proxy it speaks to, so they need that there is one, too.  The third *)
(* needs that the data kept are the payloads since the last blank line,    *)
(* and that no earlier event was terminal.  The last is the arithmetic of  *)
(* base64 and of whole blocks, for tokens of every length.                 *)
(***************************************************************************)
EXTENDS ProbeFetch, TLAPS

-----------------------------------------------------------------------------
(* The dial's place in the chain. *)

HopOK == /\ chain \in Chains
         /\ hop \in 1..Upstream
         /\ pc \in Handshaking \cup {"dial"} => hop < Upstream

LEMMA ChainOf ==
    ASSUME HopOK
    PROVE  /\ chain \in Seq(Proxies)
           /\ Len(chain) \in Nat \ {0}
           /\ Upstream = Len(chain) + 1
           /\ hop \in Nat
BY TransportAssumption DEF HopOK, Upstream

\* Every proxy of a chain has a first step, and it is one of a handshake.
LEMMA FirstSteps ==
    ASSUME HopOK, NEW i \in 1..Len(chain)
    PROVE  FirstStep(chain[i]) \in Handshaking
<1>1. chain[i] \in Proxies
    BY ChainOf
<1>2. chain[i].scheme \in {"http", "https", "socks5"}
    BY <1>1 DEF Proxies
<1>. QED
    BY <1>2 DEF FirstStep, Handshaking, Writing

\* What a step of the dial must show to keep the invariant.
LEMMA KeepsHop ==
    ASSUME HopOK, chain' = chain,
           hop' \in 1..Upstream,
           pc' \in Handshaking \cup {"dial"} => hop' < Upstream
    PROVE  HopOK'
BY DEF HopOK, Upstream

LEMMA StaysPut ==
    ASSUME HopOK, UNCHANGED <<chain, dialer>>
    PROVE  HopOK'
BY DEF HopOK, Upstream, dialer

LEMMA FailsKeeps ==
    ASSUME HopOK, chain' = chain, Fails
    PROVE  HopOK'
<1>1. pc' = "failed" /\ hop' = hop
    BY DEF Fails
<1>. QED
    BY <1>1, KeepsHop DEF HopOK, Handshaking, Writing, Reading

LEMMA GoesKeeps ==
    ASSUME HopOK, chain' = chain, pc \in Handshaking,
           NEW step \in Handshaking, pc' = step, hop' = hop
    PROVE  HopOK'
<1>1. hop < Upstream /\ hop' \in 1..Upstream
    BY DEF HopOK
<1>. QED
    BY <1>1, KeepsHop

LEMMA TunnelKeeps ==
    ASSUME HopOK, chain' = chain, pc \in Handshaking, TunnelOpens
    PROVE  HopOK'
<1>1. HopOK /\ hop < Upstream
    BY DEF HopOK
<1>2. hop' = hop + 1 /\ hop' \in 1..Upstream
    BY <1>1, ChainOf DEF TunnelOpens, Upstream
<1>3. CASE hop' = Upstream
    <2>1. pc' = "handOver"
        BY <1>3 DEF TunnelOpens, Upstream
    <2>. QED
        BY <1>2, <2>1, KeepsHop DEF Handshaking, Writing, Reading
<1>4. CASE hop' # Upstream
    <2>1. Upstream' = Upstream
        BY DEF Upstream
    <2>2. hop' < Upstream /\ hop' \in 1..Len(chain)
        BY <1>1, <1>2, <1>4, ChainOf
    <2>3. pc' = FirstStep(chain[hop'])
        BY <1>4, <2>1 DEF TunnelOpens
    <2>4. pc' \in Handshaking
        BY <1>1, <2>2, <2>3, FirstSteps
    <2>. QED
        BY <1>2, <2>2, KeepsHop
<1>. QED
    BY <1>3, <1>4

LEMMA SaysKeeps ==
    ASSUME HopOK, NEW from \in Handshaking, NEW to \in Handshaking,
           NEW answers, Says(from, to, answers)
    PROVE  HopOK'
BY GoesKeeps DEF Says, Goes

LEMMA SocksStepKeeps ==
    ASSUME HopOK, SocksStep
    PROVE  HopOK'
<1>0. {"greet", "method", "login", "loggedIn", "request", "reply", "length", "address"}
          \subseteq Handshaking
    BY DEF Handshaking, Writing, Reading
<1>1. CASE SocksGreeting \/ SocksLogin \/ SocksRequest
    BY <1>0, <1>1, SaysKeeps DEF SocksGreeting, SocksLogin, SocksRequest
<1>2. CASE SocksMethod
    BY <1>0, <1>2, GoesKeeps, FailsKeeps DEF SocksMethod, Takes, Goes
<1>3. CASE SocksLoggedIn
    BY <1>0, <1>3, GoesKeeps, FailsKeeps DEF SocksLoggedIn, Takes, Goes
<1>4. CASE SocksReply
    <2>1. chain' = chain /\ pc = "reply"
        BY <1>4 DEF SocksReply, Takes
    <2>2. \/ Address(4) \/ Address(16) \/ Goes("length") \/ Fails
        BY <1>4 DEF SocksReply
    <2>. QED
        BY <1>0, <2>1, <2>2, GoesKeeps, FailsKeeps DEF Address, Goes
<1>5. CASE SocksLength
    BY <1>0, <1>5, GoesKeeps DEF SocksLength, Takes, Address
<1>6. CASE SocksAddress
    BY <1>0, <1>6, TunnelKeeps DEF SocksAddress, Takes
<1>. QED
    BY <1>1, <1>2, <1>3, <1>4, <1>5, <1>6 DEF SocksStep, SocksGreeting

LEMMA HTTPKeeps ==
    ASSUME HopOK, TLSHandshake \/ ConnectRequest \/ ConnectStatus
    PROVE  HopOK'
<1>0. {"tls", "connect", "status"} \subseteq Handshaking
    BY DEF Handshaking, Writing, Reading
<1>1. CASE TLSHandshake
    BY <1>0, <1>1, GoesKeeps, FailsKeeps DEF TLSHandshake, Goes
<1>2. CASE ConnectRequest
    BY <1>0, <1>2, SaysKeeps DEF ConnectRequest
<1>3. CASE ConnectStatus
    <2>1. chain' = chain /\ pc = "status"
        BY <1>3 DEF ConnectStatus, Takes
    <2>2. UNCHANGED <<pc, hop, rest, guard>> \/ TunnelOpens \/ Fails
        BY <1>3 DEF ConnectStatus
    <2>. QED
        BY <1>0, <2>1, <2>2, GoesKeeps, TunnelKeeps, FailsKeeps
<1>. QED
    BY <1>1, <1>2, <1>3

LEMMA TransportKeeps ==
    ASSUME HopOK, TransportStep
    PROVE  HopOK'
<1>1. CASE DialConnects
    <2>1. HopOK /\ hop < Upstream /\ 1 \in 1..Len(chain)
        BY <1>1, ChainOf DEF DialConnects, HopOK
    <2>2. pc' \in Handshaking /\ hop' = hop /\ chain' = chain
        BY <1>1, <2>1, FirstSteps DEF DialConnects
    <2>3. hop' \in 1..Upstream
        BY <2>1, <2>2 DEF HopOK
    <2>. QED
        BY <2>1, <2>2, <2>3, KeepsHop
<1>2. CASE DialFails \/ HandshakeBreaks
    BY <1>2, FailsKeeps DEF DialFails, HandshakeBreaks
<1>3. CASE HandOver
    <2>1. pc' = "open" /\ hop' = hop /\ chain' = chain
        BY <1>3 DEF HandOver
    <2>2. hop' \in 1..Upstream
        BY <2>1 DEF HopOK
    <2>. QED
        BY <2>1, <2>2, KeepsHop DEF Handshaking, Writing, Reading
<1>4. CASE Deliver \/ PeerHangsUp \/ ContextEnds \/ AfterFunc
    BY <1>4, StaysPut DEF Deliver, PeerHangsUp, ContextEnds, AfterFunc, guard
<1>. QED
    BY <1>1, <1>2, <1>3, <1>4, SocksStepKeeps, HTTPKeeps
       DEF TransportStep, DialerStep, NetworkStep

LEMMA ReturnsKeeps ==
    ASSUME HopOK, chain' = chain, hop' = hop, pc' = "over"
    PROVE  HopOK'
BY KeepsHop DEF HopOK, Handshaking, Writing, Reading

LEMMA FetchStepKeeps ==
    ASSUME HopOK, FetchStep
    PROVE  HopOK'
<1>1. ASSUME NEW result, Returns(result)
      PROVE  HopOK'
    BY <1>1, ReturnsKeeps DEF Returns
<1>2. ASSUME NEW completed, Judged(completed)
      PROVE  HopOK'
    BY <1>1, <1>2 DEF Judged
<1>3. CASE Respond
    <2>1. CASE Returns("network_error") \/ Returns("upstream_http")
        BY <2>1, <1>1
    <2>2. CASE pc' = "body" /\ UNCHANGED <<chain, hop>>
        BY <2>2, KeepsHop DEF HopOK, Handshaking, Writing, Reading
    <2>. QED
        BY <1>3, <2>1, <2>2 DEF Respond
<1>4. CASE ReadLine
    BY <1>4, <1>2, StaysPut DEF ReadLine, transportVars, guard
<1>5. CASE BodyEnds \/ BodyBreaks
    BY <1>5, <1>2 DEF BodyEnds, BodyBreaks
<1>6. CASE DialReturns
    BY <1>6, StaysPut DEF DialReturns, transportVars, guard
<1>7. CASE Unwanted
    BY <1>7, ReturnsKeeps DEF Unwanted
<1>. QED
    BY <1>3, <1>4, <1>5, <1>6, <1>7 DEF FetchStep

-----------------------------------------------------------------------------
(* Conversations.  What is on its way to the fetch is one sequence, however *)
(* it is cut; the invariant says whose its bytes are and where the reply    *)
(* being read ends in it.                                                   *)

Octets == [byte : Nat, by : Nat]
Pipe == inbox \o sent

PipeType == /\ inbox \in Seq(Octets) /\ sent \in Seq(Octets)
            /\ header \in Seq(Nat) /\ rest \in Nat /\ level \in Nat

\* The peer spoken to has said all of it.
Alone == level = hop /\ \A i \in 1..Len(Pipe) : Pipe[i].by = hop

\* The peer has opened the tunnel: k bytes of its reply are still to come,
\* and only upstream may have said something behind them.
Opened(k) ==
    /\ level = hop + 1
    /\ \A i \in 1..Len(Pipe) : Pipe[i].by = IF i <= k THEN hop ELSE hop + 1
    /\ level # Upstream => Len(Pipe) <= k

\* A refused CONNECT is seen by its first line, an accepted one ends at k.
StatusRefused ==
    /\ Alone
    /\ header = <<>> => (Len(Pipe) >= 1 => Pipe[1].byte # OK)
    /\ header # <<>> => header[1] # OK
StatusOpened(k) ==
    /\ k > 0 /\ Opened(k)
    /\ \A i \in 1..Len(Pipe) : /\ i < k => Pipe[i].byte # End
                               /\ i = k => Pipe[i].byte = End

\* A SOCKS reply that opens the tunnel is as long as its address says.
ReplyRefused ==
    /\ Alone
    /\ Len(Pipe) >= 4 => Pipe[2].byte # 0 \/ Pipe[4].byte \notin {1, 3, 4}
ReplyOpened(k) ==
    /\ k >= 4 /\ Opened(k)
    /\ Len(Pipe) >= 4 =>
          \/ Pipe[4].byte = 1 /\ k = 10
          \/ Pipe[4].byte = 4 /\ k = 22
          \/ Pipe[4].byte = 3 /\ k >= 5 /\ (Len(Pipe) >= 5 => k = 7 + Pipe[5].byte)
LengthOpened(k) ==
    /\ k >= 1 /\ Opened(k)
    /\ Len(Pipe) >= 1 => k = 3 + Pipe[1].byte

TunnelInv ==
    /\ pc = "dial" => hop = 1 /\ Len(Pipe) = 0
    /\ pc \in {"dial", "tls", "connect"} => header = <<>>
    /\ pc \in Writing \cup {"tls"} => level = hop /\ Len(Pipe) = 0
    /\ pc \in {"handOver", "open"} => Alone
    /\ pc \in {"method", "loggedIn"} => Alone /\ Len(Pipe) <= 2
    /\ pc = "status" => StatusRefused \/ \E k \in Nat : StatusOpened(k)
    /\ pc = "reply" => ReplyRefused \/ \E k \in Nat : ReplyOpened(k)
    /\ pc = "length" => \E k \in Nat : LengthOpened(k)
    /\ pc = "address" => Opened(rest)

ConversationInv == HopOK /\ PipeType /\ TunnelInv

\* The bytes in the pipe.
LEMMA PipeBytes ==
    ASSUME PipeType
    PROVE  /\ Pipe \in Seq(Octets)
           /\ Len(Pipe) = Len(inbox) + Len(sent)
           /\ Len(inbox) \in Nat /\ Len(sent) \in Nat /\ Len(Pipe) \in Nat
           /\ \A i \in 1..Len(inbox) : Pipe[i] = inbox[i]
           /\ \A i \in 1..Len(Pipe) : Pipe[i].byte \in Nat
<1>1. /\ Pipe \in Seq(Octets)
      /\ Len(Pipe) = Len(inbox) + Len(sent)
      /\ Len(inbox) \in Nat /\ Len(sent) \in Nat /\ Len(Pipe) \in Nat
      /\ \A i \in 1..Len(inbox) : Pipe[i] = inbox[i]
    BY DEF PipeType, Pipe
<1>2. \A i \in 1..Len(Pipe) : Pipe[i] \in Octets
    BY <1>1
<1>. QED
    BY <1>1, <1>2 DEF Octets

LEMMA DeliverPipe ==
    ASSUME PipeType, Deliver
    PROVE  PipeType' /\ Pipe' = Pipe
<1>1. /\ sent # <<>>
      /\ inbox' = Append(inbox, Head(sent)) /\ sent' = Tail(sent)
      /\ UNCHANGED <<header, rest, level>>
    BY DEF Deliver, dialer
<1>2. PipeType'
    BY <1>1 DEF PipeType
<1>3. Len(Pipe') = Len(Pipe)
    BY <1>1, <1>2 DEF PipeType, Pipe
<1>4. \A i \in 1..Len(Pipe) : Pipe'[i] = Pipe[i]
    BY <1>1, <1>2 DEF PipeType, Pipe
<1>5. Pipe \in Seq(Octets) /\ Pipe' \in Seq(Octets)
    BY <1>2 DEF PipeType, Pipe
<1>. QED
    BY <1>2, <1>3, <1>4, <1>5

\* What io.ReadFull leaves.
LEMMA TakesPipe ==
    ASSUME PipeType, NEW n \in Nat, Takes(n)
    PROVE  /\ inbox' \in Seq(Octets) /\ sent' \in Seq(Octets)
           /\ level' = level /\ chain' = chain
           /\ n <= Len(inbox) /\ n <= Len(Pipe)
           /\ Len(Pipe') = Len(Pipe) - n
           /\ \A i \in 1..Len(Pipe') : Pipe'[i] = Pipe[i + n]
           /\ \A i \in 1..n : Bytes(n)[i] = Pipe[i].byte
<1>1. /\ n <= Len(inbox) /\ inbox' = SubSeq(inbox, n + 1, Len(inbox))
      /\ UNCHANGED <<chain, level, sent>>
    BY DEF Takes, PipeType
<1>2. inbox' \in Seq(Octets) /\ sent' \in Seq(Octets)
    BY <1>1 DEF PipeType
<1>3. Len(inbox') = Len(inbox) - n /\ \A i \in 1..Len(inbox') : inbox'[i] = inbox[i + n]
    BY <1>1 DEF PipeType
<1>4. /\ Len(Pipe') = Len(inbox') + Len(sent)
      /\ \A i \in 1..Len(Pipe') : Pipe'[i] = IF i <= Len(inbox') THEN inbox'[i]
                                                                 ELSE sent[i - Len(inbox')]
    BY <1>1, <1>2 DEF Pipe
<1>5. \A i \in 1..Len(Pipe) : Pipe[i] = IF i <= Len(inbox) THEN inbox[i]
                                                           ELSE sent[i - Len(inbox)]
    BY DEF Pipe, PipeType
<1>6. Len(Pipe') = Len(Pipe) - n
    BY <1>3, <1>4, PipeBytes
<1>7. \A i \in 1..Len(Pipe') : Pipe'[i] = Pipe[i + n]
    <2>1. SUFFICES ASSUME NEW i \in 1..Len(Pipe') PROVE Pipe'[i] = Pipe[i + n]
        OBVIOUS
    <2>2. /\ i \in Nat /\ i + n \in 1..Len(Pipe)
          /\ Len(inbox) \in Nat /\ Len(inbox') \in Nat
        BY <1>1, <1>3, <1>6, PipeBytes
    <2>3. CASE i <= Len(inbox')
        <3>1. Pipe'[i] = inbox[i + n]
            BY <1>3, <1>4, <2>2, <2>3
        <3>. QED
            BY <1>3, <1>5, <2>2, <2>3, <3>1
    <2>4. CASE ~(i <= Len(inbox'))
        <3>1. /\ Pipe'[i] = sent[i - Len(inbox')]
              /\ i - Len(inbox') = (i + n) - Len(inbox)
              /\ ~(i + n <= Len(inbox))
            BY <1>3, <1>4, <2>2, <2>4
        <3>. QED
            BY <1>5, <2>2, <3>1
    <2>. QED
        BY <2>3, <2>4
<1>8. \A i \in 1..n : Bytes(n)[i] = Pipe[i].byte
    <2>1. \A i \in 1..n : Bytes(n)[i] = inbox[i].byte
        BY DEF Bytes
    <2>2. \A i \in 1..n : i \in 1..Len(inbox)
        BY <1>1, PipeBytes
    <2>. QED
        BY <2>1, <2>2, PipeBytes
<1>. QED
    BY <1>1, <1>2, <1>6, <1>7, <1>8, PipeBytes

\* A pipe that stays as it is or is cut short keeps all the invariant says.
LEMMA ShorterKeeps ==
    ASSUME ConversationInv, PipeType', UNCHANGED <<chain, dialer, level>>,
           Len(Pipe') <= Len(Pipe),
           \A i \in 1..Len(Pipe') : Pipe'[i] = Pipe[i]
    PROVE  ConversationInv'
<1>1. /\ pc' = pc /\ hop' = hop /\ header' = header /\ rest' = rest /\ level' = level
      /\ Upstream' = Upstream
    BY DEF dialer, Upstream
<1>2. Len(Pipe) \in Nat /\ Len(Pipe') \in Nat
    BY PipeBytes DEF ConversationInv, PipeType, Pipe
<1>3. Alone => Alone'
    BY <1>1, <1>2 DEF Alone
<1>4. \A k \in Nat : Opened(k) => Opened(k)'
    BY <1>1, <1>2 DEF Opened
<1>5. StatusRefused => StatusRefused'
    BY <1>1, <1>2, <1>3 DEF StatusRefused
<1>6. \A k \in Nat : StatusOpened(k) => StatusOpened(k)'
    BY <1>2, <1>4 DEF StatusOpened
<1>7. ReplyRefused => ReplyRefused'
    BY <1>2, <1>3 DEF ReplyRefused
<1>8. \A k \in Nat : ReplyOpened(k) => ReplyOpened(k)'
    BY <1>2, <1>4 DEF ReplyOpened
<1>9. \A k \in Nat : LengthOpened(k) => LengthOpened(k)'
    BY <1>2, <1>4 DEF LengthOpened
<1>10. HopOK'
    BY <1>1 DEF ConversationInv, HopOK
<1>11. rest \in Nat
    BY DEF ConversationInv, PipeType
<1>12. TunnelInv'
    BY <1>1, <1>2, <1>3, <1>4, <1>5, <1>6, <1>7, <1>8, <1>9, <1>11
       DEF ConversationInv, TunnelInv
<1>. QED
    BY <1>10, <1>12 DEF ConversationInv

LEMMA QuietKeeps ==
    ASSUME ConversationInv, Deliver \/ PeerHangsUp \/ ContextEnds \/ AfterFunc
    PROVE  ConversationInv'
<1>0. PipeType /\ Len(Pipe) \in Nat
    BY PipeBytes DEF ConversationInv
<1>1. CASE Deliver
    BY <1>0, <1>1, DeliverPipe, ShorterKeeps DEF Deliver
<1>2. CASE PeerHangsUp
    <2>1. /\ inbox' = inbox /\ sent' = <<>>
          /\ UNCHANGED <<chain, dialer, level>>
        BY <1>2 DEF PeerHangsUp
    <2>2. PipeType'
        BY <1>0, <2>1 DEF PipeType, dialer
    <2>3. Len(Pipe') = Len(inbox) /\ \A i \in 1..Len(inbox) : Pipe'[i] = inbox[i]
        BY <1>0, <2>1 DEF PipeType, Pipe
    <2>4. Len(Pipe') <= Len(Pipe) /\ \A i \in 1..Len(Pipe') : Pipe'[i] = Pipe[i]
        BY <1>0, <2>3, PipeBytes
    <2>. QED
        BY <2>1, <2>2, <2>4, ShorterKeeps
<1>3. CASE ContextEnds \/ AfterFunc
    <2>1. UNCHANGED <<chain, dialer, connection>>
        BY <1>3 DEF ContextEnds, AfterFunc
    <2>2. PipeType' /\ Pipe' = Pipe
        BY <1>0, <2>1 DEF PipeType, Pipe, dialer, connection
    <2>. QED
        BY <1>0, <2>1, <2>2, ShorterKeeps DEF connection
<1>. QED
    BY <1>1, <1>2, <1>3

\* The states of which the invariant says nothing of the pipe.
LEMMA SilentKeeps ==
    ASSUME ConversationInv, HopOK', PipeType', pc' \in {"failed", "body", "over"}
    PROVE  ConversationInv'
BY DEF ConversationInv, TunnelInv, Writing

LEMMA FailsQuietly ==
    ASSUME ConversationInv, chain' = chain, Fails,
           inbox' \in Seq(Octets), sent' \in Seq(Octets), level' = level
    PROVE  ConversationInv'
<1>1. pc' = "failed" /\ hop' = hop /\ UNCHANGED <<rest, header>>
    BY DEF Fails
<1>2. HopOK'
    BY <1>1 DEF ConversationInv, HopOK, Upstream, Handshaking, Writing, Reading
<1>3. PipeType'
    BY <1>1 DEF ConversationInv, PipeType
<1>. QED
    BY <1>1, <1>2, <1>3, SilentKeeps

-----------------------------------------------------------------------------
(* Messages and their answers. *)

LEMMA Joined ==
    ASSUME NEW s \in Seq(Octets), NEW t \in Seq(Octets)
    PROVE  /\ s \o t \in Seq(Octets)
           /\ Len(s \o t) = Len(s) + Len(t)
           /\ Len(s) \in Nat /\ Len(t) \in Nat
           /\ \A i \in 1..Len(s \o t) : (s \o t)[i] = IF i <= Len(s) THEN s[i] ELSE t[i - Len(s)]
OBVIOUS

LEMMA NothingJoined ==
    ASSUME NEW s \in Seq(Octets)
    PROVE  <<>> \o s = s
OBVIOUS

LEMMA GreetingBytes ==
    ASSUME NEW peer, NEW greeting \in Greetings(peer)
    PROVE  /\ greeting \in Seq(Nat)
           /\ peer # Upstream => Len(greeting) = 0
<1>1. CASE peer = Upstream
    <2>1. greeting = <<>> \/ greeting = <<400>>
        BY <1>1 DEF Greetings, Greeting
    <2>2. <<>> \in Seq(Nat) /\ <<400>> \in Seq(Nat)
        OBVIOUS
    <2>. QED
        BY <1>1, <2>1, <2>2
<1>2. CASE peer # Upstream
    <2>1. greeting = <<>>
        BY <1>2 DEF Greetings
    <2>. QED
        BY <2>1
<1>. QED
    BY <1>1, <1>2

LEMMA SignedBytes ==
    ASSUME NEW peer \in Nat, NEW bytes \in Seq(Nat)
    PROVE  /\ Signed(peer, bytes) \in Seq(Octets)
           /\ Len(Signed(peer, bytes)) = Len(bytes)
           /\ \A i \in 1..Len(bytes) : /\ Signed(peer, bytes)[i].by = peer
                                       /\ Signed(peer, bytes)[i].byte = bytes[i]
<1>1. DOMAIN bytes = 1..Len(bytes) /\ Len(bytes) \in Nat
    OBVIOUS
<1>2. \A i \in 1..Len(bytes) : [byte |-> bytes[i], by |-> peer] \in Octets
    BY <1>1 DEF Octets
<1>3. Signed(peer, bytes) = [i \in 1..Len(bytes) |-> [byte |-> bytes[i], by |-> peer]]
    BY <1>1 DEF Signed
<1>. QED
    BY <1>1, <1>2, <1>3

\* What is on its way when the peer has answered: its reply, and what
\* upstream says once the reply has opened the tunnel.
Carries(reply) ==
    /\ level' = IF reply.opens THEN hop + 1 ELSE hop
    /\ Len(Pipe') >= Len(reply.bytes)
    /\ \A i \in 1..Len(reply.bytes) : Pipe'[i].byte = reply.bytes[i]
    /\ \A i \in 1..Len(Pipe') : Pipe'[i].by = IF i <= Len(reply.bytes) THEN hop ELSE level'
    /\ ~reply.opens \/ level' # Upstream => Len(Pipe') = Len(reply.bytes)

LEMMA ReplyPipe ==
    ASSUME HopOK, inbox = <<>>, sent = <<>>, inbox' = inbox,
           NEW reply, NEW bytes \in Seq(Nat), bytes = reply.bytes,
           level' = IF reply.opens THEN hop + 1 ELSE hop,
           NEW greeting \in IF reply.opens THEN Greetings(level') ELSE {<<>>},
           sent' = sent \o Signed(hop, bytes) \o Signed(level', greeting)
    PROVE  /\ inbox' \in Seq(Octets) /\ sent' \in Seq(Octets) /\ level' \in Nat
           /\ Carries(reply)
<1>1. hop \in Nat /\ level' \in Nat
    BY ChainOf
<1>2. /\ greeting \in Seq(Nat)
      /\ ~reply.opens \/ level' # Upstream => Len(greeting) = 0
    <2>1. CASE reply.opens
        BY <2>1, GreetingBytes
    <2>2. CASE ~reply.opens
        <3>1. greeting = <<>>
            BY <2>2
        <3>. QED
            BY <3>1
    <2>. QED
        BY <2>1, <2>2
<1>. DEFINE said == Signed(hop, bytes)
            more == Signed(level', greeting)
<1>3. /\ said \in Seq(Octets) /\ Len(said) = Len(bytes)
      /\ \A i \in 1..Len(bytes) : said[i].by = hop /\ said[i].byte = bytes[i]
    BY <1>1, SignedBytes
<1>4. /\ more \in Seq(Octets) /\ Len(more) = Len(greeting)
      /\ \A i \in 1..Len(greeting) : more[i].by = level'
    BY <1>1, <1>2, SignedBytes
<1>5. sent' = <<>> \o said \o more /\ inbox' = <<>>
    OBVIOUS
<1>. HIDE DEF said, more
<1>6. sent' = said \o more
    <2>1. <<>> \o said = said
        BY <1>3, NothingJoined
    <2>. QED
        BY <1>5, <2>1
<1>7. Pipe' = said \o more
    <2>1. said \o more \in Seq(Octets)
        BY <1>3, <1>4, Joined
    <2>2. <<>> \o (said \o more) = said \o more
        BY <2>1, NothingJoined
    <2>3. Pipe' = inbox' \o sent'
        BY DEF Pipe
    <2>. QED
        BY <1>5, <1>6, <2>2, <2>3
<1>8. /\ sent' \in Seq(Octets) /\ inbox' \in Seq(Octets)
      /\ Len(Pipe') = Len(said) + Len(more) /\ Len(said) \in Nat /\ Len(more) \in Nat
      /\ \A i \in 1..Len(Pipe') : Pipe'[i] = IF i <= Len(said) THEN said[i]
                                                               ELSE more[i - Len(said)]
    <2>1. <<>> \in Seq(Octets)
        OBVIOUS
    <2>. QED
        BY <1>3, <1>4, <1>5, <1>6, <1>7, <2>1, Joined
<1>9. \A i \in 1..Len(bytes) : Pipe'[i].byte = bytes[i]
    <2>1. SUFFICES ASSUME NEW i \in 1..Len(bytes)
                   PROVE  Pipe'[i].byte = bytes[i]
        OBVIOUS
    <2>2. i <= Len(said) /\ i \in 1..Len(Pipe')
        BY <1>3, <1>8
    <2>3. Pipe'[i] = said[i]
        BY <1>8, <2>2
    <2>. QED
        BY <1>3, <2>3
<1>10. \A i \in 1..Len(Pipe') : Pipe'[i].by = IF i <= Len(bytes) THEN hop ELSE level'
    <2>1. SUFFICES ASSUME NEW i \in 1..Len(Pipe')
                   PROVE  Pipe'[i].by = IF i <= Len(bytes) THEN hop ELSE level'
        OBVIOUS
    <2>2. CASE i <= Len(said)
        <3>1. Pipe'[i] = said[i] /\ i \in 1..Len(bytes)
            BY <1>3, <1>8, <2>2
        <3>. QED
            BY <1>3, <2>2, <3>1
    <2>3. CASE ~(i <= Len(said))
        <3>1. i - Len(said) \in 1..Len(greeting)
            BY <1>4, <1>8, <2>3
        <3>. QED
            BY <1>3, <1>4, <1>8, <2>3, <3>1
    <2>. QED
        BY <2>2, <2>3
<1>11. ~reply.opens \/ level' # Upstream => Len(Pipe') = Len(bytes)
    BY <1>2, <1>3, <1>4, <1>8
<1>. QED
    BY <1>1, <1>3, <1>8, <1>9, <1>10, <1>11 DEF Carries

\* A write that goes out to a peer that has said nothing yet.
LEMMA AnswerPipe ==
    ASSUME HopOK, PipeType, level = hop, Len(Pipe) = 0,
           NEW answers, \A reply \in answers : reply.bytes \in Seq(Nat),
           Answered(answers)
    PROVE  /\ inbox' \in Seq(Octets) /\ sent' \in Seq(Octets) /\ level' \in Nat
           /\ \/ level' = hop /\ Len(Pipe') = 0
              \/ \E reply \in answers : Carries(reply)
<1>1. inbox = <<>> /\ sent = <<>>
    <2>1. Len(inbox) = 0 /\ Len(sent) = 0
        BY PipeBytes
    <2>. QED
        BY <2>1 DEF PipeType
<1>2. CASE UNCHANGED connection
    BY <1>2 DEF connection, PipeType, Pipe
<1>3. CASE ~UNCHANGED connection
    <2>1. PICK reply \in answers :
             /\ level' = IF reply.opens THEN hop + 1 ELSE hop
             /\ \E greeting \in IF reply.opens THEN Greetings(level') ELSE {<<>>} :
                   sent' = sent \o Signed(hop, reply.bytes) \o Signed(level', greeting)
             /\ inbox' = inbox
        BY <1>3 DEF Answered
    <2>. QED
        BY <1>1, <2>1, ReplyPipe
<1>. QED
    BY <1>2, <1>3

\* The replies: how long they are, and what tells them apart.
Padding(s, n) == s \o Zeros(n)

LEMMA Padded ==
    ASSUME NEW s \in Seq(Nat), NEW n \in Nat
    PROVE  /\ Padding(s, n) \in Seq(Nat)
           /\ Len(Padding(s, n)) = Len(s) + n
           /\ \A i \in 1..Len(s) : Padding(s, n)[i] = s[i]
<1>1. Zeros(n) \in Seq(Nat) /\ Len(Zeros(n)) = n
    BY DEF Zeros
<1>. QED
    BY <1>1 DEF Padding

LEMMA MethodBytes ==
    \A reply \in Methods \cup Logins :
        reply.bytes \in Seq(Nat) /\ Len(reply.bytes) = 2 /\ ~reply.opens
<1>1. ASSUME NEW reply \in Methods \cup Logins
      PROVE  \E a, b \in Nat : reply.opens = FALSE /\ reply.bytes = <<a, b>>
    BY <1>1 DEF Methods, Logins, Answers
<1>2. \A a, b \in Nat : <<a, b>> \in Seq(Nat) /\ Len(<<a, b>>) = 2
    OBVIOUS
<1>. QED
    BY <1>1, <1>2

\* The shapes of the replies to CONNECT and to a SOCKS request.
ConnectGranted(bytes) ==
    \A i \in 1..Len(bytes) : /\ i < Len(bytes) => bytes[i] # End
                             /\ i = Len(bytes) => bytes[i] = End
ConnectRefused(bytes) == bytes[1] # OK

SocksGranted(bytes) ==
    \/ bytes[4] = 1 /\ Len(bytes) = 10
    \/ bytes[4] = 4 /\ Len(bytes) = 22
    \/ bytes[4] = 3 /\ Len(bytes) >= 5 /\ Len(bytes) = 7 + bytes[5]
SocksRefused(bytes) == bytes[2] # 0 \/ bytes[4] \notin {1, 3, 4}

LEMMA StatusReplies ==
    \A reply \in Statuses :
        /\ reply.bytes \in Seq(Nat) /\ Len(reply.bytes) > 0 /\ Len(reply.bytes) \in Nat
        /\ reply.opens => ConnectGranted(reply.bytes)
        /\ ~reply.opens => ConnectRefused(reply.bytes)
<1>. DEFINE Opening == {<<200, 301>>, <<200, 300, 301>>, <<200, 300, 300, 300, 301>>}
            Refusing == {<<407, 301>>, <<300, 301>>}
<1>1. Statuses = Answers(TRUE, Opening) \cup Answers(FALSE, Refusing)
    BY DEF Statuses, OK, Denied, Field, End
<1>2. ASSUME NEW bytes, bytes \in Opening
      PROVE  /\ bytes \in Seq(Nat) /\ Len(bytes) > 0 /\ Len(bytes) \in Nat
             /\ ConnectGranted(bytes)
    <2>1. CASE bytes = <<200, 301>>
        BY <2>1 DEF ConnectGranted, End
    <2>2. CASE bytes = <<200, 300, 301>>
        BY <2>2 DEF ConnectGranted, End
    <2>3. CASE bytes = <<200, 300, 300, 300, 301>>
        BY <2>3 DEF ConnectGranted, End
    <2>. QED
        BY <1>2, <2>1, <2>2, <2>3
<1>3. ASSUME NEW bytes, bytes \in Refusing
      PROVE  /\ bytes \in Seq(Nat) /\ Len(bytes) > 0 /\ Len(bytes) \in Nat
             /\ ConnectRefused(bytes)
    <2>1. CASE bytes = <<407, 301>>
        BY <2>1 DEF ConnectRefused, OK
    <2>2. CASE bytes = <<300, 301>>
        BY <2>2 DEF ConnectRefused, OK
    <2>. QED
        BY <1>3, <2>1, <2>2
<1>. HIDE DEF Opening, Refusing
<1>. QED
    BY <1>1, <1>2, <1>3 DEF Answers

LEMMA SocksReplies ==
    \A reply \in Replies :
        /\ reply.bytes \in Seq(Nat) /\ Len(reply.bytes) >= 4 /\ Len(reply.bytes) \in Nat
        /\ reply.opens => SocksGranted(reply.bytes)
        /\ ~reply.opens => SocksRefused(reply.bytes)
<1>. DEFINE Opening == {<<5, 0, 0, 1>> \o Zeros(6), <<5, 0, 0, 4>> \o Zeros(18),
                        <<5, 0, 0, 3, 2>> \o Zeros(4), <<5, 0, 0, 3, 0>> \o Zeros(2)}
            Refusing == {<<5, 5, 0, 1>> \o Zeros(6), <<5, 0, 0, 9>>}
<1>1. Replies = Answers(TRUE, Opening) \cup Answers(FALSE, Refusing)
    BY DEF Replies
<1>2. ASSUME NEW bytes \in Opening
      PROVE  /\ bytes \in Seq(Nat) /\ Len(bytes) >= 4 /\ Len(bytes) \in Nat
             /\ SocksGranted(bytes)
    <2>1. CASE bytes = <<5, 0, 0, 1>> \o Zeros(6)
        <3>1. bytes \in Seq(Nat) /\ Len(bytes) = 10 /\ bytes[4] = 1
            <4>. DEFINE s == <<5, 0, 0, 1>>
            <4>1. bytes = Padding(s, 6)
                BY <2>1 DEF Padding
            <4>2. s \in Seq(Nat)
                OBVIOUS
            <4>3. Len(s) = 4 /\ s[4] = 1
                OBVIOUS
            <4>. HIDE DEF s
            <4>4. /\ bytes \in Seq(Nat) /\ Len(bytes) = Len(s) + 6
                  /\ \A i \in 1..Len(s) : bytes[i] = s[i]
                BY <4>1, <4>2, Padded
            <4>5. 4 \in 1..Len(s)
                BY <4>3
            <4>. QED
                BY <4>3, <4>4, <4>5
        <3>. QED
            BY <3>1 DEF SocksGranted
    <2>2. CASE bytes = <<5, 0, 0, 4>> \o Zeros(18)
        <3>1. bytes \in Seq(Nat) /\ Len(bytes) = 22 /\ bytes[4] = 4
            <4>. DEFINE s == <<5, 0, 0, 4>>
            <4>1. bytes = Padding(s, 18)
                BY <2>2 DEF Padding
            <4>2. s \in Seq(Nat)
                OBVIOUS
            <4>3. Len(s) = 4 /\ s[4] = 4
                OBVIOUS
            <4>. HIDE DEF s
            <4>4. /\ bytes \in Seq(Nat) /\ Len(bytes) = Len(s) + 18
                  /\ \A i \in 1..Len(s) : bytes[i] = s[i]
                BY <4>1, <4>2, Padded
            <4>5. 4 \in 1..Len(s)
                BY <4>3
            <4>. QED
                BY <4>3, <4>4, <4>5
        <3>. QED
            BY <3>1 DEF SocksGranted
    <2>3. ASSUME NEW n \in Nat, bytes = <<5, 0, 0, 3, n>> \o Zeros(n + 2)
          PROVE  /\ bytes \in Seq(Nat) /\ Len(bytes) = 7 + n
                 /\ bytes[4] = 3 /\ bytes[5] = n
        <3>. DEFINE s == <<5, 0, 0, 3, n>>
        <3>1. bytes = Padding(s, n + 2)
            BY <2>3 DEF Padding
        <3>2. s \in Seq(Nat)
            OBVIOUS
        <3>3. Len(s) = 5 /\ s[4] = 3 /\ s[5] = n
            OBVIOUS
        <3>4. n + 2 \in Nat
            OBVIOUS
        <3>. HIDE DEF s
        <3>5. /\ bytes \in Seq(Nat) /\ Len(bytes) = Len(s) + (n + 2)
              /\ \A i \in 1..Len(s) : bytes[i] = s[i]
            BY <3>1, <3>2, <3>4, Padded
        <3>6. 4 \in 1..Len(s) /\ 5 \in 1..Len(s)
            BY <3>3
        <3>. QED
            BY <3>3, <3>5, <3>6
    <2>4. CASE bytes = <<5, 0, 0, 3, 2>> \o Zeros(4)
        <3>1. 2 + 2 = 4
            OBVIOUS
        <3>2. /\ bytes \in Seq(Nat) /\ Len(bytes) = 7 + 2
              /\ bytes[4] = 3 /\ bytes[5] = 2
            BY <2>3, <2>4, <3>1
        <3>. QED
            BY <3>2 DEF SocksGranted
    <2>5. CASE bytes = <<5, 0, 0, 3, 0>> \o Zeros(2)
        <3>1. 0 + 2 = 2
            OBVIOUS
        <3>2. /\ bytes \in Seq(Nat) /\ Len(bytes) = 7 + 0
              /\ bytes[4] = 3 /\ bytes[5] = 0
            BY <2>3, <2>5, <3>1
        <3>. QED
            BY <3>2 DEF SocksGranted
    <2>. QED
        BY <2>1, <2>2, <2>4, <2>5
<1>3. ASSUME NEW bytes \in Refusing
      PROVE  /\ bytes \in Seq(Nat) /\ Len(bytes) >= 4 /\ Len(bytes) \in Nat
             /\ SocksRefused(bytes)
    <2>1. CASE bytes = <<5, 5, 0, 1>> \o Zeros(6)
        <3>1. bytes \in Seq(Nat) /\ Len(bytes) = 10 /\ bytes[2] = 5
            <4>. DEFINE s == <<5, 5, 0, 1>>
            <4>1. bytes = Padding(s, 6)
                BY <2>1 DEF Padding
            <4>2. s \in Seq(Nat)
                OBVIOUS
            <4>3. Len(s) = 4 /\ s[2] = 5
                OBVIOUS
            <4>. HIDE DEF s
            <4>4. /\ bytes \in Seq(Nat) /\ Len(bytes) = Len(s) + 6
                  /\ \A i \in 1..Len(s) : bytes[i] = s[i]
                BY <4>1, <4>2, Padded
            <4>5. 2 \in 1..Len(s)
                BY <4>3
            <4>. QED
                BY <4>3, <4>4, <4>5
        <3>. QED
            BY <3>1 DEF SocksRefused
    <2>2. CASE bytes = <<5, 0, 0, 9>>
        BY <2>2 DEF SocksRefused
    <2>. QED
        BY <2>1, <2>2
<1>. HIDE DEF Opening, Refusing
<1>. QED
    BY <1>1, <1>2, <1>3 DEF Answers

\* What a peer that opens the tunnel has sent, and one that refuses.
LEMMA CarriesOpened ==
    ASSUME HopOK, UNCHANGED <<chain, hop>>,
           NEW reply, reply.opens, Len(reply.bytes) \in Nat, Carries(reply)
    PROVE  Opened(Len(reply.bytes))'
<1>1. hop \in Nat /\ hop' = hop /\ level' = hop + 1 /\ Upstream' = Upstream
    BY ChainOf DEF Carries, Upstream
<1>2. level' # Upstream => Len(Pipe') <= Len(reply.bytes)
    BY DEF Carries
<1>. QED
    BY <1>1, <1>2 DEF Carries, Opened

LEMMA CarriesAlone ==
    ASSUME hop' = hop, NEW reply, ~reply.opens, Len(reply.bytes) \in Nat, Carries(reply)
    PROVE  Alone' /\ Len(Pipe') = Len(reply.bytes)
BY DEF Carries, Alone

LEMMA EmptyAlone ==
    ASSUME hop' = hop, level' = hop, Len(Pipe') = 0
    PROVE  Alone'
BY DEF Alone

LEMMA SaysPipe ==
    ASSUME ConversationInv, NEW from \in Writing, NEW to, NEW answers,
           \A reply \in answers : reply.bytes \in Seq(Nat),
           Says(from, to, answers)
    PROVE  /\ pc' = to /\ PipeType' /\ UNCHANGED <<chain, hop, header, rest>>
           /\ \/ level' = hop /\ Len(Pipe') = 0
              \/ \E reply \in answers : Carries(reply)
<1>1. /\ pc \in Writing /\ pc' = to /\ UNCHANGED <<chain, hop, header, rest>>
      /\ Answered(answers)
    BY DEF Says, Goes
<1>2. HopOK /\ PipeType /\ level = hop /\ Len(Pipe) = 0
    BY <1>1 DEF ConversationInv, TunnelInv
<1>. QED
    BY <1>1, <1>2, AnswerPipe DEF PipeType

LEMMA SocksSays ==
    ASSUME ConversationInv, HopOK', SocksGreeting \/ SocksLogin
    PROVE  ConversationInv'
<1>1. /\ pc' \in {"method", "loggedIn"} /\ PipeType' /\ hop' = hop
      /\ \/ level' = hop /\ Len(Pipe') = 0
         \/ \E reply \in Methods \cup Logins : Carries(reply)
    <2>1. CASE SocksGreeting
        BY <2>1, SaysPipe, MethodBytes DEF SocksGreeting, Writing
    <2>2. CASE SocksLogin
        BY <2>2, SaysPipe, MethodBytes DEF SocksLogin, Writing
    <2>. QED
        BY <2>1, <2>2
<1>2. Alone' /\ Len(Pipe') <= 2
    <2>1. CASE level' = hop /\ Len(Pipe') = 0
        BY <1>1, <2>1, EmptyAlone
    <2>2. ASSUME NEW reply \in Methods \cup Logins, Carries(reply)
          PROVE  Alone' /\ Len(Pipe') <= 2
        <3>1. Len(reply.bytes) = 2 /\ Len(reply.bytes) \in Nat /\ ~reply.opens
            BY MethodBytes
        <3>. QED
            <4>1. Alone' /\ Len(Pipe') = Len(reply.bytes)
                BY <1>1, <2>2, <3>1, CarriesAlone
            <4>. QED
                BY <3>1, <4>1
    <2>. QED
        BY <1>1, <2>1, <2>2
<1>. QED
    BY <1>1, <1>2 DEF ConversationInv, TunnelInv, Writing

LEMMA SocksRequests ==
    ASSUME ConversationInv, HopOK', SocksRequest
    PROVE  ConversationInv'
<1>1. /\ pc' = "reply" /\ PipeType' /\ UNCHANGED <<chain, hop>>
      /\ \/ level' = hop /\ Len(Pipe') = 0
         \/ \E reply \in Replies : Carries(reply)
    BY SaysPipe, SocksReplies DEF SocksRequest, Writing
<1>2. ReplyRefused' \/ \E k \in Nat : ReplyOpened(k)'
    <2>1. CASE level' = hop /\ Len(Pipe') = 0
        BY <1>1, <2>1, EmptyAlone DEF ReplyRefused
    <2>2. ASSUME NEW reply \in Replies, Carries(reply), reply.opens
          PROVE  ReplyOpened(Len(reply.bytes))' /\ Len(reply.bytes) \in Nat
        <3>1. Len(reply.bytes) \in Nat /\ Len(reply.bytes) >= 4
            BY SocksReplies
        <3>2. Opened(Len(reply.bytes))'
            BY <1>1, <2>2, <3>1, CarriesOpened DEF ConversationInv
        <3>3. \A i \in 1..Len(reply.bytes) : Pipe'[i].byte = reply.bytes[i]
            BY <2>2 DEF Carries
        <3>. QED
            BY <2>2, <3>1, <3>2, <3>3, SocksReplies DEF ReplyOpened, SocksGranted
    <2>3. ASSUME NEW reply \in Replies, Carries(reply), ~reply.opens
          PROVE  ReplyRefused'
        <3>1. Len(reply.bytes) \in Nat /\ Len(reply.bytes) >= 4
            BY SocksReplies
        <3>2. Alone'
            BY <1>1, <2>3, <3>1, CarriesAlone
        <3>3. \A i \in 1..Len(reply.bytes) : Pipe'[i].byte = reply.bytes[i]
            BY <2>3 DEF Carries
        <3>. QED
            BY <2>3, <3>1, <3>2, <3>3, SocksReplies DEF ReplyRefused, SocksRefused
    <2>. QED
        BY <1>1, <2>1, <2>2, <2>3
<1>. QED
    BY <1>1, <1>2 DEF ConversationInv, TunnelInv, Writing

LEMMA ConnectSays ==
    ASSUME ConversationInv, HopOK', ConnectRequest
    PROVE  ConversationInv'
<1>1. /\ pc = "connect" /\ pc' = "status" /\ PipeType' /\ UNCHANGED <<chain, hop, header>>
      /\ \/ level' = hop /\ Len(Pipe') = 0
         \/ \E reply \in Statuses : Carries(reply)
    BY SaysPipe, StatusReplies DEF ConnectRequest, Writing, Says
<1>2. header' = <<>>
    BY <1>1 DEF ConversationInv, TunnelInv
<1>3. StatusRefused' \/ \E k \in Nat : StatusOpened(k)'
    <2>1. CASE level' = hop /\ Len(Pipe') = 0
        BY <1>1, <1>2, <2>1, EmptyAlone DEF StatusRefused
    <2>2. ASSUME NEW reply \in Statuses, Carries(reply), reply.opens
          PROVE  StatusOpened(Len(reply.bytes))' /\ Len(reply.bytes) \in Nat
        <3>1. Len(reply.bytes) \in Nat /\ Len(reply.bytes) > 0
            BY StatusReplies
        <3>2. Opened(Len(reply.bytes))'
            BY <1>1, <2>2, <3>1, CarriesOpened DEF ConversationInv
        <3>3. \A i \in 1..Len(reply.bytes) : Pipe'[i].byte = reply.bytes[i]
            BY <2>2 DEF Carries
        <3>. QED
            BY <2>2, <3>1, <3>2, <3>3, StatusReplies DEF StatusOpened, ConnectGranted
    <2>3. ASSUME NEW reply \in Statuses, Carries(reply), ~reply.opens
          PROVE  StatusRefused'
        <3>1. Len(reply.bytes) \in Nat /\ Len(reply.bytes) > 0
            BY StatusReplies
        <3>2. Alone'
            BY <1>1, <2>3, <3>1, CarriesAlone
        <3>3. \A i \in 1..Len(reply.bytes) : Pipe'[i].byte = reply.bytes[i]
            BY <2>3 DEF Carries
        <3>. QED
            BY <1>2, <2>3, <3>1, <3>2, <3>3, StatusReplies DEF StatusRefused, ConnectRefused
    <2>. QED
        BY <1>1, <2>1, <2>2, <2>3
<1>. QED
    BY <1>1, <1>2, <1>3 DEF ConversationInv, TunnelInv, Writing

-----------------------------------------------------------------------------
(* Reads. *)

LEMMA TakesKeeps ==
    ASSUME PipeType, NEW n \in Nat, Takes(n), UNCHANGED hop
    PROVE  /\ Alone => Alone'
           /\ \A k \in Nat : Opened(k) /\ n <= k => Opened(k - n)'
<1>1. /\ level' = level /\ hop' = hop /\ Upstream' = Upstream
      /\ Len(Pipe) \in Nat /\ Len(Pipe') \in Nat
      /\ Len(Pipe') = Len(Pipe) - n
      /\ \A i \in 1..Len(Pipe') : Pipe'[i] = Pipe[i + n]
    BY TakesPipe, PipeBytes DEF Upstream
<1>2. \A i \in 1..Len(Pipe') : i + n \in 1..Len(Pipe)
    BY <1>1
<1>3. Alone => Alone'
    BY <1>1, <1>2 DEF Alone
<1>4. ASSUME NEW k \in Nat, Opened(k), n <= k
      PROVE  Opened(k - n)'
    <2>1. ASSUME NEW i \in 1..Len(Pipe')
          PROVE  Pipe'[i].by = IF i <= k - n THEN hop ELSE hop + 1
        <3>1. Pipe[i + n].by = IF i + n <= k THEN hop ELSE hop + 1
            BY <1>2, <1>4 DEF Opened
        <3>. QED
            BY <1>1, <3>1
    <2>2. level' # Upstream => Len(Pipe') <= k - n
        BY <1>1, <1>4 DEF Opened
    <2>. QED
        BY <1>1, <1>4, <2>1, <2>2 DEF Opened
<1>. QED
    BY <1>3, <1>4

\* The last byte of the reply is read: what is left is upstream's.
LEMMA TunnelIsLeftClean ==
    ASSUME ConversationInv, HopOK', PipeType', pc \in Handshaking,
           NEW k \in Nat, Takes(k), Opened(k), TunnelOpens
    PROVE  ConversationInv'
<1>1. /\ HopOK /\ PipeType /\ hop < Upstream /\ hop \in Nat /\ Upstream \in Nat
      /\ hop' = hop + 1 /\ header' = <<>> /\ chain' = chain /\ Upstream' = Upstream
    BY ChainOf DEF ConversationInv, HopOK, TunnelOpens, Takes, Upstream
<1>2. /\ level' = hop' /\ Len(Pipe) \in Nat
      /\ Len(Pipe') = Len(Pipe) - k
      /\ \A i \in 1..Len(Pipe') : Pipe'[i].by = hop'
    <2>1. /\ level' = level /\ Len(Pipe') = Len(Pipe) - k /\ k <= Len(Pipe)
          /\ Len(Pipe) \in Nat
          /\ \A i \in 1..Len(Pipe') : Pipe'[i] = Pipe[i + k]
        BY <1>1, TakesPipe, PipeBytes
    <2>2. ASSUME NEW i \in 1..Len(Pipe')
          PROVE  Pipe'[i].by = hop'
        <3>1. i + k \in 1..Len(Pipe) /\ ~(i + k <= k)
            BY <2>1
        <3>. QED
            BY <1>1, <2>1, <3>1 DEF Opened
    <2>. QED
        BY <1>1, <2>1, <2>2 DEF Opened
<1>3. CASE hop' = Upstream
    <2>1. pc' = "handOver"
        BY <1>1, <1>3 DEF TunnelOpens
    <2>2. Alone'
        BY <1>2 DEF Alone
    <2>. QED
        BY <1>1, <2>1, <2>2 DEF ConversationInv, TunnelInv, Writing
<1>4. CASE hop' # Upstream
    <2>1. pc' \in {"greet", "tls", "connect"}
        <3>1. hop' \in 1..Len(chain)
            BY <1>1, <1>4, ChainOf
        <3>2. chain[hop'] \in Proxies
            BY <1>1, <3>1, ChainOf
        <3>3. chain[hop'].scheme \in {"http", "https", "socks5"}
            BY <3>2 DEF Proxies
        <3>4. pc' = FirstStep(chain[hop'])
            BY <1>1, <1>4 DEF TunnelOpens
        <3>. QED
            BY <3>3, <3>4 DEF FirstStep
    <2>2. Len(Pipe') = 0
        BY <1>1, <1>2, <1>4 DEF Opened
    <2>. QED
        BY <1>1, <1>2, <2>1, <2>2 DEF ConversationInv, TunnelInv, Writing
<1>. QED
    BY <1>3, <1>4

LEMMA TakesFails ==
    ASSUME ConversationInv, NEW n \in Nat, Takes(n), Fails
    PROVE  ConversationInv'
BY TakesPipe, FailsQuietly DEF ConversationInv

\* After a reply of two bytes nothing is left.
LEMMA TwoBytes ==
    ASSUME ConversationInv, HopOK', pc \in {"method", "loggedIn"}, Takes(2),
           Goes("login") \/ Goes("request") \/ Fails
    PROVE  ConversationInv'
<1>1. CASE Fails
    BY <1>1, TakesFails
<1>2. CASE Goes("login") \/ Goes("request")
    <2>1. /\ pc' \in {"login", "request"} /\ UNCHANGED <<hop, rest, header>>
        BY <1>2 DEF Goes
    <2>2. Alone /\ Len(Pipe) <= 2 /\ PipeType
        BY DEF ConversationInv, TunnelInv
    <2>3. /\ level' = level /\ inbox' \in Seq(Octets) /\ sent' \in Seq(Octets)
          /\ 2 <= Len(Pipe) /\ Len(Pipe') = Len(Pipe) - 2 /\ Len(Pipe) \in Nat
        BY <2>2, TakesPipe, PipeBytes
    <2>4. Len(Pipe') = 0 /\ level' = hop'
        BY <2>1, <2>2, <2>3 DEF Alone
    <2>5. PipeType'
        BY <2>1, <2>2, <2>3 DEF PipeType
    <2>. QED
        BY <2>1, <2>4, <2>5 DEF ConversationInv, TunnelInv, Writing
<1>. QED
    BY <1>1, <1>2

LEMMA ReplyReads ==
    ASSUME ConversationInv, HopOK', SocksReply
    PROVE  ConversationInv'
<1>1. pc = "reply" /\ Takes(4) /\ PipeType /\ (ReplyRefused \/ \E k \in Nat : ReplyOpened(k))
    BY DEF SocksReply, ConversationInv, TunnelInv
<1>2. /\ inbox' \in Seq(Octets) /\ sent' \in Seq(Octets) /\ Len(Pipe) \in Nat
      /\ Len(Pipe) >= 4 /\ Len(Pipe') = Len(Pipe) - 4
      /\ \A i \in 1..Len(Pipe') : Pipe'[i] = Pipe[i + 4]
      /\ \A i \in 1..4 : Bytes(4)[i] = Pipe[i].byte
    BY <1>1, TakesPipe, PipeBytes
<1>3. Bytes(4)[2] = Pipe[2].byte /\ Bytes(4)[4] = Pipe[4].byte
    BY <1>2
<1>4. CASE Fails
    BY <1>1, <1>4, TakesFails
<1>5. CASE ~Fails
    <2>1. /\ Pipe[2].byte = 0
          /\ \/ Pipe[4].byte = 1 /\ Address(4)
             \/ Pipe[4].byte = 4 /\ Address(16)
             \/ Pipe[4].byte = 3 /\ Goes("length")
        BY <1>3, <1>5 DEF SocksReply
    <2>2. ~ReplyRefused
        BY <1>2, <2>1 DEF ReplyRefused
    <2>3. PICK k \in Nat : ReplyOpened(k)
        BY <1>1, <2>2
    <2>4. hop' = hop /\ header' = header /\ k >= 4
        BY <2>1, <2>3 DEF Address, Goes, ReplyOpened
    <2>5. Opened(k - 4)' /\ k - 4 \in Nat
        BY <1>1, <2>3, <2>4, TakesKeeps DEF ReplyOpened
    <2>6. CASE Pipe[4].byte = 1 /\ Address(4)
        <3>1. pc' = "address" /\ rest' = 6 /\ k = 10
            BY <1>2, <2>3, <2>6 DEF Address, AddressBytes, ReplyOpened
        <3>2. Opened(rest)'
            BY <2>5, <3>1
        <3>. QED
            BY <1>1, <1>2, <2>4, <3>1, <3>2 DEF ConversationInv, TunnelInv, PipeType, Takes, Writing
    <2>7. CASE Pipe[4].byte = 4 /\ Address(16)
        <3>1. pc' = "address" /\ rest' = 18 /\ k = 22
            BY <1>2, <2>3, <2>7 DEF Address, AddressBytes, ReplyOpened
        <3>2. Opened(rest)'
            BY <2>5, <3>1
        <3>. QED
            BY <1>1, <1>2, <2>4, <3>1, <3>2 DEF ConversationInv, TunnelInv, PipeType, Takes, Writing
    <2>8. CASE Pipe[4].byte = 3 /\ Goes("length")
        <3>1. pc' = "length" /\ rest' = rest /\ k >= 5
            BY <1>2, <2>3, <2>8 DEF Goes, ReplyOpened
        <3>2. Len(Pipe') >= 1 => k - 4 = 3 + Pipe'[1].byte
            <4>1. SUFFICES ASSUME Len(Pipe') >= 1
                           PROVE  k - 4 = 3 + Pipe'[1].byte
                OBVIOUS
            <4>2. k = 7 + Pipe[5].byte /\ Pipe'[1] = Pipe[5] /\ 5 \in 1..Len(Pipe)
                BY <1>2, <2>3, <2>8, <4>1 DEF ReplyOpened
            <4>3. Pipe[5].byte \in Nat
                BY <1>1, <4>2, PipeBytes
            <4>. QED
                BY <4>2, <4>3
        <3>3. LengthOpened(k - 4)'
            BY <2>5, <3>1, <3>2 DEF LengthOpened
        <3>. QED
            BY <1>1, <1>2, <2>4, <2>5, <3>1, <3>3
               DEF ConversationInv, TunnelInv, PipeType, Takes, Writing
    <2>. QED
        BY <2>1, <2>6, <2>7, <2>8
<1>. QED
    BY <1>4, <1>5

LEMMA LengthReads ==
    ASSUME ConversationInv, HopOK', SocksLength
    PROVE  ConversationInv'
<1>1. pc = "length" /\ Takes(1) /\ PipeType /\ Address(Bytes(1)[1])
    BY DEF SocksLength, ConversationInv
<1>2. PICK k \in Nat : LengthOpened(k)
    BY <1>1 DEF ConversationInv, TunnelInv
<1>3. /\ inbox' \in Seq(Octets) /\ sent' \in Seq(Octets)
      /\ Len(Pipe) \in Nat /\ Len(Pipe) >= 1 /\ Bytes(1)[1] = Pipe[1].byte
    BY <1>1, TakesPipe, PipeBytes
<1>4. Pipe[1].byte \in Nat
    BY <1>1, <1>3, PipeBytes
<1>5. /\ pc' = "address" /\ UNCHANGED <<hop, header>>
      /\ rest' = k - 1 /\ k >= 1 /\ rest' \in Nat
    BY <1>1, <1>2, <1>3, <1>4 DEF Address, AddressBytes, LengthOpened
<1>6. Opened(k - 1)'
    BY <1>1, <1>2, <1>5, TakesKeeps DEF LengthOpened
<1>7. Opened(rest)'
    BY <1>5, <1>6
<1>. QED
    BY <1>1, <1>3, <1>5, <1>7 DEF ConversationInv, TunnelInv, PipeType, Writing, Takes

LEMMA AddressReads ==
    ASSUME ConversationInv, HopOK', SocksAddress
    PROVE  ConversationInv'
<1>1. /\ pc = "address" /\ Takes(rest) /\ TunnelOpens /\ PipeType
      /\ rest \in Nat /\ Opened(rest) /\ pc \in Handshaking
    BY DEF SocksAddress, ConversationInv, TunnelInv, PipeType, Handshaking, Reading
<1>2. PipeType'
    <2>1. inbox' \in Seq(Octets) /\ sent' \in Seq(Octets) /\ level' = level
        BY <1>1, TakesPipe
    <2>2. header' = <<>> /\ rest' = 0
        BY <1>1 DEF TunnelOpens
    <2>. QED
        BY <1>1, <2>1, <2>2 DEF PipeType
<1>. QED
    BY <1>1, <1>2, TunnelIsLeftClean

LEMMA StatusReads ==
    ASSUME ConversationInv, HopOK', ConnectStatus
    PROVE  ConversationInv'
<1>. DEFINE response == header \o Bytes(1)
<1>1. /\ pc = "status" /\ Takes(1) /\ PipeType /\ pc \in Handshaking
      /\ StatusRefused \/ \E k \in Nat : StatusOpened(k)
    BY DEF ConnectStatus, StatusBytes, ConversationInv, TunnelInv, Handshaking, Reading
<1>2. /\ inbox' \in Seq(Octets) /\ sent' \in Seq(Octets) /\ level' = level
      /\ Len(Pipe) \in Nat /\ Len(Pipe) >= 1 /\ Len(Pipe') = Len(Pipe) - 1
      /\ \A i \in 1..Len(Pipe') : Pipe'[i] = Pipe[i + 1]
      /\ Bytes(1)[1] = Pipe[1].byte /\ Pipe[1].byte \in Nat
    BY <1>1, TakesPipe, PipeBytes
<1>3. Bytes(1) \in Seq(Nat) /\ Len(Bytes(1)) = 1
    <2>1. Bytes(1) = [i \in 1..1 |-> Pipe[1].byte]
        BY <1>2 DEF Bytes
    <2>2. ASSUME NEW b \in Nat
          PROVE  [i \in 1..1 |-> b] \in Seq(Nat) /\ Len([i \in 1..1 |-> b]) = 1
        OBVIOUS
    <2>. QED
        BY <1>2, <2>1, <2>2
<1>4. /\ response \in Seq(Nat) /\ response # <<>>
      /\ Last(response) = Pipe[1].byte
      /\ response[1] = IF header = <<>> THEN Pipe[1].byte ELSE header[1]
    BY <1>1, <1>2, <1>3 DEF PipeType, Last
<1>5. \/ /\ Last(response) # End
         /\ header' = response /\ UNCHANGED <<pc, hop, rest>>
      \/ Last(response) = End /\ Accepts(response) /\ TunnelOpens
      \/ Fails
    BY DEF ConnectStatus, StatusBytes
<1>. HIDE DEF response
<1>6. CASE Fails
    BY <1>1, <1>6, TakesFails
<1>7. CASE Last(response) # End /\ header' = response /\ UNCHANGED <<pc, hop, rest>>
    <2>1. PipeType'
        BY <1>1, <1>2, <1>4, <1>7 DEF PipeType
    <2>2. StatusRefused => StatusRefused'
        <3>1. SUFFICES ASSUME StatusRefused PROVE StatusRefused'
            OBVIOUS
        <3>2. header'[1] # OK
            BY <1>2, <1>4, <1>7, <3>1 DEF StatusRefused
        <3>3. Alone'
            BY <1>1, <1>7, <3>1, TakesKeeps DEF StatusRefused
        <3>. QED
            BY <1>4, <1>7, <3>2, <3>3 DEF StatusRefused
    <2>3. ASSUME NEW k \in Nat, StatusOpened(k)
          PROVE  StatusOpened(k - 1)' /\ k - 1 \in Nat
        <3>1. k # 1 /\ k > 0
            BY <1>2, <1>4, <1>7, <2>3 DEF StatusOpened
        <3>2. Opened(k - 1)'
            BY <1>1, <1>7, <2>3, <3>1, TakesKeeps DEF StatusOpened
        <3>3. ASSUME NEW i \in 1..Len(Pipe')
              PROVE  /\ i < k - 1 => Pipe'[i].byte # End
                     /\ i = k - 1 => Pipe'[i].byte = End
            <4>1. i + 1 \in 1..Len(Pipe) /\ Pipe'[i] = Pipe[i + 1]
                BY <1>2
            <4>2. /\ i + 1 < k => Pipe[i + 1].byte # End
                  /\ i + 1 = k => Pipe[i + 1].byte = End
                BY <2>3, <4>1 DEF StatusOpened
            <4>. QED
                BY <3>1, <4>1, <4>2
        <3>. QED
            BY <3>1, <3>2, <3>3 DEF StatusOpened
    <2>4. StatusRefused' \/ \E k \in Nat : StatusOpened(k)'
        BY <1>1, <2>2, <2>3
    <2>. QED
        BY <1>1, <1>7, <2>1, <2>4 DEF ConversationInv, TunnelInv, Writing
<1>8. CASE Last(response) = End /\ Accepts(response) /\ TunnelOpens
    <2>1. ~StatusRefused
        BY <1>2, <1>4, <1>8 DEF StatusRefused, Accepts
    <2>2. PICK k \in Nat : StatusOpened(k)
        BY <1>1, <2>1
    <2>3. k = 1
        <3>1. Pipe[1].byte = End /\ 1 \in 1..Len(Pipe)
            BY <1>2, <1>4, <1>8
        <3>2. k > 0 /\ (1 < k => Pipe[1].byte # End)
            BY <2>2, <3>1 DEF StatusOpened
        <3>. QED
            BY <3>1, <3>2
    <2>4. PipeType'
        <3>1. header' = <<>> /\ rest' = 0
            BY <1>8 DEF TunnelOpens
        <3>. QED
            BY <1>1, <1>2, <3>1 DEF PipeType
    <2>5. Opened(1)
        BY <2>2, <2>3 DEF StatusOpened
    <2>. QED
        BY <1>1, <1>8, <2>4, <2>5, TunnelIsLeftClean
<1>. QED
    BY <1>5, <1>6, <1>7, <1>8

-----------------------------------------------------------------------------
(* The rest of a dial and of a fetch. *)

LEMMA DialKeeps ==
    ASSUME ConversationInv, HopOK', DialConnects
    PROVE  ConversationInv'
<1>1. /\ hop = 1 /\ Len(Pipe) = 0 /\ header = <<>> /\ PipeType /\ HopOK /\ hop < Upstream
      /\ pc' = FirstStep(chain[1]) /\ level' = 1
      /\ UNCHANGED <<chain, hop, rest, header, sent, inbox>>
    BY DEF DialConnects, ConversationInv, TunnelInv, HopOK
<1>2. pc' \in {"greet", "tls", "connect"}
    <2>1. chain[1] \in Proxies
        BY <1>1, ChainOf
    <2>2. chain[1].scheme \in {"http", "https", "socks5"}
        BY <2>1 DEF Proxies
    <2>. QED
        BY <1>1, <2>2 DEF FirstStep
<1>3. PipeType' /\ Len(Pipe') = 0
    BY <1>1 DEF PipeType, Pipe
<1>. QED
    BY <1>1, <1>2, <1>3 DEF ConversationInv, TunnelInv, Writing

LEMMA UntouchedKeeps ==
    ASSUME ConversationInv, HopOK', UNCHANGED <<hop, rest, header, connection>>
    PROVE  /\ pc' \in {"failed", "body", "over"} => ConversationInv'
           /\ pc = "tls" /\ pc' = "connect" => ConversationInv'
           /\ pc = "handOver" /\ pc' = "open" => ConversationInv'
<1>1. PipeType' /\ Pipe' = Pipe /\ level' = level /\ hop' = hop
    BY DEF ConversationInv, PipeType, Pipe, connection
<1>2. pc' \in {"failed", "body", "over"} => ConversationInv'
    BY <1>1, SilentKeeps
<1>3. pc = "tls" /\ pc' = "connect" => ConversationInv'
    BY <1>1 DEF ConversationInv, TunnelInv, Writing
<1>4. pc = "handOver" /\ pc' = "open" => ConversationInv'
    BY <1>1 DEF ConversationInv, TunnelInv, Alone, Writing
<1>. QED
    BY <1>2, <1>3, <1>4

LEMMA TransportConverses ==
    ASSUME ConversationInv, HopOK', TransportStep
    PROVE  ConversationInv'
<1>1. CASE DialFails \/ HandshakeBreaks
    <2>1. pc' = "failed" /\ UNCHANGED <<hop, rest, header, connection>>
        BY <1>1 DEF DialFails, HandshakeBreaks, Fails
    <2>. QED
        BY <2>1, UntouchedKeeps
<1>2. CASE HandOver
    BY <1>2, UntouchedKeeps DEF HandOver
<1>3. CASE TLSHandshake
    BY <1>3, UntouchedKeeps DEF TLSHandshake, Goes, Fails
<1>4. CASE SocksMethod
    <2>1. pc = "method" /\ Takes(2) /\ (Goes("login") \/ Goes("request") \/ Fails)
        BY <1>4 DEF SocksMethod
    <2>. QED
        BY <2>1, TwoBytes
<1>5. CASE SocksLoggedIn
    BY <1>5, TwoBytes DEF SocksLoggedIn
<1>6. CASE Deliver \/ PeerHangsUp \/ ContextEnds \/ AfterFunc
    BY <1>6, QuietKeeps
<1>. QED
    BY <1>1, <1>2, <1>3, <1>4, <1>5, <1>6, DialKeeps, SocksSays, SocksRequests, ConnectSays,
       StatusReads, ReplyReads, LengthReads, AddressReads
       DEF TransportStep, DialerStep, NetworkStep, SocksStep

LEMMA FetchConverses ==
    ASSUME ConversationInv, HopOK', FetchStep
    PROVE  ConversationInv'
<1>1. ASSUME NEW result, Returns(result)
      PROVE  ConversationInv'
    BY <1>1, UntouchedKeeps DEF Returns
<1>2. ASSUME NEW completed, Judged(completed)
      PROVE  ConversationInv'
    BY <1>1, <1>2 DEF Judged
<1>3. ASSUME UNCHANGED transportVars
      PROVE  ConversationInv'
    <2>1. PipeType' /\ Pipe' = Pipe /\ UNCHANGED <<chain, dialer, level>>
        BY <1>3 DEF ConversationInv, PipeType, Pipe, connection, transportVars, dialer
    <2>2. Len(Pipe) \in Nat
        BY PipeBytes DEF ConversationInv
    <2>. QED
        BY <2>1, <2>2, ShorterKeeps
<1>4. CASE Respond
    <2>1. CASE Returns("network_error") \/ Returns("upstream_http")
        BY <2>1, <1>1
    <2>2. CASE pc' = "body" /\ UNCHANGED <<hop, rest, header, connection>>
        BY <2>2, UntouchedKeeps
    <2>. QED
        BY <1>4, <2>1, <2>2 DEF Respond
<1>5. CASE ReadLine
    BY <1>2, <1>3, <1>5 DEF ReadLine
<1>6. CASE BodyEnds \/ BodyBreaks
    BY <1>2, <1>6 DEF BodyEnds, BodyBreaks
<1>7. CASE DialReturns
    BY <1>3, <1>7 DEF DialReturns
<1>8. CASE Unwanted
    BY <1>8, UntouchedKeeps DEF Unwanted
<1>. QED
    BY <1>4, <1>5, <1>6, <1>7, <1>8 DEF FetchStep

LEMMA ConversationHolds ==
    /\ Init => ConversationInv
    /\ ConversationInv /\ [Next]_vars => ConversationInv'
<1>1. ASSUME Init
      PROVE  ConversationInv
    <2>1. /\ chain \in Chains /\ hop = 1 /\ pc = "dial" /\ rest = 0 /\ header = <<>>
          /\ level = 0 /\ sent = <<>> /\ inbox = <<>>
        BY <1>1 DEF Init, TransportInit
    <2>2. Len(chain) \in 1..2
        BY <2>1, TransportAssumption
    <2>3. HopOK
        BY <2>1, <2>2 DEF HopOK, Upstream
    <2>4. PipeType /\ Len(Pipe) = 0
        BY <2>1 DEF PipeType, Pipe
    <2>5. TunnelInv
        BY <2>1, <2>4 DEF TunnelInv, Writing
    <2>. QED
        BY <2>3, <2>4, <2>5 DEF ConversationInv
<1>2. ASSUME ConversationInv, [Next]_vars
      PROVE  ConversationInv'
    <2>1. HopOK'
        BY <1>2, TransportKeeps, FetchStepKeeps, StaysPut
           DEF ConversationInv, Next, vars, transportVars, guard
    <2>2. CASE UNCHANGED vars
        <3>1. PipeType' /\ Pipe' = Pipe /\ UNCHANGED <<chain, dialer, level>>
            BY <1>2, <2>2 DEF ConversationInv, PipeType, Pipe, connection, transportVars,
                              dialer, vars
        <3>2. Len(Pipe) \in Nat
            BY <1>2, PipeBytes DEF ConversationInv
        <3>. QED
            BY <1>2, <2>1, <3>1, <3>2, ShorterKeeps
    <2>. QED
        BY <1>2, <2>1, <2>2, TransportConverses, FetchConverses
           DEF Next
<1>. QED
    BY <1>1, <1>2

\* However the network cuts what proxies and upstream say, and however
\* early upstream speaks: a message goes to the peer that is there, and
\* nothing an earlier peer has said is left for the next one, for every
\* chain of proxies and limit of a response.
THEOREM TunnelsAreClean == Spec => []TunnelIsClean
<1>1. ConversationInv => TunnelIsClean
    <2>1. SUFFICES ASSUME ConversationInv,
                          pc \in Writing \cup {"tls", "handOver", "open"}
                   PROVE  level = hop /\ \A i \in DOMAIN Pipe : Pipe[i].by = hop
        BY DEF TunnelIsClean, Pipe
    <2>2. PipeType /\ TunnelInv
        BY <2>1 DEF ConversationInv
    <2>3. DOMAIN Pipe = 1..Len(Pipe)
        BY <2>2, PipeBytes
    <2>. QED
        BY <2>1, <2>2, <2>3 DEF TunnelInv, Alone
<1>. QED
    BY <1>1, ConversationHolds, PTL DEF Spec

LEMMA ReadsHop ==
    ASSUME ConversationInv, NEW n \in Nat, Takes(n),
           Alone \/ \E k \in Nat : n <= k /\ Opened(k)
    PROVE  \A i \in 1..(Len(inbox) - Len(inbox')) : inbox[i].by = hop
<1>1. PipeType
    BY DEF ConversationInv
<1>2. Len(inbox') = Len(inbox) - n /\ n <= Len(inbox) /\ Len(inbox) \in Nat
    BY <1>1 DEF Takes, PipeType
<1>3. ASSUME NEW i \in 1..n
      PROVE  inbox[i].by = hop
    <2>1. i \in 1..Len(Pipe) /\ Pipe[i] = inbox[i]
        BY <1>1, <1>2, PipeBytes
    <2>. QED
        BY <2>1 DEF Alone, Opened
<1>4. Len(inbox) - Len(inbox') = n
    BY <1>2
<1>. QED
    BY <1>3, <1>4

LEMMA ReadsNothing ==
    ASSUME ConversationInv, inbox' = inbox
    PROVE  \A i \in 1..(Len(inbox) - Len(inbox')) : inbox[i].by = hop
<1>1. Len(inbox) \in Nat
    BY PipeBytes DEF ConversationInv
<1>. QED
    BY <1>1

\* No read of a handshake takes a byte of another peer than the one it
\* speaks to, for every chain of proxies and limit of a response.
THEOREM ReadsAreOfOnePeer == Spec => ReadsOnePeer
<1>. DEFINE OfHop == \A i \in 1..(Len(inbox) - Len(inbox')) : inbox[i].by = hop
<1>1. ASSUME ConversationInv, [Next]_vars
      PROVE  OfHop
    <2>1. PipeType
        BY <1>1 DEF ConversationInv
    <2>2. CASE inbox' = inbox
        BY <1>1, <2>2, ReadsNothing
    <2>3. CASE Deliver
        <3>1. Len(inbox') = Len(inbox) + 1 /\ Len(inbox) \in Nat
            BY <2>1, <2>3 DEF Deliver, PipeType
        <3>. QED
            BY <3>1
    <2>4. CASE SocksMethod \/ SocksLoggedIn
        <3>1. Takes(2) /\ Alone
            BY <1>1, <2>4 DEF SocksMethod, SocksLoggedIn, ConversationInv, TunnelInv
        <3>. QED
            BY <1>1, <3>1, ReadsHop
    <2>5. CASE ConnectStatus
        <3>1. Takes(1) /\ (StatusRefused \/ \E k \in Nat : StatusOpened(k))
            BY <1>1, <2>5 DEF ConnectStatus, StatusBytes, ConversationInv, TunnelInv
        <3>2. Alone \/ \E k \in Nat : 1 <= k /\ Opened(k)
            BY <3>1 DEF StatusRefused, StatusOpened
        <3>. QED
            BY <1>1, <3>1, <3>2, ReadsHop
    <2>6. CASE SocksReply
        <3>1. Takes(4) /\ (ReplyRefused \/ \E k \in Nat : ReplyOpened(k))
            BY <1>1, <2>6 DEF SocksReply, ConversationInv, TunnelInv
        <3>2. Alone \/ \E k \in Nat : 4 <= k /\ Opened(k)
            BY <3>1 DEF ReplyRefused, ReplyOpened
        <3>. QED
            BY <1>1, <3>1, <3>2, ReadsHop
    <2>7. CASE SocksLength
        <3>1. Takes(1) /\ \E k \in Nat : LengthOpened(k)
            BY <1>1, <2>7 DEF SocksLength, ConversationInv, TunnelInv
        <3>2. \E k \in Nat : 1 <= k /\ Opened(k)
            BY <3>1 DEF LengthOpened
        <3>. QED
            BY <1>1, <3>1, <3>2, ReadsHop
    <2>8. CASE SocksAddress
        <3>1. Takes(rest) /\ Opened(rest) /\ rest \in Nat /\ rest <= rest
            BY <1>1, <2>1, <2>8 DEF SocksAddress, ConversationInv, TunnelInv, PipeType
        <3>. QED
            BY <1>1, <3>1, ReadsHop
    <2>9. \/ inbox' = inbox \/ Deliver \/ SocksMethod \/ SocksLoggedIn \/ ConnectStatus
          \/ SocksReply \/ SocksLength \/ SocksAddress
        <3>1. ASSUME NEW answers, Answered(answers)
              PROVE  inbox' = inbox
            BY <3>1 DEF Answered, connection
        <3>2. CASE FetchStep
            BY <3>2 DEF FetchStep, Respond, ReadLine, BodyEnds, BodyBreaks, DialReturns,
                        Unwanted, Judged, Returns, connection, transportVars
        <3>3. CASE TransportStep
            BY <3>1, <3>3 DEF TransportStep, DialerStep, NetworkStep, SocksStep, Says,
                              SocksGreeting, SocksLogin, SocksRequest, ConnectRequest,
                              DialConnects, DialFails, HandshakeBreaks, HandOver,
                              TLSHandshake, PeerHangsUp, AfterFunc, ContextEnds, connection
        <3>4. CASE UNCHANGED vars
            BY <3>4 DEF vars, transportVars, connection
        <3>. QED
            BY <1>1, <3>2, <3>3, <3>4 DEF Next
    <2>. QED
        BY <2>2, <2>3, <2>4, <2>5, <2>6, <2>7, <2>8, <2>9
<1>2. ConversationInv /\ [Next]_vars => [OfHop]_vars
    BY <1>1
<1>. QED
    BY <1>2, ConversationHolds, PTL DEF Spec, ReadsOnePeer

-----------------------------------------------------------------------------
(* The first terminal event. *)

\* The data kept are the payloads of the stretch being read, in order, and
\* no stretch before it was terminal.
ReadingInv ==
    /\ Reads(Len(lines) + 1, data)
    /\ \A end \in EventEnds : end <= Len(lines) =>
          ~ \E event \in TerminalEvents : Reads(end, event)

EventsInv ==
    /\ lines \in Seq(Lines)
    /\ data \in Seq(Lines)
    /\ pc = "body" => outcome = "none"
    /\ outcome = "none" => ReadingInv
    /\ FirstTerminalDecides

LEMMA EventLengths ==
    ASSUME NEW event \in TerminalEvents
    PROVE  event \in Seq(Payloads) /\ Len(event) \in {1, 2}
<1>1. CASE event = <<"open", "close">>
    BY <1>1 DEF Payloads
<1>2. CASE event = <<"completed">>
    BY <1>2 DEF Payloads
<1>3. CASE event = <<"stopped">>
    BY <1>3 DEF Payloads
<1>4. CASE event = <<"failed">>
    BY <1>4 DEF Payloads
<1>. QED
    BY <1>1, <1>2, <1>3, <1>4 DEF TerminalEvents, CompletedEvents

LEMMA SameSequence ==
    ASSUME NEW S, NEW T, NEW s \in Seq(S), NEW t \in Seq(T),
           Len(s) = Len(t), \A k \in 1..Len(s) : s[k] = t[k]
    PROVE  s = t
<1>1. s = [k \in 1..Len(s) |-> s[k]] /\ t = [k \in 1..Len(t) |-> t[k]]
    OBVIOUS
<1>. QED
    BY <1>1

\* Two increasing enumerations of the same lines are the same, if one is
\* as short as terminal events are.
LEMMA SameEvent ==
    ASSUME NEW end, NEW event \in TerminalEvents, NEW kept \in Seq(Lines),
           lines \in Seq(Lines), Reads(end, event), Reads(end, kept)
    PROVE  kept = event
<1>. PICK m \in Nat, n \in Nat : m = Len(event) /\ n = Len(kept)
    BY EventLengths
<1>1. event \in Seq(Payloads) /\ m \in {1, 2} /\ n \in Nat
    BY EventLengths
<1>2. PICK a \in [1..m -> 1..Len(lines)] :
          /\ \A k, l \in 1..m : k < l => a[k] < a[l]
          /\ \A k \in 1..m : lines[a[k]] = event[k]
          /\ PayloadsBefore(end) = {a[k] : k \in 1..m}
    BY DEF Reads
<1>3. PICK b \in [1..n -> 1..Len(lines)] :
          /\ \A k, l \in 1..n : k < l => b[k] < b[l]
          /\ \A k \in 1..n : lines[b[k]] = kept[k]
          /\ PayloadsBefore(end) = {b[k] : k \in 1..n}
    BY DEF Reads
<1>4. {a[k] : k \in 1..m} = {b[l] : l \in 1..n}
    BY <1>2, <1>3
<1>31. ASSUME NEW k \in 1..m
      PROVE  \E l \in 1..n : b[l] = a[k]
    BY <1>4
<1>32. ASSUME NEW l \in 1..n
      PROVE  \E k \in 1..m : a[k] = b[l]
    BY <1>4
<1>5. ASSUME NEW l \in 1..n
      PROVE  b[l] \in Nat
    <2>1. b[l] \in 1..Len(lines)
        BY <1>3
    <2>. QED
        BY <2>1
<1>6. CASE m = 1
    <2>1. \A l \in 1..n : b[l] = a[1]
        BY <1>31, <1>32, <1>6
    <2>2. n # 0
        BY <1>31, <1>32, <1>6
    <2>3. ~ (1 \in 1..n /\ 2 \in 1..n)
        BY <1>3, <1>5, <2>1
    <2>4. n = 1
        BY <1>1, <2>2, <2>3
    <2>5. kept[1] = event[1]
        BY <1>2, <1>3, <1>6, <2>1, <2>4
    <2>6. Len(kept) = Len(event) /\ \A k \in 1..Len(kept) : kept[k] = event[k]
        BY <1>6, <2>4, <2>5
    <2>. QED
        BY <1>1, <2>6, SameSequence
<1>7. CASE m = 2
    <2>1. \A l \in 1..n : b[l] = a[1] \/ b[l] = a[2]
        BY <1>31, <1>32, <1>7
    <2>2. /\ a[1] < a[2] /\ a[1] \in Nat /\ a[2] \in Nat
        <3>1. 1 \in 1..m /\ 2 \in 1..m
            BY <1>7
        <3>. QED
            BY <1>2, <3>1
    <2>3. PICK i \in 1..n, j \in 1..n : b[i] = a[1] /\ b[j] = a[2]
        BY <1>31, <1>32, <1>7
    <2>4. i # j
        BY <2>2, <2>3
    <2>5. n >= 2
        BY <1>1, <2>4
    <2>6. 1 \in 1..n /\ 2 \in 1..n /\ b[1] < b[2]
        BY <1>1, <1>3, <2>5
    <2>7. b[1] = a[1] /\ b[2] = a[2]
        BY <1>5, <2>1, <2>2, <2>6
    <2>8. 3 \notin 1..n
        <3>1. SUFFICES ASSUME 3 \in 1..n
                       PROVE  FALSE
            OBVIOUS
        <3>2. b[2] < b[3]
            BY <1>3, <2>6, <3>1
        <3>. QED
            BY <1>5, <2>1, <2>2, <2>6, <2>7, <3>1, <3>2
    <2>9. n = 2
        BY <1>1, <2>5, <2>8
    <2>10. kept[1] = event[1] /\ kept[2] = event[2]
        BY <1>2, <1>3, <1>7, <2>6, <2>7
    <2>11. Len(kept) = Len(event) /\ \A k \in 1..Len(kept) : kept[k] = event[k]
        BY <1>7, <2>9, <2>10
    <2>. QED
        BY <1>1, <2>11, SameSequence
<1>. QED
    BY <1>1, <1>6, <1>7

\* What a stretch says does not depend on what is read after its end.
LEMMA ReadsOn ==
    ASSUME NEW line \in Lines, lines \in Seq(Lines), lines' = Append(lines, line),
           NEW end \in 1..(Len(lines) + 1), NEW event
    PROVE  Reads(end, event)' <=> Reads(end, event)
<1>. DEFINE n == Len(lines)
<1>1. /\ n \in Nat /\ Len(lines') = n + 1
      /\ \A i \in 1..n : lines'[i] = lines[i]
    OBVIOUS
<1>2. \A i \in 1..(end - 1) : i \in 1..n
    BY <1>1
<1>3. PayloadsBefore(end)' = PayloadsBefore(end)
    <2>1. \A i \in 1..(end - 1) : lines'[i] = lines[i]
        BY <1>1, <1>2
    <2>2. \A i \in 1..(end - 1) : \A j \in i..(end - 1) : j \in 1..(end - 1)
        BY <1>1
    <2>. QED
        BY <2>1, <2>2 DEF PayloadsBefore
<1>4. PayloadsBefore(end) \subseteq 1..n
    BY <1>2 DEF PayloadsBefore
<1>5. ASSUME Reads(end, event)
      PROVE  Reads(end, event)'
    <2>1. PICK at \in [1..Len(event) -> 1..n] :
              /\ \A k, l \in 1..Len(event) : k < l => at[k] < at[l]
              /\ \A k \in 1..Len(event) : lines[at[k]] = event[k]
              /\ PayloadsBefore(end) = {at[k] : k \in 1..Len(event)}
        BY <1>5 DEF Reads
    <2>2. at \in [1..Len(event) -> 1..Len(lines')]
        BY <1>1, <2>1
    <2>3. \A k \in 1..Len(event) : lines'[at[k]] = event[k]
        BY <1>1, <2>1
    <2>. QED
        BY <1>3, <2>1, <2>2, <2>3 DEF Reads
<1>6. ASSUME Reads(end, event)'
      PROVE  Reads(end, event)
    <2>1. PICK at \in [1..Len(event) -> 1..Len(lines')] :
              /\ \A k, l \in 1..Len(event) : k < l => at[k] < at[l]
              /\ \A k \in 1..Len(event) : lines'[at[k]] = event[k]
              /\ PayloadsBefore(end)' = {at[k] : k \in 1..Len(event)}
        BY <1>6 DEF Reads
    <2>2. \A k \in 1..Len(event) : at[k] \in 1..n
        BY <1>3, <1>4, <2>1
    <2>3. at \in [1..Len(event) -> 1..n]
        BY <2>1, <2>2
    <2>4. \A k \in 1..Len(event) : lines[at[k]] = event[k]
        BY <1>1, <2>1, <2>2
    <2>. QED
        BY <1>3, <2>1, <2>3, <2>4 DEF Reads
<1>. QED
    BY <1>5, <1>6

\* A line of the stretch, or the blank one that ends it.
LEMMA ReadsNext ==
    ASSUME NEW line \in Lines, NEW n \in Nat, NEW kept \in Seq(Lines), NEW next,
           lines \in Seq(Lines), n = Len(lines), lines' = Append(lines, line),
           data = kept, next = DataAfter(line), Reads(n + 1, kept)
    PROVE  /\ next \in Seq(Lines)
           /\ Reads(n + 2, next)'
<1>. PICK m \in Nat : m = Len(kept)
    OBVIOUS
<1>1. /\ n \in Nat /\ Len(lines') = n + 1 /\ m \in Nat
      /\ \A i \in 1..n : lines'[i] = lines[i]
      /\ lines'[n + 1] = line
    OBVIOUS
<1>2. PICK at \in [1..m -> 1..n] :
          /\ \A k, l \in 1..m : k < l => at[k] < at[l]
          /\ \A k \in 1..m : lines[at[k]] = kept[k]
          /\ PayloadsBefore(n + 1) = {at[k] : k \in 1..m}
    BY DEF Reads
<1>3. Blank \notin Payloads
    BY DEF Blank, Payloads
<1>4. CASE line = Blank
    <2>1. next = <<>>
        BY <1>3, <1>4 DEF DataAfter
    <2>2. PayloadsBefore(n + 2)' = {}
        <3>1. \A i \in 1..(n + 1) : n + 1 \in i..(n + 1) /\ lines'[n + 1] = Blank
            BY <1>1, <1>4
        <3>2. (n + 2) - 1 = n + 1
            BY <1>1
        <3>. QED
            BY <3>1, <3>2 DEF PayloadsBefore
    <2>3. <<>> \in [1..Len(<<>>) -> 1..Len(lines')] /\ 1..Len(<<>>) = {}
        OBVIOUS
    <2>4. Reads(n + 2, <<>>)'
        BY <2>2, <2>3 DEF Reads
    <2>. QED
        BY <2>1, <2>4
<1>5. ASSUME line # Blank
      PROVE  PayloadsBefore(n + 2)'
                = PayloadsBefore(n + 1) \cup (IF line \in Payloads THEN {n + 1} ELSE {})
    <2>1. (n + 2) - 1 = n + 1 /\ (n + 1) - 1 = n
        BY <1>1
    <2>2. ASSUME NEW i \in 1..n
          PROVE  (\A j \in i..(n + 1) : lines'[j] # Blank) <=> (\A j \in i..n : lines[j] # Blank)
        <3>1. i \in Nat /\ n \in Nat /\ i <= n
            OBVIOUS
        <3>3. i..(n + 1) = (i..n) \cup {n + 1}
            BY <3>1
        <3>2. \A j \in i..n : lines'[j] = lines[j]
            BY <1>1
        <3>. QED
            BY <1>1, <1>5, <3>2, <3>3
    <2>3. \A j \in (n + 1)..(n + 1) : lines'[j] # Blank
        BY <1>1, <1>5
    <2>4. 1..(n + 1) = (1..n) \cup {n + 1}
        BY <1>1
    <2>5. PayloadsBefore(n + 2)' = {i \in 1..(n + 1) : /\ lines'[i] \in Payloads
                                                       /\ \A j \in i..(n + 1) : lines'[j] # Blank}
        BY <2>1 DEF PayloadsBefore
    <2>6. PayloadsBefore(n + 1) = {i \in 1..n : /\ lines[i] \in Payloads
                                                /\ \A j \in i..n : lines[j] # Blank}
        BY <2>1 DEF PayloadsBefore
    <2>7. ASSUME NEW i \in 1..n
          PROVE  i \in PayloadsBefore(n + 2)' <=> i \in PayloadsBefore(n + 1)
        <3>1. lines'[i] = lines[i] /\ i \in 1..(n + 1)
            BY <1>1
        <3>. QED
            BY <2>2, <2>5, <2>6, <3>1
    <2>8. n + 1 \in PayloadsBefore(n + 2)' <=> line \in Payloads
        <3>1. n + 1 \in 1..(n + 1) /\ lines'[n + 1] = line
            BY <1>1
        <3>. QED
            BY <2>3, <2>5, <3>1
    <2>9. PayloadsBefore(n + 2)' \subseteq 1..(n + 1) /\ PayloadsBefore(n + 1) \subseteq 1..n
        BY <2>5, <2>6
    <2>10. ASSUME NEW i
           PROVE  i \in PayloadsBefore(n + 2)'
                     <=> i \in PayloadsBefore(n + 1) \/ (i = n + 1 /\ line \in Payloads)
        <3>1. CASE i \in 1..n
            <4>1. i # n + 1
                BY <3>1, <1>1
            <4>. QED
                BY <2>7, <3>1, <4>1
        <3>2. CASE i = n + 1
            <4>1. i \notin 1..n
                BY <3>2, <1>1
            <4>. QED
                BY <2>8, <2>9, <3>2, <4>1
        <3>3. CASE i \notin 1..(n + 1)
            <4>1. i \notin 1..n /\ i # n + 1
                BY <2>4, <3>3
            <4>. QED
                BY <2>9, <3>3, <4>1
        <3>. QED
            BY <2>4, <3>1, <3>2, <3>3
    <2>. QED
        BY <2>10
<1>6. CASE line # Blank /\ line \notin Payloads
    <2>1. next = kept
        BY <1>6 DEF DataAfter
    <2>2. PayloadsBefore(n + 2)' = {at[k] : k \in 1..m}
        BY <1>2, <1>5, <1>6
    <2>3. at \in [1..m -> 1..Len(lines')] /\ \A k \in 1..m : lines'[at[k]] = kept[k]
        BY <1>1, <1>2
    <2>4. Reads(n + 2, kept)'
        BY <1>2, <2>2, <2>3 DEF Reads
    <2>. QED
        BY <2>1, <2>4
<1>7. CASE line \in Payloads
    <2>. DEFINE on == [k \in 1..(m + 1) |-> IF k = m + 1 THEN n + 1 ELSE at[k]]
    <2>1. next = Append(kept, line) /\ line # Blank
        BY <1>3, <1>7 DEF DataAfter
    <2>2. /\ next \in Seq(Lines) /\ Len(next) = m + 1
          /\ \A k \in 1..m : next[k] = kept[k]
          /\ next[m + 1] = line
        BY <2>1
    <2>3. /\ on[m + 1] = n + 1
          /\ \A k \in 1..m : on[k] = at[k] /\ at[k] \in 1..n
          /\ 1..(m + 1) = (1..m) \cup {m + 1}
        BY <1>1, <1>2
    <2>4. on \in [1..(m + 1) -> 1..Len(lines')]
        BY <1>1, <1>2
    <2>5. ASSUME NEW k \in 1..(m + 1), NEW l \in 1..(m + 1), k < l
          PROVE  on[k] < on[l]
        <3>1. k \in 1..m
            BY <1>1, <2>5
        <3>2. CASE l = m + 1
            BY <1>1, <2>3, <3>1, <3>2
        <3>3. CASE l \in 1..m
            BY <1>2, <2>3, <2>5, <3>1, <3>3
        <3>. QED
            BY <2>3, <3>2, <3>3
    <2>6. ASSUME NEW k \in 1..(m + 1)
          PROVE  lines'[on[k]] = next[k]
        <3>1. CASE k = m + 1
            BY <1>1, <2>2, <2>3, <3>1
        <3>2. CASE k \in 1..m
            BY <1>1, <1>2, <2>2, <2>3, <3>2
        <3>. QED
            BY <2>3, <3>1, <3>2
    <2>7. PayloadsBefore(n + 2)' = {on[k] : k \in 1..(m + 1)}
        <3>1. PayloadsBefore(n + 2)' = {at[k] : k \in 1..m} \cup {n + 1}
            BY <1>2, <1>5, <1>7, <2>1
        <3>2. {on[k] : k \in 1..(m + 1)} = {on[k] : k \in 1..m} \cup {on[m + 1]}
            BY <2>3
        <3>3. {on[k] : k \in 1..m} = {at[k] : k \in 1..m}
            BY <2>3
        <3>. QED
            BY <2>3, <3>1, <3>2, <3>3
    <2>. HIDE DEF on
    <2>8. Reads(n + 2, next)'
        BY <2>2, <2>4, <2>5, <2>6, <2>7 DEF Reads
    <2>. QED
        BY <2>1, <2>2, <2>8
<1>. QED
    BY <1>4, <1>6, <1>7

\* What FirstTerminalDecides asks at the end of the body, or at a blank line
\* behind a terminal event.
LEMMA Decided ==
    ASSUME lines \in Seq(Lines), data \in Seq(Lines), ReadingInv
    PROVE  CompletesFirst <=> Completed(data)
<1>. DEFINE n == Len(lines)
<1>1. n \in Nat /\ n + 1 \in EventEnds /\ \A end \in EventEnds : end \in 1..(n + 1)
    BY DEF EventEnds
<1>2. ASSUME Completed(data)
      PROVE  CompletesFirst
    <2>1. FirstTerminal(n + 1)
        BY <1>1 DEF ReadingInv, FirstTerminal
    <2>2. Reads(n + 1, data) /\ data \in CompletedEvents
        BY <1>2 DEF ReadingInv, Completed
    <2>. QED
        BY <1>1, <2>1, <2>2 DEF CompletesFirst
<1>3. ASSUME CompletesFirst
      PROVE  Completed(data)
    <2>1. PICK end \in EventEnds, event \in CompletedEvents : Reads(end, event)
        BY <1>3 DEF CompletesFirst
    <2>2. event \in TerminalEvents
        BY DEF TerminalEvents
    <2>3. end = n + 1
        BY <1>1, <2>1, <2>2 DEF ReadingInv
    <2>4. data = event
        BY <2>1, <2>2, <2>3, SameEvent DEF ReadingInv
    <2>. QED
        BY <2>4 DEF Completed
<1>. QED
    BY <1>2, <1>3

\* The stretches before the last are not terminal, as none of them made the
\* reading end.
LEMMA BodyReads ==
    ASSUME NEW line \in Lines, EventsInv, ReadingInv, lines' = Append(lines, line),
           ~(line = Blank /\ Terminal(data)), data' = DataAfter(line)
    PROVE  ReadingInv' /\ (lines \in Seq(Lines) /\ data \in Seq(Lines))'
<1>1. lines \in Seq(Lines) /\ data \in Seq(Lines) /\ Reads(Len(lines) + 1, data)
    BY DEF EventsInv, ReadingInv
<1>2. PICK n \in Nat : n = Len(lines)
    BY <1>1
<1>3. PICK kept, next : kept \in Seq(Lines) /\ kept = data /\ next = data'
    BY <1>1
<1>4. next \in Seq(Lines) /\ Reads(n + 2, next)'
    BY <1>1, <1>2, <1>3, ReadsNext
<1>5. Len(lines') = n + 1 /\ lines' \in Seq(Lines) /\ lines'[n + 1] = line
      /\ \A i \in 1..n : lines'[i] = lines[i]
    BY <1>1, <1>2
<1>6. Reads(Len(lines) + 1, data)'
    <2>1. Len(lines') + 1 = n + 2
        BY <1>5
    <2>2. PayloadsBefore(Len(lines) + 1)' = PayloadsBefore(n + 2)'
        BY <2>1 DEF PayloadsBefore
    <2>. QED
        BY <1>3, <1>4, <2>2 DEF Reads
<1>7. ASSUME NEW end \in EventEnds', end <= Len(lines'), NEW event \in TerminalEvents
      PROVE  ~Reads(end, event)'
    <2>1. end \in 1..(n + 1) /\ lines'[end] = Blank
        BY <1>5, <1>7 DEF EventEnds
    <2>2. Reads(end, event)' <=> Reads(end, event)
        BY <1>1, <1>2, <2>1, ReadsOn
    <2>3. CASE end \in 1..n
        <3>1. end \in EventEnds /\ end <= Len(lines)
            BY <1>2, <1>5, <2>1, <2>3 DEF EventEnds
        <3>. QED
            BY <1>7, <2>2, <3>1 DEF ReadingInv
    <2>4. CASE end = n + 1
        <3>1. line = Blank
            BY <1>5, <2>1, <2>4
        <3>2. ASSUME Reads(end, event)
              PROVE  data = event
            BY <1>1, <1>2, <1>7, <2>4, <3>2, SameEvent
        <3>. QED
            BY <1>7, <2>2, <3>1, <3>2 DEF Terminal
    <2>. QED
        BY <2>1, <2>3, <2>4
<1>. QED
    BY <1>3, <1>4, <1>5, <1>6, <1>7 DEF ReadingInv

\* What is read behind the last end of a stream.
LEMMA NothingBehind ==
    ASSUME lines \in Seq(Lines), lines # <<>>, lines[Len(lines)] = Blank,
           data \in Seq(Lines), ReadingInv
    PROVE  ~CompletesFirst
<1>1. PICK n \in Nat : n = Len(lines)
    OBVIOUS
<1>2. n # 0 /\ (n + 1) - 1 = n /\ \A i \in 1..n : n \in i..n
    BY <1>1
<1>3. PayloadsBefore(n + 1) = {}
    BY <1>1, <1>2 DEF PayloadsBefore
<1>4. data = <<>>
    <2>1. PICK m \in Nat : m = Len(data)
        OBVIOUS
    <2>2. PICK at \in [1..m -> 1..n] : PayloadsBefore(n + 1) = {at[k] : k \in 1..m}
        BY <1>1, <2>1 DEF ReadingInv, Reads
    <2>3. 1..m = {}
        BY <1>3, <2>2
    <2>4. m = 0
        BY <2>3
    <2>5. Len(data) = Len(<<>>) /\ \A k \in 1..Len(data) : data[k] = <<>>[k]
        BY <2>1, <2>4
    <2>6. <<>> \in Seq(Lines)
        OBVIOUS
    <2>. QED
        BY <2>5, <2>6, SameSequence
<1>5. ~Completed(data)
    <2>1. Len(data) = 0
        BY <1>4
    <2>2. data \notin TerminalEvents
        <3>1. \A event \in TerminalEvents : Len(event) # 0
            BY EventLengths
        <3>. QED
            BY <2>1, <3>1
    <2>. QED
        BY <2>2 DEF Completed, TerminalEvents
<1>. QED
    BY <1>5, Decided

\* A blank line behind a terminal event.
LEMMA TerminalRead ==
    ASSUME EventsInv, ReadingInv, Blank \in Lines, lines' = Append(lines, Blank), Terminal(data)
    PROVE  CompletesFirst' <=> Completed(data)
<1>1. lines \in Seq(Lines) /\ data \in Seq(Lines) /\ Reads(Len(lines) + 1, data)
    BY DEF EventsInv, ReadingInv
<1>2. PICK n \in Nat : n = Len(lines)
    BY <1>1
<1>3. Len(lines') = n + 1 /\ lines'[n + 1] = Blank
      /\ \A i \in 1..n : lines'[i] = lines[i]
    BY <1>1, <1>2
<1>4. EventEnds' = EventEnds \cup {n + 2}
    <2>1. EventEnds' = {i \in 1..(n + 2) : i = n + 2 \/ lines'[i] = Blank}
        BY <1>3 DEF EventEnds
    <2>2. EventEnds = {i \in 1..(n + 1) : i = n + 1 \/ lines[i] = Blank}
        BY <1>2 DEF EventEnds
    <2>3. 1..(n + 2) = (1..n) \cup {n + 1, n + 2} /\ 1..(n + 1) = (1..n) \cup {n + 1}
        BY <1>2
    <2>4. n + 1 # n + 2 /\ n + 1 \notin 1..n /\ n + 2 \notin 1..n
        BY <1>2
    <2>. QED
        BY <1>3, <2>1, <2>2, <2>3, <2>4
<1>5. ASSUME NEW end \in 1..(n + 1), NEW event
      PROVE  Reads(end, event)' <=> Reads(end, event)
    BY <1>1, <1>2, <1>5, ReadsOn
<1>6. EventEnds \subseteq 1..(n + 1) /\ n + 1 \in EventEnds
    BY <1>2 DEF EventEnds
<1>7. data \in TerminalEvents /\ Reads(n + 1, data)
    BY <1>1, <1>2 DEF Terminal
<1>8. ASSUME Completed(data)
      PROVE  CompletesFirst'
    <2>1. \A end \in EventEnds' : end < n + 1 => end \in EventEnds /\ end <= n
        BY <1>2, <1>4, <1>6
    <2>2. FirstTerminal(n + 1)'
        <3>1. SUFFICES ASSUME NEW end \in EventEnds', end < n + 1, NEW event \in TerminalEvents
                       PROVE  ~Reads(end, event)'
            BY <1>2 DEF FirstTerminal
        <3>2. end \in EventEnds /\ end <= n /\ end \in 1..(n + 1)
            BY <1>6, <2>1, <3>1
        <3>. QED
            BY <1>2, <1>5, <3>1, <3>2 DEF ReadingInv
    <2>3. PICK event \in CompletedEvents : event = data
        BY <1>8 DEF Completed
    <2>4. Reads(n + 1, event)'
        BY <1>2, <1>5, <1>7, <2>3
    <2>. QED
        BY <1>4, <1>6, <2>2, <2>4 DEF CompletesFirst
<1>9. ASSUME CompletesFirst'
      PROVE  Completed(data)
    <2>1. PICK end \in EventEnds', event \in CompletedEvents :
              FirstTerminal(end)' /\ Reads(end, event)'
        BY <1>9 DEF CompletesFirst
    <2>2. event \in TerminalEvents
        BY DEF TerminalEvents
    <2>3. CASE end = n + 2
        <3>1. PICK kept \in TerminalEvents : kept = data
            BY <1>7
        <3>2. n + 1 \in EventEnds' /\ n + 1 < end
            BY <1>2, <1>4, <1>6, <2>3
        <3>3. ~Reads(n + 1, kept)'
            BY <2>1, <3>1, <3>2 DEF FirstTerminal
        <3>. QED
            BY <1>2, <1>5, <1>7, <3>1, <3>3
    <2>4. CASE end \in EventEnds
        <3>1. Reads(end, event)
            BY <1>5, <1>6, <2>1, <2>4
        <3>2. end = n + 1
            BY <1>2, <1>6, <2>2, <2>4, <3>1 DEF ReadingInv
        <3>3. data = event
            BY <1>1, <1>2, <2>2, <3>1, <3>2, SameEvent
        <3>. QED
            BY <3>3 DEF Completed
    <2>. QED
        BY <1>4, <2>1, <2>3, <2>4
<1>. QED
    BY <1>8, <1>9

LEMMA ReadingStays ==
    ASSUME UNCHANGED <<lines, data>>
    PROVE  /\ ReadingInv => ReadingInv'
           /\ CompletesFirst' <=> CompletesFirst
<1>1. lines' = lines /\ data' = data
    OBVIOUS
<1>2. EventEnds' = EventEnds
    BY <1>1 DEF EventEnds
<1>3. \A end : PayloadsBefore(end)' = PayloadsBefore(end)
    BY <1>1 DEF PayloadsBefore
<1>4. \A end, event : Reads(end, event)' <=> Reads(end, event)
    BY <1>1, <1>3 DEF Reads
<1>5. ReadingInv => ReadingInv'
    <2>1. Reads(Len(lines) + 1, data)' <=> Reads(Len(lines) + 1, data)
        <3>1. PayloadsBefore(Len(lines) + 1)' = PayloadsBefore(Len(lines) + 1)
            BY <1>1 DEF PayloadsBefore
        <3>. QED
            BY <1>1, <3>1 DEF Reads
    <2>. QED
        BY <1>1, <1>2, <1>4, <2>1 DEF ReadingInv
<1>6. CompletesFirst' <=> CompletesFirst
    BY <1>2, <1>4 DEF CompletesFirst, FirstTerminal
<1>. QED
    BY <1>5, <1>6

LEMMA NothingChanges ==
    ASSUME EventsInv, UNCHANGED <<lines, data, outcome>>, pc' = "body" => pc = "body"
    PROVE  EventsInv'
BY ReadingStays DEF EventsInv, FirstTerminalDecides

\* The connection's own steps do not read events.
LEMMA TransportReadsNone ==
    ASSUME TransportStep, HopOK, HopOK'
    PROVE  pc' = "body" => pc = "body"
<1>0. /\ {"greet", "method", "login", "loggedIn", "request", "reply", "length", "address",
          "tls", "connect", "status"} \subseteq Handshaking
      /\ "body" \notin Handshaking
    BY DEF Handshaking, Writing, Reading
<1>1. ASSUME TunnelOpens, pc \in Handshaking, chain' = chain
      PROVE  pc' # "body"
    <2>1. hop' = hop + 1 /\ hop < Upstream /\ hop \in 1..Upstream /\ chain \in Chains
        BY <1>1 DEF TunnelOpens, HopOK
    <2>2. hop' # Upstream' => hop' \in 1..Len(chain)
        BY <1>1, <2>1, ChainOf DEF Upstream
    <2>3. hop' # Upstream' => FirstStep(chain[hop']) \in Handshaking
        BY <2>2, FirstSteps
    <2>. QED
        BY <1>0, <1>1, <2>3 DEF TunnelOpens, Upstream
<1>2. ASSUME Fails
      PROVE  pc' # "body"
    BY <1>2 DEF Fails
<1>3. ASSUME NEW n, Address(n)
      PROVE  pc' # "body"
    BY <1>3 DEF Address, Goes
<1>4. CASE DialConnects
    <2>1. 1 \in 1..Len(chain)
        BY ChainOf
    <2>2. FirstStep(chain[1]) \in Handshaking
        BY <2>1, FirstSteps
    <2>. QED
        BY <1>0, <1>4, <2>2 DEF DialConnects
<1>5. CASE ConnectStatus
    BY <1>0, <1>1, <1>2, <1>5 DEF ConnectStatus, Takes
<1>6. CASE SocksAddress
    BY <1>0, <1>1, <1>6 DEF SocksAddress, Takes
<1>7. CASE SocksMethod \/ SocksLoggedIn \/ SocksReply \/ SocksLength
    BY <1>2, <1>3, <1>7 DEF SocksMethod, SocksLoggedIn, SocksReply, SocksLength, Goes
<1>8. CASE SocksGreeting \/ SocksLogin \/ SocksRequest \/ ConnectRequest
    BY <1>8 DEF SocksGreeting, SocksLogin, SocksRequest, ConnectRequest, Says, Goes
<1>9. CASE DialFails \/ HandshakeBreaks \/ TLSHandshake \/ HandOver
    BY <1>2, <1>9 DEF DialFails, HandshakeBreaks, TLSHandshake, HandOver, Goes
<1>10. CASE Deliver \/ PeerHangsUp \/ AfterFunc \/ ContextEnds
    BY <1>10 DEF Deliver, PeerHangsUp, AfterFunc, ContextEnds, dialer
<1>. QED
    BY <1>4, <1>5, <1>6, <1>7, <1>8, <1>9, <1>10
       DEF TransportStep, DialerStep, NetworkStep, SocksStep

\* fetchProbe returns what its first terminal event says.
LEMMA JudgedDecides ==
    ASSUME NEW completed \in BOOLEAN, Judged(completed),
           lines' \in Seq(Lines), data' \in Seq(Lines),
           completed => CompletesFirst',
           ~completed /\ lines' # <<>> /\ lines'[Len(lines')] = Blank => ~CompletesFirst'
    PROVE  EventsInv'
<1>1. /\ pc' = "over"
      /\ completed => outcome' \in {"ok", "state_missing"}
      /\ ~completed => outcome' = "upstream_incomplete"
    BY DEF Judged, Returns
<1>. QED
    BY <1>1 DEF EventsInv, FirstTerminalDecides

LEMMA FetchDecides ==
    ASSUME EventsInv, FetchStep
    PROVE  EventsInv'
<1>1. lines \in Seq(Lines) /\ data \in Seq(Lines) /\ FirstTerminalDecides
    BY DEF EventsInv
<1>2. ASSUME pc' # "body", UNCHANGED <<lines, data>>,
             outcome' \in {"network_error", "upstream_http"}
      PROVE  EventsInv'
    BY <1>1, <1>2 DEF EventsInv, FirstTerminalDecides
<1>3. CASE Respond
    <2>1. CASE Returns("network_error") \/ Returns("upstream_http")
        BY <1>2, <1>3, <2>1 DEF Returns, Respond
    <2>2. CASE pc' = "body" /\ UNCHANGED outcome
        <3>1. outcome' = "none" /\ UNCHANGED <<lines, data>>
            BY <1>3, <2>2 DEF Respond
        <3>2. ReadingInv'
            BY <1>3, <3>1, ReadingStays DEF EventsInv, Respond
        <3>3. lines' \in Seq(Lines) /\ data' \in Seq(Lines)
            BY <1>1, <3>1
        <3>. QED
            BY <3>1, <3>2, <3>3 DEF EventsInv, FirstTerminalDecides
    <2>. QED
        BY <1>3, <2>1, <2>2 DEF Respond
<1>4. CASE ReadLine
    <2>1. PICK line \in Lines :
              /\ lines' = Append(lines, line)
              /\ \/ /\ line = Blank /\ Terminal(data)
                    /\ Judged(Completed(data))
                    /\ UNCHANGED data
                 \/ /\ ~(line = Blank /\ Terminal(data))
                    /\ data' = DataAfter(line)
                    /\ UNCHANGED <<transportVars, outcome, value>>
        BY <1>4 DEF ReadLine
    <2>2. pc = "body" /\ outcome = "none" /\ ReadingInv
        BY <1>4 DEF ReadLine, EventsInv
    <2>3. CASE line = Blank /\ Terminal(data) /\ Judged(Completed(data)) /\ UNCHANGED data
        <3>1. CompletesFirst' <=> Completed(data)
            BY <2>1, <2>2, <2>3, TerminalRead
        <3>2. Completed(data) \in BOOLEAN
            BY DEF Completed
        <3>3. lines' \in Seq(Lines) /\ data' \in Seq(Lines)
            BY <1>1, <2>1, <2>3
        <3>. QED
            BY <2>3, <3>1, <3>2, <3>3, JudgedDecides
    <2>4. CASE /\ ~(line = Blank /\ Terminal(data))
               /\ data' = DataAfter(line)
               /\ UNCHANGED <<transportVars, outcome, value>>
        <3>1. ReadingInv' /\ lines' \in Seq(Lines) /\ data' \in Seq(Lines)
            BY <2>1, <2>2, <2>4, BodyReads
        <3>2. outcome' = "none"
            BY <2>2, <2>4
        <3>. QED
            BY <3>1, <3>2 DEF EventsInv, FirstTerminalDecides
    <2>. QED
        BY <2>1, <2>3, <2>4
<1>5. ASSUME pc = "body", UNCHANGED <<lines, data>>, NEW completed \in BOOLEAN,
             completed => Completed(data), Judged(completed)
      PROVE  EventsInv'
    <2>1. ReadingInv
        BY <1>5 DEF EventsInv
    <2>2. CompletesFirst' <=> CompletesFirst
        BY <1>5, ReadingStays
    <2>3. CompletesFirst <=> Completed(data)
        BY <1>1, <2>1, Decided
    <2>4. lines # <<>> /\ lines[Len(lines)] = Blank => ~CompletesFirst
        BY <1>1, <2>1, NothingBehind
    <2>. QED
        BY <1>1, <1>5, <2>2, <2>3, <2>4, JudgedDecides
<1>6. CASE BodyEnds
    <2>1. Completed(data) \in BOOLEAN
        BY DEF Completed
    <2>. QED
        BY <1>5, <1>6, <2>1 DEF BodyEnds
<1>7. CASE BodyBreaks
    BY <1>5, <1>7 DEF BodyBreaks
<1>8. CASE DialReturns
    BY <1>2, <1>8 DEF DialReturns, transportVars, dialer
<1>9. CASE Unwanted
    BY <1>9, NothingChanges DEF Unwanted, answer
<1>. QED
    BY <1>3, <1>4, <1>6, <1>7, <1>8, <1>9 DEF FetchStep

\* Whatever a stream has around its events, the first terminal one decides,
\* for streams of every length.
THEOREM FirstTerminalEventDecides == Spec => []FirstTerminalDecides
<1>1. ASSUME Init
      PROVE  EventsInv
    <2>1. lines = <<>> /\ data = <<>> /\ outcome = "none" /\ pc # "body"
        BY <1>1 DEF Init, TransportInit
    <2>2. <<>> \in [1..Len(<<>>) -> 1..Len(<<>>)] /\ 1..Len(<<>>) = {} /\ Len(<<>>) = 0
        OBVIOUS
    <2>3. PayloadsBefore(Len(<<>>) + 1) = {} /\ \A end \in EventEnds : ~(end <= Len(<<>>))
        BY <2>1, <2>2 DEF PayloadsBefore, EventEnds
    <2>4. Reads(Len(<<>>) + 1, <<>>)
        BY <2>1, <2>2, <2>3 DEF Reads
    <2>5. ReadingInv
        BY <2>1, <2>3, <2>4 DEF ReadingInv
    <2>. QED
        BY <2>1, <2>5 DEF EventsInv, FirstTerminalDecides
<1>2. ASSUME EventsInv, HopOK, HopOK', [Next]_vars
      PROVE  EventsInv'
    <2>1. CASE TransportStep /\ UNCHANGED answer
        BY <1>2, <2>1, NothingChanges, TransportReadsNone DEF answer
    <2>2. CASE UNCHANGED vars
        BY <1>2, <2>2, NothingChanges DEF vars, answer, transportVars, dialer
    <2>. QED
        BY <1>2, <2>1, <2>2, FetchDecides DEF Next
<1>3. EventsInv => FirstTerminalDecides
    BY DEF EventsInv
<1>4. ConversationInv => HopOK
    BY DEF ConversationInv
<1>. QED
    BY <1>1, <1>2, <1>3, <1>4, ConversationHolds, PTL DEF Spec

-----------------------------------------------------------------------------
(* Tokens. *)

\* base64 without padding: the length of the text determines that of the
\* bytes, and the other way round.
LEMMA EncodedLength ==
    ASSUME NEW bytes \in Nat
    PROVE  /\ EncodedChars(bytes) % 4 # 1
           /\ (EncodedChars(bytes) * 6) \div 8 = bytes
<1>1. PICK k \in Nat, r \in 0..2 : bytes = 3 * k + r
    <2>1. bytes = 3 * (bytes \div 3) + (bytes % 3) /\ bytes \div 3 \in Nat /\ bytes % 3 \in 0..2
        OBVIOUS
    <2>. QED
        BY <2>1
<1>2. EncodedChars(bytes) = 4 * k + (IF r = 0 THEN 0 ELSE r + 1)
    BY <1>1 DEF EncodedChars
<1>. QED
    BY <1>1, <1>2

LEMMA DecodedLength ==
    ASSUME NEW chars \in Nat, chars % 4 # 1
    PROVE  /\ (chars * 6) \div 8 \in Nat
           /\ (chars * 6) \div 8 <= chars
           /\ EncodedChars((chars * 6) \div 8) = chars
<1>1. PICK k \in Nat, r \in {0, 2, 3} : chars = 4 * k + r
    <2>1. /\ chars = 4 * (chars \div 4) + (chars % 4)
          /\ chars \div 4 \in Nat /\ chars % 4 \in {0, 2, 3}
        OBVIOUS
    <2>. QED
        BY <2>1
<1>2. (chars * 6) \div 8 = 3 * k + (IF r = 0 THEN 0 ELSE r - 1)
    BY <1>1
<1>. QED
    BY <1>1, <1>2 DEF EncodedChars

\* What a value of that length decodes to, if a plain text fits it.
LEMMA MintedLength ==
    ASSUME NEW token \in Values, NEW plain \in Nat,
           EncodedChars(MintedBytes(plain)) = token.chars
    PROVE  /\ token.chars % 4 # 1
           /\ DecodedBytes(token) = 57 + 16 * (plain \div 16 + 1)
           /\ plain \div 16 \in Nat
<1>1. plain \div 16 \in Nat
    OBVIOUS
<1>2. MintedBytes(plain) = 57 + 16 * (plain \div 16 + 1) /\ MintedBytes(plain) \in Nat
    BY <1>1 DEF MintedBytes, BlockBytes
<1>. QED
    BY <1>1, <1>2, EncodedLength DEF DecodedBytes

\* parseTurnState accepts, of the values that fit max_state_bytes, those a
\* plain text can be encrypted to, and counts their blocks.
LEMMA ReadBack ==
    ASSUME NEW token \in Values, token.chars + token.padding <= MaxBytes
    PROVE  /\ Parses(token) <=> Minted(token)
           /\ \A plain \in PlainsOf(token) : Blocks(token) = plain \div 16 + 1
<1>1. /\ token.chars \in Nat /\ token.padding \in Nat /\ token.seconds \in Nat
      /\ MinTime \in Nat /\ MaxTime \in Nat /\ MaxBytes \in Nat
    BY TokenAssumption DEF Values
<1>2. ASSUME NEW plain \in PlainsOf(token)
      PROVE  /\ plain \in Nat
             /\ EncodedChars(MintedBytes(plain)) = token.chars
    BY <1>1, <1>2 DEF PlainsOf
<1>3. \A plain \in PlainsOf(token) : Blocks(token) = plain \div 16 + 1
    <2>1. SUFFICES ASSUME NEW plain \in PlainsOf(token)
                   PROVE  Blocks(token) = plain \div 16 + 1
        OBVIOUS
    <2>2. /\ DecodedBytes(token) = 57 + 16 * (plain \div 16 + 1)
          /\ plain \div 16 \in Nat
        BY <1>2, MintedLength
    <2>3. CipherBytes(token) = 16 * (plain \div 16 + 1)
        BY <2>2 DEF CipherBytes, FixedBytes
    <2>. QED
        BY <2>2, <2>3 DEF Blocks, BlockBytes
<1>4. ASSUME Minted(token)
      PROVE  Parses(token)
    <2>1. PICK plain \in PlainsOf(token) : TRUE
        BY <1>4 DEF Minted
    <2>2. /\ token.chars % 4 # 1
          /\ DecodedBytes(token) = 57 + 16 * (plain \div 16 + 1)
          /\ plain \div 16 \in Nat
        BY <1>2, MintedLength
    <2>3. CipherBytes(token) = 16 * (plain \div 16 + 1)
        BY <2>2 DEF CipherBytes, FixedBytes
    <2>4. Aligned(token)
        BY <2>2, <2>3 DEF Aligned, BlockBytes
    <2>5. DecodedBytes(token) >= FixedBytes + BlockBytes
        BY <2>2 DEF FixedBytes, BlockBytes
    <2>6. token.chars > 0
        BY <1>1, <2>2 DEF DecodedBytes
    <2>7. token.seconds >= MinTime /\ token.seconds < MaxTime
        BY <1>1, <1>4 DEF Minted
    <2>. QED
        BY <1>1, <1>4, <2>2, <2>4, <2>5, <2>6, <2>7
           DEF Parses, Minted, Decodable, FernetVersion
<1>5. ASSUME Parses(token)
      PROVE  Minted(token)
    <2>1. /\ token.chars % 4 # 1
          /\ DecodedBytes(token) \in Nat
          /\ DecodedBytes(token) <= token.chars
          /\ EncodedChars(DecodedBytes(token)) = token.chars
        BY <1>1, <1>5, DecodedLength DEF Parses, Decodable, DecodedBytes
    <2>2. /\ DecodedBytes(token) >= 73
          /\ (DecodedBytes(token) - 57) % 16 = 0
        BY <1>5 DEF Parses, Aligned, CipherBytes, FixedBytes, BlockBytes
    <2>3. PICK q \in Nat : DecodedBytes(token) = 57 + 16 * (q + 1)
        <3>1. (DecodedBytes(token) - 57) \div 16 - 1 \in Nat
            BY <2>1, <2>2
        <3>2. DecodedBytes(token) = 57 + 16 * (((DecodedBytes(token) - 57) \div 16 - 1) + 1)
            BY <2>1, <2>2
        <3>. QED
            BY <3>1, <3>2
    <2>4. (16 * q) \div 16 = q
        OBVIOUS
    <2>5. MintedBytes(16 * q) = DecodedBytes(token)
        BY <2>3, <2>4 DEF MintedBytes, BlockBytes
    <2>6. 16 * q \in 0..MaxBytes
        BY <1>1, <2>1, <2>3
    <2>7. PlainsOf(token) # {}
        BY <2>1, <2>5, <2>6 DEF PlainsOf
    <2>8. token.seconds \in MinTime..(MaxTime - 1)
        BY <1>1, <1>5 DEF Parses
    <2>. QED
        BY <1>5, <2>7, <2>8 DEF Parses, Minted, Decodable, FernetVersion
<1>. QED
    BY <1>3, <1>4, <1>5

\* What fetchProbe returns is always a value the header may have.
ValueOK == value \in Values

LEMMA ValueStays == ValueOK /\ [Next]_vars => ValueOK'
<1>1. ASSUME ValueOK, NEW completed, Judged(completed)
      PROVE  ValueOK'
    BY <1>1, FetchAssumption DEF Judged, ValueOK
<1>2. ValueOK /\ value' = value => ValueOK'
    BY DEF ValueOK
<1>3. ValueOK /\ FetchStep => ValueOK'
    BY <1>1, <1>2 DEF FetchStep, Respond, ReadLine, BodyEnds, BodyBreaks, DialReturns,
                      Unwanted, answer
<1>. QED
    BY <1>2, <1>3 DEF Next, vars, answer

\* Of the values a successful probe returns, whatever their length, exactly
\* those upstream can have minted become states, with the blocks of their
\* plain text.
THEOREM TokensAreReadBack == Spec => []TokensReadBack
<1>1. Init => ValueOK
    BY DEF Init, ValueOK, NoValue, Values
<1>2. ValueOK => TokensReadBack
    BY ReadBack DEF ValueOK, TokensReadBack
<1>. QED
    BY <1>1, <1>2, ValueStays, PTL DEF Spec

=============================================================================
