------------------------------ MODULE FetchMC ------------------------------
(* The instance of fetch.cfg. *)
EXTENDS ProbeFetch

P(scheme, user) == [scheme |-> scheme, user |-> user]
Http == P("http", FALSE)
Https == P("https", TRUE)
Socks == P("socks5", FALSE)
SocksUser == P("socks5", TRUE)

\* Every scheme alone, and in front of and behind another.
SomeChains == {<<Http>>, <<SocksUser>>, <<Http, Socks>>, <<Socks, Http>>,
               <<Https, SocksUser>>, <<SocksUser, Https>>, <<Http, Http>>, <<Socks, Socks>>}

StreamLines == {Blank, "comment", "completed", "stopped", "delta", "open", "close"}

\* Around the lengths of one, two and three blocks, padded and not, and at
\* the edges of the years a token may be of.
Token(chars) == [chars |-> chars, padding |-> (4 - (chars % 4)) % 4, printable |-> TRUE,
                 alphabet |-> TRUE, version |-> FernetVersion, seconds |-> MinTime]

SomeValues == {NoValue} \union {Token(c) : c \in {97, 98, 99, 118, 119, 120, 140}}
              \union {[Token(98) EXCEPT !.padding = 0],
                      [Token(98) EXCEPT !.seconds = MaxTime],
                      [Token(98) EXCEPT !.version = 127]}

=============================================================================
