------------------------------- MODULE Alpn -------------------------------
(***************************************************************************)
(* The application protocol of a connection: buildTLSConfig,               *)
(* selectHytaleALPN and parseHytaleVersion (internal/server/tls.go), and   *)
(* the choice crypto/tls makes from what they return.                      *)
(*                                                                         *)
(* An entry of the configured or of the offered list is a protocol with or *)
(* without blanks around it, or Blank.  A protocol is its name.            *)
(***************************************************************************)
EXTENDS Integers, Sequences, FiniteSets, SequencesExt, FiniteSetsExt

CONSTANTS
    Proto,       \* protocols, without the blanks around them
    Hytale,      \* those that begin with hytale/
    AnyHytale,   \* hytale/*
    HytaleTwo, HytaleOne,   \* hytale/2 and hytale/1
    Version,     \* Version[p]: what Atoi makes of the rest of the name,
    Unparsed,    \*   or Unparsed if it is no int
    Text,        \* Text[p]: the place of p when names are compared as strings
    Blank,       \* an entry of blanks only
    Refused      \* the client and the server have no protocol in common

ASSUME ProtoAssumption ==
    /\ Hytale \subseteq Proto /\ {AnyHytale, HytaleOne, HytaleTwo} \subseteq Hytale
    /\ \A p \in Hytale : Version[p] \in Int \cup {Unparsed}
    /\ Version[AnyHytale] = Unparsed
    /\ \A p, q \in Proto : Text[p] \in Int /\ (Text[p] = Text[q] => p = q)
    /\ Unparsed \notin Int /\ {Blank, Refused} \cap Proto = {}

Entry == [proto : Proto, padded : BOOLEAN] \cup {[proto |-> Blank, padded |-> TRUE]}

\* strings.TrimSpace, and the entries it leaves something of.
Names(list) == {list[i].proto : i \in DOMAIN list} \ {Blank}

\* A client is held to what it offers, letter for letter.
Offers(offered, p) == [proto |-> p, padded |-> FALSE] \in Range(offered)

AllowHytaleAny(configured) == AnyHytale \in Names(configured)

\* At the places they have in the configured list.
StrictProtos(configured) ==
    LET named == {i \in DOMAIN configured : configured[i].proto \notin {Blank, AnyHytale}}
    IN IF named = {} THEN <<HytaleTwo, HytaleOne>>
       ELSE [i \in named |-> configured[i].proto]

\* Mutant: versions are compared as they are spelled.
SpelledBefore(p, q) == Text[p] > Text[q]

\* The order of sort.Slice: the newest version first, then what has none.
NewerFirst(p, q) ==
    LET parsed(r) == Version[r] # Unparsed
    IN IF parsed(p) # parsed(q) THEN parsed(p)
       ELSE IF parsed(p) /\ Version[p] # Version[q] THEN Version[p] > Version[q]
       ELSE Text[p] > Text[q]

\* selectHytaleALPN: each hytale/ protocol offered, once.
SelectHytale(offered) == Names(offered) \cap Hytale

\* The first of them in the order of sort.Slice, among those that the client
\* offers as they are returned.
NewestOffered(offered) ==
    LET common == {p \in SelectHytale(offered) : Offers(offered, p)}
    IN IF common = {} THEN Refused
       ELSE CHOOSE p \in common : \A q \in common \ {p} : NewerFirst(p, q)

FirstConfigured(configured, offered) ==
    LET next == StrictProtos(configured)
        common == {i \in DOMAIN next : Offers(offered, next[i])}
    IN IF common = {} THEN Refused ELSE next[Min(common)]

\* The first of cfg.NextProtos, as GetConfigForClient leaves it, that the
\* client offers; QUIC refuses a client that offers none of them.
Negotiated(configured, offered) ==
    IF AllowHytaleAny(configured) /\ SelectHytale(offered) # {}
    THEN NewestOffered(offered)
    ELSE FirstConfigured(configured, offered)
=============================================================================
