--------------------------- MODULE QueryHandling ---------------------------
(***************************************************************************)
(* What the worker of the DNS filter server does with one datagram after   *)
(* another (DnsFilterServer::run, desktop/src/dns/dns_filter_server.cpp):  *)
(* parseQuery, the safe search hosts, the block list, and the answer.      *)
(*                                                                         *)
(* The two loops, over the labels of the question and over the parents of  *)
(* the name asked for, are taken one iteration at a time, so that what     *)
(* bounds them is in the model.  In the walk, `from` is where the          *)
(* candidate begins in the name; the code cuts the name short instead.     *)
(***************************************************************************)
EXTENDS DnsMessage

CONSTANTS
    Messages,       \* the datagrams clients send
    Names,          \* the names that proper queries ask for
    TypesAndClasses,    \* ... with what behind the name
    Defaults,       \* the block list built in
    Files,          \* files a block list may be loaded from: sets of lines
    kMaxLabelHops,
    UpstreamAnswer  \* the records an upstream server has for any question

ASSUME MessagesAssumption ==
    Messages \subseteq [id : Nat, questions : Nat, body : Seq(Byte)]
\* No label of a name is as long as a pointer is large; DNS has 63 at most.
ASSUME NamesAssumption ==
    \A n \in Names :
        /\ n \in Seq(Byte)
        /\ \A i, j \in 1..Len(n) : (\A x \in i..j : n[x] # Dot) => j - i < 191
ASSUME TypesAndClassesAssumption ==
    \A t \in TypesAndClasses : t \in Seq(Byte) /\ Len(t) >= 4
ASSUME HopsAssumption == kMaxLabelHops \in Nat
ASSUME UpstreamAssumption ==
    UpstreamAnswer \in Seq(Byte) /\ IsPrefix(QuestionPointer, UpstreamAnswer)

VARIABLES
    domains,    \* Blocklist::domains_
    message,
    stage,      \* where run() is
    offset,     \* of the parser, behind the header; then the end of the name
    hops,
    name,       \* the name read so far; then query->domainName
    subject,    \* the name whose parents are looked up: `name`, or what it stands for
    from,
    asked,      \* what is sent upstream
    fate,       \* what became of the datagram
    response

parser == <<offset, hops, name>>
walk == <<subject, from>>
vars == <<domains, message, stage, parser, walk, asked, fate, response>>

NoMessage == Message(0, <<>>)
Stages == {"receiving", "labels", "parsed", "walk", "decoding", "proxied", "asking", "done"}

Init ==
    /\ domains = Defaults
    /\ message = NoMessage /\ stage = "receiving"
    /\ offset = 0 /\ hops = 0 /\ name = <<>>
    /\ subject = <<>> /\ from = 1
    /\ asked = NoMessage /\ fate = "none" /\ response = NoMessage
Body == message.body
QuestionEnd == offset + 4

Ends(what) == stage' = "done" /\ fate' = what
Drops == Ends("dropped") /\ UNCHANGED response

\* The list is loaded before the server starts.
LoadFromFile(lines) ==
    /\ stage = "receiving" /\ domains = Defaults
    /\ domains' = loadFromFile(lines)
    /\ UNCHANGED <<message, stage, parser, walk, asked, fate, response>>

-----------------------------------------------------------------------------
(* parseQuery.                                                             *)

Receive(m) ==
    /\ stage = "receiving"
    /\ message' = m
    /\ IF Len(m.body) < 5 \/ m.questions < 1
         THEN Drops
         ELSE stage' = "labels" /\ UNCHANGED <<fate, response>>
    /\ UNCHANGED <<domains, parser, walk, asked>>

\* Broken variant, for the runs to reject: the limit counts one too few.
HopsLeftTooFew == hops + 1 < kMaxLabelHops

HopsLeft == hops < kMaxLabelHops

\* Another iteration, with the length byte it finds.
AtLength(length) == stage = "labels" /\ offset < Len(Body) /\ HopsLeft /\ length = Body[offset + 1]

\* Neither a compression pointer nor longer than the message.
Fits(length) == length < 192 /\ offset + 1 + length <= Len(Body)

\* Broken variant, for the runs to reject: a label may reach past the message.
ReadLabelUnchecked(length) ==
    /\ AtLength(length) /\ length \in 1..191
    /\ name' = (IF name = <<>> THEN <<>> ELSE Append(name, Dot)) \o From(Body, offset + 2)
    /\ offset' = offset + 1 + length /\ hops' = hops + 1
    /\ UNCHANGED <<domains, message, stage, walk, asked, fate, response>>

ReadLabel(length) ==
    /\ AtLength(length) /\ length > 0 /\ Fits(length)
    /\ name' = (IF name = <<>> THEN <<>> ELSE Append(name, Dot))
                   \o SubSeq(Body, offset + 2, offset + 1 + length)
    /\ offset' = offset + 1 + length /\ hops' = hops + 1
    /\ UNCHANGED <<domains, message, stage, walk, asked, fate, response>>

EndOfName ==
    /\ AtLength(0)
    /\ offset' = offset + 1 /\ hops' = hops + 1
    /\ name' = tolower(name)
    /\ IF offset' + 4 > Len(Body) THEN Drops ELSE stage' = "parsed" /\ UNCHANGED <<fate, response>>
    /\ UNCHANGED <<domains, message, walk, asked>>

Reject ==
    /\ stage = "labels"
    /\ \/ offset >= Len(Body) \/ ~HopsLeft
       \/ \E length \in Byte : AtLength(length) /\ ~Fits(length)
    /\ Drops
    /\ UNCHANGED <<domains, message, parser, walk, asked>>

-----------------------------------------------------------------------------
(* Safe search before the block list; the block list before the upstream.  *)

Enforce ==
    /\ stage = "parsed" /\ IsEnforced(name)
    /\ asked' = buildSafeSearchUpstreamQuery(message, offset, enforcedSafeSearchHostFor(name))
    /\ stage' = "asking"
    /\ UNCHANGED <<domains, message, parser, walk, fate, response>>

LookUp ==
    /\ stage = "parsed" /\ ~IsEnforced(name)
    /\ subject' = name /\ from' = 1 /\ stage' = "walk"
    /\ UNCHANGED <<domains, message, parser, asked, fate, response>>

Walking == stage \in {"walk", "proxied"}
Candidate == From(subject, from)
IsDot(i) == i \in from..Len(subject) /\ subject[i] = Dot
IsFirstDot(i) == IsDot(i) /\ \A j \in from..i - 1 : subject[j] # Dot

Sinkhole ==
    /\ Walking /\ Candidate \in domains
    /\ response' = buildSinkholeResponse(message, QuestionEnd)
    /\ Ends("sinkholed")
    /\ UNCHANGED <<domains, message, parser, walk, asked>>

\* Broken variant, for the runs to reject: only the last dot is looked for.
NextParentIsLast(i) ==
    /\ Walking /\ Candidate \notin domains
    /\ IsDot(i) /\ \A j \in i + 1..Len(subject) : ~IsDot(j)
    /\ from' = i + 1
    /\ UNCHANGED <<domains, message, stage, parser, subject, asked, fate, response>>

\* Broken variant, for the runs to reject: the dot is kept.
NextParentKeepsDot(i) ==
    /\ Walking /\ Candidate \notin domains /\ IsFirstDot(i)
    /\ from' = i
    /\ UNCHANGED <<domains, message, stage, parser, subject, asked, fate, response>>

NextParent(i) ==
    /\ Walking /\ Candidate \notin domains /\ IsFirstDot(i)
    /\ from' = i + 1
    /\ UNCHANGED <<domains, message, stage, parser, subject, asked, fate, response>>

NoParent == Walking /\ Candidate \notin domains /\ \A i \in from..Len(subject) : ~IsDot(i)

LookUpProxied ==
    /\ NoParent /\ stage = "walk" /\ IsTranslateProxyHost(name)
    /\ subject' = <<>> /\ from' = 1 /\ stage' = "decoding"
    /\ UNCHANGED <<domains, message, parser, asked, fate, response>>

\* decodeTranslateProxyHost, one character of the name in front of the suffix at a
\* time: two dashes stand for one, one dash for a dot.
Encoded == SubSeq(name, 1, Len(name) - Len(TranslateSuffix))
Paired == from < Len(Encoded) /\ Encoded[from + 1] = Dash

\* Broken variant, for the runs to reject: every dash is a dot.
DecodedSingly == IF Encoded[from] # Dash THEN <<Encoded[from], 1>> ELSE <<Dot, 1>>

\* What is appended, and what it took.
Decoded ==
    IF Encoded[from] # Dash THEN <<Encoded[from], 1>>
    ELSE IF Paired THEN <<Dash, 2>> ELSE <<Dot, 1>>

Decode ==
    /\ stage = "decoding" /\ from <= Len(Encoded)
    /\ subject' = Append(subject, Decoded[1]) /\ from' = from + Decoded[2]
    /\ UNCHANGED <<domains, message, stage, parser, asked, fate, response>>

LookUpDecoded ==
    /\ stage = "decoding" /\ from > Len(Encoded)
    /\ from' = 1 /\ stage' = "proxied"
    /\ UNCHANGED <<domains, message, parser, subject, asked, fate, response>>

Forward ==
    /\ NoParent
    /\ stage = "walk" => ~IsTranslateProxyHost(name)
    /\ asked' = message /\ stage' = "asking"
    /\ UNCHANGED <<domains, message, parser, walk, fate, response>>

-----------------------------------------------------------------------------
(* forwardToUpstream and the answer.                                       *)

QuestionLength ==
    IF IsEnforced(name)
      THEN safeSearchRewrittenQuestionLength(enforcedSafeSearchHostFor(name)) ELSE QuestionEnd

\* A server repeats the question and adds what it has, or sends a bare header.
UpstreamReplies ==
    {Message(asked.id, SubSeq(asked.body, 1, QuestionLength) \o records) :
        records \in {<<>>, UpstreamAnswer}} \cup {Message(asked.id, <<>>)}

Answer(reply) ==
    /\ ~IsEnforced(name)
    /\ response' = reply /\ Ends("resolved")
    /\ UNCHANGED <<domains, message, parser, walk, asked>>

AnswerEnforced(reply) ==
    /\ IsEnforced(name)
    /\ IF RestorableFrom(reply, QuestionLength)
         THEN /\ response' = restoreSafeSearchOriginalName(reply, SubSeq(Body, 1, QuestionEnd),
                                                           QuestionLength)
              /\ Ends("enforced")
         ELSE Drops
    /\ UNCHANGED <<domains, message, parser, walk, asked>>

UpstreamSilent ==
    /\ stage = "asking"
    /\ Drops
    /\ UNCHANGED <<domains, message, parser, walk, asked>>

\* On to the next datagram.
Loop ==
    /\ stage = "done"
    /\ message' = NoMessage /\ stage' = "receiving"
    /\ offset' = 0 /\ hops' = 0 /\ name' = <<>>
    /\ subject' = <<>> /\ from' = 1
    /\ asked' = NoMessage /\ fate' = "none" /\ response' = NoMessage
    /\ UNCHANGED domains

-----------------------------------------------------------------------------
Parse == (\E length \in Byte : ReadLabel(length)) \/ EndOfName \/ Reject
Decide ==
    \/ Enforce \/ LookUp \/ Sinkhole \/ Forward
    \/ LookUpProxied \/ Decode \/ LookUpDecoded
    \/ \E i \in from..Len(subject) : NextParent(i)
Settle ==
    /\ stage = "asking"
    /\ UpstreamSilent \/ \E reply \in UpstreamReplies : Answer(reply) \/ AnswerEnforced(reply)

Next ==
    \/ \E lines \in Files : LoadFromFile(lines)
    \/ \E m \in Messages : Receive(m)
    \/ Parse \/ Decide \/ Settle \/ Loop

Spec == Init /\ [][Next]_vars

\* The worker goes on by itself, and waits three seconds at most for a server.
FairSpec == Spec /\ WF_vars(Parse \/ Decide \/ UpstreamSilent \/ Loop)

-----------------------------------------------------------------------------
(* What names mean, apart from how the code finds it out.                  *)

\* Proper queries, of names with few enough labels.
Queries ==
    {Message(1, encodeName(n) \o t) :
        n \in {k \in Names : Cardinality({i \in DOMAIN k : k[i] = Dot}) + 1 < kMaxLabelHops},
        t \in TypesAndClasses}

\* Where a name and each of its parents begin.
Beginnings(n) == {1} \cup {i + 1 : i \in {j \in 1..Len(n) : n[j] = Dot}}

Listed(n) == \E i \in Beginnings(n) : From(n, i) \in domains

\* How the translation proxy writes a name.
ProxiedAs(n) ==
    FlattenSeq([i \in 1..Len(n) |-> CASE n[i] = Dot  -> <<Dash>>
                                      [] n[i] = Dash -> <<Dash, Dash>>
                                      [] OTHER       -> <<n[i]>>]) \o TranslateSuffix
Proxied == [n \in Names |-> ProxiedAs(n)]

\* No label is empty or begins with a dash.
IsHostName(n) == \A i \in Beginnings(n) : i <= Len(n) /\ n[i] \notin {Dot, Dash}

-----------------------------------------------------------------------------
(* Properties.                                                             *)

\* The type invariant.
TypeOK ==
    /\ message \in [id : Nat, questions : Nat, body : Seq(Byte)]
    /\ stage \in Stages
    /\ offset \in Nat /\ hops \in Nat /\ from \in Nat \ {0}
    /\ name \in Seq(Byte) /\ subject \in Seq(Byte)

\* Whatever the datagram holds, no read goes past its end: not the length byte,
\* nor the label, nor the four bytes of type and class that are copied to the
\* sinkhole answer and to the upstream query; walk and decoding stay in the name
\* (parseQuery, buildSinkholeResponse, isBlocked, decodeTranslateProxyHost).
InBounds ==
    /\ stage = "labels" => offset <= Len(Body) /\ hops <= kMaxLabelHops
    /\ stage \in {"parsed", "walk", "decoding", "proxied", "asking"} => QuestionEnd <= Len(Body)
    /\ Walking => from <= Len(subject) + 1
    /\ stage = "decoding" => from <= Len(Encoded) + 1

\* A proper query, of up to kMaxLabelHops - 1 labels, is never rejected, and any
\* query with no dot inside a label is read as the name that encodes to it, but
\* for the case (parseQuery, encodeName).
ParsesWhatItEncodes ==
    /\ message \in Queries /\ fate = "dropped" => asked # NoMessage
    /\ stage = "parsed" /\ Cardinality(Beginnings(name)) = hops - 1 =>
        tolower(encodeName(name)) = tolower(SubSeq(Body, 1, offset))

\* A query is sinkholed only if its name, or what it stands for at the translation
\* proxy, is on the list or has a parent there, never for a mere ending in common;
\* and no other query goes upstream as it came (isBlockedIncludingProxies).
SinkholedIffListed ==
    /\ fate = "sinkholed" =>
        Listed(name) \/ (IsTranslateProxyHost(name) /\ Listed(subject))
    /\ stage = "asking" /\ ~IsEnforced(name) =>
        ~Listed(name) /\ (IsTranslateProxyHost(name) => ~Listed(subject))

\* The translation proxy does not get a listed host past the filter: its name as
\* the proxy writes it never goes upstream, dashes and subdomains included
\* (decodeTranslateProxyHost, isBlockedIncludingProxies).
ProxySeenThrough ==
    stage = "asking" /\ ~IsEnforced(name) =>
        \A n \in Names : name = Proxied[n] /\ IsHostName(n) => ~Listed(n)

\* Any answer carries the number and, unless an upstream server sent a bare
\* header, the question that the client asked; the records begin where that
\* question ends, and the first is about it (buildSinkholeResponse,
\* restoreSafeSearchOriginalName).
AnswersTheQuestion ==
    fate \in {"sinkholed", "enforced", "resolved"} =>
        /\ response.id = message.id
        /\ \/ fate = "resolved" /\ response.body = <<>>
           \/ /\ IsPrefix(SubSeq(Body, 1, QuestionEnd), response.body)
              /\ LET records == From(response.body, QuestionEnd + 1)
                 IN  records = <<>> \/ IsPrefix(QuestionPointer, records)

\* Every datagram is done with, and the worker takes the next: neither loop goes
\* round for ever, whatever the bytes (parseQuery, isBlocked, forwardToUpstream).
EveryQueryEnds == stage # "receiving" ~> stage = "receiving"

=============================================================================
