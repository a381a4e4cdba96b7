----------------------------- MODULE DnsMessage -----------------------------
(***************************************************************************)
(* The pure functions behind the DNS filter of ClearGuard Desktop: building *)
(* and taking apart messages (desktop/src/dns/dns_message.cpp), the safe   *)
(* search hosts (safe_search.cpp) and the block list (blocklist.cpp).      *)
(*                                                                         *)
(* A message is what the code reads of its header, which has twelve bytes, *)
(* and the bytes behind it, numbered from 1: a pointer to offset 12 in the *)
(* code points to the first of them.  A name is a sequence of characters,  *)
(* as in the code; the names that the code compares with are constants.    *)
(***************************************************************************)
EXTENDS SequencesExt

CONSTANTS
    TranslateSuffix,    \* ".translate.goog"
    EnforcedNames,      \* the host each name is forced to: youtube.com and the like
    EnforcedPrefixes    \* the host for each prefix: "google.", "www.google."

Byte == 0..255

\* The names in the code are fixed strings.
ASSUME SuffixAssumption == TranslateSuffix \in Seq(Byte)
ASSUME HostsAssumption ==
    /\ \A n \in DOMAIN EnforcedNames : EnforcedNames[n] \in Seq(Byte)
    /\ \A p \in DOMAIN EnforcedPrefixes : EnforcedPrefixes[p] \in Seq(Byte)

Dot == 46
Dash == 45
Blanks == {32, 9, 13, 10}
Comment == 35
QuestionPointer == <<192, 12>>  \* 0xC00C

Message(id, body) == [id |-> id, questions |-> 1, body |-> body]

tolower(name) == [i \in DOMAIN name |-> IF name[i] \in 65..90 THEN name[i] + 32 ELSE name[i]]

From(s, i) == SubSeq(s, i, Len(s))

-----------------------------------------------------------------------------
(* Names and messages.                                                     *)

\* Labels are split at the dots; empty ones are left out.
encodeName(domain) ==
    LET Flush(acc) ==
            IF acc.label = <<>> THEN acc.rest
            ELSE <<Len(acc.label) % 256>> \o acc.label \o acc.rest
        Take(char, acc) ==
            IF char = Dot THEN [label |-> <<>>, rest |-> Flush(acc)]
            ELSE [acc EXCEPT !.label = <<char>> \o @]
    IN  Flush(FoldRight(Take, domain, [label |-> <<>>, rest |-> <<0>>]))

\* One A record for the name asked, 0.0.0.0 for a minute, whatever was asked of it.
SinkholeAnswer == QuestionPointer \o <<0, 1, 0, 1, 0, 0, 0, 60, 0, 4, 0, 0, 0, 0>>

buildSinkholeResponse(message, questionEnd) ==
    Message(message.id, SubSeq(message.body, 1, questionEnd) \o SinkholeAnswer)

IsTranslateProxyHost(domain) ==
    Len(domain) > Len(TranslateSuffix) /\ IsSuffix(TranslateSuffix, domain)

-----------------------------------------------------------------------------
(* Safe search.                                                            *)

PrefixesOf(domain) == {p \in DOMAIN EnforcedPrefixes : IsPrefix(p, domain)}

IsEnforced(domain) == domain \in DOMAIN EnforcedNames \/ PrefixesOf(domain) # {}

enforcedSafeSearchHostFor(domain) ==
    IF PrefixesOf(domain) # {} THEN EnforcedPrefixes[CHOOSE p \in PrefixesOf(domain) : TRUE]
    ELSE EnforcedNames[domain]

\* The name is replaced; type, class and what follows stay.
buildSafeSearchUpstreamQuery(message, nameEnd, host) ==
    [message EXCEPT !.body = encodeName(host) \o From(message.body, nameEnd + 1)]

safeSearchRewrittenQuestionLength(host) == Len(encodeName(host)) + 4

RestorableFrom(response, rewrittenLength) == Len(response.body) >= rewrittenLength

\* Broken variant, for the runs to reject: the lengths of name and question mixed up.
restoreLeavesTypeBehind(response, originalQuestion, rewrittenLength) ==
    [response EXCEPT !.body = originalQuestion \o From(response.body, rewrittenLength - 3)]

restoreSafeSearchOriginalName(response, originalQuestion, rewrittenLength) ==
    [response EXCEPT !.body = originalQuestion \o From(response.body, rewrittenLength + 1)]

-----------------------------------------------------------------------------
(* The block list.                                                         *)

trim(line) ==
    LET kept == {i \in DOMAIN line : line[i] \notin Blanks}
    IN  IF kept = {} THEN <<>> ELSE SubSeq(line, Min(kept), Max(kept))

loadFromFile(lines) ==
    {tolower(entry) : entry \in {e \in {trim(l) : l \in lines} : e # <<>> /\ e[1] # Comment}}

=============================================================================
