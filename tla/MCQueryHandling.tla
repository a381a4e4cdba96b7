-------------------------- MODULE MCQueryHandling --------------------------
(***************************************************************************)
(* A finite instance of QueryHandling, over the characters a, b, g, y, t,  *)
(* A, dot and dash.  Listed are a.b and b-a, or what a file holds; g. is a *)
(* prefix, and y a name, with a safe search host; .t is the proxy.         *)
(***************************************************************************)
EXTENDS QueryHandling

CONSTANTS GarbageLength, NameLength

a == 97
b == 98
ProxySuffix == <<Dot, 116>>
SafeNames == [n \in {<<121>>, <<119, Dot, 121>>} |-> <<114, Dot, 121>>]
SafePrefixes == [p \in {<<103, Dot>>} |-> <<102, Dot, 103>>]

AType == <<0, 1, 0, 1>>
Tails == {AType, AType \o <<0, 0, 41>>}
RecordOf == QuestionPointer \o <<0, 1, 0, 1, 0, 0, 0, 9, 0, 4, 7, 7, 7, 7>>

List == {<<a, Dot, b>>, <<b, Dash, a>>}
File == {<<32, 65, Dot, 98, 13>>, <<Comment, a>>, <<>>, <<9>>, <<b, Dash, a>>, <<a, a>>}
OneFile == {File}

Garbage ==
    {[id |-> 2, questions |-> 1, body |-> g \o t] :
        g \in BoundedSeq({0, 1, 2, 65, Dot, 192}, GarbageLength), t \in Tails \cup {<<>>}}
    \cup {[id |-> 2, questions |-> 0, body |-> <<1, a, 0>> \o AType],
           [id |-> 2, questions |-> 1, body |-> <<1, a, 1, a, 1, a, 1, a, 1, a, 0>> \o AType]}

Subdomains == {<<a, Dot, a, Dot, b>>, <<a, Dot, b, Dot, a, Dot, b>>, <<a, Dot, a, Dot, a, Dot, b>>,
               <<a, Dash, a, Dot, b, Dash, a>>, <<b, Dash, Dash, b, Dot, a, Dot, b>>}
Plain == BoundedSeq({a, b, Dot, Dash}, NameLength)
AllNames ==
    Plain \cup {n \o ProxySuffix : n \in Plain}
    \cup {p \o n : p \in {<<103, Dot>>, <<119, Dot, 121>>, <<121>>}, n \in BoundedSeq({a, Dot}, 2)}
    \cup Subdomains \cup {ProxiedAs(n) : n \in Subdomains}

AllMessages == Garbage \cup Queries

=============================================================================
