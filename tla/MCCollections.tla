--------------------------- MODULE MCCollections ---------------------------
(* Collections with two tasks whose texts join to the same key source, and *)
(* one message sent to two threads.                                        *)
EXTENDS Collections

CONSTANTS c1, c2

Add(title, description) ==
    [op |-> "add", into |-> <<"w">>, title |-> title, description |-> description,
     priority |-> <<>>, tags |-> <<>>]

MCCommandLine ==
    {Add(<<"a">>, <<"b", "|">>), Add(<<"a", "|", "b">>, <<>>)}
    \cup {[op |-> "send", into |-> <<"w">>, kind |-> <<"t">>, to |-> <<"x">>,
           thread |-> th, body |-> <<"a">>] : th \in {<<>>, <<"m">>}}

MCActorOf == [c \in Client |-> "agent"]
=============================================================================
