--------------------------- MODULE MC_MessageBus ---------------------------
(***************************************************************************)
(* Small instances of MessageBus: two types, of which the first goes to    *)
(* two topics, a third with the name of the second, and a blank one.       *)
(***************************************************************************)
EXTENDS MessageBus, TLC

CONSTANTS t1, t2, g1, g2, g3, g4, m1, m2, m3, s1, s2

TypeNames == g1 :> "a" @@ g2 :> "b" @@ g3 :> "b" @@ g4 :> ""
TypeOfMessages == m1 :> g1 @@ m2 :> g1 @@ m3 :> g2
HandledTypes == t1 :> {"a", "b"} @@ t2 :> {"a"}

AllRegistrations ==
    {{<<t1, g1>>, <<t2, g1>>, <<t1, g2>>},
     {<<t1, g1>>, <<t2, g1>>},
     {<<t1, g2>>, <<t1, g3>>, <<t2, g1>>},
     {<<t1, g1>>, <<t2, g4>>}}

AllSubscriptions == {{<<s1, t1>>, <<s1, t2>>}, {<<s1, t1>>, <<s2, t1>>, <<s2, t2>>}}

AllCalls == {<<m1, m2>>, <<m1, m3>>, <<m2>>, <<m1, m2, m3>>}
=============================================================================
