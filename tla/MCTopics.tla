------------------------------- MODULE MCTopics -------------------------------
(* Small instances of Topics: the topics a, ab and b, the prefixes "" and    *)
(* "a", and two subscriptions of one session or of two.                      *)
EXTENDS Topics, TLC

CONSTANTS a, b, s1, s2, c1, c2

TwoTopics == {<<a, b>>, <<b>>}
ThreeTopics == {<<a>>, <<a, b>>, <<b>>}
EmptyAndA == {<<>>, <<a>>}
One == s1 :> c1
Both == (s1 :> c1) @@ (s2 :> c2)
Same == (s1 :> c1) @@ (s2 :> c1)
=============================================================================
