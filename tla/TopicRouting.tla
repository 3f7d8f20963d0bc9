---------------------------- MODULE TopicRouting ----------------------------
(***************************************************************************)
(* Which subscription patterns match a topic and how patterns are ranked   *)
(* (_commlib/node_context.py).  A topic is a sequence of levels, a pattern *)
(* one in which "+" stands for any level and a final "#" for any levels    *)
(* that may follow.                                                        *)
(***************************************************************************)
EXTENDS Naturals, Sequences, FiniteSets

Wildcards == {"+", "#"}

\* _topic_matches(): the loop over the levels of the pattern is decided by the
\* first level that is "#", lies beyond the topic, or differs from it.
TopicMatches(p, t) ==
    LET Decides(i) == p[i] = "#" \/ i > Len(t) \/ p[i] \notin {"+", t[i]}
        deciding   == {i \in DOMAIN p : Decides(i)}
    IN  \/ deciding = {} /\ Len(p) = Len(t)
        \/ \E i \in deciding : p[i] = "#" /\ \A j \in deciding : i <= j

Literals(p) == Cardinality({i \in DOMAIN p : p[i] \notin Wildcards})
HasHash(p)  == \E i \in DOMAIN p : p[i] = "#"

\* Mutant of MoreSpecific: the second component of the tuple is inverted.
HashFirst(p, q) ==
    \/ Literals(p) > Literals(q)
    \/ Literals(p) = Literals(q) /\ HasHash(p) /\ ~HasHash(q)

\* The lexicographic order on _pattern_specificity().
MoreSpecific(p, q) ==
    \/ Literals(p) > Literals(q)
    \/ Literals(p) = Literals(q) /\ ~HasHash(p) /\ HasHash(q)

-----------------------------------------------------------------------------
(* The reference: what a topic filter means in MQTT 3.1.1, section 4.7.    *)

Agree(p, t, n) == \A i \in 1..n : p[i] \in {"+", t[i]}

Covers(p, t) ==
    LET n == Len(p) - 1
    IN  IF HasHash(p) THEN Len(t) >= n /\ Agree(p, t, n)
                      ELSE Len(t) = Len(p) /\ Agree(p, t, Len(p))

\* "#" is the last level of a pattern.
WellFormed(p) == \A i \in DOMAIN p : p[i] = "#" => i = Len(p)

\* A topic that p covers and that has a level of its own, in none of the
\* patterns, wherever p has a wildcard.
Typical(t, p, patterns) ==
    /\ Covers(p, t)
    /\ \A i \in DOMAIN t : \/ i \in DOMAIN p /\ p[i] = t[i]
                           \/ \A q \in patterns : i \in DOMAIN q => q[i] # t[i]

\* Pattern p stands for fewer topics than q.
Narrower(p, q, topics) ==
    /\ \A t \in topics : Covers(p, t) => Covers(q, t)
    /\ \E t \in topics : Covers(q, t) /\ ~Covers(p, t)
=============================================================================
