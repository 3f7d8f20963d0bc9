--------------------------- MODULE DeliveryProofs ---------------------------
(* Theorems about Delivery, for any patterns, subscribers and handlers.     *)
EXTENDS Delivery, SequenceTheorems, FiniteSetTheorems, WellFoundedInduction, TLAPS

Distinct(s) == \A i, j \in 1..Len(s) : s[i] = s[j] => i = j

-----------------------------------------------------------------------------
(* Lists and their elements.                                               *)

LEMMA ElementsOf ==
    ASSUME NEW S, NEW s \in Seq(S)
    PROVE  /\ DOMAIN s = 1..Len(s) /\ Len(s) \in Nat
           /\ Elements(s) \subseteq S
           /\ \A x : x \in Elements(s) <=> \E i \in 1..Len(s) : s[i] = x
           /\ (s = <<>> <=> Elements(s) = {})
<1>1. DOMAIN s = 1..Len(s) /\ Len(s) \in Nat /\ \A i \in 1..Len(s) : s[i] \in S
  BY LenProperties, ElementOfSeq
<1>2. \A x : x \in Elements(s) <=> \E i \in 1..Len(s) : s[i] = x
  BY <1>1 DEF Elements
<1>3. s = <<>> <=> Len(s) = 0
  BY EmptySeq
<1>4. Len(s) = 0 <=> Elements(s) = {}
  <2>1. CASE Len(s) = 0
    BY <1>2, <2>1
  <2>2. CASE Len(s) # 0
    <3>1. 1 \in 1..Len(s)
      BY <1>1, <2>2
    <3> QED
      BY <1>2, <2>2, <3>1
  <2> QED
    BY <2>1, <2>2
<1> QED
  BY <1>1, <1>2, <1>3, <1>4

LEMMA EmptyList ==
    /\ \A S : <<>> \in Seq(S)
    /\ Len(<<>>) = 0 /\ Elements(<<>>) = {} /\ Distinct(<<>>)
BY EmptySeq DEF Elements, Distinct

LEMMA SingleList ==
    ASSUME NEW S, NEW e \in S
    PROVE  /\ <<e>> \in Seq(S) /\ Len(<<e>>) = 1 /\ <<e>>[1] = e
           /\ Elements(<<e>>) = {e} /\ Distinct(<<e>>)
BY DEF Elements, Distinct

LEMMA AppendList ==
    ASSUME NEW S, NEW s \in Seq(S), NEW e \in S
    PROVE  /\ Append(s, e) \in Seq(S)
           /\ Elements(Append(s, e)) = Elements(s) \cup {e}
           /\ Distinct(s) /\ e \notin Elements(s) => Distinct(Append(s, e))
<1>1. /\ Len(s) \in Nat /\ Len(Append(s, e)) = Len(s) + 1 /\ Append(s, e) \in Seq(S)
      /\ \A i \in 1..Len(s) : Append(s, e)[i] = s[i]
      /\ Append(s, e)[Len(s) + 1] = e
  BY AppendProperties, LenProperties
<1>2. /\ \A x : x \in Elements(s) <=> \E i \in 1..Len(s) : s[i] = x
      /\ \A x : x \in Elements(Append(s, e)) <=>
                    \E i \in 1..(Len(s) + 1) : Append(s, e)[i] = x
  BY <1>1, ElementsOf
<1>3. ASSUME NEW x PROVE x \in Elements(Append(s, e)) <=> x \in Elements(s) \/ x = e
  BY <1>1, <1>2
<1>4. ASSUME Distinct(s), e \notin Elements(s) PROVE Distinct(Append(s, e))
  BY <1>1, <1>2, <1>4 DEF Distinct
<1> QED
  BY <1>1, <1>3, <1>4

LEMMA ConcatList ==
    ASSUME NEW S, NEW s \in Seq(S), NEW t \in Seq(S)
    PROVE  /\ s \o t \in Seq(S)
           /\ Elements(s \o t) = Elements(s) \cup Elements(t)
           /\ Distinct(s) /\ Distinct(t) /\ Elements(s) \cap Elements(t) = {}
                 => Distinct(s \o t)
<1>1. /\ Len(s) \in Nat /\ Len(t) \in Nat /\ s \o t \in Seq(S)
      /\ Len(s \o t) = Len(s) + Len(t)
      /\ \A i \in 1..Len(s) : (s \o t)[i] = s[i]
      /\ \A i \in (Len(s) + 1)..(Len(s) + Len(t)) : (s \o t)[i] = t[i - Len(s)]
  BY ConcatProperties, LenProperties
<1>2. /\ \A x : x \in Elements(s) <=> \E i \in 1..Len(s) : s[i] = x
      /\ \A x : x \in Elements(t) <=> \E i \in 1..Len(t) : t[i] = x
      /\ \A x : x \in Elements(s \o t) <=>
                    \E i \in 1..(Len(s) + Len(t)) : (s \o t)[i] = x
  BY <1>1, ElementsOf
<1>3. ASSUME NEW x PROVE x \in Elements(s \o t) <=> x \in Elements(s) \/ x \in Elements(t)
  <2>1. ASSUME x \in Elements(s) PROVE x \in Elements(s \o t)
    BY <1>1, <1>2, <2>1
  <2>2. ASSUME x \in Elements(t) PROVE x \in Elements(s \o t)
    <3>1. PICK i \in 1..Len(t) : t[i] = x
      BY <1>2, <2>2
    <3>2. i + Len(s) \in (Len(s) + 1)..(Len(s) + Len(t)) /\ (i + Len(s)) - Len(s) = i
      BY <1>1, <3>1
    <3>3. (s \o t)[i + Len(s)] = x /\ i + Len(s) \in 1..(Len(s) + Len(t))
      BY <1>1, <3>1, <3>2
    <3> QED
      BY <1>2, <3>3
  <2>3. ASSUME x \in Elements(s \o t) PROVE x \in Elements(s) \/ x \in Elements(t)
    <3>1. PICK i \in 1..(Len(s) + Len(t)) : (s \o t)[i] = x
      BY <1>2, <2>3
    <3>2. CASE i \in 1..Len(s)
      BY <1>1, <1>2, <3>1, <3>2
    <3>3. CASE i \in (Len(s) + 1)..(Len(s) + Len(t))
      <4>1. i - Len(s) \in 1..Len(t) /\ t[i - Len(s)] = x
        BY <1>1, <3>1, <3>3
      <4> QED
        BY <1>2, <4>1
    <3> QED
      BY <1>1, <3>1, <3>2, <3>3
  <2> QED
    BY <2>1, <2>2, <2>3
<1>4. ASSUME Distinct(s), Distinct(t), Elements(s) \cap Elements(t) = {},
             NEW i \in 1..(Len(s) + Len(t)), NEW j \in 1..(Len(s) + Len(t)),
             (s \o t)[i] = (s \o t)[j]
      PROVE  i = j
  <2>1. CASE i \in 1..Len(s) /\ j \in 1..Len(s)
    BY <1>1, <1>4, <2>1 DEF Distinct
  <2>2. CASE i \in (Len(s) + 1)..(Len(s) + Len(t)) /\ j \in (Len(s) + 1)..(Len(s) + Len(t))
    <3>1. i - Len(s) \in 1..Len(t) /\ j - Len(s) \in 1..Len(t)
      BY <1>1, <2>2
    <3>2. t[i - Len(s)] = t[j - Len(s)]
      BY <1>1, <1>4, <2>2
    <3>3. i - Len(s) = j - Len(s)
      BY <1>4, <3>1, <3>2 DEF Distinct
    <3> QED
      BY <1>1, <3>3
  <2>3. ASSUME NEW m \in 1..Len(s), NEW n \in (Len(s) + 1)..(Len(s) + Len(t))
        PROVE  (s \o t)[m] # (s \o t)[n]
    <3>1. n - Len(s) \in 1..Len(t) /\ (s \o t)[n] = t[n - Len(s)]
      BY <1>1, <2>3
    <3>2. (s \o t)[n] \in Elements(t) /\ (s \o t)[m] \in Elements(s)
      BY <1>1, <1>2, <2>3, <3>1
    <3> QED
      BY <1>4, <3>2
  <2> QED
    BY <1>1, <1>4, <2>1, <2>2, <2>3
<1>5. Distinct(s) /\ Distinct(t) /\ Elements(s) \cap Elements(t) = {} => Distinct(s \o t)
  BY <1>1, <1>4 DEF Distinct
<1> QED
  BY <1>1, <1>3, <1>5

LEMMA TailList ==
    ASSUME NEW S, NEW s \in Seq(S), s # <<>>, Distinct(s)
    PROVE  /\ Head(s) \in S /\ Head(s) \in Elements(s)
           /\ Tail(s) \in Seq(S) /\ Distinct(Tail(s))
           /\ Len(s) \in Nat \ {0} /\ Len(Tail(s)) = Len(s) - 1
           /\ \A i \in 1..Len(Tail(s)) : Tail(s)[i] = s[i + 1]
           /\ Elements(Tail(s)) = Elements(s) \ {Head(s)}
<1>1. /\ Len(s) \in Nat \ {0} /\ Len(Tail(s)) = Len(s) - 1 /\ Tail(s) \in Seq(S)
      /\ \A i \in 1..Len(Tail(s)) : Tail(s)[i] = s[i + 1]
      /\ Head(s) = s[1] /\ Head(s) \in S
  BY HeadTailProperties, LenProperties, EmptySeq
<1>2. /\ \A x : x \in Elements(s) <=> \E i \in 1..Len(s) : s[i] = x
      /\ \A x : x \in Elements(Tail(s)) <=> \E i \in 1..(Len(s) - 1) : s[i + 1] = x
  <2>1. \A x : x \in Elements(Tail(s)) <=> \E i \in 1..Len(Tail(s)) : Tail(s)[i] = x
    BY <1>1, ElementsOf
  <2> QED
    BY <1>1, <2>1, ElementsOf
<1>3. Distinct(Tail(s))
  BY <1>1 DEF Distinct
<1>4. ASSUME NEW x PROVE x \in Elements(Tail(s)) <=> x \in Elements(s) /\ x # Head(s)
  <2>1. ASSUME x \in Elements(Tail(s)) PROVE x \in Elements(s) /\ x # Head(s)
    BY <1>1, <1>2, <2>1 DEF Distinct
  <2>2. ASSUME x \in Elements(s), x # Head(s) PROVE x \in Elements(Tail(s))
    <3>1. PICK i \in 1..Len(s) : s[i] = x
      BY <1>2, <2>2
    <3>2. i - 1 \in 1..(Len(s) - 1) /\ s[(i - 1) + 1] = x
      BY <1>1, <2>2, <3>1
    <3> QED
      BY <1>2, <3>2
  <2> QED
    BY <2>1, <2>2
<1> QED
  BY <1>1, <1>2, <1>3, <1>4

\* A list that holds an element once loses it, and nothing else.
LEMMA WithoutList ==
    ASSUME NEW S, NEW s \in Seq(S), Distinct(s), NEW x
    PROVE  /\ Without(s, x) \in Seq(S) /\ Distinct(Without(s, x))
           /\ Elements(Without(s, x)) = Elements(s) \ {x}
<1>1. CASE x \notin Elements(s)
  BY <1>1 DEF Without
<1>2. CASE x \in Elements(s)
  <2>0. /\ DOMAIN s = 1..Len(s) /\ Len(s) \in Nat /\ \A i \in 1..Len(s) : s[i] \in S
        /\ \A y : y \in Elements(s) <=> \E i \in 1..Len(s) : s[i] = y
    BY ElementsOf, ElementOfSeq
  <2> DEFINE First(i) == s[i] = x /\ \A j \in 1..(i - 1) : s[j] # x
             k == CHOOSE i \in DOMAIN s : First(i)
             u == SubSeq(s, 1, k - 1)
             v == SubSeq(s, k + 1, Len(s))
  <2>1. \E i \in DOMAIN s : First(i)
    <3>1. PICK i \in 1..Len(s) : s[i] = x
      BY <1>2, <2>0
    <3>2. \A j \in 1..(i - 1) : s[j] # x
      BY <2>0, <3>1 DEF Distinct
    <3> QED
      BY <2>0, <3>1, <3>2
  <2>2. k \in 1..Len(s) /\ s[k] = x
    BY <2>0, <2>1
  <2> HIDE DEF k
  <2>3. /\ u \in Seq(S) /\ Len(u) = k - 1 /\ \A i \in 1..(k - 1) : u[i] = s[i]
    <3>1. 1 \in Int /\ k - 1 \in Int /\ \A i \in 1..(k - 1) : s[i] \in S
      BY <2>0, <2>2
    <3>2. /\ u \in Seq(S) /\ Len(u) = IF 1 <= k - 1 THEN (k - 1) - 1 + 1 ELSE 0
          /\ \A i \in 1..((k - 1) - 1 + 1) : u[i] = s[1 + i - 1]
      BY <3>1, SubSeqProperties
    <3> QED
      BY <2>0, <2>2, <3>2
  <2>4. /\ v \in Seq(S) /\ Len(v) = Len(s) - k
        /\ \A i \in 1..(Len(s) - k) : v[i] = s[k + i]
    <3>1. k + 1 \in Int /\ Len(s) \in Int /\ \A i \in (k + 1)..Len(s) : s[i] \in S
      BY <2>0, <2>2
    <3>2. /\ v \in Seq(S)
          /\ Len(v) = IF k + 1 <= Len(s) THEN Len(s) - (k + 1) + 1 ELSE 0
          /\ \A i \in 1..(Len(s) - (k + 1) + 1) : v[i] = s[(k + 1) + i - 1]
      BY <3>1, SubSeqProperties
    <3>0. Len(s) \in Int /\ k \in Int /\ k <= Len(s)
      BY <2>0, <2>2
    <3>3. Len(s) - (k + 1) + 1 = Len(s) - k
      BY <3>0
    <3>4. \A i \in 1..(Len(s) - k) : (k + 1) + i - 1 = k + i
      BY <3>0
    <3>5. \A i \in 1..(Len(s) - k) : v[i] = s[k + i]
      BY <3>2, <3>3, <3>4
    <3>6. Len(v) = Len(s) - k
      BY <3>0, <3>2
    <3> QED
      BY <3>2, <3>5, <3>6
  <2>5. Without(s, x) = u \o v
    BY <1>2 DEF Without, k
  <2> HIDE DEF u, v
  <2>6. /\ \A y : y \in Elements(u) <=> \E i \in 1..(k - 1) : s[i] = y
        /\ \A y : y \in Elements(v) <=> \E i \in (k + 1)..Len(s) : s[i] = y
    <3>1. \A y : y \in Elements(u) <=> \E i \in 1..(k - 1) : u[i] = y
      BY <2>3, ElementsOf
    <3>2. \A y : y \in Elements(v) <=> \E i \in 1..(Len(s) - k) : v[i] = y
      BY <2>4, ElementsOf
    <3>3. ASSUME NEW y PROVE y \in Elements(v) <=> \E i \in (k + 1)..Len(s) : s[i] = y
      <4>1. ASSUME y \in Elements(v) PROVE \E i \in (k + 1)..Len(s) : s[i] = y
        <5>1. PICK i \in 1..(Len(s) - k) : v[i] = y
          BY <3>2, <4>1
        <5>2. k + i \in (k + 1)..Len(s) /\ s[k + i] = y
          BY <2>0, <2>2, <2>4, <5>1
        <5> QED
          BY <5>2
      <4>2. ASSUME NEW i \in (k + 1)..Len(s), s[i] = y PROVE y \in Elements(v)
        <5>1. i - k \in 1..(Len(s) - k) /\ k + (i - k) = i
          BY <2>0, <2>2, <4>2
        <5>2. v[i - k] = y
          BY <2>4, <4>2, <5>1
        <5> QED
          BY <3>2, <5>1, <5>2
      <4> QED
        BY <4>1, <4>2
    <3>4. \A y : y \in Elements(u) <=> \E i \in 1..(k - 1) : s[i] = y
      BY <2>3, <3>1
    <3> QED
      BY <3>3, <3>4
  <2>7. Distinct(u)
    BY <2>0, <2>2, <2>3 DEF Distinct
  <2>8. Distinct(v)
    <3> SUFFICES ASSUME NEW i \in 1..(Len(s) - k), NEW j \in 1..(Len(s) - k), v[i] = v[j]
                 PROVE  i = j
      BY <2>4 DEF Distinct
    <3>1. k + i \in 1..Len(s) /\ k + j \in 1..Len(s)
      BY <2>0, <2>2
    <3>2. s[k + i] = s[k + j]
      BY <2>4
    <3>3. k + i = k + j
      BY <3>1, <3>2 DEF Distinct
    <3> QED
      BY <2>2, <3>3
  <2>9. Elements(u) \cap Elements(v) = {}
    <3> SUFFICES ASSUME NEW y, y \in Elements(u), y \in Elements(v) PROVE FALSE
      OBVIOUS
    <3>1. PICK i \in 1..(k - 1) : s[i] = y
      BY <2>6
    <3>2. PICK j \in (k + 1)..Len(s) : s[j] = y
      BY <2>6
    <3>3. i \in 1..Len(s) /\ j \in 1..Len(s) /\ i # j
      BY <2>0, <2>2
    <3> QED
      BY <3>1, <3>2, <3>3 DEF Distinct
  <2>10. ASSUME NEW y PROVE y \in Elements(u) \cup Elements(v) <=> y \in Elements(s) \ {x}
    <3>1. ASSUME y \in Elements(s), y # x PROVE y \in Elements(u) \cup Elements(v)
      <4>1. PICK i \in 1..Len(s) : s[i] = y
        BY <2>0, <3>1
      <4>2. i \in 1..(k - 1) \/ i \in (k + 1)..Len(s)
        BY <2>0, <2>2, <3>1, <4>1
      <4> QED
        BY <2>6, <4>1, <4>2
    <3>2. ASSUME NEW i \in 1..(k - 1) \cup (k + 1)..Len(s), s[i] = y
          PROVE  y \in Elements(s) \ {x}
      <4>1. i \in 1..Len(s) /\ i # k
        BY <2>0, <2>2
      <4>2. s[i] # x
        BY <2>2, <4>1 DEF Distinct
      <4> QED
        BY <2>0, <3>2, <4>1, <4>2
    <3> QED
      BY <2>6, <3>1, <3>2
  <2> QED
    BY <2>3, <2>4, <2>5, <2>7, <2>8, <2>9, <2>10, ConcatList
<1> QED
  BY <1>1, <1>2

LEMMA DistinctLen ==
    ASSUME NEW S, NEW s \in Seq(S), Distinct(s)
    PROVE  Len(s) = Cardinality(Elements(s))
<1>1. /\ DOMAIN s = 1..Len(s) /\ Len(s) \in Nat
      /\ \A x : x \in Elements(s) <=> \E i \in 1..Len(s) : s[i] = x
  BY ElementsOf
<1>2. s \in Bijection(1..Len(s), Elements(s))
  <2>1. s \in [1..Len(s) -> Elements(s)]
    <3>1. s = [i \in 1..Len(s) |-> s[i]]
      BY <1>1, ElementOfSeq, LenProperties
    <3> QED
      BY <1>1, <3>1
  <2> QED
    BY <1>1, <2>1 DEF Bijection, Injection, Surjection, IsInjective, Distinct
<1>3. IsFiniteSet(1..Len(s)) /\ Cardinality(1..Len(s)) = Len(s)
  BY <1>1, FS_Interval
<1> QED
  BY <1>2, <1>3, FS_Bijection DEF ExistsBijection

LEMMA DistinctCount ==
    ASSUME NEW S, NEW s \in Seq(S), Distinct(s), NEW x
    PROVE  Cardinality({i \in DOMAIN s : s[i] = x}) = IF x \in Elements(s) THEN 1 ELSE 0
<1>1. /\ DOMAIN s = 1..Len(s)
      /\ x \in Elements(s) <=> \E i \in 1..Len(s) : s[i] = x
  BY ElementsOf
<1>2. CASE x \in Elements(s)
  <2>1. PICK i \in 1..Len(s) : s[i] = x
    BY <1>1, <1>2
  <2>2. {j \in DOMAIN s : s[j] = x} = {i}
    BY <1>1, <2>1 DEF Distinct
  <2> QED
    BY <1>2, <2>2, FS_Singleton
<1>3. CASE x \notin Elements(s)
  <2>1. {j \in DOMAIN s : s[j] = x} = {}
    BY <1>1, <1>3
  <2> QED
    BY <1>3, <2>1, FS_EmptySet
<1> QED
  BY <1>2, <1>3

-----------------------------------------------------------------------------
(* The inductive invariant, in five parts.                                 *)

TypesOK ==
    /\ order \in Seq(Patterns)
    /\ callbacks \in [Patterns -> Seq(Everyone)]
    /\ patternOf \in [Subs -> Patterns \cup {None}]
    /\ live \subseteq Subs /\ here \subseteq Subs
    /\ connected \in BOOLEAN /\ running \in {FALSE, connected}
    /\ bus \in [Listeners -> 0..2]
    /\ registry \in [Listeners -> {"none", "here", "gone"}]
    /\ stray \subseteq Listeners
    /\ handlers \in Seq(Registrations)
    /\ pending \in Seq(Called \cup {Republish})
    /\ topic \in Topics \cup {None}
    /\ heard \subseteq Called \cup Listeners /\ asked \subseteq Called

\* The list of a pattern holds its started subscribers, each once.
ListsOK ==
    \A p \in Patterns :
        /\ Distinct(callbacks[p])
        /\ \A s \in Everyone :
              s \in Elements(callbacks[p]) <=> s \in Active /\ Uses(s) = p

\* Every list that is not empty has its key, and a key is there once.
KeysOK ==
    /\ Distinct(order)
    /\ \A p \in Patterns : callbacks[p] # <<>> => p \in Registered
    /\ \A s \in live \cup here : patternOf[s] # None

Waiting == Elements(pending) \ {Republish}

\* No handler and no app after the event is republished.
RepublishLast(s) ==
    \A i \in DOMAIN s : s[i] = Republish =>
        \A j \in i..Len(s) : s[j] \notin Registrations \cup {App}

\* The turns of a message: of the callbacks on one list, then of the handlers
\* once the component has been called.
TurnsOK ==
    /\ Distinct(handlers) /\ Distinct(pending)
    /\ (heard \cap Called) \cup Waiting = asked
    /\ heard \cap Waiting = {}
    /\ Component \notin heard =>
          Republish \notin Elements(pending) /\ asked \subseteq Everyone
    /\ RepublishLast(pending)
    /\ \E q \in Patterns : \A s \in asked \cap Everyone : Uses(s) = q

IInv == TypesOK /\ ListsOK /\ KeysOK /\ BusMatchesRegistry /\ TurnsOK

-----------------------------------------------------------------------------
(* The table.                                                              *)

LEMMA Names ==
    /\ Component \notin Subs \cup Registrations \cup Listeners \cup {App, Republish}
    /\ App \notin Subs \cup Registrations \cup Listeners \cup {Component, Republish}
    /\ Republish \notin Called \cup Listeners
    /\ Subs \cap Registrations = {} /\ Listeners \cap Called = {}
BY CallbacksDiffer DEF Component, App, Republish, Called, Everyone

\* Two parts of a subscriber's start: its key and its callback.
LEMMA EnterTypes ==
    ASSUME NEW ord \in Seq(Patterns), NEW cbs \in [Patterns -> Seq(Everyone)],
           NEW s \in Everyone, NEW p \in Patterns, Enter(ord, cbs, s, p)
    PROVE  /\ order' \in Seq(Patterns) /\ callbacks' \in [Patterns -> Seq(Everyone)]
           /\ Elements(order') = Elements(ord) \cup {p}
           /\ Distinct(ord) => Distinct(order')
           /\ \A q \in Patterns \ {p} : callbacks'[q] = cbs[q]
           /\ Elements(callbacks'[p]) = Elements(cbs[p]) \cup {s}
           /\ Distinct(cbs[p]) /\ s \notin Elements(cbs[p]) => Distinct(callbacks'[p])
<1>1. callbacks' = [cbs EXCEPT ![p] = Append(cbs[p], s)] /\ cbs[p] \in Seq(Everyone)
  BY DEF Enter
<1>2. /\ Append(cbs[p], s) \in Seq(Everyone)
      /\ Elements(Append(cbs[p], s)) = Elements(cbs[p]) \cup {s}
      /\ Distinct(cbs[p]) /\ s \notin Elements(cbs[p]) => Distinct(Append(cbs[p], s))
  BY <1>1, AppendList
<1>3. order' = IF p \in Elements(ord) THEN ord ELSE Append(ord, p)
  BY DEF Enter
<1>4. /\ Append(ord, p) \in Seq(Patterns) /\ Elements(Append(ord, p)) = Elements(ord) \cup {p}
      /\ Distinct(ord) /\ p \notin Elements(ord) => Distinct(Append(ord, p))
  BY AppendList
<1>5. callbacks'[p] = Append(cbs[p], s) /\ \A q \in Patterns \ {p} : callbacks'[q] = cbs[q]
  BY <1>1
<1>6. order' \in Seq(Patterns) /\ callbacks' \in [Patterns -> Seq(Everyone)]
  BY <1>1, <1>2, <1>3, <1>4
<1> QED
  BY <1>2, <1>3, <1>4, <1>5, <1>6

\* A started subscriber joins the list of its pattern.
LEMMA EnterLists ==
    ASSUME NEW ord \in Seq(Patterns), NEW cbs \in [Patterns -> Seq(Everyone)],
           NEW s \in Everyone, NEW p \in Patterns, Enter(ord, cbs, s, p),
           \A q \in Patterns : Distinct(cbs[q]),
           s \notin Elements(cbs[p])
    PROVE  \A q \in Patterns :
               /\ Distinct(callbacks'[q])
               /\ \A x : x \in Elements(callbacks'[q]) <=>
                            x \in Elements(cbs[q]) \/ (x = s /\ q = p)
<1>1. /\ callbacks'[p] = Append(cbs[p], s) /\ cbs[p] \in Seq(Everyone)
      /\ \A q \in Patterns \ {p} : callbacks'[q] = cbs[q]
  BY DEF Enter
<1>2. /\ Elements(Append(cbs[p], s)) = Elements(cbs[p]) \cup {s}
      /\ Distinct(Append(cbs[p], s))
  BY <1>1, AppendList
<1> QED
  BY <1>1, <1>2

LEMMA EnterKeys ==
    ASSUME NEW ord \in Seq(Patterns), NEW cbs \in [Patterns -> Seq(Everyone)],
           NEW s \in Everyone, NEW p \in Patterns, Enter(ord, cbs, s, p), Distinct(ord),
           \A q \in Patterns : cbs[q] # <<>> => q \in Elements(ord),
           \A x \in (live \cup here)' : patternOf'[x] # None
    PROVE  KeysOK'
<1>1. /\ Elements(order') = Elements(ord) \cup {p} /\ Distinct(order')
      /\ \A q \in Patterns \ {p} : callbacks'[q] = cbs[q]
  BY EnterTypes
<1>2. \A q \in Patterns : callbacks'[q] # <<>> => q \in Elements(order')
  BY <1>1
<1> QED
  BY <1>1, <1>2 DEF KeysOK, Registered

LEMMA LeaveTypes ==
    ASSUME TypesOK, NEW s \in Everyone, NEW p \in Patterns, Distinct(callbacks[p]), Leave(s, p)
    PROVE  /\ order' = order /\ callbacks' \in [Patterns -> Seq(Everyone)]
           /\ \A q \in Patterns \ {p} : callbacks'[q] = callbacks[q]
           /\ Elements(callbacks'[p]) = Elements(callbacks[p]) \ {s}
           /\ Distinct(callbacks'[p])
<1>1. /\ callbacks' = [callbacks EXCEPT ![p] = Without(callbacks[p], s)]
      /\ callbacks[p] \in Seq(Everyone) /\ order' = order
  BY DEF Leave, TypesOK
<1>2. /\ Without(callbacks[p], s) \in Seq(Everyone) /\ Distinct(Without(callbacks[p], s))
      /\ Elements(Without(callbacks[p], s)) = Elements(callbacks[p]) \ {s}
  BY <1>1, WithoutList
<1>3. callbacks'[p] = Without(callbacks[p], s) /\ \A q \in Patterns \ {p} : callbacks'[q] = callbacks[q]
  BY <1>1 DEF TypesOK
<1>4. callbacks' \in [Patterns -> Seq(Everyone)]
  BY <1>1, <1>2 DEF TypesOK
<1> QED
  BY <1>1, <1>2, <1>3, <1>4

\* The steps that leave the table and who is active alone.
LEMMA TableKept ==
    ASSUME ListsOK, KeysOK, UNCHANGED <<table, subs, gateway>>
    PROVE  ListsOK' /\ KeysOK'
BY DEF ListsOK, KeysOK, table, subs, gateway, Active, Uses, Registered

LEMMA TableStep ==
    ASSUME IInv, [Next]_vars
    PROVE  ListsOK' /\ KeysOK'
<1> USE DEF IInv
<1>0. External \in Patterns /\ None \notin Patterns /\ Component \in Everyone
      /\ Component \notin Subs /\ Everyone = Subs \cup {Component}
  BY DeliveryAssumption, Names DEF Everyone
<1>1. ASSUME NEW new \in BOOLEAN, StartGateway(new) PROVE ListsOK' /\ KeysOK'
  <2>1. ~running /\ running' /\ UNCHANGED <<patternOf, live>>
    <3>1. connected = FALSE /\ running \in {FALSE, connected}
      BY <1>1 DEF StartGateway, TypesOK
    <3>2. running = FALSE
      BY <3>1, Zenon
    <3> QED
      BY <1>1, <3>2 DEF StartGateway
  <2>2. /\ Component \in Active' /\ Uses(Component)' = External
        /\ \A x \in Subs : Uses(x)' = patternOf[x] /\ (x \in Active' <=> x \in live \cap here')
    BY <1>0, <2>1 DEF Active, Uses
  <2>3. CASE new
    <3> DEFINE none == [p \in Patterns |-> <<>>]
    <3>1. Enter(<<>>, none, Component, External) /\ here' = {}
      BY <1>1, <2>3 DEF StartGateway
    <3>2. /\ none \in [Patterns -> Seq(Everyone)] /\ <<>> \in Seq(Patterns)
          /\ \A p \in Patterns : none[p] = <<>>
      BY EmptyList
    <3> HIDE DEF none
    <3>3. \A p \in Patterns : Distinct(none[p]) /\ Elements(none[p]) = {}
      BY <3>2, EmptyList
    <3>4. \A q \in Patterns, x \in Everyone : x \in Elements(none[q]) <=>
                x # Component /\ x \in Active' /\ Uses(x)' = q
      BY <1>0, <2>2, <3>1, <3>3
    <3>5. ListsOK'
      <4>1. \A q \in Patterns : Distinct(none[q])
        BY <3>3
      <4> QED
        <5>1. \A q \in Patterns :
                  /\ Distinct(callbacks'[q])
                  /\ \A x : x \in Elements(callbacks'[q]) <=>
                        x \in Elements(none[q]) \/ (x = Component /\ q = External)
          <6>1. Component \notin Elements(none[External])
            BY <1>0, <3>3
          <6> QED
            BY <1>0, <3>1, <3>2, <4>1, <6>1, EnterLists
        <5> QED
          BY <1>0, <2>2, <3>3, <3>4, <5>1 DEF ListsOK
    <3>6. \A x \in (live \cup here)' : patternOf'[x] # None
      BY <2>1, <3>1 DEF KeysOK
    <3>7. KeysOK'
      BY <1>0, <3>1, <3>2, <3>6, EmptyList, EnterKeys
    <3> QED
      BY <3>5, <3>7
  <2>4. CASE ~new
    <3>1. Enter(order, callbacks, Component, External) /\ here' = here
      BY <1>1, <2>4 DEF StartGateway
    <3>2. \A q \in Patterns, x \in Everyone : x \in Elements(callbacks[q]) <=>
                x # Component /\ x \in Active' /\ Uses(x)' = q
      <4>1. Component \notin Active /\ \A x \in Subs : Uses(x) = patternOf[x]
                                        /\ (x \in Active <=> x \in live \cap here)
        BY <1>0, <2>1 DEF Active, Uses, TypesOK
      <4> QED
        BY <1>0, <2>2, <3>1, <4>1 DEF ListsOK
    <3>3. ListsOK'
      <4>1. order \in Seq(Patterns) /\ callbacks \in [Patterns -> Seq(Everyone)]
            /\ \A q \in Patterns : Distinct(callbacks[q])
        BY DEF ListsOK, TypesOK
      <4> QED
        <5>1. \A q \in Patterns :
                  /\ Distinct(callbacks'[q])
                  /\ \A x : x \in Elements(callbacks'[q]) <=>
                        x \in Elements(callbacks[q]) \/ (x = Component /\ q = External)
          BY <1>0, <3>1, <3>2, <4>1, EnterLists
        <5> QED
          BY <1>0, <2>2, <3>2, <5>1 DEF ListsOK
    <3>4. KeysOK'
      <4>1. \A x \in (live \cup here)' : patternOf'[x] # None
        BY <2>1, <3>1 DEF KeysOK
      <4> QED
        BY <1>0, <3>1, <4>1, EnterKeys DEF KeysOK, TypesOK, Registered
    <3> QED
      BY <3>3, <3>4
  <2> QED
    BY <2>3, <2>4
<1>2. ASSUME StopGateway PROVE ListsOK' /\ KeysOK'
  <2>1. running /\ ~running' /\ Leave(Component, External) /\ UNCHANGED subs
    BY <1>2 DEF StopGateway
  <2>2. /\ order' = order
        /\ \A q \in Patterns \ {External} : callbacks'[q] = callbacks[q]
        /\ Elements(callbacks'[External]) = Elements(callbacks[External]) \ {Component}
        /\ Distinct(callbacks'[External]) /\ callbacks' \in [Patterns -> Seq(Everyone)]
    BY <1>0, <2>1, LeaveTypes DEF ListsOK
  <2>3. Active' = live \cap here /\ \A s : Uses(s)' = Uses(s)
    BY <2>1 DEF Active, Uses, subs
  <2>4. Component \notin live /\ Uses(Component) = External
    BY <1>0 DEF TypesOK, Uses
  <2>5. ListsOK'
    <3> SUFFICES ASSUME NEW p \in Patterns
                 PROVE  /\ Distinct(callbacks'[p])
                        /\ \A s \in Everyone :
                              s \in Elements(callbacks'[p]) <=> s \in Active' /\ Uses(s)' = p
      BY DEF ListsOK
    <3>1. /\ Distinct(callbacks[p])
          /\ \A s \in Everyone : s \in Elements(callbacks[p]) <=>
                s \in (live \cap here) \cup {Component} /\ Uses(s) = p
      BY <2>1 DEF ListsOK, Active
    <3>2. CASE p = External
      BY <2>2, <2>3, <2>4, <3>1, <3>2
    <3>3. CASE p # External
      BY <2>2, <2>3, <2>4, <3>1, <3>3
    <3> QED
      BY <3>2, <3>3
  <2>6. callbacks[External] # <<>>
    <3>1. Component \in Elements(callbacks[External])
      BY <1>0, <2>1, <2>4 DEF ListsOK, Active
    <3> QED
      BY <3>1, EmptyList
  <2>7. KeysOK'
    BY <1>0, <2>1, <2>2, <2>6 DEF KeysOK, Registered, subs
  <2> QED
    BY <2>5, <2>7
<1>3. ASSUME NEW s \in Subs, Unsubscribe(s) PROVE ListsOK' /\ KeysOK'
  <2>1. /\ s \in live /\ live' = live \ {s} /\ UNCHANGED <<patternOf, here, running>>
        /\ patternOf[s] \in Patterns
    BY <1>3 DEF Unsubscribe, gateway, KeysOK, TypesOK
  <2>2. \A q : Uses(q)' = Uses(q)
    BY <2>1 DEF Uses
  <2>3. CASE s \in here
    <3> DEFINE p == patternOf[s]
    <3>1. Leave(s, p)
      BY <1>3, <2>3 DEF Unsubscribe
    <3>2. /\ order' = order /\ callbacks' \in [Patterns -> Seq(Everyone)]
          /\ \A q \in Patterns \ {p} : callbacks'[q] = callbacks[q]
          /\ Elements(callbacks'[p]) = Elements(callbacks[p]) \ {s}
          /\ Distinct(callbacks'[p])
      BY <1>0, <2>1, <3>1, LeaveTypes DEF ListsOK
    <3>3. Active' = Active \ {s} /\ s \in Active /\ Uses(s) = p
      BY <1>0, <2>1, <2>3 DEF Active, Uses
    <3>4. ListsOK'
      <4> SUFFICES ASSUME NEW q \in Patterns
                   PROVE  /\ Distinct(callbacks'[q])
                          /\ \A x \in Everyone :
                                x \in Elements(callbacks'[q]) <=> x \in Active' /\ Uses(x)' = q
        BY DEF ListsOK
      <4>1. CASE q = p
        BY <2>1, <2>2, <3>2, <3>3, <4>1 DEF ListsOK
      <4>2. CASE q # p
        BY <2>1, <2>2, <3>2, <3>3, <4>2 DEF ListsOK
      <4> QED
        BY <4>1, <4>2
    <3>5. callbacks[p] # <<>>
      <4>1. s \in Elements(callbacks[p])
        BY <1>0, <2>1, <3>3 DEF ListsOK
      <4> QED
        BY <4>1, EmptyList
    <3>6. KeysOK'
      BY <2>1, <3>2, <3>5 DEF KeysOK, Registered
    <3> QED
      BY <3>4, <3>6
  <2>4. CASE s \notin here
    <3>1. UNCHANGED table
      BY <1>3, <2>4 DEF Unsubscribe
    <3>2. Active' = Active
      BY <2>1, <2>4 DEF Active
    <3> QED
      BY <2>1, <2>2, <3>1, <3>2 DEF ListsOK, KeysOK, Registered, table
  <2> QED
    BY <2>3, <2>4
<1>4. ASSUME NEW s \in Subs, NEW p \in Patterns, Subscribe(s, p) PROVE ListsOK' /\ KeysOK'
  <2>1. /\ patternOf[s] = None /\ patternOf' = [patternOf EXCEPT ![s] = p]
        /\ live' = live \cup {s} /\ here' = here \cup {s} /\ running' = running
        /\ Enter(order, callbacks, s, p)
    BY <1>4 DEF Subscribe, gateway
  <2>2. s \notin live /\ s \notin here /\ s # Component
    BY <1>0, <2>1 DEF KeysOK
  <2>3. /\ patternOf'[s] = p /\ \A q \in Subs \ {s} : patternOf'[q] = patternOf[q]
    BY <2>1 DEF TypesOK
  <2>4. Active' = Active \cup {s} /\ s \notin Active /\ Uses(s)' = p
        /\ \A q \in Everyone \ {s} : Uses(q)' = Uses(q)
    BY <1>0, <2>1, <2>2, <2>3 DEF Active, Uses
  <2>5. s \notin Elements(callbacks[p])
    BY <1>0, <2>4 DEF ListsOK
  <2>6. \A q \in Patterns, x \in Everyone : x \in Elements(callbacks[q]) <=>
              x # s /\ x \in Active' /\ Uses(x)' = q
    BY <2>4 DEF ListsOK
  <2>7. ListsOK'
    <3>1. order \in Seq(Patterns) /\ callbacks \in [Patterns -> Seq(Everyone)]
          /\ \A q \in Patterns : Distinct(callbacks[q])
      BY DEF ListsOK, TypesOK
    <3>2. s \in Everyone /\ s \in Active' /\ Uses(s)' = p
      BY <1>0, <2>4
    <3> QED
      <4>1. \A q \in Patterns :
                /\ Distinct(callbacks'[q])
                /\ \A x : x \in Elements(callbacks'[q]) <=>
                      x \in Elements(callbacks[q]) \/ (x = s /\ q = p)
        BY <2>1, <2>5, <3>1, <3>2, EnterLists
      <4> QED
        BY <2>6, <3>2, <4>1 DEF ListsOK
  <2>8. KeysOK'
    <3>1. \A x \in (live \cup here)' : patternOf'[x] # None
      BY <1>0, <2>1, <2>3 DEF KeysOK, TypesOK
    <3> QED
      BY <1>0, <2>1, <3>1, EnterKeys DEF KeysOK, TypesOK, Registered
  <2> QED
    BY <2>7, <2>8
<1>5. ASSUME NEW k \in Listeners, CreateListener(k) \/ RemoveListener(k) PROVE ListsOK' /\ KeysOK'
  BY <1>5, TableKept DEF CreateListener, RemoveListener
<1>6. ASSUME NEW h \in Registrations, RegisterHandler(h) PROVE ListsOK' /\ KeysOK'
  BY <1>6, TableKept DEF RegisterHandler
<1>7. ASSUME NEW t \in Topics, Receive(t) PROVE ListsOK' /\ KeysOK'
  BY <1>7, TableKept DEF Receive
<1>8. CASE Call \/ PublishEvent
  BY <1>8, TableKept DEF Call, PublishEvent
<1>9. CASE UNCHANGED vars
  BY <1>9, TableKept DEF vars
<1>10. CASE Disconnect
  BY <1>10 DEF Disconnect, ListsOK, KeysOK, table, subs, Active, Uses, Registered
<1> QED
  BY <1>1, <1>2, <1>3, <1>4, <1>5, <1>6, <1>7, <1>8, <1>9, <1>10 DEF Next

-----------------------------------------------------------------------------
(* Types, and the bus.                                                     *)

BusTyped == /\ bus \in [Listeners -> 0..2]
            /\ registry \in [Listeners -> {"none", "here", "gone"}]
            /\ stray \subseteq Listeners

LEMMA BusStep ==
    ASSUME BusTyped, BusMatchesRegistry, [Next]_vars
    PROVE  BusTyped' /\ BusMatchesRegistry'
<1> USE DEF BusTyped
<1>1. ASSUME NEW new \in BOOLEAN, StartGateway(new) PROVE BusTyped' /\ BusMatchesRegistry'
  <2>1. CASE new
    <3>1. /\ bus' = [k \in Listeners |-> 0]
          /\ registry' = [k \in Listeners |->
                IF registry[k] = "none" THEN "none" ELSE "gone"]
          /\ stray' = {}
      BY <1>1, <2>1, Zenon DEF StartGateway
    <3>2. BusMatchesRegistry'
      BY <3>1 DEF BusMatchesRegistry
    <3>3. BusTyped'
      BY <3>1
    <3> QED
      BY <3>2, <3>3
  <2>2. CASE ~new
    BY <1>1, <2>2 DEF StartGateway, BusMatchesRegistry, events
  <2> QED
    BY <2>1, <2>2
<1>2. ASSUME NEW k \in Listeners, CreateListener(k) PROVE BusTyped' /\ BusMatchesRegistry'
  <2>1. /\ bus[k] \in 0..1 /\ bus' = [bus EXCEPT ![k] = bus[k] + 1]
        /\ registry' = [registry EXCEPT ![k] = "here"]
        /\ stray' = IF registry[k] = "here" THEN stray \cup {k} ELSE stray
    BY <1>2 DEF CreateListener, BusSubscribe, MaxHandlers
  <2>2. registry[k] = "here" => bus[k] = 1 /\ k \notin stray
    BY <2>1 DEF BusMatchesRegistry
  <2> QED
    BY <2>1, <2>2 DEF BusMatchesRegistry
<1>3. ASSUME NEW k \in Listeners, RemoveListener(k) PROVE BusTyped' /\ BusMatchesRegistry'
  <2>1. registry' = [registry EXCEPT ![k] = "none"] /\ stray' = stray
    BY <1>3 DEF RemoveListener
  <2>2. CASE registry[k] = "here"
    <3>1. bus[k] \in 1..2 /\ bus' = [bus EXCEPT ![k] = bus[k] - 1]
      BY <1>3, <2>2 DEF RemoveListener, BusUnsubscribe, BusMatchesRegistry
    <3> QED
      BY <2>1, <2>2, <3>1 DEF BusMatchesRegistry
  <2>3. CASE registry[k] # "here"
    <3>1. bus' = bus
      BY <1>3, <2>3 DEF RemoveListener
    <3> QED
      BY <2>1, <2>3, <3>1 DEF BusMatchesRegistry
  <2> QED
    BY <2>2, <2>3
<1> DEFINE Same == UNCHANGED <<bus, registry, stray>>
<1>4. CASE Same
  BY <1>4 DEF BusMatchesRegistry
<1>5. ASSUME NEW s \in Subs, Unsubscribe(s) PROVE Same
  BY <1>5 DEF Unsubscribe, events
<1>6. ASSUME NEW s \in Subs, NEW p \in Patterns, Subscribe(s, p) PROVE Same
  BY <1>6 DEF Subscribe, events
<1>7. ASSUME NEW h \in Registrations, RegisterHandler(h) PROVE Same
  BY <1>7 DEF RegisterHandler
<1>8. ASSUME NEW t \in Topics, Receive(t) PROVE Same
  BY <1>8 DEF Receive, events
<1>9. ASSUME StopGateway \/ Disconnect \/ Call \/ PublishEvent \/ UNCHANGED vars
      PROVE  Same
  BY <1>9 DEF StopGateway, Disconnect, Call, PublishEvent, vars, events
<1> HIDE DEF Same
<1> QED
  BY <1>1, <1>2, <1>3, <1>4, <1>5, <1>6, <1>7, <1>8, <1>9 DEF Next

\* The table and the subscribers stay in their types.
TableTyped ==
    /\ order \in Seq(Patterns) /\ callbacks \in [Patterns -> Seq(Everyone)]
    /\ patternOf \in [Subs -> Patterns \cup {None}]
    /\ live \subseteq Subs /\ here \subseteq Subs
    /\ connected \in BOOLEAN /\ running \in {FALSE, connected}

LEMMA TableTypes ==
    ASSUME IInv, [Next]_vars
    PROVE  TableTyped'
<1> USE DEF TableTyped
<1>0. /\ TableTyped /\ External \in Patterns /\ Component \in Everyone /\ Subs \subseteq Everyone
      /\ \A p \in Patterns : Distinct(callbacks[p])
  BY DeliveryAssumption DEF IInv, TypesOK, ListsOK, Everyone
<1>1. ASSUME NEW new \in BOOLEAN, StartGateway(new) PROVE TableTyped'
  <2>1. /\ UNCHANGED <<patternOf, live>> /\ here' \subseteq Subs
        /\ running' = TRUE /\ connected' = TRUE
    BY <1>0, <1>1 DEF StartGateway
  <2>2. CASE new
    <3>1. Enter(<<>>, [p \in Patterns |-> <<>>], Component, External)
      BY <1>1, <2>2 DEF StartGateway
    <3>2. <<>> \in Seq(Patterns) /\ [p \in Patterns |-> <<>>] \in [Patterns -> Seq(Everyone)]
      BY EmptyList
    <3>3. order' \in Seq(Patterns) /\ callbacks' \in [Patterns -> Seq(Everyone)]
      BY <1>0, <3>1, <3>2, EnterTypes
    <3> QED
      BY <1>0, <2>1, <3>3
  <2>3. CASE ~new
    <3>1. Enter(order, callbacks, Component, External)
      BY <1>1, <2>3 DEF StartGateway
    <3>2. order' \in Seq(Patterns) /\ callbacks' \in [Patterns -> Seq(Everyone)]
      BY <1>0, <3>1, EnterTypes
    <3> QED
      BY <1>0, <2>1, <3>2
  <2> QED
    BY <2>2, <2>3
<1>2. CASE StopGateway
  <2>1. Leave(Component, External) /\ UNCHANGED <<subs, connected>> /\ running' = FALSE
    BY <1>2 DEF StopGateway
  <2>2. order' = order /\ callbacks' \in [Patterns -> Seq(Everyone)]
    BY <1>0, <2>1, LeaveTypes DEF IInv
  <2> QED
    BY <1>0, <2>1, <2>2 DEF subs
<1>3. ASSUME NEW s \in Subs, Unsubscribe(s) PROVE TableTyped'
  <2>1. /\ live' = live \ {s} /\ UNCHANGED <<patternOf, here, running, connected>>
        /\ patternOf[s] \in Patterns
    BY <1>0, <1>3 DEF Unsubscribe, gateway, IInv, KeysOK
  <2>2. CASE s \in here
    <3>1. Leave(s, patternOf[s])
      BY <1>3, <2>2 DEF Unsubscribe
    <3>2. order' = order /\ callbacks' \in [Patterns -> Seq(Everyone)]
      BY <1>0, <2>1, <3>1, LeaveTypes DEF IInv
    <3> QED
      BY <1>0, <2>1, <3>2
  <2>3. CASE s \notin here
    BY <1>0, <1>3, <2>1, <2>3 DEF Unsubscribe, table
  <2> QED
    BY <2>2, <2>3
<1>4. ASSUME NEW s \in Subs, NEW p \in Patterns, Subscribe(s, p) PROVE TableTyped'
  <2>1. /\ patternOf' = [patternOf EXCEPT ![s] = p] /\ Enter(order, callbacks, s, p)
        /\ live' = live \cup {s} /\ here' = here \cup {s}
        /\ UNCHANGED <<running, connected>>
    BY <1>4 DEF Subscribe, gateway
  <2>2. order' \in Seq(Patterns) /\ callbacks' \in [Patterns -> Seq(Everyone)]
    BY <1>0, <2>1, EnterTypes
  <2> QED
    BY <1>0, <2>1, <2>2
<1>5. CASE UNCHANGED <<table, subs, gateway>>
  BY <1>0, <1>5 DEF table, subs, gateway
<1>6. ASSUME NEW k \in Listeners, CreateListener(k) \/ RemoveListener(k)
      PROVE  UNCHANGED <<table, subs, gateway>>
  BY <1>6 DEF CreateListener, RemoveListener
<1>7. ASSUME NEW h \in Registrations, RegisterHandler(h) PROVE UNCHANGED <<table, subs, gateway>>
  BY <1>7 DEF RegisterHandler
<1>8. ASSUME NEW t \in Topics, Receive(t) PROVE UNCHANGED <<table, subs, gateway>>
  BY <1>8 DEF Receive
<1>9. ASSUME Call \/ PublishEvent \/ UNCHANGED vars PROVE UNCHANGED <<table, subs, gateway>>
  BY <1>9 DEF Call, PublishEvent, vars
<1>10. ASSUME Disconnect PROVE TableTyped'
  BY <1>0, <1>10 DEF Disconnect, table, subs
<1> HIDE DEF TableTyped
<1> QED
  BY <1>1, <1>2, <1>3, <1>4, <1>5, <1>6, <1>7, <1>8, <1>9, <1>10 DEF Next

-----------------------------------------------------------------------------
(* The turns of a message.                                                 *)

TurnsTyped ==
    /\ handlers \in Seq(Registrations)
    /\ pending \in Seq(Called \cup {Republish})
    /\ topic \in Topics \cup {None}
    /\ heard \subseteq Called \cup Listeners /\ asked \subseteq Called

\* The steps that leave the message alone: a pattern once chosen stays.
LEMMA TurnsKept ==
    ASSUME TurnsTyped, TurnsOK, UNCHANGED <<pending, topic, heard, asked>>,
           handlers' \in Seq(Registrations), Distinct(handlers'),
           \A s \in Subs : patternOf[s] # None => patternOf'[s] = patternOf[s]
    PROVE  TurnsTyped' /\ TurnsOK'
<1>1. PICK q \in Patterns : \A s \in asked \cap Everyone : Uses(s) = q
  BY DEF TurnsOK
<1>2. ASSUME NEW s \in asked \cap Everyone PROVE Uses(s)' = q
  BY <1>1, DeliveryAssumption DEF Uses, Everyone
<1> QED
  BY <1>1, <1>2 DEF TurnsTyped, TurnsOK, Waiting, RepublishLast

LEMMA LastOfTail ==
    ASSUME NEW S, NEW s \in Seq(S), s # <<>>, Distinct(s), RepublishLast(s)
    PROVE  RepublishLast(Tail(s))
<1>1. /\ Tail(s) \in Seq(S) /\ Len(s) \in Nat \ {0} /\ Len(Tail(s)) = Len(s) - 1
      /\ \A i \in 1..Len(Tail(s)) : Tail(s)[i] = s[i + 1]
      /\ DOMAIN s = 1..Len(s) /\ DOMAIN Tail(s) = 1..Len(Tail(s))
  BY TailList, ElementsOf
<1> SUFFICES ASSUME NEW i \in 1..(Len(s) - 1), Tail(s)[i] = Republish,
                    NEW j \in i..(Len(s) - 1)
             PROVE  Tail(s)[j] \notin Registrations \cup {App}
  BY <1>1 DEF RepublishLast
<1>2. i + 1 \in 1..Len(s) /\ j + 1 \in (i + 1)..Len(s) /\ j \in 1..Len(Tail(s))
  BY <1>1
<1>3. s[i + 1] = Republish /\ Tail(s)[j] = s[j + 1]
  BY <1>1, <1>2
<1> QED
  BY <1>1, <1>2, <1>3 DEF RepublishLast

\* The list the component's call puts before what is still to be called.
LEMMA LastOfTurn ==
    ASSUME NEW S, NEW s \in Seq(S), NEW t \in Seq(S),
           Republish \notin Elements(s), Elements(t) \cap (Registrations \cup {App}) = {}
    PROVE  RepublishLast(s \o t)
<1>1. /\ Len(s) \in Nat /\ Len(t) \in Nat /\ s \o t \in Seq(S)
      /\ Len(s \o t) = Len(s) + Len(t) /\ DOMAIN (s \o t) = 1..(Len(s) + Len(t))
      /\ \A i \in 1..Len(s) : (s \o t)[i] = s[i]
      /\ \A i \in (Len(s) + 1)..(Len(s) + Len(t)) : (s \o t)[i] = t[i - Len(s)]
  BY ConcatProperties, LenProperties
<1> SUFFICES ASSUME NEW i \in 1..(Len(s) + Len(t)), (s \o t)[i] = Republish,
                    NEW j \in i..(Len(s) + Len(t))
             PROVE  (s \o t)[j] \notin Registrations \cup {App}
  BY <1>1 DEF RepublishLast
<1>2. i \notin 1..Len(s)
  BY <1>1, ElementsOf
<1>3. j \in (Len(s) + 1)..(Len(s) + Len(t)) /\ j - Len(s) \in 1..Len(t)
  BY <1>1, <1>2
<1>4. (s \o t)[j] = t[j - Len(s)] /\ t[j - Len(s)] \in Elements(t)
  BY <1>1, <1>3, ElementsOf
<1> QED
  BY <1>4

LEMMA ReceiveTurns ==
    ASSUME IInv, NEW t \in Topics, Receive(t)
    PROVE  TurnsTyped' /\ TurnsOK'
<1> DEFINE New(l, q) ==
        /\ l \in Seq(Everyone) /\ Distinct(l)
        /\ q \in Patterns /\ \A s \in Elements(l) : Uses(s) = q
<1>1. \E q \in Patterns : New(pending', q)
  <2>1. CASE \E i \in Chosen(t) : pending' = callbacks[order[i]]
    <3>1. PICK i \in Chosen(t) : pending' = callbacks[order[i]]
      BY <2>1
    <3>2. order[i] \in Patterns
      <4>1. i \in DOMAIN order
        BY DEF Chosen, Matching
      <4> QED
        BY <4>1, LenProperties, ElementOfSeq DEF IInv, TypesOK
    <3>3. callbacks[order[i]] \in Seq(Everyone)
      BY <3>2 DEF IInv, TypesOK
    <3>4. Elements(callbacks[order[i]]) \subseteq Everyone
      BY <3>3, ElementsOf
    <3> QED
      BY <3>1, <3>2, <3>3, <3>4 DEF IInv, ListsOK
  <2>2. CASE pending' = <<>>
    BY <2>2, EmptyList, DeliveryAssumption
  <2> QED
    BY <2>1, <2>2 DEF Receive
<1>2. PICK q \in Patterns : New(pending', q)
  BY <1>1
<1>3. /\ heard' = {} /\ asked' = Elements(pending') /\ topic' = t
      /\ UNCHANGED <<handlers, patternOf>>
  BY DEF Receive, events, subs
<1>4. Elements(pending') \subseteq Everyone /\ Republish \notin Everyone
      /\ DOMAIN pending' = 1..Len(pending')
      /\ \A i \in 1..Len(pending') : pending'[i] \in Everyone
  BY <1>2, ElementsOf, ElementOfSeq, Names DEF Called
<1>5. RepublishLast(pending')
  BY <1>4 DEF RepublishLast
<1>6. pending' \in Seq(Called \cup {Republish})
  <2>1. Everyone \subseteq Called \cup {Republish}
    BY DEF Called
  <2> QED
    BY <1>2, <2>1, SeqMonotonic
<1>7. \A s : Uses(s)' = Uses(s)
  BY <1>3 DEF Uses
<1>8. TurnsTyped'
  BY <1>3, <1>4, <1>6 DEF IInv, TypesOK, TurnsTyped, Called
<1>9. TurnsOK'
  BY <1>2, <1>3, <1>4, <1>5, <1>7 DEF IInv, TurnsOK, Waiting
<1> QED
  BY <1>8, <1>9

LEMMA CallTurns ==
    ASSUME IInv, Call
    PROVE  TurnsTyped' /\ TurnsOK'
<1> DEFINE h == Head(pending)
           turn == IF h = Component THEN Append(handlers, App) ELSE <<>>
           All == Called \cup {Republish}
<1>1. /\ pending \in Seq(All) /\ pending # <<>> /\ h # Republish
      /\ heard' = heard \cup {h} /\ asked' = asked \cup Elements(turn)
      /\ pending' = turn \o (IF turn # <<>> THEN <<Republish>> ELSE <<>>) \o Tail(pending)
      /\ UNCHANGED <<handlers, patternOf, topic>>
  BY DEF Call, IInv, TypesOK, events, subs
<1>2. /\ h \in All /\ h \in Elements(pending) /\ Tail(pending) \in Seq(All)
      /\ Distinct(Tail(pending)) /\ Elements(Tail(pending)) = Elements(pending) \ {h}
      /\ RepublishLast(Tail(pending))
  BY <1>1, TailList, LastOfTail DEF IInv, TurnsOK
<1>3. h \in Called /\ h \in Waiting /\ h \notin heard /\ h \in asked
  BY <1>1, <1>2 DEF Waiting, IInv, TurnsOK
<1>4. \A s : Uses(s)' = Uses(s)
  BY <1>1 DEF Uses
<1>5. CASE h # Component
  <2>1. turn = <<>>
    BY <1>5
  <2>2. pending' = Tail(pending)
    BY <1>1, <1>2, <2>1, ConcatEmptySeq, EmptyList
  <2>3. asked' = asked
    BY <1>1, <2>1, EmptyList
  <2> HIDE DEF h, turn
  <2>4. Waiting' = Waiting \ {h} /\ Elements(pending') = Elements(pending) \ {h}
    BY <1>2, <2>2 DEF Waiting
  <2>5. TurnsTyped'
    BY <1>1, <1>2, <1>3, <2>2, <2>3 DEF IInv, TypesOK, TurnsTyped
  <2>6. TurnsOK'
    BY <1>1, <1>2, <1>3, <1>4, <1>5, <2>2, <2>3, <2>4 DEF IInv, TurnsOK
  <2> QED
    BY <2>5, <2>6
<1>6. CASE h = Component
  <2> DEFINE rest == <<Republish>> \o Tail(pending)
  <2>1. turn = Append(handlers, App)
    BY <1>6
  <2>2. /\ asked \subseteq Everyone /\ Republish \notin Elements(pending)
        /\ Elements(pending) \subseteq Everyone
    BY <1>3, <1>6 DEF IInv, TurnsOK, Waiting
  <2>3. /\ handlers \in Seq(All) /\ App \in All /\ Distinct(handlers)
        /\ Elements(handlers) \subseteq Registrations
    <3>1. handlers \in Seq(Registrations) /\ Registrations \subseteq All
      BY DEF IInv, TypesOK, Called
    <3>2. handlers \in Seq(All)
      BY <3>1, SeqMonotonic
    <3> QED
      BY <3>1, <3>2, ElementsOf DEF IInv, TurnsOK, Called
  <2>4. /\ turn \in Seq(All) /\ Distinct(turn) /\ turn # <<>>
        /\ Elements(turn) = Elements(handlers) \cup {App}
    <3>1. App \notin Elements(handlers)
      BY <2>3, Names
    <3> QED
      BY <2>1, <2>3, <3>1, AppendList, AppendProperties
  <2>5. /\ rest \in Seq(All) /\ Distinct(rest)
        /\ Elements(rest) = {Republish} \cup (Elements(pending) \ {h})
    <3> DEFINE one == <<Republish>>
               others == Tail(pending)
    <3>1. /\ one \in Seq(All) /\ Elements(one) = {Republish} /\ Distinct(one)
          /\ others \in Seq(All) /\ Distinct(others)
          /\ Elements(others) = Elements(pending) \ {h}
          /\ rest = one \o others
      BY <1>2, SingleList
    <3> HIDE DEF one, others, rest, turn, h
    <3>2. Elements(one) \cap Elements(others) = {}
      BY <2>2, <3>1, Zenon
    <3>3. /\ one \o others \in Seq(All) /\ Distinct(one \o others)
          /\ Elements(one \o others) = Elements(one) \cup Elements(others)
      BY <3>1, <3>2, ConcatList
    <3> QED
      BY <3>1, <3>3, Zenon
  <2>6. pending' = turn \o rest
    <3> DEFINE one == <<Republish>>
               others == Tail(pending)
    <3>1. /\ one \in Seq(All) /\ others \in Seq(All) /\ rest = one \o others
          /\ pending' = (turn \o one) \o others
      BY <1>1, <1>2, <2>4, SingleList
    <3> HIDE DEF one, others, rest, turn, h, All
    <3> QED
      BY <2>4, <3>1, ConcatAssociative
  <2> HIDE DEF turn, rest, h
  <2>7. /\ Elements(handlers) \cap Everyone = {} /\ App \notin Everyone
        /\ Republish \notin Registrations \cup {App} \cup Everyone
    BY <2>3, Names DEF Called, Everyone
  <2>8. /\ pending' \in Seq(All) /\ Distinct(pending')
        /\ Elements(pending') = Elements(turn) \cup Elements(rest)
    <3>1. Elements(turn) \cap Elements(rest) = {}
      <4>1. Elements(turn) \cap Everyone = {} /\ Republish \notin Elements(turn)
        BY <2>3, <2>4, <2>7, Zenon
      <4>2. Elements(rest) \subseteq Everyone \cup {Republish}
        BY <2>2, <2>5, Zenon
      <4> QED
        BY <4>1, <4>2, Zenon
    <3> QED
      BY <2>4, <2>5, <2>6, <3>1, ConcatList
  <2>9. RepublishLast(pending')
    <3>1. Elements(rest) \cap (Registrations \cup {App}) = {}
      <4>1. Elements(rest) \subseteq Everyone \cup {Republish}
        BY <2>2, <2>5, Zenon
      <4>2. Everyone \cap (Registrations \cup {App}) = {}
        BY Names DEF Everyone
      <4> QED
        BY <2>7, <4>1, <4>2, Zenon
    <3>2. Republish \notin Elements(turn)
      BY <2>3, <2>4, <2>7
    <3> QED
      BY <2>4, <2>5, <2>6, <3>1, <3>2, LastOfTurn
  <2>10. Waiting' = Elements(turn) \cup (Waiting \ {h})
    BY <2>2, <2>3, <2>4, <2>5, <2>7, <2>8 DEF Waiting
  <2>11. TurnsTyped'
    BY <1>1, <1>3, <2>3, <2>4, <2>8 DEF IInv, TypesOK, TurnsTyped, Called
  <2>12. /\ (heard' \cap Called) \cup Waiting' = asked' /\ heard' \cap Waiting' = {}
    <3>1. heard \cap Elements(turn) = {}
      BY <2>2, <2>3, <2>4, <2>7 DEF IInv, TurnsOK, Called
    <3> QED
      BY <1>1, <1>3, <1>6, <2>4, <2>7, <2>10, <3>1 DEF IInv, TurnsOK
  <2>13. \E q \in Patterns : \A s \in (asked \cap Everyone)' : Uses(s)' = q
    <3>1. asked' \cap Everyone = asked \cap Everyone
      BY <1>1, <2>4, <2>7
    <3> QED
      BY <1>4, <3>1 DEF IInv, TurnsOK
  <2>14. TurnsOK'
    BY <1>1, <1>6, <2>8, <2>9, <2>12, <2>13 DEF IInv, TurnsOK
  <2> QED
    BY <2>11, <2>14
<1> QED
  BY <1>5, <1>6

LEMMA PublishTurns ==
    ASSUME IInv, PublishEvent
    PROVE  TurnsTyped' /\ TurnsOK'
<1> DEFINE All == Called \cup {Republish}
<1>1. /\ pending \in Seq(All) /\ pending # <<>> /\ Head(pending) = Republish
      /\ pending' = Tail(pending) /\ UNCHANGED <<handlers, patternOf, topic, asked>>
      /\ heard' = heard \cup {k \in Listeners : EventOf[k] = topic /\ bus[k] > 0}
  BY DEF PublishEvent, IInv, TypesOK, events, subs
<1>2. /\ Tail(pending) \in Seq(All) /\ Distinct(Tail(pending))
      /\ Elements(Tail(pending)) = Elements(pending) \ {Republish}
      /\ RepublishLast(Tail(pending)) /\ Elements(pending) \subseteq All
  BY <1>1, TailList, LastOfTail, ElementsOf DEF IInv, TurnsOK
<1>3. Waiting' = Waiting /\ Waiting \subseteq Called
  BY <1>1, <1>2 DEF Waiting
<1>4. \A s : Uses(s)' = Uses(s)
  BY <1>1 DEF Uses
<1>5. heard' \cap Called = heard \cap Called
  BY <1>1, Names
<1>6. TurnsTyped'
  BY <1>1, <1>2 DEF IInv, TypesOK, TurnsTyped
<1>7. Component \notin heard' => Republish \notin Elements(pending') /\ asked' \subseteq Everyone
  BY <1>1, <1>2 DEF IInv, TurnsOK
<1>8. TurnsOK'
  BY <1>1, <1>2, <1>3, <1>4, <1>5, <1>7 DEF IInv, TurnsOK
<1> QED
  BY <1>6, <1>8

LEMMA TurnsStep ==
    ASSUME IInv, [Next]_vars
    PROVE  TurnsTyped' /\ TurnsOK'
<1>0. TurnsTyped /\ TurnsOK /\ Distinct(handlers) /\ handlers \in Seq(Registrations)
  BY DEF IInv, TypesOK, TurnsTyped, TurnsOK
<1>1. ASSUME UNCHANGED <<dispatch, handlers, patternOf>> PROVE TurnsTyped' /\ TurnsOK'
  BY <1>0, <1>1, TurnsKept DEF dispatch
<1>2. ASSUME NEW new \in BOOLEAN, StartGateway(new)
      PROVE  UNCHANGED <<dispatch, handlers, patternOf>>
  BY <1>2 DEF StartGateway, events
<1>3. ASSUME StopGateway \/ Disconnect \/ UNCHANGED vars
      PROVE  UNCHANGED <<dispatch, handlers, patternOf>>
  BY <1>3 DEF StopGateway, Disconnect, vars, events, subs
<1>4. ASSUME NEW s \in Subs, Unsubscribe(s) PROVE UNCHANGED <<dispatch, handlers, patternOf>>
  BY <1>4 DEF Unsubscribe, events
<1>5. ASSUME NEW s \in Subs, NEW p \in Patterns, Subscribe(s, p)
      PROVE  TurnsTyped' /\ TurnsOK'
  <2>1. /\ UNCHANGED <<dispatch, handlers>> /\ patternOf[s] = None
        /\ patternOf' = [patternOf EXCEPT ![s] = p]
    BY <1>5 DEF Subscribe, events
  <2>2. \A x \in Subs : patternOf[x] # None => patternOf'[x] = patternOf[x]
    BY <2>1 DEF IInv, TypesOK
  <2> QED
    BY <1>0, <2>1, <2>2, TurnsKept DEF dispatch
<1>6. ASSUME NEW k \in Listeners, CreateListener(k) \/ RemoveListener(k)
      PROVE  UNCHANGED <<dispatch, handlers, patternOf>>
  BY <1>6 DEF CreateListener, RemoveListener, subs
<1>7. ASSUME NEW h \in Registrations, RegisterHandler(h) PROVE TurnsTyped' /\ TurnsOK'
  <2>1. /\ UNCHANGED <<dispatch, patternOf>> /\ h \notin Elements(handlers)
        /\ handlers' = Append(handlers, h)
    BY <1>7 DEF RegisterHandler, subs
  <2>2. handlers' \in Seq(Registrations) /\ Distinct(handlers')
    BY <1>0, <2>1, AppendList
  <2> QED
    BY <1>0, <2>1, <2>2, TurnsKept DEF dispatch
<1>8. ASSUME NEW t \in Topics, Receive(t) PROVE TurnsTyped' /\ TurnsOK'
  BY <1>8, ReceiveTurns
<1>9. CASE Call \/ PublishEvent
  BY <1>9, CallTurns, PublishTurns
<1> QED
  BY <1>1, <1>2, <1>3, <1>4, <1>5, <1>6, <1>7, <1>8, <1>9 DEF Next

-----------------------------------------------------------------------------
(* The theorems.                                                           *)

LEMMA Inductive == Spec => []IInv
<1>1. Init => IInv
  <2> SUFFICES ASSUME Init PROVE IInv
    OBVIOUS
  <2>0. /\ External \in Patterns /\ \A p \in Patterns : callbacks[p] = <<>>
        /\ Active = {}
    BY DeliveryAssumption DEF Init, Active
  <2>1. TypesOK
    <3>1. /\ order \in Seq(Patterns) /\ handlers \in Seq(Registrations)
          /\ pending \in Seq(Called \cup {Republish})
          /\ <<>> \in Seq(Everyone)
      BY EmptyList DEF Init
    <3>2. callbacks \in [Patterns -> Seq(Everyone)]
      BY <3>1 DEF Init
    <3>3. /\ bus \in [Listeners -> 0..2] /\ patternOf \in [Subs -> Patterns \cup {None}]
          /\ registry \in [Listeners -> {"none", "here", "gone"}]
          /\ stray \subseteq Listeners
      BY DEF Init
    <3> QED
      BY <3>1, <3>2, <3>3 DEF Init, TypesOK
  <2>2. ListsOK /\ KeysOK /\ BusMatchesRegistry
    BY <2>0, EmptyList DEF Init, ListsOK, KeysOK, BusMatchesRegistry
  <2>3. TurnsOK
    BY <2>0, EmptyList DEF Init, TurnsOK, Waiting, RepublishLast
  <2> QED
    BY <2>1, <2>2, <2>3 DEF IInv
<1>2. IInv /\ [Next]_vars => IInv'
  <2> SUFFICES ASSUME IInv, [Next]_vars PROVE IInv'
    OBVIOUS
  <2>1. TableTyped' /\ ListsOK' /\ KeysOK' /\ TurnsTyped' /\ TurnsOK'
    BY TableTypes, TableStep, TurnsStep
  <2>2. BusTyped' /\ BusMatchesRegistry'
    BY BusStep DEF IInv, TypesOK, BusTyped
  <2> QED
    BY <2>1, <2>2 DEF IInv, TypesOK, TableTyped, TurnsTyped, BusTyped
<1> QED
  BY <1>1, <1>2, PTL DEF Spec

\* The table holds the callback of exactly the subscribers that are started on
\* the current context, each once (Subscriber._do_start and _do_stop).
THEOREM DeliveryTypeCorrect == Spec => []TypeOK
<1>1. IInv => TypeOK
  <2> SUFFICES ASSUME IInv PROVE TypeOK
    OBVIOUS
  <2>1. Len(order) = Cardinality(Registered)
    BY DistinctLen DEF IInv, TypesOK, KeysOK, Registered
  <2>2. ASSUME NEW p \in Patterns, NEW s \in Everyone
        PROVE  Cardinality({i \in DOMAIN callbacks[p] : callbacks[p][i] = s})
                   = IF s \in Active /\ Uses(s) = p THEN 1 ELSE 0
    <3>1. callbacks[p] \in Seq(Everyone) /\ Distinct(callbacks[p])
          /\ (s \in Elements(callbacks[p]) <=> s \in Active /\ Uses(s) = p)
      BY DEF IInv, TypesOK, ListsOK
    <3>2. Cardinality({i \in DOMAIN callbacks[p] : callbacks[p][i] = s})
              = IF s \in Elements(callbacks[p]) THEN 1 ELSE 0
      BY <3>1, DistinctCount
    <3> QED
      BY <3>1, <3>2
  <2> QED
    BY <2>1, <2>2 DEF IInv, TypesOK, KeysOK, TypeOK, MaxHandlers
<1> QED
  BY <1>1, Inductive, PTL

\* Every callback that is on a list when its turn in a message begins is called,
\* once, whatever the callbacks before it do to the lists, and the event is
\* republished last (_dispatch_incoming, handle_external_event).
THEOREM CallsOnce == Spec => []CalledOnce
<1>1. IInv => CalledOnce
  <2> SUFFICES ASSUME IInv PROVE CalledOnce
    OBVIOUS
  <2>1. Len(pending) = Cardinality(Elements(pending))
    BY DistinctLen DEF IInv, TypesOK, TurnsOK
  <2> QED
    BY <2>1 DEF IInv, TurnsOK, Waiting, RepublishLast, CalledOnce
<1> QED
  BY <1>1, Inductive, PTL

\* A message is never delivered through two overlapping subscriptions, though
\* subscribers come and go during its dispatch (_dispatch_incoming).
THEOREM RoutesOnce == Spec => []OnePattern
<1>1. IInv => OnePattern
  BY DEF IInv, TurnsOK, OnePattern, Called
<1> QED
  BY <1>1, Inductive, PTL

\* A listener has a handler on the bus exactly while the registry says so, and
\* one more for good when it was created again in between (EEventListenerFactory).
THEOREM BusAgrees == Spec => []BusMatchesRegistry
<1>1. IInv => BusMatchesRegistry
  BY DEF IInv
<1> QED
  BY <1>1, Inductive, PTL

-----------------------------------------------------------------------------
(* Routing.  The patterns that match are those that cover the topic, and   *)
(* the rank of a pattern does not contradict the topics it stands for.     *)

Levels == Seq(STRING)

LEMMA LeastOf ==
    ASSUME NEW T \in SUBSET Nat, T # {}
    PROVE  \E m \in T : \A k \in T : m <= k
<1> DEFINE R == {ss \in Nat \X Nat : ss[1] < ss[2]}
<1>1. IsWellFoundedOn(R, Nat)
  BY NatLessThanWellFounded DEF OpToRel
<1>2. \A k, m \in Nat : <<k, m>> \in R <=> k < m
  OBVIOUS
<1> HIDE DEF R
<1>3. PICK m \in T : \A k \in T : ~(<<k, m>> \in R)
  BY <1>1, WFMin
<1>4. ASSUME NEW k \in T PROVE m <= k
  <2>1. k \in Nat /\ m \in Nat /\ ~(k < m)
    BY <1>2, <1>3
  <2> QED
    BY <2>1
<1> QED
  BY <1>3, <1>4

\* _topic_matches() is what a topic filter of MQTT means.
LEMMA MatchesIsCovers ==
    ASSUME NEW p \in Levels, NEW t \in Levels, WellFormed(p)
    PROVE  TopicMatches(p, t) <=> Covers(p, t)
<1> DEFINE n == Len(p)
           Decides(i) == p[i] = "#" \/ i > Len(t) \/ p[i] \notin {"+", t[i]}
           deciding   == {i \in DOMAIN p : Decides(i)}
<1>1. n \in Nat /\ Len(t) \in Nat /\ DOMAIN p = 1..n
  BY DEF Levels
<1>2. TopicMatches(p, t) <=>
          \/ deciding = {} /\ n = Len(t)
          \/ \E i \in deciding : p[i] = "#" /\ \A j \in deciding : i <= j
  BY DEF TopicMatches
<1>3. CASE HasHash(p)
  <2>1. n \in 1..n /\ p[n] = "#" /\ \A i \in 1..n : p[i] = "#" => i = n
    BY <1>1, <1>3 DEF HasHash, WellFormed
  <2>2. n \in deciding
    BY <1>1, <2>1
  <2>3. TopicMatches(p, t) <=> \A j \in deciding : n <= j
    BY <1>1, <1>2, <2>1, <2>2
  <2>4. \A j \in 1..n - 1 : j \in DOMAIN p /\ j < n /\ p[j] # "#"
    <3> HIDE DEF n
    <3> QED
      BY <1>1, <2>1
  <2>5. \A j \in 1..n - 1 :
            j \notin deciding <=> j <= Len(t) /\ p[j] \in {"+", t[j]}
    BY <1>1, <2>4
  <2>6. (\A j \in deciding : n <= j) <=> \A j \in 1..n - 1 : j \notin deciding
    <3>1. deciding \subseteq 1..n
      BY <1>1
    <3> HIDE DEF n, deciding
    <3> QED
      BY <1>1, <3>1
  <2>7. (\A j \in 1..n - 1 : j <= Len(t)) <=> Len(t) >= n - 1
    <3> HIDE DEF n
    <3>1. ASSUME \A j \in 1..n - 1 : j <= Len(t) PROVE Len(t) >= n - 1
      <4>1. CASE n = 1
        BY <1>1, <4>1
      <4>2. CASE n # 1
        <5>1. n \in Nat /\ n >= 1 /\ n # 1
          BY <1>1, <2>1, <4>2
        <5>2. n - 1 \in 1..n - 1
          BY <5>1
        <5> QED
          BY <3>1, <5>2
      <4> QED
        BY <4>1, <4>2
    <3>2. ASSUME Len(t) >= n - 1, NEW j \in 1..n - 1 PROVE j <= Len(t)
      BY <1>1, <3>2
    <3> QED
      BY <3>1, <3>2
  <2>8. TopicMatches(p, t) <=> Len(t) >= n - 1 /\ Agree(p, t, n - 1)
    <3> HIDE DEF n, deciding
    <3> QED
      BY <2>3, <2>5, <2>6, <2>7 DEF Agree
  <2> QED
    BY <1>3, <2>8 DEF Covers
<1>4. CASE ~HasHash(p)
  <2>1. \A i \in 1..n : p[i] # "#"
    BY <1>1, <1>4 DEF HasHash
  <2>2. TopicMatches(p, t) <=> deciding = {} /\ n = Len(t)
    BY <1>1, <1>2, <2>1
  <2>3. n = Len(t) => (deciding = {} <=> Agree(p, t, n))
    BY <1>1, <2>1 DEF Agree
  <2> QED
    BY <1>4, <2>2, <2>3 DEF Covers
<1> QED
  BY <1>3, <1>4

\* The positions of the literals of a pattern.
LiteralsAt(p) == {i \in DOMAIN p : p[i] \notin Wildcards}

LEMMA CountOfLiterals ==
    ASSUME NEW p \in Levels
    PROVE  /\ IsFiniteSet(LiteralsAt(p)) /\ Literals(p) = Cardinality(LiteralsAt(p))
           /\ Literals(p) \in 0..Len(p)
<1> DEFINE n == Len(p)
<1>1. LiteralsAt(p) \subseteq 1..n /\ n \in Nat
  BY DEF LiteralsAt, Levels
<1> HIDE DEF n
<1>2. IsFiniteSet(1..n) /\ Cardinality(1..n) = n
  BY <1>1, FS_Interval
<1>3. /\ IsFiniteSet(LiteralsAt(p)) /\ Cardinality(LiteralsAt(p)) <= n
      /\ Cardinality(LiteralsAt(p)) \in Nat
  BY <1>1, <1>2, FS_Subset, FS_CardinalityType
<1> QED
  BY <1>1, <1>3 DEF Literals, LiteralsAt, n

LEMMA PatternLevels ==
    ASSUME NEW p \in Patterns PROVE p \in Levels /\ WellFormed(p)
BY RoutingAssumption DEF Levels

LEMMA MatchingTopics ==
    ASSUME order \in Seq(Patterns), NEW t \in Topics
    PROVE  /\ DOMAIN order = 1..Len(order) /\ Len(order) \in Nat
           /\ \A i \in DOMAIN order : order[i] \in Patterns
           /\ Matching(t) = {i \in DOMAIN order : Covers(order[i], t)}
           /\ \A p : p \in Registered <=> \E i \in DOMAIN order : order[i] = p
<1>1. /\ DOMAIN order = 1..Len(order) /\ Len(order) \in Nat
      /\ \A i \in DOMAIN order : order[i] \in Patterns
  OBVIOUS
<1>2. t \in Levels
  BY RoutingAssumption DEF Levels
<1>3. \A i \in DOMAIN order : TopicMatches(order[i], t) <=> Covers(order[i], t)
  BY <1>1, <1>2, PatternLevels, MatchesIsCovers
<1> QED
  BY <1>1, <1>3 DEF Matching, Registered, Elements

\* A pattern that covers a topic has no more literals than the topic has levels.
LEMMA CoveringLiterals ==
    ASSUME NEW p \in Patterns, NEW t \in Topics, Covers(p, t)
    PROVE  Literals(p) \in Nat /\ Len(t) + 1 - Literals(p) \in Nat
<1>1. p \in Levels /\ t \in Levels
  BY RoutingAssumption DEF Levels
<1>2. Len(t) \in Nat /\ Len(p) \in Nat /\ Len(p) <= Len(t) + 1
  BY <1>1 DEF Covers, Levels
<1>3. Literals(p) \in 0..Len(p)
  BY <1>1, CountOfLiterals
<1> QED
  BY <1>2, <1>3

\* The order of two ranks, each a count and a flag that is set for those of H:
\* i beats j if it counts more, or as many and has no flag.
Beats(count, H, i, j) ==
    \/ count[i] > count[j]
    \/ count[i] = count[j] /\ i \notin H /\ j \in H

\* Those of M that nobody beats, the oldest of them.
Best(count, H, M) ==
    {i \in M : \A j \in M : ~Beats(count, H, j, i) /\ (j < i => Beats(count, H, i, j))}

\* The counts of the positions M of a list of n, none above top.
Ranking(count, M, n, top) ==
    /\ n \in Nat /\ top \in Nat
    /\ M \in SUBSET (1..n) /\ M # {}
    /\ count \in [M -> 0..top]

\* max() over finitely many ranks finds the oldest of the highest.
LEMMA OneRanksTop ==
    ASSUME NEW count, NEW M, NEW H, NEW n, NEW top, Ranking(count, M, n, top)
    PROVE  \E b \in M : Best(count, H, M) = {b}
<1> USE DEF Ranking
<1>1. PICK m \in M : \A j \in M : count[j] <= count[m]
  <2> DEFINE gaps == {top - count[i] : i \in M}
  <2>0. ASSUME NEW i \in M PROVE count[i] \in Nat /\ top - count[i] \in Nat
    <3>1. count[i] \in 0..top
      OBVIOUS
    <3> QED
      BY <3>1
  <2>1. gaps \in SUBSET Nat /\ gaps # {}
    BY <2>0
  <2>2. PICK g \in gaps : \A k \in gaps : g <= k
    <3> HIDE DEF gaps
    <3> QED
      BY <2>1, LeastOf
  <2>3. PICK m \in M : g = top - count[m]
    BY <2>2
  <2>4. ASSUME NEW j \in M PROVE count[j] <= count[m]
    <3>1. top - count[m] <= top - count[j]
      BY <2>2, <2>3
    <3> QED
      BY <2>0, <3>1
  <2> QED
    BY <2>4
<1>0. \A j \in M : count[j] \in Nat
  <2>1. \A j \in M : count[j] \in 0..top
    OBVIOUS
  <2> QED
    BY <2>1
<1> DEFINE most == {i \in M : count[i] = count[m]}
           bare == {i \in most : i \notin H}
           best == IF bare # {} THEN bare ELSE most
<1>2. best \subseteq M /\ best # {} /\ m \in most
  OBVIOUS
<1>3. M \subseteq Nat
  OBVIOUS
<1>4. PICK b \in best : \A k \in best : b <= k
  <2>1. best \in SUBSET Nat
    BY <1>2, <1>3
  <2> HIDE DEF best
  <2> QED
    BY <1>2, <2>1, LeastOf
<1>5. b \in M /\ b \in Nat /\ count[b] = count[m]
  BY <1>2, <1>3, <1>4
<1>6. ASSUME NEW j \in M
      PROVE  ~Beats(count, H, j, b) /\ (j < b => Beats(count, H, b, j))
  <2>1. count[j] <= count[b] /\ count[j] \in Nat /\ count[b] \in Nat /\ j \in Nat
    BY <1>0, <1>1, <1>3, <1>5
  <2>2. count[j] = count[b] => j \in most
    BY <1>5
  <2>3. CASE bare # {}
    <3>1. b \notin H /\ (j < b /\ j \in most => j \in H)
      BY <1>4, <1>5, <2>1, <2>3
    <3> QED
      BY <2>1, <2>2, <3>1 DEF Beats
  <2>4. CASE bare = {}
    <3>1. (j \in most => j \in H) /\ (j < b => j \notin most)
      BY <1>4, <1>5, <2>1, <2>4
    <3>2. b \in H
      BY <1>4, <2>4
    <3> QED
      BY <2>1, <2>2, <3>1, <3>2 DEF Beats
  <2> QED
    BY <2>3, <2>4
<1>7. ASSUME NEW i \in M,
             \A j \in M : ~Beats(count, H, j, i) /\ (j < i => Beats(count, H, i, j))
      PROVE  i = b
  <2>1. ~(i < b) /\ ~(b < i)
    BY <1>5, <1>6, <1>7
  <2> QED
    BY <1>3, <1>5, <2>1
<1>8. \A i : i \in Best(count, H, M) <=> i = b
  BY <1>5, <1>6, <1>7 DEF Best
<1> QED
  BY <1>5, <1>8

\* max() over the matching patterns finds one position.
LEMMA ChoosesOne ==
    ASSUME order \in Seq(Patterns), NEW t \in Topics, Matching(t) # {}
    PROVE  \E i \in Matching(t) : Chosen(t) = {i}
<1> DEFINE n     == Len(order)
           M     == Matching(t)
           H     == {i \in M : HasHash(order[i])}
           top   == Len(t) + 1
           count == [i \in M |-> Literals(order[i])]
<1>1. n \in Nat /\ M \in SUBSET (1..n) /\ M # {}
  BY MatchingTopics
<1>2. top \in Nat
  BY RoutingAssumption
<1>3. count \in [M -> 0..top]
  <2>1. ASSUME NEW i \in M PROVE Literals(order[i]) \in 0..top
    <3>1. order[i] \in Patterns /\ Covers(order[i], t)
      BY MatchingTopics
    <3> HIDE DEF M
    <3>2. Literals(order[i]) \in Nat /\ Len(t) + 1 - Literals(order[i]) \in Nat
      BY <3>1, CoveringLiterals
    <3> QED
      BY <1>2, <3>2
  <2> QED
    BY <2>1
<1>4. \E b \in M : Best(count, H, M) = {b}
  <2>1. Ranking(count, M, n, top)
    BY <1>1, <1>2, <1>3 DEF Ranking
  <2> HIDE DEF n, M, H, top, count
  <2> QED
    BY <2>1, OneRanksTop
<1>5. \A i, j \in M : MoreSpecific(order[i], order[j]) <=> Beats(count, H, i, j)
  BY DEF MoreSpecific, Beats
<1>6. Chosen(t) = {i \in M : \A j \in M :
                     /\ ~MoreSpecific(order[j], order[i])
                     /\ j < i => MoreSpecific(order[i], order[j])}
  BY DEF Chosen
<1> HIDE DEF M, H, count
<1>7. Chosen(t) = Best(count, H, M)
  BY <1>5, <1>6 DEF Best
<1> QED
  BY <1>4, <1>7 DEF M

\* Where q has a literal, a pattern p whose topics q covers has the same one.
LEMMA NarrowerLiterals ==
    ASSUME NEW p \in Patterns, NEW q \in Patterns,
           \A t \in Topics : Covers(p, t) => Covers(q, t)
    PROVE  /\ \A i \in LiteralsAt(q) : i \in DOMAIN p /\ p[i] = q[i]
           /\ HasHash(p) => HasHash(q)
           /\ ~HasHash(q) => Len(q) = Len(p)
<1>1. PICK t \in Topics : Len(t) = Len(p) /\ Typical(t, p, Patterns)
  BY RoutingAssumption
<1>2. /\ p \in Levels /\ q \in Levels /\ t \in Levels /\ WellFormed(q)
      /\ \A i \in DOMAIN t : t[i] \notin Wildcards
  BY RoutingAssumption DEF Levels
<1>3. Covers(q, t)
  BY <1>1 DEF Typical
<1>4. ASSUME NEW i \in LiteralsAt(q) PROVE i \in DOMAIN p /\ p[i] = q[i]
  <2>1. i \in DOMAIN q /\ q[i] # "+" /\ q[i] # "#"
    BY DEF LiteralsAt, Wildcards
  <2>2. i \in 1..Len(q) /\ DOMAIN t = 1..Len(t) /\ Len(t) \in Nat /\ Len(q) \in Nat
    BY <1>2, <2>1 DEF Levels
  <2>3. i \in DOMAIN t /\ q[i] = t[i]
    <3>1. CASE HasHash(q)
      <4>1. q[Len(q)] = "#"
        BY <1>2, <3>1 DEF HasHash, WellFormed
      <4>2. i \in 1..Len(q) - 1
        BY <2>1, <2>2, <4>1
      <4> QED
        BY <1>3, <2>1, <2>2, <3>1, <4>2 DEF Covers, Agree
    <3>2. CASE ~HasHash(q)
      BY <1>3, <2>1, <2>2, <3>2 DEF Covers, Agree
    <3> QED
      BY <3>1, <3>2
  <2> QED
    BY <1>1, <2>1, <2>3 DEF Typical
<1>5. ~HasHash(q) => Len(q) = Len(p)
  BY <1>1, <1>3 DEF Covers
<1>6. ASSUME HasHash(p), ~HasHash(q) PROVE FALSE
  <2>1. PICK u \in Topics : Len(u) = Len(p) - 1 /\ Typical(u, p, Patterns)
    BY <1>6, RoutingAssumption
  <2>2. Len(u) = Len(q)
    BY <1>6, <2>1 DEF Typical, Covers
  <2>3. Len(p) \in Nat
    BY <1>2 DEF Levels
  <2> QED
    BY <1>5, <1>6, <2>1, <2>2, <2>3
<1> QED
  BY <1>4, <1>5, <1>6

\* A narrower pattern ranks higher, unless both end in "#" and have as many
\* literals.
LEMMA NarrowerRanks ==
    ASSUME NEW p \in Patterns, NEW q \in Patterns, Narrower(p, q, Topics),
           ~MoreSpecific(p, q)
    PROVE  HasHash(p) /\ HasHash(q) /\ Literals(p) = Literals(q)
<1>1. /\ \A t \in Topics : Covers(p, t) => Covers(q, t)
      /\ \E t \in Topics : Covers(q, t) /\ ~Covers(p, t)
  BY DEF Narrower
<1>2. /\ \A i \in LiteralsAt(q) : i \in DOMAIN p /\ p[i] = q[i]
      /\ HasHash(p) => HasHash(q)
      /\ ~HasHash(q) => Len(q) = Len(p)
  BY <1>1, NarrowerLiterals
<1>3. p \in Levels /\ q \in Levels
  BY PatternLevels
<1>4. /\ IsFiniteSet(LiteralsAt(p))
      /\ Literals(p) = Cardinality(LiteralsAt(p)) /\ Literals(p) \in Nat
      /\ Literals(q) = Cardinality(LiteralsAt(q)) /\ Literals(q) \in Nat
  BY <1>3, CountOfLiterals
<1>5. LiteralsAt(q) \subseteq LiteralsAt(p)
  BY <1>2 DEF LiteralsAt
<1>6. /\ Literals(q) <= Literals(p)
      /\ Literals(p) = Literals(q) => LiteralsAt(q) = LiteralsAt(p)
  BY <1>4, <1>5, FS_Subset
<1>7. Literals(p) = Literals(q) /\ (HasHash(p) \/ ~HasHash(q))
  BY <1>4, <1>6 DEF MoreSpecific
<1>8. ASSUME ~HasHash(p), ~HasHash(q) PROVE FALSE
  <2>1. DOMAIN p = 1..Len(p) /\ DOMAIN q = 1..Len(q) /\ Len(q) = Len(p)
    BY <1>2, <1>3, <1>8 DEF Levels
  <2>2. ASSUME NEW i \in DOMAIN p PROVE p[i] = q[i]
    <3>1. CASE i \in LiteralsAt(q)
      BY <1>2, <3>1
    <3>2. CASE i \notin LiteralsAt(q)
      <4>1. p[i] \in Wildcards /\ q[i] \in Wildcards
        BY <1>6, <1>7, <2>1, <3>2 DEF LiteralsAt
      <4>2. p[i] # "#" /\ q[i] # "#"
        BY <1>8, <2>1 DEF HasHash
      <4> QED
        BY <4>1, <4>2 DEF Wildcards
    <3> QED
      BY <3>1, <3>2
  <2>3. \A t \in Topics : Covers(p, t) <=> Covers(q, t)
    BY <1>8, <2>1, <2>2 DEF Covers, Agree
  <2> QED
    BY <1>1, <2>3
<1> QED
  BY <1>2, <1>7, <1>8

\* A message goes where MQTT's filters say, by the narrowest of the patterns the
\* code tells apart (_topic_matches(), _pattern_specificity() and the max() of
\* _dispatch_incoming()), in whatever order the patterns were registered.
THEOREM RoutesNarrowly == Spec => []RoutesToNarrowest
<1>1. IInv => RoutesToNarrowest
  <2> SUFFICES ASSUME order \in Seq(Patterns), NEW t \in Topics
               PROVE  LET covering == {p \in Registered : Covers(p, t)}
                      IN  IF covering = {} THEN Chosen(t) = {}
                          ELSE \E i \in Chosen(t) :
                                  /\ Chosen(t) = {i} /\ order[i] \in covering
                                  /\ \A p \in covering :
                                        Narrower(p, order[i], Topics) =>
                                           /\ HasHash(p) /\ HasHash(order[i])
                                           /\ Literals(p) = Literals(order[i])
    BY DEF IInv, TypesOK, RoutesToNarrowest
  <2> DEFINE covering == {p \in Registered : Covers(p, t)}
  <2>1. /\ \A i \in DOMAIN order : order[i] \in Patterns
        /\ Matching(t) = {i \in DOMAIN order : Covers(order[i], t)}
        /\ \A p : p \in Registered <=> \E i \in DOMAIN order : order[i] = p
    BY MatchingTopics
  <2>2. \A p : p \in covering <=> \E i \in Matching(t) : order[i] = p
    BY <2>1
  <2>3. CASE covering = {}
    BY <2>2, <2>3 DEF Chosen
  <2>4. CASE covering # {}
    <3>1. PICK i \in Matching(t) : Chosen(t) = {i}
      BY <2>2, <2>4, ChoosesOne
    <3>2. ASSUME NEW p \in covering PROVE ~MoreSpecific(p, order[i])
      <4>1. PICK j \in Matching(t) : order[j] = p
        BY <2>2
      <4> QED
        BY <3>1, <4>1 DEF Chosen
    <3>3. order[i] \in covering /\ order[i] \in Patterns /\ covering \subseteq Patterns
      BY <2>1, <2>2, <3>1
    <3> QED
      BY <2>4, <3>1, <3>2, <3>3, NarrowerRanks
  <2> QED
    BY <2>3, <2>4
<1> QED
  BY <1>1, Inductive, PTL
=============================================================================
