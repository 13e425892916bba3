----------------------------- MODULE DataLemmas -----------------------------
(***************************************************************************)
(* Facts about the data of the models: sequences without repetitions that  *)
(* are pushed and popped (the queue of tokens, the pool of boxes), and the *)
(* community modules' sum of a function (run times, sizes of files), which *)
(* does not depend on the order in which it is taken.                      *)
(***************************************************************************)
EXTENDS Integers, Sequences, FiniteSets, Functions, FiniteSetTheorems,
        WellFoundedInduction, TLAPS

\* Append, element by element.
LEMMA AppendIsPush ==
    ASSUME NEW S, NEW q \in Seq(S), NEW e \in S
    PROVE  /\ Append(q, e) \in Seq(S)
           /\ Len(Append(q, e)) = Len(q) + 1
           /\ DOMAIN Append(q, e) = 1..(Len(q) + 1)
           /\ \A i \in 1..Len(q) : Append(q, e)[i] = q[i]
           /\ Append(q, e)[Len(q) + 1] = e
  OBVIOUS

\* Head and Tail, element by element.
LEMMA TailIsPop ==
    ASSUME NEW S, NEW q \in Seq(S), q # <<>>
    PROVE  /\ Head(q) \in S
           /\ Head(q) = q[1]
           /\ 1 \in DOMAIN q
           /\ Tail(q) \in Seq(S)
           /\ Len(Tail(q)) = Len(q) - 1
           /\ DOMAIN Tail(q) = 1..(Len(q) - 1)
           /\ \A i \in DOMAIN Tail(q) : i + 1 \in DOMAIN q /\ Tail(q)[i] = q[i + 1]
  OBVIOUS

\* Two queues in a row: moving the first element of the second to the end of the
\* first changes nothing, popping the first pops both.
LEMMA TwoQueues ==
    ASSUME NEW S, NEW q \in Seq(S), NEW r \in Seq(S)
    PROVE  /\ q \o r \in Seq(S) /\ q \o <<>> = q /\ <<>> \o r = r
           /\ r # <<>> => Append(q, Head(r)) \o Tail(r) = q \o r
           /\ q # <<>> => q \o r # <<>> /\ Tail(q) \o r = Tail(q \o r)
<1>1. q \o r \in Seq(S) /\ q \o <<>> = q /\ <<>> \o r = r
  OBVIOUS
<1>2. ASSUME r # <<>> PROVE Append(q, Head(r)) \o Tail(r) = q \o r
  BY <1>2
<1>3. ASSUME q # <<>> PROVE q \o r # <<>>
  BY <1>3
<1>4. ASSUME q # <<>> PROVE Tail(q) \o r = Tail(q \o r)
  BY <1>4
<1>. QED
  BY <1>1, <1>2, <1>3, <1>4

\* What an injective queue holds after a push and after a pop.
LEMMA PushElements ==
    ASSUME NEW S, NEW q \in Seq(S), NEW e \in S,
           IsInjective(q), e \notin Range(q)
    PROVE  /\ IsInjective(Append(q, e))
           /\ Range(Append(q, e)) = Range(q) \cup {e}
  BY AppendIsPush DEF IsInjective, Range

\* Popping an injective sequence removes its head from its elements.
LEMMA PopElements ==
    ASSUME NEW S, NEW q \in Seq(S), q # <<>>, IsInjective(q)
    PROVE  /\ IsInjective(Tail(q))
           /\ Range(Tail(q)) = Range(q) \ {Head(q)}
           /\ Head(q) \in Range(q)
<1>1. IsInjective(Tail(q))
  BY TailIsPop DEF IsInjective
<1>2. Head(q) \in Range(q)
  BY TailIsPop DEF Range
<1>3. ASSUME NEW x \in Range(Tail(q))
      PROVE  x \in Range(q) \ {Head(q)}
  <2>1. PICK i \in DOMAIN Tail(q) : x = Tail(q)[i]
    BY DEF Range
  <2>2. i + 1 \in DOMAIN q /\ x = q[i + 1] /\ i + 1 # 1
    BY <2>1, TailIsPop
  <2>. QED
    BY <2>2, TailIsPop DEF IsInjective, Range
<1>4. ASSUME NEW x \in Range(q) \ {Head(q)}
      PROVE  x \in Range(Tail(q))
  <2>1. PICK i \in DOMAIN q : x = q[i]
    BY DEF Range
  <2>2. i \in 1..Len(q) /\ i # 1
    BY <2>1, TailIsPop
  <2>3. i - 1 \in DOMAIN Tail(q) /\ Tail(q)[i - 1] = q[i]
    BY <2>2, TailIsPop
  <2>. QED
    BY <2>1, <2>3 DEF Range
<1>. QED
  BY <1>1, <1>2, <1>3, <1>4

\* A sequence without repetitions is no longer than the set it takes its
\* elements from.
LEMMA DistinctIsShort ==
    ASSUME NEW S, IsFiniteSet(S), NEW q \in Seq(S), IsInjective(q)
    PROVE  Len(q) <= Cardinality(S)
<1>1. q \in Injection(1..Len(q), S)
  BY DEF Injection, IsInjective
<1>2. Len(q) \in Nat
  OBVIOUS
<1>3. Cardinality(1..Len(q)) = IF 1 > Len(q) THEN 0 ELSE Len(q) - 1 + 1
  BY <1>2, FS_Interval
<1>4. Cardinality(1..Len(q)) <= Cardinality(S)
  BY <1>1, FS_Injection
<1>. QED
  BY <1>2, <1>3, <1>4

-----------------------------------------------------------------------------

\* Induction over the parts of a finite set: a family of them that is not empty
\* has one that has no other below it.
LEMMA MinimalSet ==
    ASSUME NEW S, IsFiniteSet(S), NEW B, B \subseteq SUBSET S, B # {}
    PROVE  \E s \in B : \A t \in B : t \subseteq s => t = s
<1>1. IsWellFoundedOn(StrictSubsetOrdering(S), SUBSET S)
  BY FS_StrictSubsetOrderingWellFounded, FS_FiniteSubsetsOfFinite
<1>2. PICK s \in B : \A t \in B : <<t, s>> \notin StrictSubsetOrdering(S)
  BY <1>1, WFMin
<1>. QED
  BY <1>2 DEF StrictSubsetOrdering

\* The element that the library takes first, and a function that adds up f over the
\* parts of S in that order.
Pick(s) == CHOOSE x \in s : TRUE

IsSum(g, f, S) ==
    g = [s \in SUBSET S |-> IF s = {} THEN 0 ELSE f[Pick(s)] + g[s \ {Pick(s)}]]

\* The library chooses a function that does.
LEMMA SumIs ==
    ASSUME NEW f, NEW S
    PROVE  SumFunctionOnSet(f, S) = (CHOOSE g : IsSum(g, f, S))[S]
  BY DEF SumFunctionOnSet, FoldFunctionOnSet, MapThenFoldSet, IsSum, Pick

\* A non-empty set has the element picked.
LEMMA Picked == ASSUME NEW s, s # {} PROVE Pick(s) \in s
  BY DEF Pick

\* Nothing adds up to 0.
LEMMA SumOfNone ==
    ASSUME NEW f, NEW S, NEW g, IsSum(g, f, S)
    PROVE  g[{}] = 0
  BY DEF IsSum

\* What is not empty adds up to its pick and the rest.
LEMMA SumUnfolds ==
    ASSUME NEW f, NEW S, NEW g, IsSum(g, f, S), NEW s \in SUBSET S, s # {}
    PROVE  g[s] = f[Pick(s)] + g[s \ {Pick(s)}]
  BY DEF IsSum

\* ... and so does the whole set.
LEMMA SumUnfoldsWhole ==
    ASSUME NEW f, NEW S, NEW g, IsSum(g, f, S), S # {}
    PROVE  g[S] = f[Pick(S)] + g[S \ {Pick(S)}]
  BY DEF IsSum

\* Two functions that add up f agree wherever both do.
LEMMA SumUnique ==
    ASSUME NEW S, IsFiniteSet(S), NEW R \in SUBSET S, NEW f, NEW g, NEW h,
           IsSum(g, f, S), IsSum(h, f, R), NEW s \in SUBSET R
    PROVE  g[s] = h[s]
<1> DEFINE Bad == {t \in SUBSET R : g[t] # h[t]}
<1>1. SUFFICES ASSUME Bad # {} PROVE FALSE
  OBVIOUS
<1>2. IsFiniteSet(R) /\ Bad \subseteq SUBSET R
  BY FS_Subset
<1>3. PICK t \in Bad : \A u \in Bad : u \subseteq t => u = t
  <2>. HIDE DEF Bad
  <2>. QED
    BY <1>1, <1>2, MinimalSet
<1>4. t \in SUBSET R /\ t \in SUBSET S /\ g[t] # h[t]
  OBVIOUS
<1>5. t # {}
  <2>1. g[{}] = 0 /\ h[{}] = 0
    BY SumOfNone
  <2>. QED
    BY <1>4, <2>1
<1>6. t \ {Pick(t)} \notin Bad
  BY <1>3, <1>5, Picked
<1>7. g[t \ {Pick(t)}] = h[t \ {Pick(t)}]
  BY <1>4, <1>6
<1>. QED
  BY <1>4, <1>5, <1>7, SumUnfolds

\* There is a function that adds up f.
LEMMA SumExists ==
    ASSUME NEW S, IsFiniteSet(S), NEW f, \A x \in S : f[x] \in Int
    PROVE  \E g \in [SUBSET S -> Int] : IsSum(g, f, S)
<1> DEFINE Bad == {t \in SUBSET S : ~ \E g \in [SUBSET t -> Int] : IsSum(g, f, t)}
<1>1. SUFFICES ASSUME Bad # {} PROVE FALSE
  OBVIOUS
<1>2. PICK t \in Bad : \A u \in Bad : u \subseteq t => u = t
  <2>1. Bad \subseteq SUBSET S
    OBVIOUS
  <2>. HIDE DEF Bad
  <2>. QED
    BY <1>1, <2>1, MinimalSet
<1>3. t \in SUBSET S /\ ~ \E g \in [SUBSET t -> Int] : IsSum(g, f, t)
  OBVIOUS
<1>4. \A u \in SUBSET t : u # t => \E g \in [SUBSET u -> Int] : IsSum(g, f, u)
  BY <1>2, <1>3
<1> DEFINE G(u) == CHOOSE g \in [SUBSET u -> Int] : IsSum(g, f, u)
<1>5. \A u \in SUBSET t : u # t => G(u) \in [SUBSET u -> Int] /\ IsSum(G(u), f, u)
  BY <1>4
<1> DEFINE Rest(u) == u \ {Pick(u)}
           h == [u \in SUBSET t |-> IF u = {} THEN 0 ELSE f[Pick(u)] + G(Rest(u))[Rest(u)]]
<1>6. ASSUME NEW u \in SUBSET t, u # {}
      PROVE  Rest(u) \in SUBSET t /\ Rest(u) # t /\ Pick(u) \in S /\ G(Rest(u))[Rest(u)] \in Int
  <2>1. Pick(u) \in u
    BY <1>6, Picked
  <2>2. Rest(u) \in SUBSET t /\ Rest(u) # t /\ Pick(u) \in S
    BY <1>3, <2>1
  <2>3. G(Rest(u)) \in [SUBSET Rest(u) -> Int]
    BY <1>5, <2>2
  <2>. QED
    BY <2>2, <2>3
<1>7. h \in [SUBSET t -> Int]
  <2>. HIDE DEF G, Rest
  <2>1. \A u \in SUBSET t : u # {} => f[Pick(u)] + G(Rest(u))[Rest(u)] \in Int
    BY <1>6
  <2>. QED
    BY <2>1
<1>8. ASSUME NEW u \in SUBSET t, u # {}
      PROVE  G(Rest(u))[Rest(u)] = h[Rest(u)]
  <2> DEFINE v == Rest(u)
  <2>1. v \in SUBSET t /\ v # t /\ IsSum(G(v), f, v)
    BY <1>5, <1>6, <1>8
  <2>2. CASE v = {}
    <3>1. G(v)[v] = 0
      BY <2>1, <2>2, SumOfNone
    <3>. QED
      BY <2>1, <2>2, <3>1
  <2>3. CASE v # {}
    <3> DEFINE w == Rest(v)
    <3>1. w \in SUBSET v /\ w \in SUBSET t /\ w # t /\ IsSum(G(w), f, w) /\ IsFiniteSet(v)
      BY <1>3, <1>5, <1>6, <2>1, <2>3, FS_Subset
    <3>2. G(v)[v] = f[Pick(v)] + G(v)[w]
      <4>. HIDE DEF G, v
      <4>. QED
        BY <2>1, <2>3, SumUnfoldsWhole DEF Rest
    <3>3. G(v)[w] = G(w)[w]
      <4>. HIDE DEF G, v, w
      <4>. QED
        BY <2>1, <3>1, SumUnique
    <3>4. h[v] = f[Pick(v)] + G(w)[w]
      BY <2>1, <2>3
    <3>. QED
      BY <3>2, <3>3, <3>4
  <2>. QED
    BY <2>2, <2>3
<1>9. IsSum(h, f, t)
  <2>1. \A u \in SUBSET t :
            (IF u = {} THEN 0 ELSE f[Pick(u)] + G(Rest(u))[Rest(u)])
              = IF u = {} THEN 0 ELSE f[Pick(u)] + h[u \ {Pick(u)}]
    <3>1. ASSUME NEW u \in SUBSET t, u # {}
          PROVE  f[Pick(u)] + G(Rest(u))[Rest(u)] = f[Pick(u)] + h[u \ {Pick(u)}]
      BY <1>8, <3>1
    <3>. HIDE DEF h, G, Rest
    <3>. QED
      BY <3>1
  <2>2. h = [u \in SUBSET t |-> IF u = {} THEN 0 ELSE f[Pick(u)] + h[u \ {Pick(u)}]]
    <3> DEFINE k == [u \in SUBSET t |-> IF u = {} THEN 0 ELSE f[Pick(u)] + h[u \ {Pick(u)}]]
    <3>1. ASSUME NEW u \in SUBSET t PROVE h[u] = k[u]
      <4>1. h[u] = IF u = {} THEN 0 ELSE f[Pick(u)] + G(Rest(u))[Rest(u)]
        BY DEF h
      <4>2. k[u] = IF u = {} THEN 0 ELSE f[Pick(u)] + h[u \ {Pick(u)}]
        BY DEF k
      <4>. HIDE DEF h, k, G
      <4>. QED
        BY <2>1, <4>1, <4>2
    <3>2. DOMAIN h = SUBSET t /\ DOMAIN k = SUBSET t
      OBVIOUS
    <3>3. h = [u \in DOMAIN h |-> h[u]] /\ k = [u \in DOMAIN k |-> k[u]]
      OBVIOUS
    <3>. HIDE DEF h, k
    <3>4. h = k
      BY <3>1, <3>2, <3>3
    <3>. QED
      BY <3>4 DEF k
  <2>. HIDE DEF h
  <2>. QED
    BY <2>2 DEF IsSum
<1>. QED
  BY <1>3, <1>7, <1>9

\* So the library's sum is one: unfolded at its own pick.
LEMMA SumStep ==
    ASSUME NEW S, IsFiniteSet(S), NEW f, \A x \in S : f[x] \in Int
    PROVE  /\ SumFunctionOnSet(f, S) \in Int
           /\ S = {} => SumFunctionOnSet(f, S) = 0
           /\ S # {} => SumFunctionOnSet(f, S)
                          = f[Pick(S)] + SumFunctionOnSet(f, S \ {Pick(S)})
<1> DEFINE g(R) == CHOOSE h : IsSum(h, f, R)
<1>1. ASSUME NEW R \in SUBSET S PROVE IsSum(g(R), f, R) /\ g(R)[R] \in Int
  <2>1. IsFiniteSet(R) /\ \A x \in R : f[x] \in Int
    BY FS_Subset
  <2>2. PICK h \in [SUBSET R -> Int] : IsSum(h, f, R)
    BY <2>1, SumExists
  <2>3. IsSum(g(R), f, R)
    BY <2>2
  <2>4. g(R)[R] = h[R]
    <3>. HIDE DEF g
    <3>. QED
      BY <2>1, <2>2, <2>3, SumUnique
  <2>. QED
    BY <2>2, <2>3, <2>4
<1>2. \A R \in SUBSET S : SumFunctionOnSet(f, R) = g(R)[R]
  BY SumIs
<1> HIDE DEF g
<1>3. SumFunctionOnSet(f, S) \in Int
  BY <1>1, <1>2
<1>4. S = {} => SumFunctionOnSet(f, S) = 0
  BY <1>1, <1>2, SumOfNone
<1>5. ASSUME S # {}
      PROVE  SumFunctionOnSet(f, S) = f[Pick(S)] + SumFunctionOnSet(f, S \ {Pick(S)})
  <2> DEFINE R == S \ {Pick(S)}
  <2>1. R \in SUBSET S
    OBVIOUS
  <2>2. g(S)[S] = f[Pick(S)] + g(S)[R]
    BY <1>1, <1>5, SumUnfolds
  <2>3. g(S)[R] = g(R)[R]
    BY <1>1, <2>1, SumUnique
  <2>. QED
    BY <1>2, <2>1, <2>2, <2>3
<1>. QED
  BY <1>3, <1>4, <1>5

\* The sum does not depend on the order: any element can be taken out.
LEMMA SumTakesOut ==
    ASSUME NEW S, IsFiniteSet(S), NEW f, \A x \in S : f[x] \in Int, NEW x \in S
    PROVE  SumFunctionOnSet(f, S) = f[x] + SumFunctionOnSet(f, S \ {x})
<1> DEFINE Sum(R) == SumFunctionOnSet(f, R)
           Bad == {R \in SUBSET S : \E y \in R : Sum(R) # f[y] + Sum(R \ {y})}
<1>1. SUFFICES ASSUME Bad # {} PROVE FALSE
  OBVIOUS
<1>2. ASSUME NEW R \in SUBSET S
      PROVE  /\ IsFiniteSet(R) /\ Sum(R) \in Int
             /\ R # {} => Pick(R) \in R /\ Sum(R) = f[Pick(R)] + Sum(R \ {Pick(R)})
  <2>1. IsFiniteSet(R) /\ \A y \in R : f[y] \in Int
    BY FS_Subset
  <2>. QED
    BY <2>1, SumStep, Picked
<1>3. PICK R \in Bad : \A Q \in Bad : Q \subseteq R => Q = R
  <2>1. Bad \subseteq SUBSET S
    OBVIOUS
  <2>. HIDE DEF Bad
  <2>. QED
    BY <1>1, <2>1, MinimalSet
<1>4. R \in SUBSET S
  OBVIOUS
<1>5. PICK y \in R : Sum(R) # f[y] + Sum(R \ {y})
  OBVIOUS
<1> DEFINE p == Pick(R)
<1>6. p \in R /\ Sum(R) = f[p] + Sum(R \ {p}) /\ p # y
  BY <1>2, <1>4, <1>5
<1>7. \A Q \in SUBSET R : Q # R => Q \notin Bad
  BY <1>3
<1>8. Sum(R \ {p}) = f[y] + Sum((R \ {p}) \ {y})
  BY <1>4, <1>5, <1>6, <1>7
<1>9. Sum(R \ {y}) = f[p] + Sum((R \ {y}) \ {p})
  BY <1>4, <1>5, <1>6, <1>7
<1>10. (R \ {p}) \ {y} = (R \ {y}) \ {p}
  OBVIOUS
<1>11. f[y] \in Int /\ f[p] \in Int /\ Sum((R \ {y}) \ {p}) \in Int
  BY <1>2, <1>4, <1>5, <1>6
<1>12. Sum(R) = f[y] + Sum(R \ {y})
  <2> DEFINE both == (R \ {y}) \ {p}
  <2>1. Sum(R) = f[p] + Sum(R \ {p}) /\ Sum(R \ {p}) = f[y] + Sum(both)
    BY <1>6, <1>8, <1>10
  <2>2. Sum(R \ {y}) = f[p] + Sum(both) /\ Sum(both) \in Int
    BY <1>9, <1>11
  <2>. HIDE DEF Sum, p, both
  <2>. QED
    BY <1>11, <2>1, <2>2
<1>. QED
  BY <1>5, <1>12

\* The sum depends on the values only.
LEMMA SumSame ==
    ASSUME NEW S, IsFiniteSet(S), NEW f, NEW g, \A x \in S : f[x] \in Int /\ g[x] = f[x]
    PROVE  SumFunctionOnSet(g, S) = SumFunctionOnSet(f, S)
<1> DEFINE Bad == {R \in SUBSET S : SumFunctionOnSet(g, R) # SumFunctionOnSet(f, R)}
<1>1. SUFFICES ASSUME Bad # {} PROVE FALSE
  OBVIOUS
<1>2. PICK R \in Bad : \A Q \in Bad : Q \subseteq R => Q = R
  <2>1. Bad \subseteq SUBSET S
    OBVIOUS
  <2>. HIDE DEF Bad
  <2>. QED
    BY <1>1, <2>1, MinimalSet
<1>3. /\ IsFiniteSet(R) /\ R \in SUBSET S
      /\ \A x \in R : f[x] \in Int /\ g[x] \in Int /\ g[x] = f[x]
  BY FS_Subset
<1>4. R # {}
  BY <1>3, SumStep
<1>5. Pick(R) \in R /\ R \ {Pick(R)} \notin Bad
  BY <1>2, <1>3, <1>4, Picked
<1>6. SumFunctionOnSet(g, R \ {Pick(R)}) = SumFunctionOnSet(f, R \ {Pick(R)})
  BY <1>3, <1>5
<1>7. SumFunctionOnSet(g, R) = g[Pick(R)] + SumFunctionOnSet(g, R \ {Pick(R)})
  BY <1>3, <1>4, SumStep
<1>8. SumFunctionOnSet(f, R) = f[Pick(R)] + SumFunctionOnSet(f, R \ {Pick(R)})
  BY <1>3, <1>4, SumStep
<1>. QED
  BY <1>2, <1>3, <1>5, <1>6, <1>7, <1>8

=============================================================================
