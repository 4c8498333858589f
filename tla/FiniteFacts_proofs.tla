-------------------------- MODULE FiniteFacts_proofs --------------------------
(***************************************************************************)
(* Sums, images, least elements and firsts of an order over finite sets:   *)
(* what the community modules' MapThenSumSet computes, and that a choice   *)
(* of a least or a first element succeeds.                                 *)
(* The recursion of a fold is a function on the subsets of its set; facts  *)
(* about it are proved at a smallest subset where they could fail.         *)
(***************************************************************************)
EXTENDS Integers, FiniteSetsExt, FiniteSetTheorems, WellFoundedInduction, TLAPS

LEMMA SmallestSubset ==
  ASSUME NEW S, IsFiniteSet(S), NEW T \in SUBSET SUBSET S, T # {}
  PROVE  \E x \in T : \A y \in T : y \subseteq x => y = x
<1>1. IsWellFoundedOn(StrictSubsetOrdering(S), SUBSET S)
  BY FS_StrictSubsetOrderingWellFounded, FS_FiniteSubsetsOfFinite
<1>2. \E x \in T : \A y \in T : <<y, x>> \notin StrictSubsetOrdering(S)
  BY <1>1, WFMin
<1> QED  BY <1>2 DEF StrictSubsetOrdering

-----------------------------------------------------------------------------
\* Sums.

\* The sum of a function over a set, and the function on subsets that computes it.
SumOver(f, S) == MapThenSumSet(LAMBDA x : f[x], S)

Pick(s) == CHOOSE x \in s : TRUE
Tally(g, f, S) ==
  g = [s \in SUBSET S |-> IF s = {} THEN 0 ELSE f[Pick(s)] + g[s \ {Pick(s)}]]

LEMMA SumIsTally ==
  ASSUME NEW f, NEW S
  PROVE  SumOver(f, S) = (CHOOSE g : Tally(g, f, S))[S]
BY DEF SumOver, MapThenSumSet, MapThenFoldSet, Tally, Pick

LEMMA PickIsIn ==
  ASSUME NEW s, s # {}
  PROVE  Pick(s) \in s
BY DEF Pick

LEMMA TallyStep ==
  ASSUME NEW f, NEW S, NEW g, Tally(g, f, S), NEW s \in SUBSET S
  PROVE  g[s] = IF s = {} THEN 0 ELSE f[Pick(s)] + g[s \ {Pick(s)}]
<1> DEFINE body(t) == IF t = {} THEN 0 ELSE f[Pick(t)] + g[t \ {Pick(t)}]
<1>1. g = [t \in SUBSET S |-> body(t)]
  BY DEF Tally
<1> HIDE DEF body
<1>2. g[s] = body(s)
  BY <1>1
<1> QED  BY <1>2 DEF body

\* Two tallies agree where the functions they add up agree.
LEMMA TalliesAgree ==
  ASSUME NEW f, NEW h, NEW S, NEW T, NEW a, Tally(a, f, S), NEW b, Tally(b, h, T),
         NEW U, U \in SUBSET S, U \in SUBSET T, IsFiniteSet(U),
         \A x \in U : f[x] = h[x]
  PROVE  a[U] = b[U]
<1> DEFINE wrong == {s \in SUBSET U : a[s] # b[s]}
<1>1. SUFFICES ASSUME wrong # {} PROVE FALSE
  OBVIOUS
<1>2. PICK s \in wrong : \A t \in wrong : t \subseteq s => t = s
  <2>1. wrong \in SUBSET SUBSET U
    OBVIOUS
  <2> HIDE DEF wrong
  <2> QED  BY <1>1, <2>1, SmallestSubset
<1>3. /\ a[s] = IF s = {} THEN 0 ELSE f[Pick(s)] + a[s \ {Pick(s)}]
      /\ b[s] = IF s = {} THEN 0 ELSE h[Pick(s)] + b[s \ {Pick(s)}]
  <2>1. s \in SUBSET S /\ s \in SUBSET T
    BY <1>2
  <2> QED  BY <2>1, TallyStep
<1>4. s # {}
  BY <1>2, <1>3
<1>5. Pick(s) \in s
  BY <1>4, PickIsIn
<1>6. s \ {Pick(s)} \notin wrong /\ f[Pick(s)] = h[Pick(s)]
  BY <1>2, <1>5
<1>7. a[s \ {Pick(s)}] = b[s \ {Pick(s)}]
  BY <1>2, <1>6
<1> QED  BY <1>2, <1>3, <1>4, <1>6, <1>7

LEMMA TallyExists ==
  ASSUME NEW f, NEW S, IsFiniteSet(S)
  PROVE  \E g : Tally(g, f, S)
<1> DEFINE missing == {s \in SUBSET S : ~ \E g : Tally(g, f, s)}
           H(s) == SumOver(f, s)
<1>1. SUFFICES ASSUME missing # {} PROVE FALSE
  <2>1. S \in SUBSET S
    OBVIOUS
  <2> QED  BY <2>1
<1>2. PICK s \in missing : \A t \in missing : t \subseteq s => t = s
  <2>1. missing \in SUBSET SUBSET S
    OBVIOUS
  <2> HIDE DEF missing
  <2> QED  BY <1>1, <2>1, SmallestSubset
<1> DEFINE body(t) == IF t = {} THEN 0 ELSE f[Pick(t)] + H(t \ {Pick(t)})
           g == [t \in SUBSET s |-> body(t)]
<1>3. ASSUME NEW t, t \in SUBSET s, t # s
      PROVE  Tally(CHOOSE h : Tally(h, f, t), f, t) /\ H(t) = (CHOOSE h : Tally(h, f, t))[t]
  <2>1. \E h : Tally(h, f, t)
    BY <1>2, <1>3
  <2>2. Tally(CHOOSE h : Tally(h, f, t), f, t)
    BY <2>1
  <2> QED  BY <2>2, SumIsTally
<1>4. ASSUME NEW t, t \in SUBSET s, t # s
      PROVE  H(t) = body(t)
  <2> DEFINE th == CHOOSE h : Tally(h, f, t)
             u  == t \ {Pick(t)}
             uh == CHOOSE h : Tally(h, f, u)
  <2>1. Tally(th, f, t) /\ H(t) = th[t]
    BY <1>3, <1>4
  <2>2. th[t] = IF t = {} THEN 0 ELSE f[Pick(t)] + th[u]
    BY <2>1, TallyStep
  <2>3. CASE t = {}
    BY <2>1, <2>2, <2>3
  <2>4. CASE t # {}
    <3>1. Pick(t) \in t
      BY <2>4, PickIsIn
    <3>2. u \in SUBSET s /\ u # s /\ u \in SUBSET t /\ u \in SUBSET u
      BY <1>4, <3>1
    <3>3. Tally(uh, f, u) /\ H(u) = uh[u]
      BY <1>3, <3>2
    <3>4. IsFiniteSet(u)
      <4>1. u \in SUBSET S
        BY <1>2, <3>2
      <4> QED  BY <4>1, FS_Subset
    <3> HIDE DEF th, u, uh
    <3>5. th[u] = uh[u]
      BY <2>1, <3>2, <3>3, <3>4, TalliesAgree
    <3> QED  BY <2>1, <2>2, <2>4, <3>3, <3>5 DEF u
  <2> QED  BY <2>3, <2>4
<1>5. ASSUME NEW t \in SUBSET s, t # {}
      PROVE  H(t \ {Pick(t)}) = g[t \ {Pick(t)}]
  <2>1. Pick(t) \in t
    BY <1>5, PickIsIn
  <2> DEFINE u == t \ {Pick(t)}
  <2>2. u \in SUBSET s /\ u # s
    BY <2>1
  <2>3. H(u) = body(u)
    BY <1>4, <2>2
  <2> HIDE DEF u, body, H
  <2>4. g[u] = body(u)
    BY <2>2
  <2> QED  BY <2>3, <2>4 DEF u
<1>6. g = [t \in SUBSET s |-> IF t = {} THEN 0 ELSE f[Pick(t)] + g[t \ {Pick(t)}]]
  <2> DEFINE other(t) == IF t = {} THEN 0 ELSE f[Pick(t)] + g[t \ {Pick(t)}]
  <2>1. \A t \in SUBSET s : body(t) = other(t)
    BY <1>5
  <2> HIDE DEF body, other
  <2>2. [t \in SUBSET s |-> body(t)] = [t \in SUBSET s |-> other(t)]
    BY <2>1
  <2>3. g = [t \in SUBSET s |-> other(t)]
    BY <2>2
  <2> QED  BY <2>3 DEF other
<1>7. Tally(g, f, s)
  BY <1>6 DEF Tally
<1> QED  BY <1>2, <1>7
\* The same in operators, which the provers match better than applications.
At(g, s) == g[s]
SameOn(f, h, U) == \A x \in U : f[x] = h[x]

LEMMA TalliesAgreeAt ==
  ASSUME NEW f, NEW h, NEW S, NEW T, NEW a, Tally(a, f, S), NEW b, Tally(b, h, T),
         NEW U, U \subseteq S, U \subseteq T, IsFiniteSet(U), SameOn(f, h, U)
  PROVE  At(a, U) = At(b, U)
BY TalliesAgree DEF At, SameOn

\* A sum over a finite set is the value of a tally on it.
LEMMA SumHasTally ==
  ASSUME NEW f, NEW S, IsFiniteSet(S)
  PROVE  \E g : Tally(g, f, S) /\ SumOver(f, S) = g[S]
<1> DEFINE g == CHOOSE h : Tally(h, f, S)
<1>1. Tally(g, f, S)
  BY TallyExists
<1>2. SumOver(f, S) = g[S]
  BY SumIsTally
<1> QED  BY <1>1, <1>2

LEMMA SumsAgree ==
  ASSUME NEW f, NEW h, NEW S, IsFiniteSet(S), \A x \in S : f[x] = h[x]
  PROVE  SumOver(f, S) = SumOver(h, S)
<1>1. PICK a : Tally(a, f, S) /\ SumOver(f, S) = a[S]
  BY SumHasTally
<1>2. PICK b : Tally(b, h, S) /\ SumOver(h, S) = b[S]
  BY SumHasTally
<1>3. SameOn(f, h, S)
  BY DEF SameOn
<1>4. At(a, S) = At(b, S)
  BY <1>1, <1>2, <1>3, TalliesAgreeAt
<1> QED  BY <1>1, <1>2, <1>4 DEF At

\* The sum takes off the picked element first.
LEMMA SumOfPicked ==
  ASSUME NEW f, NEW S, IsFiniteSet(S)
  PROVE  SumOver(f, S) = IF S = {} THEN 0 ELSE f[Pick(S)] + SumOver(f, S \ {Pick(S)})
<1> DEFINE R == S \ {Pick(S)}
<1>1. PICK a : Tally(a, f, S) /\ SumOver(f, S) = a[S]
  BY SumHasTally
<1>2. IsFiniteSet(R)
  BY FS_RemoveElement
<1>3. PICK b : Tally(b, f, R) /\ SumOver(f, R) = b[R]
  BY <1>2, SumHasTally
<1>4. a[S] = IF S = {} THEN 0 ELSE f[Pick(S)] + a[R]
  BY <1>1, TallyStep
<1>5. a[R] = b[R]
  <2>1. R \subseteq S /\ SameOn(f, f, R)
    BY DEF SameOn
  <2> HIDE DEF R
  <2>2. At(a, R) = At(b, R)
    BY <1>1, <1>2, <1>3, <2>1, TalliesAgreeAt
  <2> QED  BY <2>2 DEF At
<1> QED  BY <1>1, <1>3, <1>4, <1>5

LEMMA SumOfNone ==
  ASSUME NEW f
  PROVE  SumOver(f, {}) = 0
BY SumOfPicked, FS_EmptySet

LEMMA SumIsInt ==
  ASSUME NEW f, NEW S, IsFiniteSet(S), \A x \in S : f[x] \in Int
  PROVE  SumOver(f, S) \in Int
<1> DEFINE wrong == {s \in SUBSET S : SumOver(f, s) \notin Int}
<1>1. SUFFICES ASSUME wrong # {} PROVE FALSE
  OBVIOUS
<1>2. PICK s \in wrong : \A t \in wrong : t \subseteq s => t = s
  <2>1. wrong \in SUBSET SUBSET S
    OBVIOUS
  <2> HIDE DEF wrong
  <2> QED  BY <1>1, <2>1, SmallestSubset
<1>3. IsFiniteSet(s)
  BY <1>2, FS_Subset
<1>4. SumOver(f, s) = IF s = {} THEN 0 ELSE f[Pick(s)] + SumOver(f, s \ {Pick(s)})
  BY <1>3, SumOfPicked
<1>5. s # {}
  BY <1>2, <1>4
<1>6. Pick(s) \in s
  BY <1>5, PickIsIn
<1>7. f[Pick(s)] \in Int /\ SumOver(f, s \ {Pick(s)}) \in Int
  BY <1>2, <1>6
<1> QED  BY <1>2, <1>4, <1>5, <1>7

\* Any element may be taken off first.
LEMMA SumTakesOff ==
  ASSUME NEW f, NEW S, IsFiniteSet(S), \A x \in S : f[x] \in Int, NEW e \in S
  PROVE  SumOver(f, S) = f[e] + SumOver(f, S \ {e})
<1> DEFINE right(s, x) == SumOver(f, s) = f[x] + SumOver(f, s \ {x})
           wrong == {s \in SUBSET S : \E x \in s : ~ right(s, x)}
<1>1. SUFFICES ASSUME wrong # {} PROVE FALSE
  OBVIOUS
<1>2. PICK s \in wrong : \A t \in wrong : t \subseteq s => t = s
  <2>1. wrong \in SUBSET SUBSET S
    OBVIOUS
  <2> HIDE DEF wrong
  <2> QED  BY <1>1, <2>1, SmallestSubset
<1>3. PICK x \in s : ~ right(s, x)
  OBVIOUS
<1>4. IsFiniteSet(s) /\ s \in SUBSET S /\ s # {}
  BY <1>3, FS_Subset
<1> DEFINE p == Pick(s)
<1>5. p \in s
  BY <1>4, PickIsIn
<1>6. right(s, p)
  BY <1>4, SumOfPicked
<1> HIDE DEF p
<1>7. p # x
  BY <1>3, <1>6
<1>8. /\ s \ {p} \notin wrong /\ s \ {p} \in SUBSET S
      /\ s \ {x} \notin wrong /\ s \ {x} \in SUBSET S
  BY <1>2, <1>4, <1>5
<1>9. right(s \ {p}, x) /\ right(s \ {x}, p)
  BY <1>3, <1>5, <1>7, <1>8
<1>10. (s \ {p}) \ {x} = (s \ {x}) \ {p}
  OBVIOUS
<1> DEFINE rest == SumOver(f, (s \ {x}) \ {p})
<1>11. rest \in Int /\ f[p] \in Int /\ f[x] \in Int
  <2>1. (s \ {x}) \ {p} \in SUBSET S
    BY <1>4
  <2>2. IsFiniteSet((s \ {x}) \ {p})
    BY <2>1, FS_Subset
  <2> QED  BY <1>3, <1>4, <1>5, <2>1, <2>2, SumIsInt
<1> HIDE DEF rest
<1>12. /\ SumOver(f, s) = f[p] + (f[x] + rest)
       /\ SumOver(f, s \ {x}) = f[p] + rest
  BY <1>6, <1>9, <1>10 DEF rest
<1> QED  BY <1>3, <1>11, <1>12
\* A sum whose function changes at one element.
LEMMA SumChangesAt ==
  ASSUME NEW f, NEW h, NEW S, IsFiniteSet(S), NEW e \in S,
         \A x \in S : f[x] \in Int, h[e] \in Int, \A x \in S \ {e} : h[x] = f[x]
  PROVE  SumOver(h, S) = SumOver(f, S) - f[e] + h[e]
<1>1. \A x \in S : h[x] \in Int
  OBVIOUS
<1>2. SumOver(f, S) = f[e] + SumOver(f, S \ {e})
  BY SumTakesOff
<1>3. SumOver(h, S) = h[e] + SumOver(h, S \ {e})
  BY <1>1, SumTakesOff
<1>4. IsFiniteSet(S \ {e})
  BY FS_RemoveElement
<1>5. SumOver(h, S \ {e}) = SumOver(f, S \ {e})
  BY <1>4, SumsAgree
<1>6. SumOver(f, S \ {e}) \in Int
  BY <1>4, SumIsInt
<1>7. f[e] \in Int
  OBVIOUS
<1> QED  BY <1>2, <1>3, <1>5, <1>6, <1>7

\* One more element.
LEMMA SumAdds ==
  ASSUME NEW f, NEW S, IsFiniteSet(S), NEW e, e \notin S, \A x \in S \cup {e} : f[x] \in Int
  PROVE  SumOver(f, S \cup {e}) = f[e] + SumOver(f, S)
<1>1. IsFiniteSet(S \cup {e})
  BY FS_AddElement
<1>2. (S \cup {e}) \ {e} = S /\ e \in S \cup {e}
  OBVIOUS
<1> QED  BY <1>1, <1>2, SumTakesOff

\* A sum of zeros.
LEMMA SumOfZeros ==
  ASSUME NEW f, NEW S, IsFiniteSet(S), \A x \in S : f[x] = 0
  PROVE  SumOver(f, S) = 0
<1> DEFINE wrong == {s \in SUBSET S : SumOver(f, s) # 0}
<1>1. SUFFICES ASSUME wrong # {} PROVE FALSE
  OBVIOUS
<1>2. PICK s \in wrong : \A t \in wrong : t \subseteq s => t = s
  <2>1. wrong \in SUBSET SUBSET S
    OBVIOUS
  <2> HIDE DEF wrong
  <2> QED  BY <1>1, <2>1, SmallestSubset
<1>3. IsFiniteSet(s)
  BY <1>2, FS_Subset
<1>4. SumOver(f, s) = IF s = {} THEN 0 ELSE f[Pick(s)] + SumOver(f, s \ {Pick(s)})
  BY <1>3, SumOfPicked
<1>5. s # {}
  BY <1>2, <1>4
<1>6. Pick(s) \in s
  BY <1>5, PickIsIn
<1>7. f[Pick(s)] = 0 /\ SumOver(f, s \ {Pick(s)}) = 0
  BY <1>2, <1>6
<1> QED  BY <1>2, <1>4, <1>5, <1>7

-----------------------------------------------------------------------------
\* Least elements.

\* A finite set that is not empty has an element with the least measure.
LEMMA LeastElement ==
  ASSUME NEW S, IsFiniteSet(S), S # {}, NEW k, \A x \in S : k[x] \in Int
  PROVE  \E x \in S : \A y \in S : k[x] <= k[y]
<1> DEFINE least(s, x) == \A y \in s : k[x] <= k[y]
           wrong == {s \in SUBSET S : s # {} /\ ~ \E x \in s : least(s, x)}
<1>1. SUFFICES ASSUME wrong # {} PROVE FALSE
  <2>1. S \in SUBSET S
    OBVIOUS
  <2> QED  BY <2>1
<1>2. PICK s \in wrong : \A t \in wrong : t \subseteq s => t = s
  <2>1. wrong \in SUBSET SUBSET S
    OBVIOUS
  <2> HIDE DEF wrong
  <2> QED  BY <1>1, <2>1, SmallestSubset
<1>3. PICK e \in s : TRUE
  BY <1>2
<1>4. s \ {e} # {}
  <2>1. SUFFICES ASSUME s = {e} PROVE FALSE
    BY <1>3
  <2>2. least(s, e)
    BY <1>2, <2>1
  <2> QED  BY <1>2, <2>2
<1>5. PICK x \in s \ {e} : least(s \ {e}, x)
  <2>1. s \ {e} \in SUBSET S /\ s \ {e} \notin wrong
    BY <1>2, <1>3
  <2> QED  BY <1>4, <2>1
<1>6. k[x] \in Int /\ k[e] \in Int /\ \A y \in s : k[y] \in Int
  BY <1>2
<1>7. CASE k[x] <= k[e]
  <2>1. least(s, x)
    BY <1>5, <1>7
  <2> QED  BY <1>2, <2>1
<1>8. CASE k[e] <= k[x]
  <2>1. least(s, e)
    <3> SUFFICES ASSUME NEW y \in s PROVE k[e] <= k[y]
      OBVIOUS
    <3>1. CASE y = e
      BY <1>6, <3>1
    <3>2. CASE y # e
      BY <1>5, <1>6, <1>8, <3>2
    <3> QED  BY <3>1, <3>2
  <2> QED  BY <1>2, <2>1
<1> QED  BY <1>6, <1>7, <1>8
-----------------------------------------------------------------------------
\* Images, and the first element of an order.

LEMMA FiniteImage ==
  ASSUME NEW S, IsFiniteSet(S), NEW f
  PROVE  IsFiniteSet({f[x] : x \in S})
<1> DEFINE T == {f[x] : x \in S}
           g == [x \in S |-> f[x]]
<1>1. g \in [S -> T] /\ \A t \in T : \E x \in S : g[x] = t
  OBVIOUS
<1> HIDE DEF T, g
<1>2. g \in Surjection(S, T)
  BY <1>1 DEF Surjection
<1>3. IsFiniteSet(T)
  BY <1>2, FS_Surjection
<1> QED  BY <1>3 DEF T

\* R orders the elements of S, whichever two are compared.
StrictOrder(R, S) ==
  /\ \A x, y \in S : x # y => <<x, y>> \in R \/ <<y, x>> \in R
  /\ \A x, y, z \in S : <<x, y>> \in R /\ <<y, z>> \in R => <<x, z>> \in R

LEMMA FirstOfOrder ==
  ASSUME NEW S, IsFiniteSet(S), S # {}, NEW R, StrictOrder(R, S)
  PROVE  \E x \in S : \A y \in S \ {x} : <<x, y>> \in R
<1> DEFINE first(s, x) == \A y \in s \ {x} : <<x, y>> \in R
           wrong == {s \in SUBSET S : s # {} /\ ~ \E x \in s : first(s, x)}
<1>1. SUFFICES ASSUME wrong # {} PROVE FALSE
  <2>1. S \in SUBSET S
    OBVIOUS
  <2> QED  BY <2>1
<1>2. PICK s \in wrong : \A t \in wrong : t \subseteq s => t = s
  <2>1. wrong \in SUBSET SUBSET S
    OBVIOUS
  <2> HIDE DEF wrong
  <2> QED  BY <1>1, <2>1, SmallestSubset
<1>3. PICK e \in s : TRUE
  BY <1>2
<1>4. s \ {e} # {}
  <2>1. SUFFICES ASSUME s = {e} PROVE FALSE
    BY <1>3
  <2>2. first(s, e)
    BY <2>1
  <2> QED  BY <1>2, <1>3, <2>2
<1>5. PICK x \in s \ {e} : first(s \ {e}, x)
  <2>1. s \ {e} \in SUBSET S /\ s \ {e} \notin wrong
    BY <1>2, <1>3
  <2> QED  BY <1>4, <2>1
<1>6. x \in S /\ e \in S /\ x # e /\ \A y \in s : y \in S
  BY <1>2, <1>3, <1>5
<1>7. CASE <<x, e>> \in R
  <2>1. first(s, x)
    BY <1>5, <1>7
  <2> QED  BY <1>2, <1>5, <2>1
<1>8. CASE <<e, x>> \in R
  <2>1. first(s, e)
    <3> SUFFICES ASSUME NEW y \in s \ {e} PROVE <<e, y>> \in R
      OBVIOUS
    <3>1. CASE y = x
      BY <1>8, <3>1
    <3>2. CASE y # x
      <4>1. <<x, y>> \in R
        BY <1>5, <3>2
      <4> QED  BY <1>6, <1>8, <4>1 DEF StrictOrder
    <3> QED  BY <3>1, <3>2
  <2> QED  BY <1>2, <1>3, <2>1
<1> QED  BY <1>6, <1>7, <1>8 DEF StrictOrder
=============================================================================
