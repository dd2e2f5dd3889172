-------------------------- MODULE IdentityFeeProofs --------------------------
(***************************************************************************)
(* What was signed for an agent stays within the lowest ceiling its job    *)
(* was approved with.  The envelope is fixed when the job registers, and a *)
(* process that lowers the ceiling beside another has read that envelope.  *)
(***************************************************************************)
EXTENDS IdentityMinterProofs, FiniteSetTheorems

-----------------------------------------------------------------------------
(* Sums over finite sets.                                                  *)

\* A family of subsets of a finite set that holds every subset whose strict subsets it
\* holds is the family of all of them.
LEMMA StrongSubsetInduction ==
  ASSUME NEW S, IsFiniteSet(S), NEW T \in SUBSET SUBSET S,
         \A s \in SUBSET S : (\A r \in (SUBSET s) \ {s} : r \in T) => s \in T
  PROVE  T = SUBSET S
<1> SUFFICES ASSUME T # SUBSET S PROVE FALSE
  OBVIOUS
<1> DEFINE C == (SUBSET S) \ T
<1>1. C # {} /\ C \subseteq SUBSET S
  OBVIOUS
<1>2. IsWellFoundedOn(StrictSubsetOrdering(S), SUBSET S)
  <2>1. FiniteSubsetsOf(S) = SUBSET S
    BY FS_FiniteSubsetsOfFinite, Zenon
  <2>2. IsWellFoundedOn(StrictSubsetOrdering(S), FiniteSubsetsOf(S))
    BY FS_StrictSubsetOrderingWellFounded, Zenon
  <2> QED
    BY <2>1, <2>2, Zenon
<1>3. PICK c \in C : \A d \in C : <<d, c>> \notin StrictSubsetOrdering(S)
  <2> HIDE DEF C
  <2> QED
    BY <1>1, <1>2, WFMin
<1>4. ASSUME NEW r \in (SUBSET c) \ {c} PROVE r \in T
  <2>1. <<r, c>> \in (SUBSET S) \X (SUBSET S) /\ r \subseteq c /\ r # c
    OBVIOUS
  <2>2. <<r, c>> \in StrictSubsetOrdering(S)
    BY <2>1, Zenon DEF StrictSubsetOrdering
  <2> QED
    BY <1>3, <2>2
<1> QED
  BY <1>4

\* And one that holds the empty set and, with a member, that member and any element more.
LEMMA SubsetInduction ==
  ASSUME NEW S, IsFiniteSet(S), NEW T \in SUBSET SUBSET S, {} \in T,
         \A s \in T : \A x \in S \ s : s \cup {x} \in T
  PROVE  T = SUBSET S
<1>1. ASSUME NEW s \in SUBSET S, \A r \in (SUBSET s) \ {s} : r \in T PROVE s \in T
  <2>1. CASE s = {}
    BY <2>1
  <2>2. CASE s # {}
    <3>1. PICK x \in s : TRUE
      BY <2>2
    <3>2. s \ {x} \in T
      BY <1>1
    <3> QED
      BY <3>2
  <2> QED
    BY <2>1, <2>2
<1> QED
  BY <1>1, StrongSubsetInduction

\* g gives the sum of c over every subset of S, whatever element is taken out first.
Sums(g, c, S) ==
  /\ g \in [SUBSET S -> Nat] /\ g[{}] = 0
  /\ \A s \in SUBSET S : \A x \in s : g[s] = c[x] + g[s \ {x}]

\* Such a g of a set gives one of the set with an element more.
LEMMA SumsExtend ==
  ASSUME NEW S, NEW c, NEW x, x \notin S, c[x] \in Nat, NEW g, Sums(g, c, S),
         \A y \in S : c[y] \in Nat
  PROVE  \E h : Sums(h, c, S \cup {x})
<1> DEFINE R == S \cup {x}
           h == [s \in SUBSET R |-> IF x \in s THEN c[x] + g[s \ {x}] ELSE g[s]]
<1>1. h \in [SUBSET R -> Nat] /\ h[{}] = 0
  BY DEF Sums
<1>2. ASSUME NEW s \in SUBSET R, NEW y \in s PROVE h[s] = c[y] + h[s \ {y}]
  <2>1. CASE y = x
    <3>1. s \ {x} \in SUBSET S /\ x \notin s \ {x} /\ s \ {x} \in SUBSET R
      OBVIOUS
    <3> QED
      BY <2>1, <3>1
  <2>2. CASE y # x /\ x \notin s
    <3>1. s \in SUBSET S /\ s \ {y} \in SUBSET S /\ s \ {y} \in SUBSET R
      BY <2>2
    <3>2. h[s] = g[s] /\ h[s \ {y}] = g[s \ {y}]
      BY <2>2, <3>1
    <3> QED
      BY <3>1, <3>2 DEF Sums
  <2>3. CASE y # x /\ x \in s
    <3> DEFINE u == s \ {x}
    <3>1. u \in SUBSET S /\ y \in u /\ u \ {y} \in SUBSET S /\ y \in S
      BY <2>3
    <3>2. g[u] = c[y] + g[u \ {y}] /\ g[u \ {y}] \in Nat
      BY <3>1 DEF Sums
    <3>3. (s \ {y}) \ {x} = u \ {y} /\ x \in s \ {y} /\ s \ {y} \in SUBSET R
      BY <2>3
    <3>4. h[s] = c[x] + g[u] /\ h[s \ {y}] = c[x] + g[u \ {y}]
      BY <2>3, <3>3
    <3>5. c[x] \in Nat /\ c[y] \in Nat
      BY <3>1
    <3> HIDE DEF h, u
    <3> QED
      BY <3>2, <3>4, <3>5
  <2> QED
    BY <2>1, <2>2, <2>3
<1> HIDE DEF h
<1>3. Sums(h, c, R)
  BY <1>1, <1>2 DEF Sums
<1> QED
  BY <1>3

\* Every finite set has one.
LEMMA SumsExist ==
  ASSUME NEW S, IsFiniteSet(S), NEW c, \A y \in S : c[y] \in Nat
  PROVE  \E g : Sums(g, c, S)
<1> DEFINE T == {s \in SUBSET S : \E g : Sums(g, c, s)}
<1>1. {} \in T
  <2> DEFINE g == [s \in SUBSET {} |-> 0]
  <2>1. Sums(g, c, {})
    BY DEF Sums
  <2> HIDE DEF g
  <2> QED
    BY <2>1
<1>2. ASSUME NEW s \in T, NEW x \in S \ s PROVE s \cup {x} \in T
  <2>1. PICK g : Sums(g, c, s)
    OBVIOUS
  <2>2. s \in SUBSET S /\ s \cup {x} \in SUBSET S
    OBVIOUS
  <2>3. \E h : Sums(h, c, s \cup {x})
    BY <2>1, <2>2, SumsExtend
  <2> QED
    BY <2>2, <2>3
<1>3. T \in SUBSET SUBSET S
  OBVIOUS
<1> HIDE DEF T
<1>4. T = SUBSET S
  BY <1>1, <1>2, <1>3, SubsetInduction
<1> QED
  BY <1>4 DEF T

\* And two of them agree on what both are about.
LEMMA SumsAgree ==
  ASSUME NEW S, NEW R, NEW s \in SUBSET S, s \in SUBSET R, IsFiniteSet(s), NEW c, NEW d,
         \A y \in s : c[y] = d[y], NEW g, NEW h, Sums(g, c, S), Sums(h, d, R)
  PROVE  g[s] = h[s]
<1> DEFINE T == {u \in SUBSET s : g[u] = h[u]}
<1>1. {} \in T
  BY DEF Sums
<1>2. ASSUME NEW u \in T, NEW x \in s \ u PROVE u \cup {x} \in T
  <2>1. (u \cup {x}) \ {x} = u /\ u \cup {x} \in SUBSET S /\ u \cup {x} \in SUBSET R /\ x \in u \cup {x}
    OBVIOUS
  <2>2. g[u \cup {x}] = c[x] + g[u] /\ h[u \cup {x}] = d[x] + h[u]
    BY <2>1 DEF Sums
  <2> QED
    BY <2>2
<1>3. T \in SUBSET SUBSET s
  OBVIOUS
<1> HIDE DEF T
<1>4. T = SUBSET s
  BY <1>1, <1>2, <1>3, SubsetInduction
<1> QED
  BY <1>4 DEF T

\* The sum of c over S.
Total(c, S) == (CHOOSE g : Sums(g, c, S))[S]

\* It is what any of them says, on S or on a larger set.
LEMMA TotalIs ==
  ASSUME NEW S, IsFiniteSet(S), NEW c, NEW R, S \in SUBSET R, NEW d, \A y \in S : c[y] = d[y],
         NEW g, Sums(g, d, R), \A y \in S : c[y] \in Nat
  PROVE  Total(c, S) = g[S]
<1> DEFINE h == CHOOSE h : Sums(h, c, S)
<1>1. \E h1 : Sums(h1, c, S)
  BY SumsExist
<1>2. Sums(h, c, S)
  BY <1>1, Zenon
<1> HIDE DEF h
<1>3. h[S] = g[S]
  BY <1>2, SumsAgree
<1> QED
  BY <1>3, Zenon DEF Total, h

\* One element more.
LEMMA TotalAdds ==
  ASSUME NEW S, IsFiniteSet(S), NEW c, \A y \in S : c[y] \in Nat, NEW x, x \notin S, c[x] \in Nat
  PROVE  Total(c, S \cup {x}) = c[x] + Total(c, S)
<1> DEFINE R == S \cup {x}
<1>1. IsFiniteSet(R)
  BY FS_AddElement
<1>2. PICK g : Sums(g, c, R)
  BY <1>1, SumsExist
<1>3. Total(c, R) = g[R] /\ Total(c, S) = g[S]
  BY <1>1, <1>2, TotalIs
<1>4. R \ {x} = S
  OBVIOUS
<1> QED
  BY <1>2, <1>3, <1>4 DEF Sums

\* A sum of natural numbers is one.
LEMMA TotalNat ==
  ASSUME NEW S, IsFiniteSet(S), NEW c, \A y \in S : c[y] \in Nat
  PROVE  Total(c, S) \in Nat
<1>1. PICK g : Sums(g, c, S)
  BY SumsExist
<1>2. Total(c, S) = g[S]
  BY <1>1, TotalIs
<1> QED
  BY <1>1, <1>2 DEF Sums

\* Nothing adds up to zero.
LEMMA TotalEmpty ==
  ASSUME NEW c
  PROVE  Total(c, {}) = 0
<1>1. IsFiniteSet({}) /\ \A y \in {} : c[y] \in Nat
  BY FS_EmptySet
<1>2. PICK g : Sums(g, c, {})
  BY <1>1, SumsExist
<1>3. Total(c, {}) = g[{}]
  BY <1>1, <1>2, TotalIs
<1> QED
  BY <1>2, <1>3 DEF Sums

\* The sum depends on the values over the set alone.
LEMMA TotalSame ==
  ASSUME NEW S, IsFiniteSet(S), NEW c, NEW d, \A y \in S : c[y] = d[y] /\ d[y] \in Nat
  PROVE  Total(c, S) = Total(d, S)
<1>1. PICK g : Sums(g, d, S)
  BY SumsExist
<1>2. Total(d, S) = g[S]
  BY <1>1, TotalIs
<1>3. Total(c, S) = g[S]
  BY <1>1, TotalIs
<1> QED
  BY <1>2, <1>3

\* Two sets with nothing in common.
LEMMA TotalUnion ==
  ASSUME NEW S, IsFiniteSet(S), NEW R, IsFiniteSet(R), S \cap R = {},
         NEW c, \A y \in S \cup R : c[y] \in Nat
  PROVE  Total(c, S \cup R) = Total(c, S) + Total(c, R)
<1> DEFINE T == {u \in SUBSET R : Total(c, S \cup u) = Total(c, S) + Total(c, u)}
<1>1. {} \in T
  <2>1. Total(c, S) \in Nat /\ Total(c, {}) = 0 /\ S \cup {} = S
    BY TotalNat, TotalEmpty
  <2> QED
    BY <2>1
<1>2. ASSUME NEW u \in T, NEW x \in R \ u PROVE u \cup {x} \in T
  <2>1. u \in SUBSET R /\ Total(c, S \cup u) = Total(c, S) + Total(c, u) /\ u \cup {x} \in SUBSET R
    OBVIOUS
  <2> HIDE DEF T
  <2>2. IsFiniteSet(u) /\ IsFiniteSet(S \cup u)
    BY <2>1, FS_Subset, FS_Union
  <2>3. x \notin S \cup u /\ S \cup (u \cup {x}) = (S \cup u) \cup {x} /\ c[x] \in Nat
    BY <1>2
  <2>4. (\A y \in u : c[y] \in Nat) /\ (\A y \in S \cup u : c[y] \in Nat)
    BY <2>1
  <2>5. Total(c, (S \cup u) \cup {x}) = c[x] + Total(c, S \cup u)
    BY <2>2, <2>3, <2>4, TotalAdds
  <2>6. Total(c, u \cup {x}) = c[x] + Total(c, u)
    BY <1>2, <2>2, <2>3, <2>4, TotalAdds
  <2>7. Total(c, S) \in Nat /\ Total(c, u) \in Nat
    BY <2>2, <2>4, TotalNat
  <2>8. Total(c, S \cup (u \cup {x})) = c[x] + Total(c, S \cup u)
    BY <2>3, <2>5, Zenon
  <2>9. Total(c, S \cup (u \cup {x})) = Total(c, S) + Total(c, u \cup {x})
    <3> DEFINE all == Total(c, S \cup (u \cup {x}))
               more == Total(c, u \cup {x})
               both == Total(c, S \cup u)
               tS == Total(c, S)
               tu == Total(c, u)
    <3>1. all = c[x] + both /\ both = tS + tu /\ more = c[x] + tu /\ tS \in Nat /\ tu \in Nat /\ c[x] \in Nat
      BY <2>1, <2>3, <2>6, <2>7, <2>8, Zenon
    <3> HIDE DEF all, more, both, tS, tu
    <3>2. all = tS + more
      BY <3>1
    <3> QED
      BY <3>2 DEF all, more, tS
  <2> QED
    BY <2>1, <2>9 DEF T
<1>3. T \in SUBSET SUBSET R
  OBVIOUS
<1> HIDE DEF T
<1>4. T = SUBSET R
  BY <1>1, <1>2, <1>3, SubsetInduction
<1> QED
  BY <1>4 DEF T

\* A part is not more than the whole.
LEMMA TotalPart ==
  ASSUME NEW S, IsFiniteSet(S), NEW R \in SUBSET S, NEW c, \A y \in S : c[y] \in Nat
  PROVE  Total(c, R) <= Total(c, S)
<1>1. IsFiniteSet(R) /\ IsFiniteSet(S \ R) /\ R \cap (S \ R) = {} /\ R \cup (S \ R) = S
  BY FS_Subset
<1>2. Total(c, S) = Total(c, R) + Total(c, S \ R)
  BY <1>1, TotalUnion
<1>3. Total(c, R) \in Nat /\ Total(c, S \ R) \in Nat
  BY <1>1, TotalNat
<1> QED
  BY <1>2, <1>3

\* What is spent by owner stays within what the owners hold, owner by owner and so together.
LEMMA TotalCovered ==
  ASSUME NEW I, IsFiniteSet(I), NEW H, IsFiniteSet(H), NEW owner, \A i \in I : owner[i] \in H,
         NEW cost, \A i \in I : cost[i] \in Nat, NEW env, \A a \in H : env[a] \in Nat,
         \A a \in H : Total(cost, {i \in I : owner[i] = a}) <= env[a]
  PROVE  Total(cost, I) <= Total(env, H)
<1> DEFINE Of(G) == {i \in I : owner[i] \in G}
           T == {G \in SUBSET H : Total(cost, Of(G)) <= Total(env, G)}
<1>1. {} \in T
  <2>1. Of({}) = {} /\ Total(cost, {}) = 0 /\ Total(env, {}) = 0
    BY TotalEmpty
  <2> QED
    BY <2>1
<1>2. ASSUME NEW G \in T, NEW a \in H \ G PROVE G \cup {a} \in T
  <2> DEFINE Own == {i \in I : owner[i] = a}
  <2>1. G \in SUBSET H /\ Total(cost, Of(G)) <= Total(env, G) /\ G \cup {a} \in SUBSET H /\ env[a] \in Nat
    OBVIOUS
  <2>2. Of(G) \cap Own = {} /\ Of(G \cup {a}) = Of(G) \cup Own
    BY <1>2
  <2>3. Of(G) \subseteq I /\ Own \subseteq I
    OBVIOUS
  <2>4. Total(cost, Own) <= env[a]
    OBVIOUS
  <2> HIDE DEF Of, T, Own
  <2>5. IsFiniteSet(Of(G)) /\ IsFiniteSet(Own) /\ IsFiniteSet(G)
    BY <2>1, <2>3, FS_Subset
  <2>6. (\A i \in Of(G) : cost[i] \in Nat) /\ (\A i \in Own : cost[i] \in Nat)
        /\ (\A i \in Of(G) \cup Own : cost[i] \in Nat) /\ (\A b \in G : env[b] \in Nat)
    BY <2>1, <2>3
  <2>7. Total(cost, Of(G) \cup Own) = Total(cost, Of(G)) + Total(cost, Own)
    BY <2>2, <2>5, <2>6, TotalUnion
  <2>8. Total(env, G \cup {a}) = env[a] + Total(env, G)
    BY <1>2, <2>1, <2>5, <2>6, TotalAdds
  <2>9. Total(cost, Of(G)) \in Nat /\ Total(cost, Own) \in Nat /\ Total(env, G) \in Nat
    BY <2>5, <2>6, TotalNat
  <2>10. Total(cost, Of(G \cup {a})) <= Total(env, G \cup {a})
    <3> DEFINE spent == Total(cost, Of(G \cup {a}))
               before == Total(cost, Of(G))
               own == Total(cost, Own)
               held == Total(env, G)
               all == Total(env, G \cup {a})
    <3>1. spent = before + own /\ before <= held /\ own <= env[a] /\ all = env[a] + held
          /\ before \in Nat /\ own \in Nat /\ held \in Nat /\ env[a] \in Nat
      BY <2>1, <2>2, <2>4, <2>7, <2>8, <2>9, Zenon
    <3> HIDE DEF spent, before, own, held, all
    <3>2. spent <= all
      BY <3>1
    <3> QED
      BY <3>2 DEF spent, all
  <2> QED
    BY <2>1, <2>10 DEF T
<1>3. T \in SUBSET SUBSET H
  OBVIOUS
<1>4. Of(H) = I
  OBVIOUS
<1> HIDE DEF T
<1>5. T = SUBSET H
  BY <1>1, <1>2, <1>3, SubsetInduction
<1> QED
  BY <1>4, <1>5 DEF T

\* The fold of the library, whichever element it takes out first.
Chosen(s) == CHOOSE e \in s : TRUE
Fold(f, c, S) == f = [s \in SUBSET S |-> IF s = {} THEN 0 ELSE c[Chosen(s)] + f[s \ {Chosen(s)}]]

\* There the fold ends at the sum.
LEMMA FoldIsTotal ==
  ASSUME NEW S, IsFiniteSet(S), NEW c, \A y \in S : c[y] \in Nat, NEW f, Fold(f, c, S)
  PROVE  f[S] = Total(c, S)
<1>1. PICK g : Sums(g, c, S)
  BY SumsExist
<1> DEFINE T == {u \in SUBSET S : f[u] = g[u]}
<1>2. ASSUME NEW u \in SUBSET S, \A v \in (SUBSET u) \ {u} : v \in T PROVE u \in T
  <2>1. CASE u = {}
    <3>1. f[{}] = 0
      BY DEF Fold
    <3> QED
      BY <1>1, <2>1, <3>1 DEF Sums
  <2>2. CASE u # {}
    <3> DEFINE e == Chosen(u)
    <3>1. e \in u
      BY <2>2 DEF Chosen
    <3> HIDE DEF e
    <3>2. u \ {e} \in T
      BY <1>2, <3>1
    <3>3. g[u] = c[e] + g[u \ {e}]
      BY <1>1, <3>1 DEF Sums
    <3>4. f[u] = c[e] + f[u \ {e}]
      BY <2>2 DEF Fold, e
    <3> QED
      BY <3>2, <3>3, <3>4
  <2> QED
    BY <2>1, <2>2
<1>3. T \in SUBSET SUBSET S
  OBVIOUS
<1> HIDE DEF T
<1>4. T = SUBSET S
  BY <1>2, <1>3, StrongSubsetInduction
<1>5. f[S] = g[S]
  BY <1>4 DEF T
<1>6. Total(c, S) = g[S]
  BY <1>1, TotalIs
<1> QED
  BY <1>5, <1>6

\* The sum of what the rows of a table cost is the total of their costs.
CostOf(t, S) == MapThenSumSet(LAMBDA k : t[k].cost, S)

\* A finite set has its fold.
LEMMA FoldExists ==
  ASSUME NEW S, IsFiniteSet(S), NEW c, \A y \in S : c[y] \in Nat
  PROVE  \E f : Fold(f, c, S)
<1>1. PICK g : Sums(g, c, S)
  BY SumsExist
<1>2. \A s \in SUBSET S : s # {} => Chosen(s) \in s
  BY DEF Chosen
<1>3. \A s \in SUBSET S : g[s] = IF s = {} THEN 0 ELSE c[Chosen(s)] + g[s \ {Chosen(s)}]
  BY <1>1, <1>2 DEF Sums
<1>4. Fold(g, c, S)
  BY <1>1, <1>3 DEF Fold, Sums
<1> QED
  BY <1>4

\* So the library's sum of the rows is the total of their costs.
LEMMA CostOfIsTotal ==
  ASSUME NEW S, IsFiniteSet(S), NEW t, \A k \in S : t[k].cost \in Nat
  PROVE  CostOf(t, S) = Total([k \in S |-> t[k].cost], S)
<1> DEFINE c == [k \in S |-> t[k].cost]
           P(f) == f = [s \in SUBSET S |-> IF s = {} THEN 0 ELSE t[Chosen(s)].cost + f[s \ {Chosen(s)}]]
           f == CHOOSE h : P(h)
<1>1. CostOf(t, S) = f[S]
  BY Zenon DEF CostOf, MapThenSumSet, MapThenFoldSet, Chosen
<1>2. ASSUME NEW h PROVE P(h) <=> Fold(h, c, S)
  <2>1. \A s \in SUBSET S : s # {} => Chosen(s) \in S
    BY DEF Chosen
  <2>2. \A s \in SUBSET S : s # {} => c[Chosen(s)] = t[Chosen(s)].cost
    BY <2>1
  <2> HIDE DEF c
  <2> QED
    BY <2>2 DEF Fold
<1>3. \E h : Fold(h, c, S)
  BY FoldExists
<1> HIDE DEF P, c
<1>4. P(f)
  BY <1>2, <1>3, Zenon
<1> HIDE DEF f
<1>5. Fold(f, c, S) /\ \A k \in S : c[k] \in Nat
  BY <1>2, <1>4 DEF c
<1>6. f[S] = Total(c, S)
  BY <1>5, FoldIsTotal
<1> QED
  BY <1>1, <1>6 DEF c

\* A set of at most two elements.
LEMMA TotalOfTwo ==
  ASSUME NEW x, NEW y, x # y, NEW S \in SUBSET {x, y}, NEW c, \A k \in S : c[k] \in Nat
  PROVE  IsFiniteSet(S) /\ Total(c, S) = (IF x \in S THEN c[x] ELSE 0) + (IF y \in S THEN c[y] ELSE 0)
<1>1. IsFiniteSet({}) /\ IsFiniteSet({x}) /\ IsFiniteSet({y}) /\ IsFiniteSet({x, y})
  <2>1. IsFiniteSet({}) /\ IsFiniteSet({x}) /\ IsFiniteSet({y})
    BY FS_EmptySet, FS_Singleton
  <2>2. IsFiniteSet({x} \cup {y}) /\ {x} \cup {y} = {x, y}
    BY <2>1, FS_Union
  <2> QED
    BY <2>1, <2>2
<1>2. IsFiniteSet(S)
  BY <1>1, FS_Subset
<1>3. ASSUME NEW e \in S PROVE Total(c, {e}) = c[e]
  <2>1. Total(c, {} \cup {e}) = c[e] + Total(c, {})
    BY <1>1, TotalAdds
  <2>2. {} \cup {e} = {e} /\ Total(c, {}) = 0
    BY TotalEmpty
  <2> QED
    BY <2>1, <2>2
<1>4. CASE S = {}
  BY <1>2, <1>4, TotalEmpty
<1>5. CASE S = {x}
  BY <1>2, <1>3, <1>5
<1>6. CASE S = {y}
  BY <1>2, <1>3, <1>6
<1>7. CASE S = {x, y}
  <2>1. x \notin {y} /\ {y} \cup {x} = S
    BY <1>7
  <2>2. Total(c, {y} \cup {x}) = c[x] + Total(c, {y})
    BY <1>1, <1>7, <2>1, TotalAdds
  <2> QED
    BY <1>2, <1>3, <1>7, <2>1, <2>2
<1> QED
  BY <1>4, <1>5, <1>6, <1>7

-----------------------------------------------------------------------------
(* The invariant.                                                          *)

Reg(a) == <<a, "register">>
Upd(a) == <<a, "update">>

\* The envelope covers what is signed, and the ceiling covers the envelope.
JobFees(a) ==
  /\ jobs[a].reg => Reg(a) \in Recorded
  /\ jobs[a].env # 0 <=> Reg(a) \in Recorded
  /\ Reg(a) \in Recorded => txs[Reg(a)].cost <= jobs[a].env
  /\ Upd(a) \in Recorded => Reg(a) \in Recorded /\ txs[Reg(a)].cost + txs[Upd(a)].cost <= jobs[a].env
  /\ jobs[a].env <= jobs[a].ceiling
FeesInv == \A a \in Enrolled : JobFees(a)

\* A copy of a job may be old, but its envelope is the job's once it has one.
CopyFees(p) == task[p].job # None =>
  /\ task[p].job.reg => Reg(task[p].a) \in Recorded
  /\ task[p].job.env # 0 => task[p].job.env = jobs[task[p].a].env
  /\ task[p].at = "shrink" => task[p].job.env # 0 /\ task[p].job.env <= Effective(p, task[p].job)
CopiesInv == \A p \in Procs : CopyFees(p)
-----------------------------------------------------------------------------
(* What stays.                                                             *)

USE MinterAssumption, NullAssumption

Others(p) == \A q \in Procs \ {p} : task'[q] = task[q]

\* A process goes on with the copy it had, or gives it up.
Stays(p) == task'[p].job = task[p].job /\ task'[p].a = task[p].a /\ task'[p].at # "shrink"
Drops(p) == task'[p].job = None

\* An envelope that was fixed is not changed any more.
EnvKept == \A a \in Enrolled : jobs[a].env # 0 => jobs'[a].env = jobs[a].env

\* The amounts of a job, and whether it registered.
Money(j) == <<j.env, j.ceiling, j.reg>>
MoneyKept == \A a \in Enrolled : Money(jobs'[a]) = Money(jobs[a])

LEMMA FeesKeep ==
  ASSUME MinterInv, FeesInv, RowsKept, Recorded' = Recorded, MoneyKept,
         \A a \in Enrolled' \ Enrolled : jobs'[a] = NewJob
  PROVE  FeesInv'
<1> SUFFICES ASSUME NEW a \in Enrolled' PROVE JobFees(a)'
  BY DEF FeesInv
<1>1. /\ Reg(a) \in Recorded => txs'[Reg(a)].cost = txs[Reg(a)].cost
      /\ Upd(a) \in Recorded => txs'[Upd(a)].cost = txs[Upd(a)].cost
  BY DEF RowsKept, Tx
<1>2. CASE a \in Enrolled
  <2>1. JobFees(a) /\ jobs'[a].env = jobs[a].env /\ jobs'[a].ceiling = jobs[a].ceiling /\ jobs'[a].reg = jobs[a].reg
    BY <1>2 DEF FeesInv, MoneyKept, Money
  <2> QED
    BY <1>1, <2>1 DEF JobFees, Reg, Upd
<1>3. CASE a \notin Enrolled
  <2>1. jobs'[a].env = 0 /\ jobs'[a].ceiling = 0 /\ jobs'[a].reg = FALSE
    BY <1>3 DEF NewJob
  <2>2. jobs[a] = None /\ a \in Agents
    BY <1>3 DEF Enrolled
  <2>3. Reg(a) \notin Recorded /\ Upd(a) \notin Recorded
    BY <2>2 DEF MinterInv, LedgerInv, Reg, Upd
  <2> QED
    BY <2>1, <2>3 DEF JobFees, Reg, Upd
<1> QED
  BY <1>2, <1>3

LEMMA CopiesKeep ==
  ASSUME MinterInv, CopiesInv, RowsKept, EnvKept, NEW p \in Procs, Others(p), CopyFees(p)'
  PROVE  CopiesInv'
<1> SUFFICES ASSUME NEW q \in Procs, q # p PROVE CopyFees(q)'
  BY DEF CopiesInv
<1>1. CopyFees(q) /\ task'[q] = task[q] /\ (task[q].job # None => task[q].a \in Enrolled)
  BY DEF CopiesInv, Others, MinterInv, TasksInv, TaskFacts
<1>2. task[q].job # None /\ task[q].job.reg => Reg(task[q].a) \in Recorded'
  BY <1>1 DEF CopyFees, RowsKept
<1>3. task[q].job # None /\ task[q].job.env # 0 => task[q].job.env = jobs'[task[q].a].env
  BY <1>1 DEF CopyFees, EnvKept
<1> QED
  BY <1>1, <1>2, <1>3 DEF CopyFees, Reg, Effective

\* The copy in hand, if there still is one, is as good as before.
LEMMA CopyStays ==
  ASSUME MinterInv, RowsKept, EnvKept, NEW p \in Procs, CopyFees(p), Stays(p) \/ Drops(p)
  PROVE  CopyFees(p)'
<1>1. CASE Drops(p)
  BY <1>1 DEF Drops, CopyFees
<1>2. CASE Stays(p)
  <2>1. task[p].job # None => task[p].a \in Enrolled
    BY DEF MinterInv, TasksInv, TaskFacts
  <2>2. task[p].job # None /\ task[p].job.reg => Reg(task[p].a) \in Recorded'
    BY DEF CopyFees, RowsKept
  <2>3. task[p].job # None /\ task[p].job.env # 0 => task[p].job.env = jobs'[task[p].a].env
    BY <2>1 DEF CopyFees, EnvKept
  <2> QED
    BY <1>2, <2>2, <2>3 DEF CopyFees, Stays, Reg
<1> QED
  BY <1>1, <1>2

LEMMA MoneyEnv ==
  ASSUME MoneyKept
  PROVE  EnvKept
BY DEF MoneyKept, Money, EnvKept

\* A step that leaves the jobs alone, a row's outcome apart, and a process that goes on.
LEMMA QuietStep ==
  ASSUME MinterInv, FeesInv, CopiesInv, RowsKept, Recorded' = Recorded, UNCHANGED jobs,
         NEW p \in Procs, Others(p), Stays(p) \/ Drops(p)
  PROVE  FeesInv' /\ CopiesInv'
<1>1. MoneyKept /\ EnvKept /\ Enrolled' = Enrolled
  BY DEF MoneyKept, EnvKept, Enrolled
<1> QED
  BY <1>1, FeesKeep, CopyStays, CopiesKeep DEF CopiesInv

\* Steps outside the processes.
LEMMA StillStep ==
  ASSUME MinterInv, FeesInv, CopiesInv, UNCHANGED <<jobs, txs, task>>
  PROVE  FeesInv' /\ CopiesInv'
<1>1. RowsKept /\ Recorded' = Recorded
  BY RowsSame DEF MinterInv
<1>2. MoneyKept /\ EnvKept /\ Enrolled' = Enrolled
  BY DEF MoneyKept, EnvKept, Enrolled
<1>3. FeesInv'
  BY <1>1, <1>2, FeesKeep
<1>4. CopiesInv'
  BY <1>1 DEF CopiesInv, CopyFees, Effective
<1> QED
  BY <1>3, <1>4

LEMMA Sets ==
  ASSUME TypeOK, NEW p \in Procs, NEW r, task' = [task EXCEPT ![p] = r]
  PROVE  Others(p) /\ task'[p] = r
BY DEF TypeOK, Others

LEMMA GivesUp ==
  ASSUME TypeOK, NEW p \in Procs,
         \/ \E pc : task' = [task EXCEPT ![p] = At(pc)]
         \/ \E code : Fail(p, code)
         \/ Look(p) \/ End(p)
  PROVE  Others(p) /\ Drops(p)
<1>1. ASSUME NEW pc, task' = [task EXCEPT ![p] = At(pc)] PROVE Others(p) /\ Drops(p)
  <2>1. At(pc).job = None
    BY DEF At
  <2>2. Others(p) /\ task'[p] = At(pc)
    BY <1>1, Sets
  <2> QED
    BY <2>1, <2>2 DEF Drops
<1>2. ASSUME NEW code, Fail(p, code) PROVE Others(p) /\ Drops(p)
  <2> DEFINE r == [At("block") EXCEPT !.a = task[p].a, !.code = code]
  <2>1. r.job = None /\ task' = [task EXCEPT ![p] = r]
    BY <1>2 DEF Fail, At
  <2> HIDE DEF r
  <2> QED
    BY <2>1, Sets DEF Drops
<1>3. CASE Look(p)
  <2> DEFINE r == [At("reread") EXCEPT !.a = task[p].a, !.over = task[p].over]
  <2>1. r.job = None /\ task' = [task EXCEPT ![p] = r]
    BY <1>3 DEF Look, At
  <2> HIDE DEF r
  <2> QED
    BY <2>1, Sets DEF Drops
<1> QED
  BY <1>1, <1>2, <1>3 DEF End

LEMMA GoesOn ==
  ASSUME TypeOK, NEW p \in Procs, NEW pc \in Places \ {"shrink"}, Goto(p, pc)
  PROVE  Others(p) /\ Stays(p)
<1>1. task[p] \in TaskType /\ Only(p) /\ task'[p] = [task[p] EXCEPT !.at = pc]
  BY GotoMoves DEF TypeOK
<1> QED
  BY <1>1 DEF TaskType, Others, Only, Stays

-----------------------------------------------------------------------------
(* One lemma per kind of step.                                             *)

FeeInv == MinterInv /\ FeesInv /\ CopiesInv

LEMMA GivingUpFees ==
  ASSUME FeeInv, NEW p \in Procs,
         Acquire(p) \/ LoopOrExit(p) \/ LockLost(p) \/ Crash(p) \/ Unavailable(p) \/ Project(p) \/ Broadcast(p)
  PROVE  FeesInv' /\ CopiesInv'
<1>1. Others(p) /\ Drops(p)
  BY GivesUp DEF Acquire, LoopOrExit, LockLost, Crash, Unavailable, Project, Broadcast, FeeInv, MinterInv
<1>2. UNCHANGED <<jobs, txs>>
  BY DEF Acquire, LoopOrExit, LockLost, Crash, Unavailable, Project, Broadcast, ledger
<1> QED
  BY <1>1, <1>2, RowsSame, QuietStep DEF FeeInv, MinterInv

LEMMA ReprojectFees ==
  ASSUME FeeInv, NEW p \in Procs, Reproject(p)
  PROVE  FeesInv' /\ CopiesInv'
<1>1. UNCHANGED <<jobs, txs>>
  BY DEF Reproject, ledger
<1>2. CASE UNCHANGED task
  BY <1>1, <1>2, StillStep DEF FeeInv
<1>3. CASE Goto(p, "step")
  <2>1. Others(p) /\ Stays(p)
    BY <1>3, GoesOn DEF FeeInv, MinterInv, Places
  <2> QED
    BY <1>1, <2>1, RowsSame, QuietStep DEF FeeInv, MinterInv
<1> QED
  BY <1>2, <1>3 DEF Reproject

LEMMA QuoteFees ==
  ASSUME FeeInv, NEW p \in Procs, Quote(p)
  PROVE  FeesInv' /\ CopiesInv'
<1>1. UNCHANGED <<jobs, txs>> /\ TypeOK
  BY DEF Quote, ledger, FeeInv, MinterInv
<1>2. CASE \E code : Fail(p, code)
  BY <1>1, <1>2, GivesUp, RowsSame, QuietStep DEF FeeInv
<1>3. ASSUME NEW q, task' = [task EXCEPT ![p].at = "sign", ![p].quote = q]
      PROVE  FeesInv' /\ CopiesInv'
  <2>1. Others(p) /\ Stays(p)
    BY <1>1, <1>3 DEF TypeOK, TaskType, Others, Stays
  <2> QED
    BY <1>1, <2>1, RowsSame, QuietStep DEF FeeInv
<1> QED
  BY <1>2, <1>3 DEF Quote

LEMMA ReceiptFees ==
  ASSUME FeeInv, NEW p \in Procs, Receipt(p) \/ Nonces(p)
  PROVE  FeesInv' /\ CopiesInv'
<1>1. UNCHANGED <<jobs, txs>> /\ TypeOK
  BY DEF Receipt, Nonces, ledger, FeeInv, MinterInv
<1>2. CASE Look(p) \/ \E code : Fail(p, code)
  BY <1>1, <1>2, GivesUp, RowsSame, QuietStep DEF FeeInv
<1>3. CASE Goto(p, "nonces") \/ Goto(p, "broadcast")
  <2>1. Others(p) /\ Stays(p)
    BY <1>1, <1>3, GoesOn DEF Places
  <2> QED
    BY <1>1, <2>1, RowsSame, QuietStep DEF FeeInv
<1>4. ASSUME NEW s, task' = [task EXCEPT ![p].at = "judge", ![p].seen = s]
      PROVE  FeesInv' /\ CopiesInv'
  <2>1. Others(p) /\ Stays(p)
    BY <1>1, <1>4 DEF TypeOK, TaskType, Others, Stays
  <2> QED
    BY <1>1, <2>1, RowsSame, QuietStep DEF FeeInv
<1> QED
  BY <1>2, <1>3, <1>4 DEF Receipt, Nonces

LEMMA JudgeFees ==
  ASSUME FeeInv, NEW p \in Procs, Judge(p)
  PROVE  FeesInv' /\ CopiesInv'
<1>1. UNCHANGED jobs /\ TypeOK /\ task[p].tx.key \in Recorded
  BY DEF Judge, FeeInv, MinterInv, TasksInv, TaskFacts, InHand, Known
<1>2. RowsKept /\ Recorded' = Recorded
  BY <1>1, RowsSame, OutSet DEF Judge, Finalized
<1>3. CASE Look(p) \/ \E code : Fail(p, code)
  BY <1>1, <1>2, <1>3, GivesUp, QuietStep DEF FeeInv
<1>4. CASE Goto(p, "mint") \/ Goto(p, "settle")
  <2>1. Others(p) /\ Stays(p)
    BY <1>1, <1>4, GoesOn DEF Places
  <2> QED
    BY <1>1, <1>2, <2>1, QuietStep DEF FeeInv
<1> QED
  BY <1>3, <1>4 DEF Judge

\* The read after the gateway's work: a fresh copy, or none.
LEMMA RereadFees ==
  ASSUME FeeInv, NEW p \in Procs, Reread(p)
  PROVE  FeesInv' /\ CopiesInv'
<1>1. UNCHANGED <<jobs, txs>> /\ TypeOK /\ task[p].a \in Enrolled
  BY DEF Reread, ledger, FeeInv, MinterInv, TasksInv, TaskFacts
<1>2. CASE Fail(p, "fee_limit")
  BY <1>1, <1>2, GivesUp, RowsSame, QuietStep DEF FeeInv
<1>3. CASE task' = [task EXCEPT ![p] = [At("project") EXCEPT !.a = task[p].a, !.job = jobs[task[p].a]]]
  <2> DEFINE r == [At("project") EXCEPT !.a = task[p].a, !.job = jobs[task[p].a]]
  <2>1. r.at = "project" /\ r.a = task[p].a /\ r.job = jobs[task[p].a]
    BY DEF At
  <2> HIDE DEF r
  <2>2. Others(p) /\ task'[p] = r
    BY <1>1, <1>3, Sets DEF r
  <2>3. RowsKept /\ Recorded' = Recorded /\ MoneyKept /\ EnvKept /\ Enrolled' = Enrolled
    BY <1>1, RowsSame DEF MoneyKept, EnvKept, Enrolled
  <2>4. JobFees(task[p].a)
    BY <1>1 DEF FeeInv, FeesInv
  <2>5. CopyFees(p)'
    BY <1>1, <2>1, <2>2, <2>3, <2>4 DEF CopyFees, JobFees, Reg
  <2> QED
    BY <2>2, <2>3, <2>5, FeesKeep, CopiesKeep DEF FeeInv
<1> QED
  BY <1>2, <1>3 DEF Reread

LEMMA DiscoverFees ==
  ASSUME FeeInv, NEW p \in Procs, Discover(p)
  PROVE  FeesInv' /\ CopiesInv'
<1>1. TypeOK /\ UNCHANGED txs /\ RowsKept /\ Recorded' = Recorded
  BY RowsSame DEF Discover, FeeInv, MinterInv
<1>2. Others(p) /\ Stays(p)
  BY <1>1, GoesOn DEF Discover, Places
<1>3. \A a \in Agents : IF jobs[a] # None THEN jobs'[a] = jobs[a] ELSE jobs'[a] \in {None, NewJob}
  BY DEF Discover
<1>4. MoneyKept /\ \A a \in Enrolled' \ Enrolled : jobs'[a] = NewJob
  BY <1>3 DEF MoneyKept, Enrolled
<1> QED
  BY <1>1, <1>2, <1>4, MoneyEnv, FeesKeep, CopyStays, CopiesKeep DEF FeeInv, CopiesInv

\* One job is written, its amounts apart.
LEMMA OneJobKept ==
  ASSUME TypeOK, NEW a \in Enrolled, NEW j, j # None, Money(j) = Money(jobs[a]), jobs' = [jobs EXCEPT ![a] = j]
  PROVE  MoneyKept /\ EnvKept /\ Enrolled' = Enrolled /\ jobs'[a] = j
<1>1. a \in Agents /\ jobs'[a] = j /\ \A b \in Agents \ {a} : jobs'[b] = jobs[b]
  BY DEF TypeOK, Enrolled
<1>2. MoneyKept /\ Enrolled' = Enrolled
  BY <1>1 DEF MoneyKept, Enrolled
<1> QED
  BY <1>1, <1>2, MoneyEnv

LEMMA BlockFees ==
  ASSUME FeeInv, NEW p \in Procs, Block(p)
  PROVE  FeesInv' /\ CopiesInv'
<1> DEFINE a == task[p].a
           b == [jobs[a] EXCEPT !.status = "blocked", !.error = task[p].code]
           j == IF jobs[a].done = 0 THEN b ELSE jobs[a]
           r == [At("project-blocked") EXCEPT !.a = a, !.job = j]
<1>1. TypeOK /\ UNCHANGED txs /\ RowsKept /\ Recorded' = Recorded /\ a \in Enrolled /\ jobs[a] \in Job
  BY RowsSame DEF Block, FeeInv, MinterInv, TypeOK, TasksInv, TaskFacts, Enrolled
<1>2. task[p].code \in Codes
  BY <1>1 DEF TypeOK, TaskType
<1>3. b \in Job /\ b.env = jobs[a].env /\ b.ceiling = jobs[a].ceiling /\ b.reg = jobs[a].reg
  BY <1>1, <1>2 DEF Job, Statuses
<1>4. j \in Job /\ Money(j) = Money(jobs[a])
  <2> HIDE DEF b
  <2> QED
    BY <1>1, <1>3 DEF Money
<1>5. jobs' = [jobs EXCEPT ![a] = j] /\ task' = [task EXCEPT ![p] = r]
  BY DEF Block
<1>6. r.at = "project-blocked" /\ r.a = a /\ r.job = j
  BY DEF At
<1> HIDE DEF b, j, r, a
<1>7. Others(p) /\ task'[p] = r
  BY <1>1, <1>5, Sets
<1>8. MoneyKept /\ EnvKept /\ Enrolled' = Enrolled /\ jobs'[a] = j
  BY <1>1, <1>4, <1>5, OneJobKept
<1>9. FeesInv'
  BY <1>1, <1>8, FeesKeep DEF FeeInv
<1>10. JobFees(a)
  BY <1>1 DEF FeeInv, FeesInv
<1>11. j.reg => Reg(a) \in Recorded'
  BY <1>1, <1>4, <1>10 DEF JobFees, Money
<1>12. CopyFees(p)'
  BY <1>6, <1>7, <1>8, <1>11 DEF CopyFees, Reg
<1> QED
  BY <1>1, <1>7, <1>8, <1>9, <1>12, CopiesKeep DEF FeeInv

LEMMA MintFees ==
  ASSUME FeeInv, NEW p \in Procs, Mint(p)
  PROVE  FeesInv' /\ CopiesInv'
<1> DEFINE a == task[p].a
           u == Unblocked(jobs[a])
           j == [u EXCEPT !.minted = task[p].seen.entry.id]
<1>1. TypeOK /\ UNCHANGED txs /\ RowsKept /\ Recorded' = Recorded /\ a \in Enrolled /\ jobs[a] \in Job
  BY RowsSame DEF Mint, FeeInv, MinterInv, TypeOK, TasksInv, TaskFacts, OnJob, InHand, Enrolled
<1>2. CASE Fail(p, "other") /\ UNCHANGED jobs
  BY <1>1, <1>2, GivesUp, QuietStep DEF FeeInv
<1>3. CASE jobs' = [jobs EXCEPT ![a] = j] /\ Goto(p, "settle")
  <2>1. Others(p) /\ Stays(p)
    BY <1>1, <1>3, GoesOn DEF Places
  <2>2. u \in Job /\ u.env = jobs[a].env /\ u.ceiling = jobs[a].ceiling /\ u.reg = jobs[a].reg
    BY <1>1 DEF Unblocked, Job, Statuses
  <2>3. task[p].seen.entry.id \in Ids \cup {None}
    BY SeenIsFinal DEF Mint, FeeInv
  <2>4. j \in Job /\ Money(j) = Money(jobs[a]) /\ j # None
    <3> HIDE DEF u
    <3>1. j \in Job /\ j.env = u.env /\ j.ceiling = u.ceiling /\ j.reg = u.reg
      BY <2>2, <2>3 DEF Job
    <3> QED
      BY <2>2, <3>1 DEF Money
  <2> HIDE DEF j, a
  <2>5. MoneyKept /\ EnvKept /\ Enrolled' = Enrolled
    BY <1>1, <1>3, <2>4, OneJobKept
  <2> QED
    BY <1>1, <2>1, <2>5, FeesKeep, CopyStays, CopiesKeep DEF FeeInv, CopiesInv
<1> QED
  BY <1>2, <1>3 DEF Mint

LEMMA SettleFees ==
  ASSUME FeeInv, NEW p \in Procs, Settle(p)
  PROVE  FeesInv' /\ CopiesInv'
<1> DEFINE a == task[p].a
           k == task[p].tx.key
           done == [jobs[a] EXCEPT !.status = "registered", !.error = None, !.done = clock]
           j == IF k[2] = "register" THEN Unblocked(jobs[a]) ELSE done
<1>1. TypeOK /\ a \in Enrolled /\ jobs[a] \in Job /\ clock \in Nat /\ k \in Recorded
  BY SeenIsFinal DEF Settle, FeeInv, MinterInv, TypeOK, Enrolled
<1>2. CASE txs[k].out # "open" /\ Fail(p, "other") /\ UNCHANGED <<jobs, txs>>
  BY <1>1, <1>2, GivesUp, RowsSame, QuietStep DEF FeeInv
<1>3. CASE Finalized(k, "success") /\ jobs' = [jobs EXCEPT ![a] = j] /\ Look(p)
  <2>1. RowsKept /\ Recorded' = Recorded /\ Others(p) /\ Drops(p)
    BY <1>1, <1>3, OutSet, GivesUp DEF Finalized
  <2>2. done \in Job /\ done.env = jobs[a].env /\ done.ceiling = jobs[a].ceiling /\ done.reg = jobs[a].reg
    BY <1>1 DEF Job, Statuses, Codes
  <2>3. Unblocked(jobs[a]) \in Job /\ Money(Unblocked(jobs[a])) = Money(jobs[a])
    BY <1>1 DEF Unblocked, Job, Statuses, Money
  <2>4. j # None /\ Money(j) = Money(jobs[a])
    BY <2>2, <2>3 DEF Money
  <2> HIDE DEF j, a
  <2>5. MoneyKept /\ EnvKept /\ Enrolled' = Enrolled
    BY <1>1, <1>3, <2>4, OneJobKept
  <2> QED
    BY <2>1, <2>5, FeesKeep, CopyStays, CopiesKeep DEF FeeInv, CopiesInv
<1> QED
  BY <1>2, <1>3 DEF Settle

LEMMA ResyncFees ==
  ASSUME FeeInv, Resync
  PROVE  FeesInv' /\ CopiesInv'
<1>1. TypeOK /\ UNCHANGED <<txs, task>> /\ RowsKept /\ Recorded' = Recorded
  BY RowsSame DEF Resync, FeeInv, MinterInv
<1>2. ASSUME NEW a \in Agents
      PROVE  IF jobs[a] = None THEN jobs'[a] = None ELSE jobs'[a] # None /\ Money(jobs'[a]) = Money(jobs[a])
  <2> DEFINE j == [jobs[a] EXCEPT !.status = "pending", !.error = None]
  <2>1. jobs'[a] = IF Cleared(a) THEN j ELSE jobs[a]
    BY DEF Resync
  <2>2. ASSUME jobs[a] # None
        PROVE  j \in Job /\ j.env = jobs[a].env /\ j.ceiling = jobs[a].ceiling /\ j.reg = jobs[a].reg
    <3>1. jobs[a] \in Job
      BY <1>1, <2>2 DEF TypeOK
    <3> QED
      BY <3>1 DEF Job, Statuses, Codes
  <2> HIDE DEF j
  <2> QED
    BY <2>1, <2>2 DEF Cleared, Money
<1>3. MoneyKept /\ Enrolled' = Enrolled
  BY <1>2 DEF MoneyKept, Enrolled
<1>4. FeesInv'
  BY <1>1, <1>3, FeesKeep DEF FeeInv
<1>5. ASSUME NEW p \in Procs PROVE CopyFees(p)'
  <2>1. CopyFees(p) /\ (task[p].job # None => task[p].a \in Enrolled)
    BY DEF FeeInv, CopiesInv, MinterInv, TasksInv, TaskFacts
  <2>2. task[p].job # None => jobs'[task[p].a].env = jobs[task[p].a].env
    BY <1>3, <2>1 DEF MoneyKept, Money
  <2> QED
    BY <1>1, <2>1, <2>2 DEF CopyFees, Reg, Effective
<1> QED
  BY <1>4, <1>5 DEF CopiesInv

LEMMA SelectFees ==
  ASSUME FeeInv, NEW p \in Procs, Select(p)
  PROVE  FeesInv' /\ CopiesInv'
<1>1. TypeOK /\ UNCHANGED txs /\ RowsKept /\ Recorded' = Recorded
  BY RowsSame DEF Select, FeeInv, MinterInv
<1>2. CASE End(p) /\ UNCHANGED jobs
  BY <1>1, <1>2, GivesUp, QuietStep DEF FeeInv
<1>3. CASE ~(End(p) /\ UNCHANGED jobs)
  <2>1. PICK a \in Candidate(p) :
          IF jobs[a].status = "blocked" /\ TxOf(a) = None
          THEN IF Retryable(jobs[a])
               THEN /\ jobs' = [jobs EXCEPT ![a] = [@ EXCEPT !.status = "pending", !.error = None]]
                    /\ task' = [task EXCEPT ![p] = [HereOf(p, a) EXCEPT !.at = "quote", !.job = jobs'[a]]]
               ELSE /\ task' = [task EXCEPT ![p] = [At("project-blocked") EXCEPT !.a = a, !.job = jobs[a]]]
                    /\ UNCHANGED jobs
          ELSE /\ task' = [task EXCEPT ![p] = [HereOf(p, a) EXCEPT !.at =
                             IF Shrinks(p, jobs[a]) THEN "shrink" ELSE Ahead(jobs[a], TxOf(a), OverSpent(p, jobs[a]))]]
               /\ UNCHANGED jobs
    BY <1>3 DEF Select, TxOf, HereOf
  <2>2. /\ a \in Enrolled /\ jobs[a] \in Job /\ JobFees(a)
        /\ HereOf(p, a) \in TaskType /\ HereOf(p, a).a = a /\ HereOf(p, a).job = jobs[a]
    BY <2>1, HereTrue DEF FeeInv, FeesInv
  <2>3. ASSUME NEW j, NEW r, jobs' = [jobs EXCEPT ![a] = j], j # None, Money(j) = Money(jobs[a]),
               task' = [task EXCEPT ![p] = r], r.a = a, r.job = j,
               r.at = "shrink" => j.env # 0 /\ j.env <= Effective(p, j)
        PROVE  FeesInv' /\ CopiesInv'
    <3>1. Others(p) /\ task'[p] = r
      BY <1>1, <2>3, Sets
    <3>2. MoneyKept /\ EnvKept /\ Enrolled' = Enrolled /\ jobs'[a] = j
      BY <1>1, <2>2, <2>3, OneJobKept
    <3>3. j.reg => Reg(a) \in Recorded'
      BY <1>1, <2>2, <2>3 DEF JobFees, Money
    <3>4. CopyFees(p)'
      BY <2>3, <3>1, <3>2, <3>3 DEF CopyFees, Reg, Effective
    <3> QED
      BY <1>1, <3>1, <3>2, <3>4, FeesKeep, CopiesKeep DEF FeeInv
  <2>4. UNCHANGED jobs => jobs' = [jobs EXCEPT ![a] = jobs[a]]
    BY <1>1 DEF TypeOK
  <2>5. CASE jobs[a].status = "blocked" /\ TxOf(a) = None /\ Retryable(jobs[a])
    <3> DEFINE j == [jobs[a] EXCEPT !.status = "pending", !.error = None]
               r == [HereOf(p, a) EXCEPT !.at = "quote", !.job = j]
    <3>1. j \in Job /\ j.env = jobs[a].env /\ j.ceiling = jobs[a].ceiling /\ j.reg = jobs[a].reg
      BY <2>2 DEF Job, Statuses, Codes
    <3>2. jobs' = [jobs EXCEPT ![a] = j] /\ jobs'[a] = j
      BY <1>1, <2>1, <2>2, <2>5 DEF TypeOK, Enrolled
    <3> HIDE DEF j
    <3>3. r.at = "quote" /\ r.a = a /\ r.job = j
      BY <2>2 DEF TaskType
    <3>4. task' = [task EXCEPT ![p] = r]
      BY <2>1, <2>5, <3>2
    <3> HIDE DEF r
    <3> QED
      BY <2>3, <3>1, <3>2, <3>3, <3>4 DEF Money
  <2>6. CASE jobs[a].status = "blocked" /\ TxOf(a) = None /\ ~Retryable(jobs[a])
    <3> DEFINE r == [At("project-blocked") EXCEPT !.a = a, !.job = jobs[a]]
    <3>1. r.at = "project-blocked" /\ r.a = a /\ r.job = jobs[a]
      BY DEF At
    <3>2. task' = [task EXCEPT ![p] = r] /\ UNCHANGED jobs
      BY <2>1, <2>6
    <3> HIDE DEF r
    <3> QED
      BY <2>2, <2>3, <2>4, <3>1, <3>2
  <2>7. CASE ~(jobs[a].status = "blocked" /\ TxOf(a) = None)
    <3> DEFINE pc == IF Shrinks(p, jobs[a]) THEN "shrink" ELSE Ahead(jobs[a], TxOf(a), OverSpent(p, jobs[a]))
               r == [HereOf(p, a) EXCEPT !.at = pc]
    <3>1. task' = [task EXCEPT ![p] = r] /\ UNCHANGED jobs
      BY <2>1, <2>7
    <3>2. r.at = pc /\ r.a = a /\ r.job = jobs[a]
      <4> HIDE DEF pc
      <4> QED
        BY <2>2 DEF TaskType
    <3>3. pc = "shrink" => Shrinks(p, jobs[a])
      BY DEF Ahead
    <3>4. Shrinks(p, jobs[a]) => jobs[a].env # 0 /\ jobs[a].env <= Effective(p, jobs[a])
      <4>1. jobs[a].env \in Nat /\ Effective(p, jobs[a]) \in Nat
        BY <2>2, EffectiveType DEF Job
      <4> QED
        BY <4>1 DEF Shrinks, OverSpent
    <3> HIDE DEF pc, r
    <3> QED
      BY <2>2, <2>3, <2>4, <3>1, <3>2, <3>3, <3>4
  <2> QED
    BY <2>5, <2>6, <2>7
<1> QED
  BY <1>2, <1>3

\* One agent's amounts change, and perhaps its rows.
LEMMA OneAgentFees ==
  ASSUME FeeInv, NEW a \in Enrolled, NEW j, j # None, jobs' = [jobs EXCEPT ![a] = j], Enrolled' = Enrolled,
         \A k \in Key : k[1] # a => txs'[k] = txs[k],
         j.reg => Reg(a) \in Recorded',
         (j.env # 0) <=> (Reg(a) \in Recorded'),
         Reg(a) \in Recorded' => txs'[Reg(a)].cost <= j.env,
         Upd(a) \in Recorded' => Reg(a) \in Recorded' /\ txs'[Reg(a)].cost + txs'[Upd(a)].cost <= j.env,
         j.env <= j.ceiling
  PROVE  FeesInv'
<1> SUFFICES ASSUME NEW b \in Enrolled PROVE JobFees(b)'
  BY DEF FeesInv
<1>1. /\ b \in Agents /\ JobFees(b) /\ jobs'[a] = j /\ (b # a => jobs'[b] = jobs[b])
      /\ Reg(b) \in Key /\ Upd(b) \in Key /\ Reg(b)[1] = b /\ Upd(b)[1] = b
  BY DEF FeeInv, FeesInv, MinterInv, TypeOK, Enrolled, Reg, Upd, Key, Phases
<1>2. CASE b = a
  BY <1>1, <1>2 DEF JobFees, Reg, Upd
<1>3. CASE b # a
  <2>1. txs'[Reg(b)] = txs[Reg(b)] /\ txs'[Upd(b)] = txs[Upd(b)] /\ jobs'[b] = jobs[b]
    BY <1>1, <1>3
  <2>2. (Reg(b) \in Recorded' <=> Reg(b) \in Recorded) /\ (Upd(b) \in Recorded' <=> Upd(b) \in Recorded)
    BY <2>1 DEF Recorded
  <2> QED
    BY <1>1, <2>1, <2>2 DEF JobFees, Reg, Upd
<1> QED
  BY <1>2, <1>3

LEMMA ShrinkFees ==
  ASSUME FeeInv, NEW p \in Procs, Shrink(p)
  PROVE  FeesInv' /\ CopiesInv'
<1> DEFINE a == task[p].a
           low == Effective(p, task[p].job)
           j == [jobs[a] EXCEPT !.ceiling = low]
           pc == Ahead(task[p].job, task[p].tx, FALSE)
<1>1. /\ TypeOK /\ UNCHANGED txs /\ RowsKept /\ Recorded' = Recorded /\ a \in Enrolled /\ a \in Agents /\ jobs[a] \in Job
      /\ task[p].job # None /\ task[p].job \in Job /\ task[p].at = "shrink" /\ CopyFees(p) /\ JobFees(a)
  BY RowsSame DEF Shrink, FeeInv, MinterInv, TypeOK, TasksInv, TaskFacts, OnJob, InHand, Enrolled, TaskType,
                  FeesInv, CopiesInv
<1>2. CASE Fail(p, "fee_limit") /\ UNCHANGED jobs
  BY <1>1, <1>2, GivesUp, QuietStep DEF FeeInv
<1>3. CASE jobs' = [jobs EXCEPT ![a].ceiling = low] /\ Goto(p, pc)
  <2>1. Others(p) /\ Stays(p)
    <3>1. pc \in Places \ {"shrink"}
      BY DEF Ahead, Places
    <3> QED
      BY <1>1, <1>3, <3>1, GoesOn
  <2>2. low \in Nat /\ jobs[a].env <= low
    BY <1>1, EffectiveType DEF CopyFees
  <2>3. jobs' = [jobs EXCEPT ![a] = j]
    BY <1>3
  <2> HIDE DEF low
  <2>4. j \in Job /\ j.env = jobs[a].env /\ j.ceiling = low /\ j.reg = jobs[a].reg /\ j # None
    BY <1>1, <2>2 DEF Job
  <2> HIDE DEF j
  <2>5. jobs'[a] = j /\ (\A b \in Agents \ {a} : jobs'[b] = jobs[b])
    BY <1>1, <2>3 DEF TypeOK
  <2>6. Enrolled' = Enrolled /\ EnvKept
    BY <1>1, <2>4, <2>5 DEF Enrolled, EnvKept
  <2>7. FeesInv'
    <3> HIDE DEF a
    <3>1. /\ j.reg => Reg(a) \in Recorded' 
          /\ (j.env # 0) <=> (Reg(a) \in Recorded')
      BY <1>1, <2>4 DEF JobFees
    <3>2. /\ Reg(a) \in Recorded' => txs'[Reg(a)].cost <= j.env
          /\ Upd(a) \in Recorded' => Reg(a) \in Recorded' /\ txs'[Reg(a)].cost + txs'[Upd(a)].cost <= j.env
      BY <1>1, <2>4 DEF JobFees
    <3>3. j.env <= j.ceiling
      BY <2>2, <2>4
    <3> QED
      BY <1>1, <2>3, <2>4, <2>6, <3>1, <3>2, <3>3, OneAgentFees
  <2> QED
    BY <1>1, <2>1, <2>6, <2>7, CopyStays, CopiesKeep DEF FeeInv
<1> QED
  BY <1>2, <1>3 DEF Shrink

\* What the ledger checked before it signed.
LEMMA SignChecked ==
  ASSUME FeeInv, NEW p \in Procs, NEW a \in Enrolled, NEW ph \in Phases, NEW q \in Quotes,
         Refusal(p, <<a, ph>>, q) = None, ph = "update" => Reg(a) \in Recorded
  PROVE  /\ txs[<<a, ph>>] = None
         /\ Envelope(p, <<a, ph>>, q) \in Nat /\ Envelope(p, <<a, ph>>, q) <= Effective(p, jobs[a])
         /\ ph = "register" => q.cost <= Envelope(p, <<a, ph>>, q) /\ Envelope(p, <<a, ph>>, q) # 0
         /\ ph = "update" => /\ Envelope(p, <<a, ph>>, q) = jobs[a].env
                             /\ q.cost + txs[Reg(a)].cost <= jobs[a].env
<1> DEFINE k == <<a, ph>>
           env == Envelope(p, k, q)
<1>1. ~Conflicts(k) /\ ~Overspends(p, k, q)
  BY DEF Refusal
<1>2. k[1] = a /\ k[2] = ph
  OBVIOUS
<1>3. /\ jobs[a] \in Job /\ jobs[a].env \in Nat /\ q.cost \in Nat /\ q.cost # 0 /\ Limit[p] \in Nat
      /\ Effective(p, jobs[a]) \in Nat
  BY EffectiveType DEF FeeInv, MinterInv, TypeOK, Enrolled, Job, Quotes
<1>4. env = IF ph = "register" THEN q.cost + Limit[p] ELSE jobs[a].env
  BY <1>2 DEF Envelope
<1>5. env \in Nat /\ ~(env > Effective(p, jobs[a]))
  BY <1>1, <1>2, <1>3, <1>4 DEF Overspends
<1>6. ph = "update" => ~(q.cost + txs[Reg(a)].cost > env)
  BY <1>1, <1>2 DEF Overspends, Reg
<1>7. ph = "update" => txs[Reg(a)].cost \in Nat
  BY DEF FeeInv, MinterInv, TypeOK, Recorded, TxRow, Key, Reg
<1> HIDE DEF env
<1>8. env <= Effective(p, jobs[a])
  BY <1>3, <1>5
<1>9. ph = "update" => q.cost + txs[Reg(a)].cost <= env
  BY <1>3, <1>5, <1>6, <1>7
<1>10. ph = "register" => q.cost <= env /\ env # 0
  BY <1>3, <1>4
<1> QED
  BY <1>1, <1>2, <1>4, <1>5, <1>8, <1>9, <1>10 DEF Conflicts, env

LEMMA SignFees ==
  ASSUME FeeInv, NEW p \in Procs, Sign(p)
  PROVE  FeesInv' /\ CopiesInv'
<1> DEFINE a == task[p].a
           q == task[p].quote
           ph == PhaseOf(task[p].job)
           k == <<a, ph>>
           o == jobs[a]
           first == k[2] = "register"
           env == Envelope(p, k, q)
           ceiling == Effective(p, o)
           st == IF first THEN "registering" ELSE "updating"
           ul == IF o.updLimit = 0 THEN Limit[p] ELSE o.updLimit
           j == [o EXCEPT !.status = st, !.error = None, !.reg = TRUE, !.upd = ~first, !.env = env,
                          !.ceiling = ceiling, !.updLimit = ul]
           row == [nonce |-> q.latest, cost |-> q.cost, out |-> "open"]
<1>1. /\ TypeOK /\ task[p] \in TaskType /\ CopyFees(p) /\ JobFees(a) /\ a \in Enrolled /\ a \in Agents /\ o \in Job
      /\ q \in Quotes /\ task[p].job # None /\ ph \in Phases
  BY DEF Sign, FeeInv, MinterInv, TypeOK, TasksInv, TaskFacts, OnJob, InHand, Enrolled, TaskType,
         FeesInv, CopiesInv, PhaseOf, Phases
<1>2. CASE \E code : Fail(p, code) /\ UNCHANGED ledger
  BY <1>1, <1>2, GivesUp, RowsSame, QuietStep DEF FeeInv, ledger
<1>3. CASE /\ Refusal(p, k, q) = None
           /\ txs' = [txs EXCEPT ![k] = row]
           /\ jobs' = [jobs EXCEPT ![a] = j]
           /\ task' = [task EXCEPT ![p].at = "broadcast", ![p].quote = None,
                         ![p].tx = [key |-> k, nonce |-> q.latest, cost |-> q.cost]]
  <2>1. Others(p) /\ Stays(p)
    BY <1>1, <1>3 DEF TypeOK, TaskType, Others, Stays
  <2>2. ph = "update" => Reg(a) \in Recorded
    BY <1>1 DEF PhaseOf, CopyFees
  <2>3. /\ txs[k] = None /\ env \in Nat /\ env <= ceiling
        /\ ph = "register" => q.cost <= env /\ env # 0
        /\ ph = "update" => env = o.env /\ q.cost + txs[Reg(a)].cost <= o.env
    BY <1>1, <1>3, <2>2, SignChecked
  <2>4. row \in TxRow /\ row.cost = q.cost /\ k \in Key /\ k[1] = a /\ k[2] = ph
    BY <1>1 DEF Quotes, TxRow, Key
  <2>5. ceiling \in Nat /\ st \in Statuses \ {"none"} /\ ul \in Nat /\ first \in BOOLEAN
    BY <1>1, EffectiveType DEF Statuses, Job
  <2> HIDE DEF env, ceiling, st, ul, first, row, q
  <2>6. j \in Job /\ j.env = env /\ j.ceiling = ceiling /\ j.reg = TRUE /\ j # None
    <3>1. j = [o EXCEPT !.status = st, !.error = None, !.reg = TRUE, !.upd = ~first, !.env = env,
                        !.ceiling = ceiling, !.updLimit = ul]
      OBVIOUS
    <3>2. o \in Job /\ env \in Nat
      BY <1>1, <2>3
    <3> HIDE DEF j, o
    <3>3. j \in Job /\ j.env = env /\ j.ceiling = ceiling /\ j.reg = TRUE
      BY <2>5, <3>1, <3>2 DEF Job, Codes
    <3> QED
      BY <3>3
  <2>7. RowsKept /\ Recorded' = Recorded \cup {k} /\ txs'[k] = row /\ \A l \in Key \ {k} : txs'[l] = txs[l]
    BY <1>1, <1>3, <2>3, <2>4, RowAdded DEF TypeOK
  <2> HIDE DEF j, o
  <2>8. /\ jobs' = [jobs EXCEPT ![a] = j] /\ jobs'[a] = j /\ \A b \in Agents \ {a} : jobs'[b] = jobs[b]
    BY <1>1, <1>3 DEF TypeOK
  <2>9. Enrolled' = Enrolled
    BY <1>1, <2>6, <2>8 DEF Enrolled
  <2>10. ph \in {"register", "update"} /\ Reg(a) = <<a, "register">> /\ Upd(a) = <<a, "update">> /\ Reg(a) # Upd(a)
         /\ Reg(a) \in Key /\ Upd(a) \in Key
    BY <1>1 DEF Phases, Reg, Upd, Key
  <2> HIDE DEF a, ph
  <2>11. CASE ph = "register"
    <3>1. k = Reg(a)
      BY <2>10, <2>11
    <3>2. Reg(a) \notin Recorded /\ Upd(a) \notin Recorded /\ jobs[a].env = 0
      BY <1>1, <2>3, <3>1 DEF Recorded, JobFees
    <3>3. Reg(a) \in Recorded' /\ Upd(a) \notin Recorded' /\ txs'[Reg(a)].cost = q.cost
      BY <2>4, <2>7, <2>10, <3>1, <3>2
    <3>4. FeesInv'
      BY <1>1, <2>3, <2>4, <2>6, <2>7, <2>8, <2>9, <2>11, <3>3, OneAgentFees
    <3>5. EnvKept
      BY <1>1, <2>8, <3>2 DEF EnvKept, Enrolled
    <3> QED
      BY <1>1, <2>1, <2>7, <3>4, <3>5, CopyStays, CopiesKeep DEF FeeInv
  <2>12. CASE ph = "update"
    <3>1. k = Upd(a)
      BY <2>10, <2>12
    <3>2. Reg(a) \in Recorded /\ jobs[a].env # 0 /\ txs[Reg(a)].cost <= jobs[a].env /\ env = jobs[a].env
      BY <1>1, <2>2, <2>3, <2>12 DEF JobFees, o
    <3>3. /\ Reg(a) \in Recorded' /\ Upd(a) \in Recorded'
          /\ txs'[Reg(a)] = txs[Reg(a)] /\ txs'[Upd(a)].cost = q.cost
      BY <2>4, <2>7, <2>10, <3>1, <3>2
    <3>4. txs'[Reg(a)].cost + txs'[Upd(a)].cost <= j.env
      <4>1. txs[Reg(a)].cost \in Nat /\ q.cost \in Nat
        BY <1>1, <3>2 DEF TypeOK, Recorded, TxRow, Key, Reg, Quotes
      <4> QED
        BY <2>3, <2>6, <2>12, <3>2, <3>3, <4>1 DEF o
    <3>5. FeesInv'
      <4>1. j.env # 0 /\ txs'[Reg(a)].cost <= j.env /\ j.env <= j.ceiling
        BY <2>3, <2>6, <3>2, <3>3
      <4>2. \A l \in Key : l[1] # a => txs'[l] = txs[l]
        BY <2>4, <2>7
      <4> QED
        BY <1>1, <2>6, <2>8, <2>9, <3>3, <3>4, <4>1, <4>2, OneAgentFees
    <3>6. EnvKept
      BY <1>1, <2>6, <2>8, <3>2 DEF EnvKept, Enrolled
    <3> QED
      BY <1>1, <2>1, <2>7, <3>5, <3>6, CopyStays, CopiesKeep DEF FeeInv
  <2> QED
    BY <2>10, <2>11, <2>12
<1> QED
  BY <1>2, <1>3 DEF Sign

-----------------------------------------------------------------------------
(* The theorem.                                                            *)

LEMMA FeesInit == Init => FeesInv /\ CopiesInv
<1> SUFFICES ASSUME Init PROVE FeesInv /\ CopiesInv
  OBVIOUS
<1>1. FeesInv
  BY DEF Init, Enrolled, FeesInv
<1>2. \A p \in Procs : task[p].job = None
  BY DEF Init, At
<1> QED
  BY <1>1, <1>2 DEF CopiesInv, CopyFees

LEMMA WorkFees ==
  ASSUME FeeInv, NEW p \in Procs, Work(p) \/ Unavailable(p) \/ LockLost(p) \/ Crash(p)
  PROVE  FeesInv' /\ CopiesInv'
BY GivingUpFees, ReprojectFees, QuoteFees, ReceiptFees, JudgeFees, RereadFees, DiscoverFees, BlockFees,
   MintFees, SettleFees, SelectFees, ShrinkFees, SignFees DEF Work

LEMMA FeesStep == FeeInv /\ [Next]_vars => FeeInv'
<1> SUFFICES ASSUME FeeInv, [Next]_vars PROVE FeeInv'
  OBVIOUS
<1>1. MinterInv'
  BY MinterStep DEF FeeInv
<1>2. ASSUME UNCHANGED <<jobs, txs, task>> PROVE FeesInv' /\ CopiesInv'
  BY <1>2, StillStep DEF FeeInv
<1>3. ASSUME NEW p \in Procs, Work(p) \/ Unavailable(p) \/ LockLost(p) \/ Crash(p)
      PROVE  FeesInv' /\ CopiesInv'
  BY <1>3, WorkFees
<1>4. ASSUME NEW p \in Procs, SessionBreaks(p) PROVE FeesInv' /\ CopiesInv'
  BY <1>2, <1>4 DEF SessionBreaks, ledger
<1>5. ASSUME NEW a \in Agents, Enroll(a) PROVE FeesInv' /\ CopiesInv'
  BY <1>2, <1>5 DEF Enroll, ledger
<1>6. ASSUME NEW t \in chain.pool, Mine(t) \/ Evict(t) PROVE FeesInv' /\ CopiesInv'
  BY <1>2, <1>6 DEF Mine, Evict, ledger
<1>7. ASSUME Resync PROVE FeesInv' /\ CopiesInv'
  BY <1>7, ResyncFees
<1>8. ASSUME MineForeign \/ Reorg \/ Finalize \/ Tick PROVE FeesInv' /\ CopiesInv'
  BY <1>2, <1>8 DEF MineForeign, Reorg, Finalize, Tick, ledger
<1>9. ASSUME UNCHANGED vars PROVE FeesInv' /\ CopiesInv'
  BY <1>2, <1>9 DEF vars, ledger
<1>10. FeesInv' /\ CopiesInv'
  BY <1>3, <1>4, <1>5, <1>6, <1>7, <1>8, <1>9 DEF Next
<1> QED
  BY <1>1, <1>10 DEF FeeInv

\* The envelopes hold in every run of the minter.
THEOREM FeesInvariant == Spec => []FeeInv
<1>1. Init => FeeInv
  BY MinterInit, FeesInit DEF FeeInv
<1> QED
  BY <1>1, FeesStep, PTL DEF Spec

\* What was signed for an agent never exceeds the lowest ceiling its job was approved with.
THEOREM ApprovedFeesAlways == Spec => []ApprovedFees
<1>1. ASSUME FeeInv PROVE ApprovedFees
  <2> SUFFICES ASSUME NEW a \in Enrolled
               PROVE  MapThenSumSet(LAMBDA k : txs[k].cost, {k \in Recorded : k[1] = a}) <= jobs[a].ceiling
    BY DEF ApprovedFees
  <2> DEFINE x == Reg(a)
             y == Upd(a)
             S == {k \in Recorded : k[1] = a}
             c == [k \in S |-> txs[k].cost]
             total == CostOf(txs, S)
  <2>1. x # y /\ S \in SUBSET {x, y} /\ ((x \in S) <=> (x \in Recorded)) /\ ((y \in S) <=> (y \in Recorded))
    BY <1>1 DEF Reg, Upd, Recorded, Phases, Enrolled
  <2>2. (x \in S => txs[x].cost \in Nat) /\ (y \in S => txs[y].cost \in Nat)
    BY <1>1, <2>1 DEF FeeInv, MinterInv, TypeOK, Recorded, TxRow, Key
  <2> HIDE DEF x, y, S
  <2>3. /\ \A k \in S : txs[k].cost \in Nat
        /\ \A k \in S : c[k] = txs[k].cost /\ c[k] \in Nat
    BY <2>1, <2>2
  <2>4. total = Total(c, S) \/ ~IsFiniteSet(S)
    BY <2>3, CostOfIsTotal
  <2> HIDE DEF c, total
  <2>5. IsFiniteSet(S) /\ Total(c, S) = (IF x \in S THEN c[x] ELSE 0) + (IF y \in S THEN c[y] ELSE 0)
    BY <2>1, <2>3, TotalOfTwo
  <2>6. Total(c, S) <= jobs[a].ceiling
    <3>1. JobFees(a) /\ jobs[a] \in Job
      BY <1>1 DEF FeeInv, FeesInv, MinterInv, TypeOK, Enrolled
    <3>2. /\ jobs[a].env \in Nat /\ jobs[a].ceiling \in Nat /\ jobs[a].env <= jobs[a].ceiling
          /\ x \in S => txs[x].cost <= jobs[a].env
          /\ y \in S => x \in S /\ txs[x].cost + txs[y].cost <= jobs[a].env
      BY <2>1, <3>1 DEF JobFees, x, y, Job
    <3> QED
      BY <2>2, <2>3, <2>5, <3>2
  <2> QED
    BY <2>4, <2>5, <2>6, Zenon DEF total, CostOf, S
<1> QED
  BY <1>1, FeesInvariant, PTL

=============================================================================
